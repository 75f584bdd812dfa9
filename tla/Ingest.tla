------------------------------- MODULE Ingest -------------------------------
(***************************************************************************)
(* The posts of one channel: the Telegram webhook (services/               *)
(* channel_ingest.py behind routes/integrations.py) and the history        *)
(* backfill (services/channel_history.py run by workers/tasks/             *)
(* channel_backfill.py), which write channel_posts at the same time.       *)
(*                                                                         *)
(* A text is its revision: 1 as posted, one more per edit. A handler is    *)
(* one READ COMMITTED transaction cut at its statements; what it has       *)
(* written and not committed is in its record. Three things serialise      *)
(* them: the unique key on the message (a second INSERT waits for the      *)
(* first to commit or roll back), the UPDATE of the channel's row          *)
(* (last_seen_at, subscribers_count; held until commit), and nothing else. *)
(***************************************************************************)
EXTENDS Naturals, FiniteSets, FiniteSetsExt

CONSTANTS
    Hooks,          \* slots for webhook deliveries in flight
    Messages,       \* tg_message_id
    MaxRev,         \* bound: revisions of each message
    MaxRuns,        \* bound: runs of the backfill task
    MaxFaults       \* bound: crashes, and answers that come late or never

ASSUME IngestAssumption ==
    /\ IsFiniteSet(Hooks)
    /\ IsFiniteSet(Messages) /\ Messages \subseteq Nat /\ Messages # {}
    /\ MaxRev \in [Messages -> Nat \ {0}]
    /\ MaxRuns \in Nat /\ MaxFaults \in Nat

Rev == UNION {0..MaxRev[m] : m \in Messages}    \* 0: none

(* channel_post carries revision 1, edited_channel_post a later one.       *)
Updates == UNION {{m} \X (1..MaxRev[m]) : m \in Messages}

VARIABLES
    tg,         \* external: the revision of each message in the channel; 0: none
    acked,      \* external: the updates Telegram has a 2xx for
    known,      \* there is a channels row, and an active binding to it
    posts,      \* committed channel_posts; 0: no row
    hook,       \* the webhook deliveries in flight
    bf,         \* the backfill task
    runs,       \* times the task has started
    faults,
    dropped,    \* history: the updates acknowledged before `known'
    disordered  \* history: messages whose updates were handled out of order

vars == <<tg, acked, known, posts, hook, bf, runs, faults, dropped, disordered>>
histories == <<dropped, disordered>>

(* copy: the revision in the loaded ChannelPost. row: the uncommitted      *)
(* write, an INSERT if `new'.                                              *)
Delivery == [pc : {"idle", "look", "relook", "insert", "touch", "commit"},
             m : Messages \cup {0}, r : Rev, copy : Rev,
             row : Rev, new : BOOLEAN]

NoDelivery == [pc |-> "idle", m |-> 0, r |-> 0, copy |-> 0, row |-> 0, new |-> FALSE]

(* snap: what Telegram returned. todo: the snapshots still to insert.      *)
(* rows: uncommitted INSERTs. outcome: how the last run ended.             *)
Task == [pc : {"idle", "refresh", "fetch", "look", "insert", "publish", "commit",
               "audit"},
         snap : [Messages -> Rev], todo : SUBSET Messages,
         rows : SUBSET Messages, chan : BOOLEAN,
         outcome : {"none", "ok", "failed", "integrity", "killed"}]

NoSnap == [m \in Messages |-> 0]

NoTask(outcome) == [pc |-> "idle", snap |-> NoSnap, todo |-> {}, rows |-> {},
                    chan |-> FALSE, outcome |-> outcome]

Sent == {u \in Updates : u[2] <= tg[u[1]]}

Stored(m) == posts[m] # 0

InsertedByHook(m) == {h \in Hooks : hook[h].new /\ hook[h].m = m /\ hook[h].row # 0}

(* Another transaction has an uncommitted row with the key m.              *)
KeyBusy(m, others) == m \in bf.rows \/ InsertedByHook(m) \cap others # {}

(* The transactions that have updated the channel's row.                   *)
ChannelLocked == bf.chan \/ \E h \in Hooks : hook[h].pc = "commit"

Init ==
    /\ tg = [m \in Messages |-> 0]
    /\ acked = {}
    /\ known = FALSE
    /\ posts = [m \in Messages |-> 0]
    /\ hook = [h \in Hooks |-> NoDelivery]
    /\ bf = NoTask("none")
    /\ runs = 0
    /\ faults = 0
    /\ dropped = {} /\ disordered = {}

-----------------------------------------------------------------------------
(* Outside: the channel's authors, Telegram, and the connect handler.      *)

Post(m) ==
    /\ tg[m] = 0
    /\ \A n \in Messages : n < m => tg[n] # 0
    /\ tg' = [tg EXCEPT ![m] = 1]
    /\ UNCHANGED <<acked, known, posts, hook, bf, runs, faults, histories>>

Edit(m) ==
    /\ tg[m] # 0 /\ tg[m] < MaxRev[m]
    /\ tg' = [tg EXCEPT ![m] = @ + 1]
    /\ UNCHANGED <<acked, known, posts, hook, bf, runs, faults, histories>>

ConnectChannel ==
    /\ ~known
    /\ known' = TRUE
    /\ UNCHANGED <<tg, acked, posts, hook, bf, runs, faults, histories>>

(* Telegram sends an update until it has a 2xx for it, in any order; when  *)
(* it gives up on an answer, while an earlier attempt is still handled.    *)
Deliver(h, u) ==
    /\ hook[h].pc = "idle"
    /\ u \in Sent \ acked
    /\ hook' = [hook EXCEPT ![h] = [NoDelivery EXCEPT !.pc = "look", !.m = u[1], !.r = u[2]]]
    /\ disordered' =
         IF \/ \E v \in acked : v[1] = u[1] /\ v[2] > u[2]
            \/ \E v \in Sent \ acked : v[1] = u[1] /\ v[2] < u[2]
            \/ \E g \in Hooks : hook[g].pc # "idle" /\ hook[g].m = u[1] /\ hook[g].r # u[2]
         THEN disordered \cup {u[1]} ELSE disordered
    /\ IF \E g \in Hooks : hook[g].pc # "idle" /\ <<hook[g].m, hook[g].r>> = u
       THEN faults < MaxFaults /\ faults' = faults + 1
       ELSE UNCHANGED faults
    /\ UNCHANGED <<tg, acked, known, posts, bf, runs, dropped>>

-----------------------------------------------------------------------------
(* POST /v1/integrations/telegram/webhook                                  *)

Goto(h, pc) == hook' = [hook EXCEPT ![h].pc = pc]

(* The 204, unless it gets lost and Telegram tries again.                  *)
Acknowledge(h) ==
    /\ hook' = [hook EXCEPT ![h] = NoDelivery]
    /\ \/ acked' = acked \cup {<<hook[h].m, hook[h].r>>} /\ UNCHANGED faults
       \/ faults < MaxFaults /\ faults' = faults + 1 /\ UNCHANGED acked

(* _resolve_channel finds no row: the update is dropped with a 204.        *)
UnknownChannel(h) ==
    /\ hook[h].pc = "look"
    /\ ~known
    /\ Acknowledge(h)
    /\ dropped' = dropped \cup {<<hook[h].m, hook[h].r>>}
    /\ UNCHANGED <<tg, known, posts, bf, runs, disordered>>

(* _handle_new: ingest_snapshots' SELECT finds the message already there.  *)
Duplicate(h) ==
    /\ hook[h].pc = "look"
    /\ known /\ hook[h].r = 1 /\ Stored(hook[h].m)
    /\ Acknowledge(h)
    /\ UNCHANGED <<tg, known, posts, bf, runs, histories>>

(* _handle_edited's SELECT, and again after a lost race: the row is loaded.*)
LoadPost(h) ==
    /\ hook[h].pc = "look"
    /\ known /\ hook[h].r > 1 /\ Stored(hook[h].m)
    /\ hook' = [hook EXCEPT ![h].pc = "touch", ![h].copy = posts[hook[h].m]]
    /\ UNCHANGED <<tg, acked, known, posts, bf, runs, faults, histories>>

(* No row yet: an INSERT for a new post; for an edit ingest_snapshots      *)
(* looks once more.                                                        *)
NoPost(h) ==
    /\ hook[h].pc = "look"
    /\ known /\ ~Stored(hook[h].m)
    /\ Goto(h, IF hook[h].r = 1 THEN "insert" ELSE "relook")
    /\ UNCHANGED <<tg, acked, known, posts, bf, runs, faults, histories>>

RelookPost(h) ==
    /\ hook[h].pc = "relook"
    /\ Goto(h, IF Stored(hook[h].m) THEN "look" ELSE "insert")
    /\ UNCHANGED <<tg, acked, known, posts, bf, runs, faults, histories>>

(* Fault: the IntegrityError is taken for a duplicate, and committed.      *)
InsertPostSwallowed(h) ==
    /\ hook[h].pc = "insert"
    /\ ~KeyBusy(hook[h].m, Hooks \ {h})
    /\ IF Stored(hook[h].m) THEN Acknowledge(h)
       ELSE /\ hook' = [hook EXCEPT ![h] = [@ EXCEPT !.pc = "touch", !.row = hook[h].r, !.new = TRUE]]
            /\ UNCHANGED <<acked, faults>>
    /\ UNCHANGED <<tg, known, posts, bf, runs, histories>>

(* The INSERT. begin_nested flushes before it opens the SAVEPOINT, so an   *)
(* IntegrityError rolls the whole transaction back and `expunge' raises:   *)
(* the answer is a 500.                                                    *)
InsertPost(h) ==
    /\ hook[h].pc = "insert"
    /\ ~KeyBusy(hook[h].m, Hooks \ {h})
    /\ hook' = [hook EXCEPT ![h] = IF Stored(hook[h].m) THEN NoDelivery
                                   ELSE [@ EXCEPT !.pc = "touch", !.row = hook[h].r, !.new = TRUE]]
    /\ UNCHANGED <<tg, acked, known, posts, bf, runs, faults, histories>>

(* The flush that updates the channel and, for an edit, the post (no       *)
(* column that is as loaded is written); then the events go out.           *)
TouchAndPublish(h) ==
    /\ hook[h].pc = "touch"
    /\ ~ChannelLocked
    /\ hook' = [hook EXCEPT ![h].pc = "commit",
                            ![h].row = IF hook[h].copy = hook[h].r THEN 0 ELSE hook[h].r]
    /\ UNCHANGED <<tg, acked, known, posts, bf, runs, faults, histories>>

CommitDelivery(h) ==
    /\ hook[h].pc = "commit"
    /\ posts' = [posts EXCEPT ![hook[h].m] = IF hook[h].row # 0 THEN hook[h].row ELSE @]
    /\ Acknowledge(h)
    /\ UNCHANGED <<tg, known, bf, runs, histories>>

(* Fault: the route answers 204 though the ingest raised.                  *)
DeliveryFailsAcked(h) ==
    /\ hook[h].pc # "idle"
    /\ faults < MaxFaults
    /\ faults' = faults + 1
    /\ acked' = acked \cup {<<hook[h].m, hook[h].r>>}
    /\ hook' = [hook EXCEPT ![h] = NoDelivery]
    /\ UNCHANGED <<tg, known, posts, bf, runs, histories>>

(* The process stops, or a statement fails: a rollback and no 2xx.         *)
DeliveryFails(h) ==
    /\ hook[h].pc # "idle"
    /\ faults < MaxFaults
    /\ faults' = faults + 1
    /\ hook' = [hook EXCEPT ![h] = NoDelivery]
    /\ UNCHANGED <<tg, acked, known, posts, bf, runs, histories>>

-----------------------------------------------------------------------------
(* channel.backfill_history                                                *)

(* _run commits the kick-off audit row; the binding is active.             *)
StartBackfill ==
    /\ bf.pc = "idle"
    /\ known /\ runs < MaxRuns
    /\ runs' = runs + 1
    /\ bf' = [NoTask("none") EXCEPT !.pc = "refresh"]
    /\ UNCHANGED <<tg, acked, known, posts, hook, faults, histories>>

(* _refresh_subscribers_count: best effort, an UPDATE when Telegram answers.*)
RefreshSubscribers ==
    /\ bf.pc = "refresh"
    /\ \/ ~ChannelLocked /\ bf' = [bf EXCEPT !.pc = "fetch", !.chan = TRUE]
       \/ bf' = [bf EXCEPT !.pc = "fetch"]
    /\ UNCHANGED <<tg, acked, known, posts, hook, runs, faults, histories>>

(* The channel as it is now, or nothing (which is all the shipped client's *)
(* stub returns); without snapshots no more is to do than commit.          *)
FetchHistory ==
    /\ bf.pc = "fetch"
    /\ \/ bf' = [bf EXCEPT !.pc = "commit"]
       \/ tg # NoSnap /\ bf' = [bf EXCEPT !.pc = "look", !.snap = tg]
    /\ UNCHANGED <<tg, acked, known, posts, hook, runs, faults, histories>>

(* A typed error: a rollback, and a failure row in a session of its own.   *)
BackfillRefused ==
    /\ bf.pc \in {"refresh", "fetch"}
    /\ bf' = NoTask("failed")
    /\ UNCHANGED <<tg, acked, known, posts, hook, runs, faults, histories>>

(* ingest_snapshots' one SELECT ...                                        *)
SelectExisting ==
    /\ bf.pc = "look"
    /\ bf' = [bf EXCEPT !.pc = "insert",
                        !.todo = {m \in Messages : bf.snap[m] # 0 /\ ~Stored(m)}]
    /\ UNCHANGED <<tg, acked, known, posts, hook, runs, faults, histories>>

(* Fault: the snapshot that met a row is left out and the loop goes on, in *)
(* a transaction that was rolled back.                                     *)
InsertSnapshotGoesOn ==
    /\ bf.pc = "insert" /\ bf.todo # {}
    /\ LET m == Min(bf.todo) IN
        /\ ~KeyBusy(m, Hooks)
        /\ bf' = IF Stored(m) THEN [bf EXCEPT !.todo = @ \ {m}, !.rows = {}, !.chan = FALSE]
                 ELSE [bf EXCEPT !.todo = @ \ {m}, !.rows = @ \cup {m}]
    /\ UNCHANGED <<tg, acked, known, posts, hook, runs, faults, histories>>

(* ... and an INSERT per missing snapshot, ascending. An IntegrityError    *)
(* rolls back the transaction, and what `expunge' raises is an error that  *)
(* _run has no handler for: the task ends without a failure row.           *)
InsertSnapshot ==
    /\ bf.pc = "insert" /\ bf.todo # {}
    /\ LET m == Min(bf.todo) IN
        /\ ~KeyBusy(m, Hooks)
        /\ bf' = IF Stored(m) THEN NoTask("integrity")
                 ELSE [bf EXCEPT !.todo = @ \ {m}, !.rows = @ \cup {m}]
    /\ UNCHANGED <<tg, acked, known, posts, hook, runs, faults, histories>>

PublishBackfill ==
    /\ bf.pc = "insert" /\ bf.todo = {}
    /\ bf' = [bf EXCEPT !.pc = "commit"]
    /\ UNCHANGED <<tg, acked, known, posts, hook, runs, faults, histories>>

CommitBackfill ==
    /\ bf.pc = "commit"
    /\ posts' = [m \in Messages |-> IF m \in bf.rows THEN bf.snap[m] ELSE posts[m]]
    /\ bf' = [bf EXCEPT !.pc = "audit", !.rows = {}, !.chan = FALSE]
    /\ UNCHANGED <<tg, acked, known, hook, runs, faults, histories>>

(* The success row, in a session of its own.                               *)
AuditBackfill ==
    /\ bf.pc = "audit"
    /\ bf' = NoTask("ok")
    /\ UNCHANGED <<tg, acked, known, posts, hook, runs, faults, histories>>

(* The worker stops. A task delivered again, or asked for again, is        *)
(* StartBackfill.                                                          *)
BackfillKilled ==
    /\ bf.pc # "idle"
    /\ faults < MaxFaults
    /\ faults' = faults + 1
    /\ bf' = NoTask("killed")
    /\ UNCHANGED <<tg, acked, known, posts, hook, runs, histories>>

(* The task holds the channel's row and waits for the key of a message; a  *)
(* delivery has inserted that message and waits for the channel's row.     *)
Deadlocked(h) ==
    /\ bf.pc = "insert" /\ bf.chan /\ bf.todo # {}
    /\ hook[h].pc = "touch" /\ h \in InsertedByHook(Min(bf.todo))

(* PostgreSQL rolls one of the two back.                                   *)
BreakDeadlock(h) ==
    /\ Deadlocked(h)
    /\ \/ hook' = [hook EXCEPT ![h] = NoDelivery] /\ UNCHANGED bf
       \/ bf' = NoTask("killed") /\ UNCHANGED hook
    /\ UNCHANGED <<tg, acked, known, posts, runs, faults, histories>>

HookStep(h) ==
    \/ UnknownChannel(h) \/ Duplicate(h) \/ LoadPost(h) \/ NoPost(h)
    \/ RelookPost(h) \/ InsertPost(h) \/ TouchAndPublish(h) \/ CommitDelivery(h)

BackfillStep ==
    \/ RefreshSubscribers \/ FetchHistory \/ BackfillRefused \/ SelectExisting
    \/ InsertSnapshot \/ PublishBackfill \/ CommitBackfill \/ AuditBackfill

Next ==
    \/ \E m \in Messages : Post(m) \/ Edit(m)
    \/ ConnectChannel
    \/ \E h \in Hooks :
        \/ \E u \in Updates : Deliver(h, u)
        \/ HookStep(h) \/ DeliveryFails(h) \/ BreakDeadlock(h)
    \/ StartBackfill \/ BackfillStep \/ BackfillKilled

(* Handlers run, and one that waits for a lock gets it in the end; while   *)
(* an update has no 2xx Telegram keeps sending; a deadlock is broken.      *)
Fairness ==
    /\ \A h \in Hooks : SF_vars(HookStep(h) \/ BreakDeadlock(h))
    /\ SF_vars(\E h \in Hooks, u \in Updates : Deliver(h, u))
    /\ SF_vars(BackfillStep)

Spec == Init /\ [][Next]_vars
FairSpec == Spec /\ Fairness

-----------------------------------------------------------------------------
(* Types: every record has the fields of its kind.                         *)
TypeOK ==
    /\ tg \in [Messages -> Rev] /\ posts \in [Messages -> Rev]
    /\ acked \subseteq Updates /\ known \in BOOLEAN
    /\ hook \in [Hooks -> Delivery] /\ bf \in Task
    /\ runs \in 0..MaxRuns /\ faults \in 0..MaxFaults
    /\ dropped \subseteq Updates /\ disordered \subseteq Messages

(* A 204 is a promise: once the channel is known, no update that Telegram  *)
(* has stopped sending is missing from channel_posts.                      *)
AckedStored == \A u \in acked \ dropped : Stored(u[1])

(* If Telegram's updates of a message were handled one after the other and *)
(* in order, the newest acknowledged text is in the table, whatever a      *)
(* backfill that fetched an older one did meanwhile.                       *)
NewestWhenOrdered ==
    \A u \in acked \ dropped : u[1] \in disordered \/ posts[u[1]] >= u[2]

(* A backfill that reports success has left no message it fetched out of   *)
(* the table, though it inserts only what one SELECT did not find.         *)
BackfillComplete ==
    bf.pc = "audit" => \A m \in Messages : bf.snap[m] # 0 => Stored(m)

(* No delivery waits for ever on a lock, and none that failed is forgotten:*)
(* every message whose last update came after the channel was known is     *)
(* stored in the end, as the channel shows it if they came in order.       *)
EventuallyCurrent ==
    \A m \in Messages :
        <>[]( \/ tg[m] = 0 \/ <<m, tg[m]>> \in dropped
              \/ Stored(m) /\ (m \in disordered \/ posts[m] = tg[m]))

=============================================================================
