------------------------------ MODULE Userbots ------------------------------
(***************************************************************************)
(* The pool of Telegram user-bot sessions: rotation by adapters/userbot/   *)
(* pool.py inside the caller's transaction, and the probe of one session   *)
(* by workers/tasks/userbot_healthcheck.py.                                *)
(***************************************************************************)
EXTENDS Naturals

CONSTANTS
    Sessions,       \* rows of telegram_userbot_sessions
    Callers,        \* transactions that use the pool
    Probes,         \* workers that run the healthcheck task
    MaxUses         \* bound: calls through the pool

VARIABLES
    row,        \* the committed rows
    caller, probe,
    uses

vars == <<row, caller, probe, uses>>

(* cooling: flood_wait_until lies ahead. used: last_used_at, by number.    *)
Row == [status : {"active", "flood_wait", "banned"}, cooling : BOOLEAN, used : 0..MaxUses]

(* picked: the row it holds FOR UPDATE; new: as written in the transaction *)
None == "none"
Caller == [picked : Sessions \cup {None}, new : Row, pc : {"idle", "call", "commit"}]
Probe == [on : Sessions \cup {None}, copy : Row,
          pc : {"idle", "healthcheck", "ban", "retry", "last"}]

Registered == [status |-> "active", cooling |-> FALSE, used |-> 0]
IdleCaller == [picked |-> None, new |-> Registered, pc |-> "idle"]
IdleProbe == [on |-> None, copy |-> Registered, pc |-> "idle"]

(* register_session                                                        *)
Init ==
    /\ row = [s \in Sessions |-> Registered]
    /\ caller = [c \in Callers |-> IdleCaller]
    /\ probe = [p \in Probes |-> IdleProbe]
    /\ uses = 0

Locked(s) == \E c \in Callers : caller[c].picked = s
Eligible == {s \in Sessions : row[s].status = "active" /\ ~row[s].cooling}

-----------------------------------------------------------------------------
(* UserBotPool                                                             *)

(* Fault: a plain SELECT, as on SQLite.                                    *)
PickUnlocked(c) ==
    /\ caller[c].pc = "idle" /\ uses < MaxUses
    /\ \E s \in Eligible :
        /\ \A t \in Eligible : row[s].used <= row[t].used
        /\ caller' = [caller EXCEPT ![c] = [picked |-> s, new |-> row[s], pc |-> "call"]]
    /\ UNCHANGED <<row, probe, uses>>

(* pick_next: the longest unused row that is eligible and that nobody has  *)
(* locked; with none, UserBotPoolEmptyError.                               *)
PickNext(c) ==
    LET free == {s \in Eligible : ~Locked(s)} IN
    /\ caller[c].pc = "idle" /\ uses < MaxUses
    /\ \E s \in free :
        /\ \A t \in free : row[s].used <= row[t].used
        /\ caller' = [caller EXCEPT ![c] = [picked |-> s, new |-> row[s], pc |-> "call"]]
    /\ UNCHANGED <<row, probe, uses>>

Mark(c, new) == caller' = [caller EXCEPT ![c].new = new, ![c].pc = "commit"]

MarkUsed(c) ==
    /\ caller[c].pc = "call" /\ uses < MaxUses
    /\ uses' = uses + 1
    /\ Mark(c, [caller[c].new EXCEPT !.used = uses'])
    /\ UNCHANGED <<row, probe>>

MarkFloodWait(c) ==
    /\ caller[c].pc = "call"
    /\ Mark(c, [caller[c].new EXCEPT !.status = "flood_wait", !.cooling = TRUE])
    /\ UNCHANGED <<row, probe, uses>>

MarkBanned(c) ==
    /\ caller[c].pc = "call"
    /\ Mark(c, [caller[c].new EXCEPT !.status = "banned"])
    /\ UNCHANGED <<row, probe, uses>>

Commit(c) ==
    /\ caller[c].pc = "commit"
    /\ row' = [row EXCEPT ![caller[c].picked] = caller[c].new]
    /\ caller' = [caller EXCEPT ![c] = IdleCaller]
    /\ UNCHANGED <<probe, uses>>

Rollback(c) ==
    /\ caller[c].pc # "idle"
    /\ caller' = [caller EXCEPT ![c] = IdleCaller]
    /\ UNCHANGED <<row, probe, uses>>

CooldownEnds(s) ==
    /\ row[s].cooling
    /\ row' = [row EXCEPT ![s].cooling = FALSE]
    /\ UNCHANGED <<caller, probe, uses>>

-----------------------------------------------------------------------------
(* userbot.healthcheck_session: whoever enqueued it, whatever the status   *)

(* The SELECT takes no lock.                                               *)
LoadSession(p, s) ==
    /\ probe[p].pc = "idle"
    /\ probe' = [probe EXCEPT ![p] = [on |-> s, copy |-> row[s], pc |-> "healthcheck"]]
    /\ UNCHANGED <<row, caller, uses>>

(* The retry begins with a session of its own.                             *)
Reload(p) ==
    /\ probe[p].pc = "retry"
    /\ probe' = [probe EXCEPT ![p].copy = row[probe[p].on], ![p].pc = "last"]
    /\ UNCHANGED <<row, caller, uses>>

(* Ok or not only sets columns of its own; a transport error is retried    *)
(* once; an auth error bans.                                               *)
Healthcheck(p) ==
    /\ probe[p].pc \in {"healthcheck", "last"}
    /\ \/ probe' = [probe EXCEPT ![p] = IdleProbe]
       \/ probe[p].pc = "healthcheck" /\ probe' = [probe EXCEPT ![p].pc = "retry"]
       \/ probe' = [probe EXCEPT ![p].pc = "ban"]
    /\ UNCHANGED <<row, caller, uses>>

(* The UPDATE waits for the caller that holds the row; a copy that was     *)
(* banned already writes nothing.                                          *)
Ban(p) ==
    /\ probe[p].pc = "ban" /\ ~Locked(probe[p].on)
    /\ row' = IF probe[p].copy.status = "banned" THEN row
              ELSE [row EXCEPT ![probe[p].on].status = "banned"]
    /\ probe' = [probe EXCEPT ![p] = IdleProbe]
    /\ UNCHANGED <<caller, uses>>

Next ==
    \/ \E c \in Callers : \/ PickNext(c) \/ MarkUsed(c) \/ MarkFloodWait(c)
                          \/ MarkBanned(c) \/ Commit(c) \/ Rollback(c)
    \/ \E p \in Probes : \/ \E s \in Sessions : LoadSession(p, s)
                         \/ Reload(p) \/ Healthcheck(p) \/ Ban(p)
    \/ \E s \in Sessions : CooldownEnds(s)

Spec == Init /\ [][Next]_vars

-----------------------------------------------------------------------------

(* pool.py: "permanently banned": no caller that picked the session before *)
(* the ban writes its old status back.                                     *)
BanIsFinal == [][\A s \in Sessions : row[s].status = "banned" => row'[s].status = "banned"]_vars

=============================================================================
