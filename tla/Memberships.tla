----------------------------- MODULE Memberships -----------------------------
(***************************************************************************)
(* One user's membership in one workspace and its cache in Redis:          *)
(* services/memberships.py writes the row and drops the entry inside the   *)
(* caller's transaction; services/memberships_cache.py reads through the   *)
(* entry on every authenticated request.                                   *)
(***************************************************************************)
EXTENDS Naturals

CONSTANTS
    Readers,        \* slots for requests that read the memberships
    Writers,        \* slots for transactions that change them
    Roles,
    MaxWrites       \* bound: transactions

None == "none"      \* no membership
Absent == "absent"  \* no cache entry

VARIABLES
    row,        \* the committed role in workspace_members, or None
    cache,      \* val: the role the entry holds, or Absent; ex: it has a TTL
    reader, writer,
    writes,
    raced       \* history: a reader overlapped a change, or Redis failed one

vars == <<row, cache, reader, writer, writes, raced>>

Role == Roles \cup {None}
Entry == [val : Role \cup {Absent}, ex : BOOLEAN]
NoEntry == [val |-> Absent, ex |-> FALSE]

(* got: the role the request acts with.                                    *)
Reader == [pc : {"idle", "select", "set", "use"}, got : Role]
Writer == [pc : {"idle", "invalidate", "commit"}, role : Role]

IdleReader == [pc |-> "idle", got |-> None]
IdleWriter == [pc |-> "idle", role |-> None]

Init ==
    /\ row \in Role
    /\ cache = NoEntry
    /\ reader = [r \in Readers |-> IdleReader]
    /\ writer = [w \in Writers |-> IdleWriter]
    /\ writes = 0 /\ raced = FALSE

Changing == \E w \in Writers : writer[w].pc # "idle"

-----------------------------------------------------------------------------
(* get_memberships                                                         *)

Use(r, role) == reader' = [reader EXCEPT ![r] = [pc |-> "use", got |-> role]]

(* The GET; if Redis fails it counts as a miss.                            *)
ReadCache(r) ==
    /\ reader[r].pc = "idle"
    /\ \/ cache.val # Absent /\ Use(r, cache.val)
       \/ reader' = [reader EXCEPT ![r].pc = "select"]
    /\ UNCHANGED <<row, cache, writer, writes, raced>>

LoadFromDb(r) ==
    /\ reader[r].pc = "select"
    /\ reader' = [reader EXCEPT ![r] = [pc |-> "set", got |-> row]]
    /\ raced' = (raced \/ Changing)
    /\ UNCHANGED <<row, cache, writer, writes>>

(* Fault: SET without an expiry.                                           *)
SetCacheForEver(r) ==
    /\ reader[r].pc = "set"
    /\ Use(r, reader[r].got)
    /\ \/ cache' = [val |-> reader[r].got, ex |-> FALSE]
       \/ UNCHANGED cache
    /\ UNCHANGED <<row, writer, writes, raced>>

(* SET ... EX, best effort.                                                *)
SetCache(r) ==
    /\ reader[r].pc = "set"
    /\ Use(r, reader[r].got)
    /\ \/ cache' = [val |-> reader[r].got, ex |-> TRUE]
       \/ UNCHANGED cache
    /\ UNCHANGED <<row, writer, writes, raced>>

EndRequest(r) ==
    /\ reader[r].pc = "use"
    /\ reader' = [reader EXCEPT ![r] = IdleReader]
    /\ UNCHANGED <<row, cache, writer, writes, raced>>

Expire ==
    /\ cache.val # Absent /\ cache.ex
    /\ cache' = NoEntry
    /\ UNCHANGED <<row, reader, writer, writes, raced>>

-----------------------------------------------------------------------------
(* add, set_role, remove; the caller commits                               *)

(* The flush locks the row.                                                *)
Change(w, role) ==
    /\ writer[w].pc = "idle" /\ ~Changing
    /\ writes < MaxWrites
    /\ writes' = writes + 1
    /\ writer' = [writer EXCEPT ![w] = [pc |-> "invalidate", role |-> role]]
    /\ raced' = (raced \/ \E r \in Readers : reader[r].pc = "set")
    /\ UNCHANGED <<row, cache, reader>>

(* add trips the primary key if there is a row, set_role looks it up, and  *)
(* remove goes on only if it has deleted one: otherwise nothing changes.   *)
Add(w, role) == row = None /\ Change(w, role)
SetRole(w, role) == row # None /\ Change(w, role)
Remove(w) == row # None /\ Change(w, None)

(* Fault: the entry is left for the TTL.                                   *)
InvalidateSkipped(w) ==
    /\ writer[w].pc = "invalidate"
    /\ writer' = [writer EXCEPT ![w].pc = "commit"]
    /\ UNCHANGED <<row, cache, reader, writes, raced>>

(* The DEL, best effort, before the commit; then the push to the tabs.     *)
Invalidate(w) ==
    /\ writer[w].pc = "invalidate"
    /\ writer' = [writer EXCEPT ![w].pc = "commit"]
    /\ \/ cache' = NoEntry /\ UNCHANGED raced
       \/ raced' = TRUE /\ UNCHANGED cache
    /\ UNCHANGED <<row, reader, writes>>

CommitChange(w) ==
    /\ writer[w].pc = "commit"
    /\ row' = writer[w].role
    /\ writer' = [writer EXCEPT ![w] = IdleWriter]
    /\ UNCHANGED <<cache, reader, writes, raced>>

Rollback(w) ==
    /\ writer[w].pc # "idle"
    /\ writer' = [writer EXCEPT ![w] = IdleWriter]
    /\ UNCHANGED <<row, cache, reader, writes, raced>>

ReaderStep(r) == ReadCache(r) \/ LoadFromDb(r) \/ SetCache(r) \/ EndRequest(r)

Next ==
    \/ \E r \in Readers : ReaderStep(r)
    \/ \E w \in Writers :
        \/ \E role \in Roles : Add(w, role) \/ SetRole(w, role)
        \/ Remove(w)
        \/ Invalidate(w) \/ CommitChange(w) \/ Rollback(w)
    \/ Expire

(* A request that began goes on, and a TTL runs out.                       *)
Fairness ==
    /\ \A r \in Readers : WF_vars(LoadFromDb(r) \/ SetCache(r) \/ EndRequest(r))
    /\ \A w \in Writers : WF_vars(Invalidate(w) \/ CommitChange(w) \/ Rollback(w))
    /\ WF_vars(Expire)

Spec == Init /\ [][Next]_vars

-----------------------------------------------------------------------------
(* Types.                                                                  *)
TypeOK ==
    /\ row \in Role /\ cache \in Entry
    /\ reader \in [Readers -> Reader] /\ writer \in [Writers -> Writer]
    /\ writes \in 0..MaxWrites /\ raced \in BOOLEAN

(* Between changes the entry is the committed membership, unless a reader  *)
(* filled it across a change or Redis missed the DEL.                      *)
FreshUnlessRaced == cache.val \in {Absent, row} \/ raced \/ Changing

(* api/deps.py: "a revoked invite is rejected within the cache TTL": what- *)
(* ever raced, once the changes stop (MaxWrites stops them) the requests   *)
(* come to act on the role in the table, for good.                         *)
ChangeTakesHold == <>[](\A r \in Readers : reader[r].pc = "use" => reader[r].got = row)

=============================================================================
