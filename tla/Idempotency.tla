---------------------------- MODULE Idempotency ----------------------------
(***************************************************************************)
(* The requests that carry one Idempotency-Key of one user                 *)
(* (api/middleware/idempotency.py): a 2xx answer is kept in Redis and      *)
(* repeated to later requests, which run no handler. Requests without the  *)
(* header and safe methods pass through and are left out.                  *)
(***************************************************************************)
EXTENDS Naturals, FiniteSets

CONSTANTS
    Requests,       \* slots for requests in flight
    MaxCalls        \* bound: requests

VARIABLES
    entry,      \* the execution whose answer Redis holds; 0: none
    effects,    \* executions that committed
    req, calls,
    unkept,     \* history: of those, the ones whose answer Redis was never given
    odd         \* history: "set" a SET failed, "ttl" an entry expired

vars == <<entry, effects, req, calls, unkept, odd>>

(* by: the execution that is answered with. late: history, an execution    *)
(* had been answered when the request began; ran: it executed.             *)
Request == [pc : {"idle", "get", "run", "store"}, by : 0..MaxCalls, late : BOOLEAN,
            ran : BOOLEAN, answer : {"none", "ok", "error"}]

Idle(answer) == [pc |-> "idle", by |-> 0, late |-> FALSE, ran |-> FALSE, answer |-> answer]

Init ==
    /\ entry = 0 /\ effects = 0
    /\ req = [r \in Requests |-> Idle("none")]
    /\ calls = 0
    /\ unkept = 0 /\ odd = {}

Answer(r, answer) == req' = [req EXCEPT ![r].pc = "idle", ![r].answer = answer]

Start(r) ==
    /\ req[r].pc = "idle" /\ calls < MaxCalls
    /\ calls' = calls + 1
    /\ req' = [req EXCEPT ![r] = [Idle("none") EXCEPT
                 !.pc = "get", !.late = \E q \in Requests : req[q].answer = "ok"]]
    /\ UNCHANGED <<entry, effects, unkept, odd>>

(* The GET. An error of it is not caught.                                  *)
Get(r) ==
    /\ req[r].pc = "get"
    /\ \/ /\ entry # 0
          /\ req' = [req EXCEPT ![r].pc = "idle", ![r].answer = "ok", ![r].by = entry]
       \/ entry = 0 /\ req' = [req EXCEPT ![r].pc = "run"]
       \/ Answer(r, "error")
    /\ UNCHANGED <<entry, effects, calls, unkept, odd>>

(* call_next: the handler commits and answers 2xx ...                      *)
Succeed(r) ==
    /\ effects' = effects + 1
    /\ req' = [req EXCEPT ![r].pc = "store", ![r].by = effects', ![r].ran = TRUE]
    /\ UNCHANGED unkept

(* ... or commits and fails after that, as sign-up does when the workspace *)
(* cannot be read, or refuses with a row of its own, as a failed sign-in   *)
(* does: only 2xx is kept ...                                              *)
CommitAndFail(r) ==
    /\ effects' = effects + 1 /\ unkept' = unkept + 1
    /\ req' = [req EXCEPT ![r].pc = "idle", ![r].answer = "error", ![r].ran = TRUE]

(* ... or commits nothing.                                                 *)
CallNext(r) ==
    /\ req[r].pc = "run"
    /\ \/ Succeed(r)
       \/ CommitAndFail(r)
       \/ Answer(r, "error") /\ UNCHANGED <<effects, unkept>>
    /\ UNCHANGED <<entry, calls, odd>>

(* Fault: the answer goes out before it is kept.                           *)
StoreLater(r) ==
    /\ req[r].pc = "store"
    /\ \/ entry' = req[r].by /\ Answer(r, "ok")
       \/ entry' = entry /\ req' = [req EXCEPT ![r].answer = "ok"]
    /\ UNCHANGED <<effects, calls, unkept, odd>>

(* SET ... EX, best effort, and the answer.                                *)
Store(r) ==
    /\ req[r].pc = "store"
    /\ \/ entry' = req[r].by /\ UNCHANGED <<unkept, odd>>
       \/ unkept' = unkept + 1 /\ odd' = odd \cup {"set"} /\ UNCHANGED entry
    /\ Answer(r, "ok")
    /\ UNCHANGED <<effects, calls>>

(* The process stops or the client goes away. A handler that has committed *)
(* is not undone.                                                          *)
Abort(r) ==
    /\ req[r].pc # "idle"
    /\ Answer(r, "none")
    /\ unkept' = IF req[r].pc = "store" THEN unkept + 1 ELSE unkept
    /\ UNCHANGED <<entry, effects, calls, odd>>

Expire ==
    /\ entry # 0
    /\ entry' = 0 /\ odd' = odd \cup {"ttl"}
    /\ UNCHANGED <<effects, req, calls, unkept>>

Next ==
    \/ \E r \in Requests : Start(r) \/ Get(r) \/ CallNext(r) \/ Store(r) \/ Abort(r)
    \/ Expire

Spec == Init /\ [][Next]_vars

-----------------------------------------------------------------------------

(* A retry sent after a 2xx answer came never executes again, unless a SET *)
(* failed or the entry expired. And however retries overlap, they commit   *)
(* at most once per slot, and once more for each execution that committed  *)
(* without its answer being kept: a 2xx that was not stored, or an error   *)
(* answered after the commit, which the middleware leaves to be retried.   *)
RetryReplays ==
    /\ odd = {} => \A r \in Requests : req[r].late => ~req[r].ran
    /\ "ttl" \notin odd => effects <= Cardinality(Requests) + unkept

=============================================================================
