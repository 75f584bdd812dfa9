----------------------------- MODULE AgentRuns -----------------------------
(***************************************************************************)
(* The audit log of agent runs: services/agent_run_writer.py, driven by    *)
(* agents/base.py within the caller's transaction, writes a run, its LLM   *)
(* calls and the run's totals; a function of migration 0014 folds calls of *)
(* 90 days ago into the daily table. What the texts of a run say, and who  *)
(* consented to keep them, is left out.                                    *)
(***************************************************************************)
EXTENDS Naturals, FiniteSets, FiniteSetsExt

CONSTANTS
    Runs,           \* agent_runs
    Folds,          \* executions of retention_llm_calls_aggregate_run()
    MaxLlmCalls     \* bound: LLM calls of a run

VARIABLES
    run,        \* the rows of agent_runs; those in work are not committed
    raw,        \* llm_calls of each run: how many, and their tokens
    daily,      \* the llm_calls_daily row of the day's key: the same
    fold,
    doubled     \* history: two folds counted the same calls

vars == <<run, raw, daily, fold, doubled>>

Sum == [count : 0..(2 * Cardinality(Runs) * MaxLlmCalls), tokens : Nat]
Zero == [count |-> 0, tokens |-> 0]
Plus(a, b) == [count |-> a.count + b.count, tokens |-> a.tokens + b.tokens]

(* st `open' is a transaction between start_run and finish_run. tokens:    *)
(* the denormalised totals. ancient: past the horizon of 90 days.          *)
Run == [st : {"none", "open", "finishing", "succeeded", "failed"},
        error : BOOLEAN, tokens : 0..MaxLlmCalls, branded : BOOLEAN,
        ancient : BOOLEAN]

NoRun == [st |-> "none", error |-> FALSE, tokens |-> 0, branded |-> FALSE,
          ancient |-> FALSE]

(* rows: the runs whose calls were summed.                                 *)
Fold == [pc : {"idle", "upsert", "delete", "commit"}, rows : SUBSET Runs, sum : Sum]
NoFold == [pc |-> "idle", rows |-> {}, sum |-> Zero]

Init ==
    /\ run = [i \in Runs |-> NoRun]
    /\ raw = [i \in Runs |-> Zero]
    /\ daily = Zero
    /\ fold = [f \in Folds |-> NoFold]
    /\ doubled = FALSE

Done(i) == run[i].st \in {"succeeded", "failed"}

(* The status finish_run is given.                                         *)
Outcome(i) == IF run[i].error THEN "failed" ELSE "succeeded"

-----------------------------------------------------------------------------
(* BaseAgent.invoke                                                        *)

(* The agent goes on until a call of its has failed.                       *)
Working(i) == run[i].st = "open" /\ ~run[i].error /\ raw[i].count < MaxLlmCalls

StartRun(i, branded) ==
    /\ run[i].st = "none"
    /\ run' = [run EXCEPT ![i] = [NoRun EXCEPT !.st = "open", !.branded = branded]]
    /\ UNCHANGED <<raw, daily, fold, doubled>>

(* A row of llm_calls, as the daily table will count it.                   *)
LlmCall(tokens) == [count |-> 1, tokens |-> tokens]

(* record_llm_call: the row and the totals in one flush. A call that       *)
(* failed ends the agent's work with its error.                            *)
RecordLlmCall(i, tokens) ==
    /\ Working(i)
    /\ raw' = [raw EXCEPT ![i] = Plus(@, LlmCall(tokens))]
    /\ \E failed \in BOOLEAN :
        run' = [run EXCEPT ![i].tokens = @ + tokens, ![i].error = failed]
    /\ UNCHANGED <<daily, fold, doubled>>

(* attach_skills and finish_run; an exception of the agent ends it FAILED. *)
FinishRun(i) ==
    /\ run[i].st = "open"
    /\ \E raised \in BOOLEAN :
        run' = [run EXCEPT ![i].st = "finishing", ![i].error = @ \/ raised]
    /\ UNCHANGED <<raw, daily, fold, doubled>>

(* The caller's commit; agent.run.started and finished are out by now.     *)
CommitRun(i) ==
    /\ run[i].st = "finishing"
    /\ run' = [run EXCEPT ![i].st = Outcome(i)]
    /\ UNCHANGED <<raw, daily, fold, doubled>>

(* A statement fails or the process stops: nothing of the run is kept.     *)
RollbackRun(i) ==
    /\ run[i].st \in {"open", "finishing"}
    /\ run' = [run EXCEPT ![i] = NoRun]
    /\ raw' = [raw EXCEPT ![i] = Zero]
    /\ UNCHANGED <<daily, fold, doubled>>

Ages(i) ==
    /\ Done(i) /\ ~run[i].ancient
    /\ run' = [run EXCEPT ![i].ancient = TRUE]
    /\ UNCHANGED <<raw, daily, fold, doubled>>

-----------------------------------------------------------------------------
(* The committed calls past the horizon of 90 days.                        *)
Ancient == {i \in Runs : Done(i) /\ run[i].ancient /\ raw[i].count > 0}

Total(S, of) == FoldSet(LAMBDA i, sum : Plus(of[i], sum), Zero, S)

(* retention_llm_calls_aggregate_run(): the SELECT that groups the calls.  *)
(* brand_id is part of the daily table's primary key, so a call without a  *)
(* brand fails the statement and with it the function.                     *)
Scan(f) ==
    /\ fold[f].pc = "idle" /\ Ancient # {}
    /\ \A i \in Ancient : run[i].branded
    /\ fold' = [fold EXCEPT ![f] = [pc |-> "upsert", rows |-> Ancient,
                                    sum |-> Total(Ancient, raw)]]
    /\ doubled' = (doubled \/ \E g \in Folds \ {f} : fold[g].rows \cap Ancient # {})
    /\ UNCHANGED <<run, raw, daily>>

(* INSERT ... ON CONFLICT DO UPDATE waits for another writer of the key.   *)
Upsert(f) ==
    /\ fold[f].pc = "upsert"
    /\ \A g \in Folds : fold[g].pc \notin {"delete", "commit"}
    /\ fold' = [fold EXCEPT ![f].pc = "delete"]
    /\ UNCHANGED <<run, raw, daily, doubled>>

(* Fault: the DELETE takes every call, whatever its age.                   *)
DeleteFoldedAll(f) ==
    /\ fold[f].pc = "delete"
    /\ fold' = [fold EXCEPT ![f].pc = "commit", ![f].rows = {i \in Runs : Done(i)}]
    /\ UNCHANGED <<run, raw, daily, doubled>>

(* The DELETE has the same horizon, now() of the transaction's start, but  *)
(* a snapshot of its own: it meets the rows summed and not yet deleted.    *)
DeleteFolded(f) ==
    /\ fold[f].pc = "delete"
    /\ fold' = [fold EXCEPT ![f].pc = "commit"]
    /\ UNCHANGED <<run, raw, daily, doubled>>

(* The daily row grows by the sum, on top of what is committed.            *)
CommitFold(f) ==
    /\ fold[f].pc = "commit"
    /\ daily' = Plus(daily, fold[f].sum)
    /\ raw' = [i \in Runs |-> IF i \in fold[f].rows THEN Zero ELSE raw[i]]
    /\ fold' = [fold EXCEPT ![f] = NoFold]
    /\ UNCHANGED <<run, doubled>>

AbortFold(f) ==
    /\ fold[f].pc # "idle"
    /\ fold' = [fold EXCEPT ![f] = NoFold]
    /\ UNCHANGED <<run, raw, daily, doubled>>

Next ==
    \/ \E i \in Runs :
        \/ \E branded \in BOOLEAN : StartRun(i, branded)
        \/ \E tokens \in 0..1 : RecordLlmCall(i, tokens)
        \/ FinishRun(i) \/ CommitRun(i) \/ RollbackRun(i) \/ Ages(i)
    \/ \E f \in Folds : Scan(f) \/ Upsert(f) \/ DeleteFolded(f) \/ CommitFold(f) \/ AbortFold(f)

Spec == Init /\ [][Next]_vars

-----------------------------------------------------------------------------

(* The totals on the runs, the calls still there and the days they were    *)
(* folded into agree to the token, through rollbacks, ageing and folds     *)
(* that stop half-way, unless two folds overlapped.                        *)
TokensConserved ==
    \/ doubled
    \/ LET kept == {i \in Runs : Done(i)} IN
       FoldSet(LAMBDA i, n : n + run[i].tokens, 0, kept) = Total(kept, raw).tokens + daily.tokens

=============================================================================
