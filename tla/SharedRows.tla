----------------------------- MODULE SharedRows -----------------------------
(***************************************************************************)
(* Rows and keys that concurrent requests of one tenant or one user read,  *)
(* decide on and write back. Nine modules that share no variable and run   *)
(* side by side; a behaviour is one of the nine, `part', since what the    *)
(* others do in between makes no difference to it.                         *)
(***************************************************************************)
EXTENDS Channels, FiniteSets

CONSTANTS
    MaxEdits, MaxMatch,                     \* BrandMemory
    Threshold, MaxTries,                    \* Lockout
    MaxLists, MaxMfaCalls,                  \* SecondFactor
    MaxAttempts, MaxCodes, MaxMailCalls,    \* EmailCodes
    Runs, MaxLlmCalls,                      \* AgentRuns
    Sessions, Probes, MaxUses,              \* Userbots
    MaxSent,                                \* Idempotency
    Users, Conns, MaxVisits                 \* Tenancy

VARIABLES part,
    doc, entry, bound, edits, memCalls, memRaced,                           \* BrandMemory
    kind, fails, ttl, locked, pc, got, tries, wrong, odd,                   \* Lockout
    enrolled, codes, pending, handlers, lists, mfaCalls, accepted, twice, lost, \* SecondFactor
    purpose, code, address, mailReqs, mailCalls, mailWrong, mailUncounted, mailRaced, \* EmailCodes
    run, raw, daily, fold, doubled,                                         \* AgentRuns
    session, caller, probe, uses,                                           \* Userbots
    kept, effects, retries, sent, unkept, keyOdd,                           \* Idempotency
    enforced, accounts, left, signed, listed, guc, entries, visits          \* Tenancy

(* Limits that let something through, finitely many slots, and bounds that *)
(* are numbers; the names for "no session" and "no connection" are taken.  *)
ASSUME SharedRowsAssumption ==
    /\ IsFiniteSet(Requests) /\ IsFiniteSet(Runs)
    /\ Threshold \in Nat \ {0} /\ MaxAttempts \in Nat \ {0}
    /\ MaxEdits \in Nat /\ MaxMatch \in Nat /\ MaxLists \in Nat /\ MaxCodes \in Nat
    /\ MaxUses \in Nat /\ MaxVisits \in Nat
    /\ "none" \notin Sessions /\ "none" \notin Conns

Mem == INSTANCE BrandMemory
       WITH MaxCalls <- MaxEdits,
            row <- doc, cache <- entry, req <- edits, calls <- memCalls, raced <- memRaced

Lock == INSTANCE Lockout WITH MaxCalls <- MaxTries, calls <- tries

Mfa == INSTANCE SecondFactor
       WITH MaxCalls <- MaxMfaCalls, req <- handlers, calls <- mfaCalls

Mail == INSTANCE EmailCodes
       WITH MaxRows <- MaxCodes, MaxCalls <- MaxMailCalls,
            row <- code, req <- mailReqs, calls <- mailCalls, wrong <- mailWrong,
            uncounted <- mailUncounted, raced <- mailRaced

Agt == INSTANCE AgentRuns WITH Folds <- Requests

Bot == INSTANCE Userbots WITH Callers <- Requests, row <- session

Key == INSTANCE Idempotency
       WITH MaxCalls <- MaxSent,
            entry <- kept, req <- retries, calls <- sent, odd <- keyOdd

Ten == INSTANCE Tenancy
       WITH MaxCalls <- MaxVisits,
            rows <- accounts, entry <- listed, req <- entries, calls <- visits

memVars == <<doc, entry, bound, edits, memCalls, memRaced>>
lockVars == <<kind, fails, ttl, locked, pc, got, tries, wrong, odd>>
mfaVars == <<enrolled, codes, pending, handlers, lists, mfaCalls, accepted, twice, lost>>
mailVars == <<purpose, code, address, mailReqs, mailCalls, mailWrong, mailUncounted, mailRaced>>
runVars == <<run, raw, daily, fold, doubled>>
botVars == <<session, caller, probe, uses>>
keyVars == <<kept, effects, retries, sent, unkept, keyOdd>>
tenVars == <<enforced, accounts, left, signed, listed, guc, entries, visits>>

rowVars == <<part, vars, memVars, lockVars, mfaVars, mailVars, runVars, botVars, keyVars,
             tenVars>>

(* What is undetermined at the start of a part is so in that part only.    *)
RowInit ==
    /\ Init /\ Mem!Init /\ Lock!Init /\ Mfa!Init /\ Mail!Init /\ Agt!Init /\ Bot!Init /\ Key!Init /\ Ten!Init
    /\ part \in {"channels", "memory", "lock", "mfa", "mail", "runs", "bots", "keys",
                "tenants"}
    /\ part # "memory" => bound = FALSE
    /\ part # "lock" => kind = "login"
    /\ part # "mail" => purpose = "signup"
    /\ part # "tenants" => ~enforced /\ signed = Users

RowNext ==
    /\ \/ /\ part = "channels" /\ Next
          /\ UNCHANGED <<memVars, lockVars, mfaVars, mailVars, runVars, botVars, keyVars, tenVars>>
       \/ /\ part = "memory" /\ Mem!Next
          /\ UNCHANGED <<vars, lockVars, mfaVars, mailVars, runVars, botVars, keyVars, tenVars>>
       \/ /\ part = "lock" /\ Lock!Next
          /\ UNCHANGED <<vars, memVars, mfaVars, mailVars, runVars, botVars, keyVars, tenVars>>
       \/ /\ part = "mfa" /\ Mfa!Next
          /\ UNCHANGED <<vars, memVars, lockVars, mailVars, runVars, botVars, keyVars, tenVars>>
       \/ /\ part = "mail" /\ Mail!Next
          /\ UNCHANGED <<vars, memVars, lockVars, mfaVars, runVars, botVars, keyVars, tenVars>>
       \/ /\ part = "runs" /\ Agt!Next
          /\ UNCHANGED <<vars, memVars, lockVars, mfaVars, mailVars, botVars, keyVars, tenVars>>
       \/ /\ part = "bots" /\ Bot!Next
          /\ UNCHANGED <<vars, memVars, lockVars, mfaVars, mailVars, runVars, keyVars, tenVars>>
       \/ /\ part = "keys" /\ Key!Next
          /\ UNCHANGED <<vars, memVars, lockVars, mfaVars, mailVars, runVars, botVars, tenVars>>
       \/ /\ part = "tenants" /\ Ten!Next
          /\ UNCHANGED <<vars, memVars, lockVars, mfaVars, mailVars, runVars, botVars, keyVars>>
    /\ UNCHANGED part

RowSpec == RowInit /\ [][RowNext]_rowVars

-----------------------------------------------------------------------------

(* A cached document is the committed one, during an edit too, unless a    *)
(* read overlapped an edit or Redis missed a DEL; and an overlay is shown  *)
(* or edited only while its channel is connected to the brand.             *)
MemoryHolds == Mem!MemoryHolds

(* An edit that overlapped no other replaces the very version its author   *)
(* named and raises it.                                                    *)
EditReplacesNamed == Mem!EditReplacesNamed

(* A counter of wrong attempts dies with its window, and the window holds  *)
(* them to the threshold and those in flight when it was reached.          *)
AttemptsCounted == Lock!AttemptsCounted

(* A recovery code is one-shot, and the list holds unspent codes of the    *)
(* newest list only, and none without an enrolment, unless a handler wrote *)
(* over another one's change.                                              *)
CodesOneShot == Mfa!CodesOneShot

(* A superseded e-mail code is never accepted again, and none is compared  *)
(* with more wrong ones than the limit and the comparisons whose commit    *)
(* failed, unless requests overlapped.                                     *)
CodesHold == Mail!CodesHold

(* Runs, calls and daily rows agree to the token, unless two folds         *)
(* overlapped.                                                             *)
TokensConserved == Agt!TokensConserved

(* No caller that picked a session before its ban writes its old status    *)
(* back.                                                                   *)
BanIsFinal == Bot!BanIsFinal

(* A retry sent after a 2xx answer came never executes again, unless a SET *)
(* failed or the entry expired; what commits more often than there are     *)
(* requests was committed without its answer being kept.                   *)
RetryReplays == Key!RetryReplays

(* Every account is whole, no statement runs under the identity of another *)
(* request, and an owner is admitted.                                      *)
AccountsHold == Ten!AccountsHold

=============================================================================
