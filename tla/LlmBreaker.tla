----------------------------- MODULE LlmBreaker -----------------------------
(***************************************************************************)
(* The LLM gateway client: PolzaProvider._with_breaker_and_retry around    *)
(* the circuit breaker that one (provider, model) pair keeps in Redis.     *)
(*                                                                         *)
(* build_default_provider builds a registry, and with it a breaker and its *)
(* asyncio lock, for every task and request: the lock keeps nobody out, so *)
(* the HGETALL, HSET and EXPIRE of concurrent calls interleave freely.     *)
(* Times are relative: Tick ages every instant that is still of interest.  *)
(***************************************************************************)
EXTENDS Naturals, FiniteSets

CONSTANTS
    Calls,          \* provider calls that can be in flight at once
    FailThreshold,  \* llm_circuit_breaker_fail_threshold
    ResetSeconds,   \* llm_circuit_breaker_reset_seconds, in ticks
    Ttl,            \* lifetime of the hash after an EXPIRE, in ticks
    MaxAttempts,    \* llm_gateway_retry_max_attempts
    MaxFailures     \* bound: transient failures of the provider

ASSUME BreakerAssumption ==
    /\ IsFiniteSet(Calls)
    /\ FailThreshold \in Nat \ {0}
    /\ ResetSeconds \in Nat \ {0}
    /\ Ttl \in Nat /\ Ttl >= 4 * ResetSeconds
    /\ MaxAttempts \in Nat \ {0}
    /\ MaxFailures \in Nat

VARIABLES
    hash,       \* the Redis hash
    call,       \* the calls
    seen,       \* history: transient failures of the provider so far
    streak      \* history: those since it last answered a call

vars == <<hash, call, seen, streak>>

(* since: ticks since opened_at, up to the reset; ttl 0: no expiry is set. *)
Hash == [state : {"CLOSED", "OPEN"}, failures : Nat, since : 0..ResetSeconds,
         ttl : 0..Ttl]

(* What _read makes of a key that does not exist.                          *)
Absent == [state |-> "CLOSED", failures |-> 0, since |-> 0, ttl |-> 0]

Pcs == {"idle", "attempt", "record", "write", "expire", "failed"}

(* failures and since: what the call is about to write.                    *)
Call == [pc : Pcs, attempt : 0..MaxAttempts, failures : Nat,
         since : 0..ResetSeconds]

Idle == [pc |-> "idle", attempt |-> 0, failures |-> 0, since |-> 0]

Init ==
    /\ hash = Absent
    /\ call = [c \in Calls |-> Idle]
    /\ seen = 0
    /\ streak = 0

(* Fault: opened_at is compared the wrong way.                             *)
IsResetDueNever(since) == since > ResetSeconds

IsResetDue(since) == since >= ResetSeconds

Status ==
    IF hash.state = "OPEN" /\ IsResetDue(hash.since) THEN "HALF_OPEN" ELSE hash.state

-----------------------------------------------------------------------------
(* One call of _with_breaker_and_retry                                     *)

(* Only OPEN refuses: HALF_OPEN lets every caller through. A refused call  *)
(* raises LLMCircuitBreakerOpenError and changes nothing.                  *)
Admit(c) ==
    /\ call[c].pc = "idle"
    /\ Status # "OPEN"
    /\ call' = [call EXCEPT ![c] = [Idle EXCEPT !.pc = "attempt", !.attempt = 1]]
    /\ UNCHANGED <<hash, seen, streak>>

(* `return await call()' leaves the function: record_success is not run.   *)
Succeed(c) ==
    /\ call[c].pc = "attempt"
    /\ call' = [call EXCEPT ![c] = Idle]
    /\ streak' = 0
    /\ UNCHANGED <<hash, seen>>

(* Fault: an error that is not transient counts against the breaker.       *)
PermanentErrorCounts(c) ==
    /\ call[c].pc = "attempt"
    /\ call' = [call EXCEPT ![c].pc = "record"]
    /\ UNCHANGED <<hash, seen, streak>>

(* Rejected input, no credit, filtered content: raised at once.            *)
PermanentError(c) ==
    /\ call[c].pc = "attempt"
    /\ call' = [call EXCEPT ![c] = Idle]
    /\ UNCHANGED <<hash, seen, streak>>

(* A timeout, a 429 or a 5xx.                                              *)
TransientError(c) ==
    /\ call[c].pc = "attempt"
    /\ seen < MaxFailures
    /\ call' = [call EXCEPT ![c].pc = "record"]
    /\ seen' = seen + 1
    /\ streak' = streak + 1
    /\ UNCHANGED hash

(* record_failure: HGETALL, and the decision what to write. The timer of   *)
(* an open breaker is left alone.                                          *)
RecordFailure(c) ==
    /\ call[c].pc = "record"
    /\ call' = [call EXCEPT ![c] =
         IF hash.state = "OPEN" /\ ~IsResetDue(hash.since)
         THEN [@ EXCEPT !.pc = "failed"]
         ELSE [@ EXCEPT !.pc = "write", !.failures = hash.failures + 1, !.since = 0]]
    /\ UNCHANGED <<hash, seen, streak>>

(* _write: HSET. It keeps whatever expiry the key has.                     *)
WriteHash(c) ==
    /\ call[c].pc = "write"
    /\ hash' = [state    |-> IF call[c].failures >= FailThreshold THEN "OPEN"
                                                                 ELSE "CLOSED",
                failures |-> call[c].failures,
                since    |-> call[c].since,
                ttl      |-> hash.ttl]
    /\ call' = [call EXCEPT ![c].pc = "expire"]
    /\ UNCHANGED <<seen, streak>>

(* _write: EXPIRE, which does nothing to a key that is gone.               *)
Expire(c) ==
    /\ call[c].pc = "expire"
    /\ hash' = IF hash = Absent THEN hash ELSE [hash EXCEPT !.ttl = Ttl]
    /\ call' = [call EXCEPT ![c].pc = "failed"]
    /\ UNCHANGED <<seen, streak>>

(* Fault: the attempts are counted from zero.                              *)
RetryOnceMore(c) ==
    /\ call[c].pc = "failed"
    /\ call' = [call EXCEPT ![c] =
         IF @.attempt <= MaxAttempts
         THEN [Idle EXCEPT !.pc = "attempt", !.attempt = call[c].attempt + 1]
         ELSE Idle]
    /\ UNCHANGED <<hash, seen, streak>>

(* Fault: the last failure is not raised.                                  *)
RetryOrHang(c) ==
    /\ call[c].pc = "failed"
    /\ call[c].attempt < MaxAttempts
    /\ call' = [call EXCEPT ![c] =
         [Idle EXCEPT !.pc = "attempt", !.attempt = call[c].attempt + 1]]
    /\ UNCHANGED <<hash, seen, streak>>

(* tenacity: wait and try again, or let the error out. The breaker is not  *)
(* looked at again.                                                        *)
Retry(c) ==
    /\ call[c].pc = "failed"
    /\ call' = [call EXCEPT ![c] =
         IF @.attempt < MaxAttempts
         THEN [Idle EXCEPT !.pc = "attempt", !.attempt = call[c].attempt + 1]
         ELSE Idle]
    /\ UNCHANGED <<hash, seen, streak>>

(* Redis is out of reach, which nothing here catches, or the worker dies.  *)
Abandon(c) ==
    /\ call[c].pc # "idle"
    /\ call' = [call EXCEPT ![c] = Idle]
    /\ UNCHANGED <<hash, seen, streak>>

(* A unit of time passes: opened_at recedes, the key's expiry comes nearer *)
Older(since) == IF since < ResetSeconds THEN since + 1 ELSE since

Tick ==
    /\ hash' = IF hash.ttl = 1 THEN Absent
               ELSE [hash EXCEPT !.ttl = IF @ = 0 THEN 0 ELSE @ - 1,
                                 !.since = IF hash.state = "OPEN" THEN Older(@) ELSE @]
    /\ call' = [c \in Calls |-> IF call[c].pc = "write"
                                THEN [call[c] EXCEPT !.since = Older(@)]
                                ELSE call[c]]
    /\ UNCHANGED <<seen, streak>>

Answer(c) == Succeed(c) \/ PermanentError(c) \/ TransientError(c)

Proceed(c) ==
    Answer(c) \/ RecordFailure(c) \/ WriteHash(c) \/ Expire(c) \/ Retry(c)

Next ==
    \/ \E c \in Calls : Admit(c) \/ Proceed(c) \/ Abandon(c)
    \/ Tick

Spec == Init /\ [][Next]_vars

(* A request to the provider is answered or times out, a coroutine that is *)
(* ready runs, and time passes. Nobody has to make a call.                 *)
Fairness ==
    /\ \A c \in Calls : WF_vars(Proceed(c))
    /\ WF_vars(Tick)

FairSpec == Spec /\ Fairness

-----------------------------------------------------------------------------
(* Properties                                                              *)

TypeOK ==
    /\ hash \in Hash
    /\ call \in [Calls -> Call]
    /\ seen \in Nat
    /\ streak \in Nat

(* The breaker opens on no less than FailThreshold transient failures of   *)
(* the provider, whatever copies of the counter concurrent calls write:    *)
(* errors of the caller's own making never open it.                        *)
TripEarned == hash.state = "OPEN" => seen >= FailThreshold

(* An admitted call ends.                                                  *)
CallsFinish == \A c \in Calls : call[c].pc # "idle" ~> call[c].pc = "idle"

(* An open breaker admits a call again, even if the process that opened it *)
(* died between HSET and EXPIRE and the key never expires.                 *)
BreakerRecovers == Status = "OPEN" ~> Status # "OPEN"

(* FailThreshold failures in a row open the breaker, as Settings has it.   *)
TripConsecutive ==
    [][hash.state # "OPEN" /\ hash'.state = "OPEN" => streak >= FailThreshold]_vars

(* An open breaker stays open for ResetSeconds: no process writes it closed *)
OpenHolds ==
    [][Status = "OPEN" /\ hash' # Absent => hash'.state = "OPEN"]_vars

=============================================================================
