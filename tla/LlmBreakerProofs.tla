-------------------------- MODULE LlmBreakerProofs --------------------------
(***************************************************************************)
(* Proofs about LlmBreaker, for any number of concurrent calls and any     *)
(* thresholds.                                                             *)
(*                                                                         *)
(* The counter in Redis loses increments when calls interleave, but never  *)
(* gains one: each failure the provider answered with is either still to   *)
(* be recorded or has been added, to one copy of the counter, once.        *)
(***************************************************************************)
EXTENDS LlmBreaker, FiniteSetTheorems, TLAPS

Unrecorded == {c \in Calls : call[c].pc = "record"}

(* Every copy of the counter, plus what is still to be recorded, is at     *)
(* most what has happened.                                                 *)
CountBelow ==
    /\ hash.failures + Cardinality(Unrecorded) <= seen
    /\ \A c \in Calls : call[c].pc = "write" =>
           call[c].failures + Cardinality(Unrecorded) <= seen

OpenAtThreshold == hash.state = "OPEN" => hash.failures >= FailThreshold

IInv == TypeOK /\ CountBelow /\ OpenAtThreshold

LEMMA UnrecordedSize ==
    IsFiniteSet(Unrecorded) /\ Cardinality(Unrecorded) \in Nat
  BY FS_Subset, FS_CardinalityType, BreakerAssumption DEF Unrecorded

LEMMA InitInv == Init => IInv
  <1> SUFFICES ASSUME Init PROVE IInv
    OBVIOUS
  <1>1. TypeOK /\ OpenAtThreshold
    BY BreakerAssumption
       DEF Init, TypeOK, OpenAtThreshold, Hash, Absent, Call, Idle, Pcs
  <1>2. Unrecorded = {}
    BY DEF Init, Unrecorded, Idle
  <1>3. CountBelow
    BY <1>2, FS_EmptySet DEF Init, CountBelow, Absent, Idle
  <1> QED
    BY <1>1, <1>3 DEF IInv

(* A call moves on and neither the counter nor any copy of it changes.     *)
LEMMA MovesOn ==
    ASSUME IInv, NEW c \in Calls, NEW k \in Call,
           call' = [call EXCEPT ![c] = k], k.pc \notin {"record", "write"},
           hash' \in Hash, hash'.failures = hash.failures, hash'.state = hash.state,
           seen' = seen, streak' \in Nat
    PROVE  IInv'
  <1>1. TypeOK'
    BY DEF IInv, TypeOK
  <1>2. Unrecorded' = Unrecorded \ {c}
    BY DEF IInv, TypeOK, Unrecorded
  <1>3. /\ Cardinality(Unrecorded') \in Nat
        /\ Cardinality(Unrecorded') <= Cardinality(Unrecorded)
    <2>1. Cardinality(Unrecorded \ {c}) =
            IF c \in Unrecorded THEN Cardinality(Unrecorded) - 1
                               ELSE Cardinality(Unrecorded)
      BY UnrecordedSize, FS_RemoveElement
    <2>2. Cardinality(Unrecorded \ {c}) \in Nat
      BY UnrecordedSize, FS_RemoveElement, FS_CardinalityType
    <2> QED
      BY <1>2, <2>1, <2>2, UnrecordedSize
  <1>4. \A d \in Calls : call'[d].pc = "write" => call'[d] = call[d]
    BY DEF IInv, TypeOK
  <1>5. CountBelow'
    BY <1>1, <1>3, <1>4, UnrecordedSize DEF IInv, TypeOK, CountBelow, Hash, Call
  <1>6. OpenAtThreshold'
    BY DEF IInv, OpenAtThreshold
  <1> QED
    BY <1>1, <1>5, <1>6 DEF IInv

LEMMA CallStep ==
    ASSUME IInv, NEW c \in Calls, Admit(c) \/ Proceed(c) \/ Abandon(c)
    PROVE  IInv'
  <1> USE BreakerAssumption
  <1>1. /\ hash \in Hash /\ call \in [Calls -> Call] /\ call[c] \in Call
        /\ seen \in Nat /\ streak \in Nat /\ Idle \in Call
        /\ CountBelow /\ OpenAtThreshold
    BY DEF IInv, TypeOK, Idle, Call, Pcs
  <1>9. /\ 0 \in 0..ResetSeconds /\ 0 \in 0..MaxAttempts /\ 1 \in 0..MaxAttempts
        /\ hash.failures \in Nat
    BY <1>1 DEF Hash
  <1>2. CASE Admit(c)
    <2> DEFINE k == [Idle EXCEPT !.pc = "attempt", !.attempt = 1]
    <2>1. k \in Call /\ k.pc \notin {"record", "write"}
      BY <1>9 DEF Idle, Call, Pcs
    <2> HIDE DEF k
    <2> QED
      BY <1>1, <1>2, <2>1, MovesOn DEF Admit, k
  <1>3. CASE Succeed(c) \/ PermanentError(c) \/ Abandon(c)
    <2>1. Idle.pc \notin {"record", "write"}
      BY DEF Idle
    <2> QED
      BY <1>1, <1>3, <2>1, MovesOn DEF Succeed, PermanentError, Abandon
  <1>4. CASE TransientError(c)
    <2>1. /\ call[c].pc = "attempt" /\ UNCHANGED hash
          /\ call' = [call EXCEPT ![c].pc = "record"]
          /\ seen' = seen + 1 /\ streak' = streak + 1
      BY <1>4 DEF TransientError
    <2>2. TypeOK'
      BY <1>1, <2>1 DEF TypeOK, Call, Pcs
    <2>3. Unrecorded' = Unrecorded \cup {c} /\ c \notin Unrecorded
      BY <1>1, <2>1 DEF Unrecorded, Call
    <2>4. Cardinality(Unrecorded') = Cardinality(Unrecorded) + 1
      BY <2>3, UnrecordedSize, FS_AddElement
    <2>5. \A d \in Calls : call'[d].pc = "write" => call'[d] = call[d]
      BY <1>1, <2>1 DEF Call
    <2>6. CountBelow'
      BY <1>1, <2>1, <2>2, <2>4, <2>5, UnrecordedSize DEF CountBelow, TypeOK, Hash, Call
    <2> QED
      BY <1>1, <2>1, <2>2, <2>6 DEF IInv, OpenAtThreshold
  <1>5. CASE RecordFailure(c)
    <2>1. CASE hash.state = "OPEN" /\ ~IsResetDue(hash.since)
      <3> DEFINE k == [call[c] EXCEPT !.pc = "failed"]
      <3>1. k \in Call /\ k.pc \notin {"record", "write"}
        BY <1>1 DEF Call, Pcs
      <3> HIDE DEF k
      <3> QED
        BY <1>1, <1>5, <2>1, <3>1, MovesOn DEF RecordFailure, k
    <2>2. CASE ~(hash.state = "OPEN" /\ ~IsResetDue(hash.since))
      <3> DEFINE k == [call[c] EXCEPT !.pc = "write", !.failures = hash.failures + 1,
                                      !.since = 0]
      <3>1. /\ call[c].pc = "record" /\ UNCHANGED <<hash, seen, streak>>
            /\ call' = [call EXCEPT ![c] = k]
        BY <1>5, <2>2 DEF RecordFailure
      <3>2. k \in Call /\ k.pc = "write" /\ k.failures = hash.failures + 1
        <4> DEFINE f == hash.failures + 1
        <4>1. f \in Nat
          BY <1>9
        <4> HIDE DEF f
        <4>2. [call[c] EXCEPT !.pc = "write", !.failures = f, !.since = 0] \in Call
          BY <1>1, <1>9, <4>1 DEF Call, Pcs
        <4> QED
          BY <1>1, <4>2 DEF f, Call
      <3> HIDE DEF k
      <3>3. TypeOK'
        BY <1>1, <3>1, <3>2 DEF TypeOK
      <3>4. Unrecorded' = Unrecorded \ {c} /\ c \in Unrecorded
        BY <1>1, <3>1, <3>2 DEF Unrecorded
      <3>5. Cardinality(Unrecorded') = Cardinality(Unrecorded) - 1
        BY <3>4, UnrecordedSize, FS_RemoveElement
      <3>6. call'[c] = k /\ \A d \in Calls : d # c => call'[d] = call[d]
        BY <1>1, <3>1
      <3>7. CountBelow'
        BY <1>1, <3>1, <3>2, <3>5, <3>6, UnrecordedSize DEF CountBelow, Hash, Call
      <3> QED
        BY <1>1, <3>1, <3>3, <3>7 DEF IInv, OpenAtThreshold
    <2> QED
      BY <2>1, <2>2
  <1>6. CASE WriteHash(c)
    <2>1. /\ call[c].pc = "write" /\ UNCHANGED <<seen, streak>>
          /\ call' = [call EXCEPT ![c].pc = "expire"]
          /\ hash'.failures = call[c].failures /\ hash' \in Hash
          /\ hash'.state = "OPEN" => call[c].failures >= FailThreshold
      BY <1>1, <1>6 DEF WriteHash, Hash, Call
    <2>2. TypeOK'
      BY <1>1, <2>1 DEF TypeOK, Call, Pcs
    <2>3. Unrecorded' = Unrecorded
      BY <1>1, <2>1 DEF Unrecorded, Call
    <2>4. \A d \in Calls : call'[d].pc = "write" => call'[d] = call[d]
      BY <1>1, <2>1 DEF Call
    <2>5. CountBelow'
      BY <1>1, <2>1, <2>3, <2>4 DEF CountBelow
    <2> QED
      BY <2>1, <2>2, <2>5 DEF IInv, OpenAtThreshold
  <1>7. CASE Expire(c)
    <2> DEFINE k == [call[c] EXCEPT !.pc = "failed"]
    <2>1. k \in Call /\ k.pc \notin {"record", "write"}
      BY <1>1 DEF Call, Pcs
    <2>2. call' = [call EXCEPT ![c] = k] /\ UNCHANGED <<seen, streak>>
      BY <1>1, <1>7 DEF Expire
    <2>3. hash' \in Hash /\ hash'.failures = hash.failures /\ hash'.state = hash.state
      BY <1>1, <1>7 DEF Expire, Hash
    <2> HIDE DEF k
    <2> QED
      BY <1>1, <2>1, <2>2, <2>3, MovesOn
  <1>8. CASE Retry(c)
    <2> DEFINE k == IF call[c].attempt < MaxAttempts
                    THEN [Idle EXCEPT !.pc = "attempt", !.attempt = call[c].attempt + 1]
                    ELSE Idle
    <2>1. k \in Call /\ k.pc \notin {"record", "write"}
      <3>1. call[c].attempt < MaxAttempts => call[c].attempt + 1 \in 0..MaxAttempts
        BY <1>1 DEF Call
      <3> QED
        BY <1>1, <1>9, <3>1 DEF Call, Pcs, Idle
    <2>2. call' = [call EXCEPT ![c] = k] /\ UNCHANGED <<hash, seen, streak>>
      BY <1>1, <1>8 DEF Retry
    <2> HIDE DEF k
    <2> QED
      BY <1>1, <2>1, <2>2, MovesOn
  <1> QED
    BY <1>2, <1>3, <1>4, <1>5, <1>6, <1>7, <1>8 DEF Proceed, Answer

LEMMA TickStep ==
    ASSUME IInv, Tick PROVE IInv'
  <1> USE BreakerAssumption
  <1>1. /\ hash \in Hash /\ call \in [Calls -> Call] /\ seen \in Nat
        /\ CountBelow /\ OpenAtThreshold /\ UNCHANGED <<seen, streak>>
    BY DEF IInv, TypeOK, Tick
  <1>2. hash' \in Hash
    <2>1. Absent \in Hash
      BY DEF Absent, Hash
    <2>2. /\ hash.since \in 0..ResetSeconds /\ hash.ttl \in 0..Ttl
          /\ Older(hash.since) \in 0..ResetSeconds
          /\ hash.ttl # 0 => hash.ttl - 1 \in 0..Ttl
          /\ 0 \in 0..Ttl
      BY <1>1 DEF Hash, Older
    <2>3. CASE hash.ttl = 1
      BY <2>1, <2>3 DEF Tick
    <2>4. CASE hash.ttl # 1
      <3> DEFINE t == IF hash.ttl = 0 THEN 0 ELSE hash.ttl - 1
                 a == IF hash.state = "OPEN" THEN Older(hash.since) ELSE hash.since
      <3>1. t \in 0..Ttl /\ a \in 0..ResetSeconds
        BY <2>2
      <3>2. hash' = [hash EXCEPT !.ttl = t, !.since = a]
        BY <1>1, <2>4 DEF Tick, Hash
      <3> HIDE DEF t, a
      <3> QED
        BY <1>1, <3>1, <3>2 DEF Hash
    <2> QED
      BY <2>3, <2>4
  <1>3. \A c \in Calls : /\ call'[c] \in Call /\ call'[c].pc = call[c].pc
                         /\ call'[c].failures = call[c].failures
    BY <1>1 DEF Tick, Call, Older
  <1>4. TypeOK'
    BY <1>1, <1>2, <1>3 DEF IInv, TypeOK, Tick
  <1>5. Unrecorded' = Unrecorded
    BY <1>3 DEF Unrecorded
  <1>6. hash'.failures <= hash.failures /\ (hash'.state = "OPEN" =>
            hash.state = "OPEN" /\ hash'.failures = hash.failures)
    BY <1>1 DEF Tick, Hash, Absent
  <1>7. CountBelow' /\ OpenAtThreshold'
    BY <1>1, <1>2, <1>3, <1>5, <1>6, UnrecordedSize
       DEF CountBelow, OpenAtThreshold, Hash
  <1> QED
    BY <1>4, <1>7 DEF IInv

LEMMA NextInv == IInv /\ [Next]_vars => IInv'
  <1> SUFFICES ASSUME IInv, [Next]_vars PROVE IInv'
    OBVIOUS
  <1>1. CASE UNCHANGED vars
    BY <1>1 DEF vars, IInv, TypeOK, CountBelow, Unrecorded, OpenAtThreshold
  <1>2. CASE Next
    BY <1>2, CallStep, TickStep DEF Next
  <1> QED
    BY <1>1, <1>2

THEOREM Invariant == Spec => []IInv
  BY InitInv, NextInv, PTL DEF Spec

(* The hash and the calls keep their shape: no call exceeds its attempts.  *)
THEOREM TypeCorrect == Spec => []TypeOK
  <1>1. IInv => TypeOK
    BY DEF IInv
  <1> QED
    BY <1>1, Invariant, PTL

(* record_failure opens the breaker only after FailThreshold transient     *)
(* failures, although its read and its write are apart.                    *)
THEOREM TripsAreEarned == Spec => []TripEarned
  <1>1. IInv => TripEarned
    BY UnrecordedSize, BreakerAssumption
       DEF IInv, TypeOK, CountBelow, OpenAtThreshold, TripEarned, Hash
  <1> QED
    BY <1>1, Invariant, PTL

-----------------------------------------------------------------------------
(* One call at a time                                                      *)
(*                                                                         *)
(* Two calls can close an open breaker, one cannot: between its HGETALL    *)
(* and its HSET nobody else opens the breaker, and time only closes it.    *)

Lone == \A c, d \in Calls : c = d

NothingStale == \A c \in Calls : call[c].pc = "write" => Status # "OPEN"

LoneInv == IInv /\ NothingStale

(* Reads of the clock and of the expiry never open a breaker.              *)
LEMMA TicksDoNotOpen ==
    ASSUME IInv, Tick
    PROVE  /\ Status # "OPEN" => Status' # "OPEN"
           /\ hash' = Absent \/ hash'.state = hash.state
           /\ \A c \in Calls : call'[c].pc = call[c].pc
  <1>1. hash \in Hash /\ call \in [Calls -> Call]
    BY DEF IInv, TypeOK
  <1>2. \A c \in Calls : call'[c].pc = call[c].pc
    BY <1>1 DEF Tick, Call
  <1>3. CASE hash.ttl = 1
    BY <1>1, <1>2, <1>3 DEF Tick, Status, Absent
  <1>4. CASE hash.ttl # 1
    <2> DEFINE t == IF hash.ttl = 0 THEN 0 ELSE hash.ttl - 1
               a == IF hash.state = "OPEN" THEN Older(hash.since) ELSE hash.since
    <2>1. hash' = [hash EXCEPT !.ttl = t, !.since = a]
      BY <1>1, <1>4 DEF Tick, Hash
    <2>2. hash'.state = hash.state /\ hash'.since = a
      BY <1>1, <2>1 DEF Hash
    <2>3. IsResetDue(hash.since) => IsResetDue(Older(hash.since))
      BY <1>1, BreakerAssumption DEF Hash, IsResetDue, Older
    <2> QED
      BY <1>1, <1>2, <2>2, <2>3 DEF Status, Hash
  <1> QED
    BY <1>3, <1>4

LEMMA LoneStep ==
    ASSUME Lone, LoneInv, NEW c \in Calls, Admit(c) \/ Proceed(c) \/ Abandon(c)
    PROVE  /\ NothingStale'
           /\ Status = "OPEN" => hash' = Absent \/ hash'.state = "OPEN"
  <1>1. /\ hash \in Hash /\ call \in [Calls -> Call]
        /\ NothingStale /\ \A d \in Calls : d = c
    BY DEF LoneInv, IInv, TypeOK, Lone
  <1>2. CASE hash' = hash /\ call'[c].pc # "write"
    BY <1>1, <1>2 DEF NothingStale, Status
  <1>3. CASE RecordFailure(c)
    <2>1. hash' = hash /\ (call'[c].pc = "write" => Status # "OPEN")
      BY <1>1, <1>3 DEF RecordFailure, Status, Call
    <2> QED
      BY <1>1, <2>1 DEF NothingStale, Status
  <1>4. CASE WriteHash(c)
    BY <1>1, <1>4 DEF WriteHash, NothingStale, Call
  <1>5. CASE Expire(c)
    BY <1>1, <1>5 DEF Expire, NothingStale, Status, Hash, Call
  <1>6. CASE Retry(c)
    <2>1. hash' = hash /\ call'[c].pc # "write"
      BY <1>1, <1>6 DEF Retry, Idle
    <2> QED
      BY <1>2, <2>1
  <1>7. CASE Admit(c) \/ Answer(c) \/ Abandon(c)
    <2>1. hash' = hash
      BY <1>7 DEF Admit, Answer, Succeed, PermanentError, TransientError, Abandon
    <2>2. call[c] \in Call
      BY <1>1
    <2>3. call'[c].pc # "write"
      <3>1. CASE TransientError(c)
        BY <1>1, <2>2, <3>1 DEF TransientError, Call
      <3>2. CASE Admit(c)
        BY <1>1, <3>2 DEF Admit, Idle
      <3>3. CASE Succeed(c) \/ PermanentError(c) \/ Abandon(c)
        BY <1>1, <3>3 DEF Succeed, PermanentError, Abandon, Idle
      <3> QED
        BY <1>7, <3>1, <3>2, <3>3 DEF Answer
    <2> QED
      BY <1>2, <2>1, <2>3
  <1> QED
    BY <1>3, <1>4, <1>5, <1>6, <1>7 DEF Proceed

(* A breaker that is open stays open until its reset is due or its key     *)
(* expires (adapters/llm/circuit_breaker.py), as long as one call at a     *)
(* time uses it; two that share no lock refute OpenHolds.                  *)
THEOREM OpenHoldsForOne ==
    ASSUME Lone PROVE Spec => OpenHolds
  <1> DEFINE Held == Status = "OPEN" /\ hash' # Absent => hash'.state = "OPEN"
  <1>1. Init => LoneInv
    BY InitInv DEF Init, LoneInv, NothingStale, Idle
  <1>2. LoneInv /\ [Next]_vars => LoneInv' /\ [Held]_vars
    <2> SUFFICES ASSUME LoneInv, [Next]_vars PROVE LoneInv' /\ [Held]_vars
      OBVIOUS
    <2>1. IInv'
      BY NextInv DEF LoneInv
    <2>2. CASE UNCHANGED vars
      BY <2>1, <2>2 DEF vars, LoneInv, NothingStale, Status
    <2>3. CASE Tick
      <3>1. hash' = Absent \/ hash'.state = hash.state
        BY <2>3, TicksDoNotOpen DEF LoneInv
      <3>2. NothingStale'
        BY <2>3, TicksDoNotOpen DEF LoneInv, NothingStale
      <3>3. Held
        BY <3>1 DEF Status
      <3> QED
        BY <2>1, <3>2, <3>3 DEF LoneInv
    <2>4. ASSUME NEW c \in Calls, Admit(c) \/ Proceed(c) \/ Abandon(c)
          PROVE  LoneInv' /\ Held
      BY <2>1, <2>4, LoneStep DEF LoneInv
    <2> QED
      BY <2>2, <2>3, <2>4 DEF Next
  <1> QED
    BY <1>1, <1>2, PTL DEF Spec, OpenHolds

=============================================================================
