---------------------------- MODULE SignInProofs ----------------------------
(***************************************************************************)
(* Proofs about the counters and codes that guard signing in, each for any *)
(* number of requests and any limits: Lockout, EmailCodes, SecondFactor.   *)
(*                                                                         *)
(* Lockout: a wrong attempt is in the counter or about to be; a counter    *)
(* that has reached the threshold without a lock exceeds it by no more     *)
(* than the requests that are about to lock. Every bound is a count of     *)
(* requests in flight, so the argument adds up three disjoint sets.        *)
(*                                                                         *)
(* EmailCodes: while requests for a code do not overlap, the only active   *)
(* row is the newest one and a request that is about to insert has it in   *)
(* its hands; while confirmations do not overlap, the counter a            *)
(* confirmation writes back is that of the row.                            *)
(*                                                                         *)
(* SecondFactor: a handler that writes a list has in its copy the list and *)
(* the enrolment as committed, or the history says so; and no code of a    *)
(* list that is still to be made has been given or accepted.               *)
(***************************************************************************)
EXTENDS SharedRows, FiniteSetTheorems, WellFoundedInduction, TLAPS

(* An instance has a copy of the library of its own.                       *)
LEMMA LockCardinality == \A X : Lock!Cardinality(X) = Cardinality(X)
  BY DEF Lock!Cardinality, Cardinality

LEMMA MailCardinality == \A X : Mail!Cardinality(X) = Cardinality(X)
  BY DEF Mail!Cardinality, Cardinality

(* The composition, seen through the variables of Lockout.                 *)
LEMMA LockoutPart == RowSpec => Lock!Spec
  <1>1. RowInit => Lock!Init
    BY DEF RowInit
  <1>2. [RowNext]_rowVars => [Lock!Next]_(Lock!vars)
    BY DEF RowNext, rowVars, Lock!vars, vars, memVars, lockVars, mfaVars, mailVars, runVars, botVars,
           keyVars, tenVars
  <1> QED
    BY <1>1, <1>2, PTL DEF RowSpec, Lock!Spec

(* The composition, seen through the variables of EmailCodes.              *)
LEMMA EmailCodesPart == RowSpec => Mail!Spec
  <1>1. RowInit => Mail!Init
    BY DEF RowInit
  <1>2. [RowNext]_rowVars => [Mail!Next]_(Mail!vars)
    BY DEF RowNext, rowVars, Mail!vars, vars, memVars, lockVars, mfaVars, mailVars, runVars, botVars,
           keyVars, tenVars
  <1> QED
    BY <1>1, <1>2, PTL DEF RowSpec, Mail!Spec

(* The composition, seen through the variables of SecondFactor.            *)
LEMMA SecondFactorPart == RowSpec => Mfa!Spec
  <1>1. RowInit => Mfa!Init
    BY DEF RowInit
  <1>2. [RowNext]_rowVars => [Mfa!Next]_(Mfa!vars)
    BY DEF RowNext, rowVars, Mfa!vars, vars, memVars, lockVars, mfaVars, mailVars, runVars, botVars,
           keyVars, tenVars
  <1> QED
    BY <1>1, <1>2, PTL DEF RowSpec, Mfa!Spec

-----------------------------------------------------------------------------
(* The requests are finitely many, and one wrong attempt is let through.   *)
LockInstance == IsFiniteSet(Requests) /\ Threshold \in Nat \ {0}

LockTypeOK ==
    /\ kind \in {"login", "mfa"}
    /\ fails \in Nat /\ wrong \in Nat
    /\ ttl \in BOOLEAN /\ locked \in BOOLEAN /\ odd \in BOOLEAN
    /\ pc \in [Requests -> {"idle", "verify", "incr", "expire", "lock", "reset"}]
    /\ got \in [Requests -> Nat]

Verifying == {r \in Requests : pc[r] = "verify"}
Counting == {r \in Requests : pc[r] = "incr"}
Locking == {r \in Requests :
              pc[r] = "lock" \/ (pc[r] = "expire" /\ Lock!After(got[r]) = "lock")}

N == Cardinality(Requests)

(* A wrong attempt is counted, or its INCR is still to come.               *)
Counted == wrong <= fails + Cardinality(Counting)

(* Who sees the threshold reached will lock.                               *)
LockPending ==
    kind = "login" /\ ~locked => fails <= Threshold - 1 + Cardinality(Locking)

(* The attempts made and those admitted.                                   *)
Admitted == wrong + Cardinality(Verifying) <= Threshold + N - 1

LockIInv ==
    /\ LockTypeOK
    /\ ~odd => Lock!WindowCloses /\ Counted /\ LockPending /\ Admitted

-----------------------------------------------------------------------------
(* Counting.                                                               *)

LEMMA Finite ==
    ASSUME LockInstance, NEW S \in SUBSET Requests
    PROVE  IsFiniteSet(S) /\ Cardinality(S) \in Nat
  BY FS_Subset, FS_CardinalityType DEF LockInstance

LEMMA NInNat == LockInstance => N \in Nat
  BY FS_CardinalityType DEF LockInstance, N

LEMMA LockCounts ==
    ASSUME LockInstance
    PROVE  /\ Cardinality(Verifying) \in Nat
           /\ Cardinality(Counting) \in Nat
           /\ Cardinality(Locking) \in Nat
           /\ Verifying \subseteq Requests /\ Counting \subseteq Requests
           /\ Locking \subseteq Requests
  <1>1. /\ Verifying \subseteq Requests /\ Counting \subseteq Requests
        /\ Locking \subseteq Requests
    BY DEF Verifying, Counting, Locking
  <1> QED
    BY <1>1, Finite

LEMMA Joins ==
    ASSUME LockInstance, NEW S \in SUBSET Requests, NEW r \in Requests, r \notin S
    PROVE  Cardinality(S \cup {r}) = Cardinality(S) + 1
  BY Finite, FS_AddElement

LEMMA Leaves ==
    ASSUME LockInstance, NEW S \in SUBSET Requests, NEW r \in S
    PROVE  Cardinality(S \ {r}) = Cardinality(S) - 1
  BY Finite, FS_RemoveElement

(* Three disjoint sets of requests are no more than the requests.          *)
LEMMA Disjoint ==
    ASSUME LockInstance, NEW A \in SUBSET Requests, NEW B \in SUBSET Requests,
           NEW C \in SUBSET Requests, A \cap B = {}, A \cap C = {}, B \cap C = {}
    PROVE  Cardinality(A) + Cardinality(B) + Cardinality(C) <= N
  <1>1. /\ IsFiniteSet(A) /\ IsFiniteSet(B) /\ IsFiniteSet(C) /\ IsFiniteSet(A \cup B)
        /\ Cardinality(A) \in Nat /\ Cardinality(B) \in Nat /\ Cardinality(C) \in Nat
        /\ Cardinality(A \cup B) \in Nat
    BY Finite
  <1>2. Cardinality(A \cup B) = Cardinality(A) + Cardinality(B)
    <2>1. Cardinality(A \cup B) = Cardinality(A) + Cardinality(B) - Cardinality(A \cap B)
      BY <1>1, FS_Union
    <2>2. Cardinality(A \cap B) = 0
      BY FS_EmptySet
    <2> QED
      BY <1>1, <2>1, <2>2
  <1>3. (A \cup B) \cap C = {}
    OBVIOUS
  <1>4. Cardinality(A \cup B \cup C) = Cardinality(A \cup B) + Cardinality(C)
    BY <1>1, <1>3, FS_Union, FS_EmptySet
  <1>5. A \cup B \cup C \in SUBSET Requests
    OBVIOUS
  <1>6. Cardinality(A \cup B \cup C) <= N
    BY <1>5, FS_Subset DEF LockInstance, N
  <1> QED
    BY <1>1, <1>2, <1>4, <1>6

(* With an idle request there is room for one more.                        *)
LEMMA RoomForOne ==
    ASSUME LockInstance, NEW r \in Requests, pc[r] = "idle"
    PROVE  Cardinality(Verifying) + 1 + Cardinality(Counting) + Cardinality(Locking) <= N
  <1>1. /\ Verifying \cup {r} \in SUBSET Requests /\ r \notin Verifying
        /\ (Verifying \cup {r}) \cap Counting = {}
        /\ (Verifying \cup {r}) \cap Locking = {} /\ Counting \cap Locking = {}
    BY DEF Verifying, Counting, Locking
  <1>2. Cardinality(Verifying \cup {r}) = Cardinality(Verifying) + 1
    BY <1>1, LockCounts, Joins
  <1> QED
    BY <1>1, <1>2, LockCounts, Disjoint

LEMMA InFlight ==
    ASSUME LockInstance
    PROVE  /\ Cardinality(Verifying) <= N
           /\ Cardinality(Verifying) + Cardinality(Counting) <= N
  <1>1. /\ Verifying \cap Counting = {} /\ Verifying \cap Locking = {}
        /\ Counting \cap Locking = {}
    BY DEF Verifying, Counting, Locking
  <1>2. Cardinality(Verifying) + Cardinality(Counting) + Cardinality(Locking) <= N
    BY <1>1, LockCounts, Disjoint
  <1> QED
    BY <1>2, LockCounts, NInNat

-----------------------------------------------------------------------------

LEMMA LockInitially == LockInstance /\ Lock!Init => LockIInv
  <1> SUFFICES ASSUME LockInstance, Lock!Init PROVE LockIInv
    OBVIOUS
  <1>1. LockTypeOK
    BY DEF Lock!Init, LockTypeOK
  <1>2. Lock!WindowCloses
    BY DEF Lock!Init, Lock!WindowCloses
  <1>3. fails = 0 /\ wrong = 0
    BY DEF Lock!Init
  <1> QED
    BY <1>1, <1>2, <1>3, LockCounts, InFlight, NInNat DEF LockIInv, Counted, LockPending, Admitted, LockInstance

(* Past the EXPIRE a request is idle or locks.                             *)
LEMMA AfterIs ==
    ASSUME NEW count
    PROVE  /\ Lock!After(count) \in {"idle", "lock"}
           /\ Lock!After(count) = "lock" <=> kind = "login" /\ count >= Threshold
  BY DEF Lock!After

LEMMA CheckInv ==
    ASSUME LockInstance, LockIInv, NEW r \in Requests, Lock!Check(r)
    PROVE  LockIInv'
  <1>1. CASE UNCHANGED <<pc, odd>>
    BY <1>1 DEF Lock!Check, LockIInv, LockTypeOK, Lock!WindowCloses, Counted, LockPending, Admitted,
                Verifying, Counting, Locking, Lock!After
  <1>2. CASE odd'
    BY <1>2 DEF Lock!Check, Lock!Goto, LockIInv, LockTypeOK
  <1>3. CASE ~odd' /\ ~Lock!Blocked /\ Lock!Goto(r, "verify") /\ UNCHANGED odd
    <2>1. /\ pc' = [pc EXCEPT ![r] = "verify"] /\ pc[r] = "idle" /\ ~odd
          /\ UNCHANGED <<kind, fails, ttl, locked, got, wrong>>
      BY <1>3 DEF Lock!Check, Lock!Goto
    <2>2. LockTypeOK'
      <3>1. pc' \in [Requests -> {"idle", "verify", "incr", "expire", "lock", "reset"}]
        BY <2>1 DEF LockIInv, LockTypeOK
      <3> QED
        BY <1>3, <2>1, <3>1 DEF LockIInv, LockTypeOK
    <2>3. /\ Verifying' = Verifying \cup {r} /\ Counting' = Counting /\ Locking' = Locking
          /\ r \notin Verifying
      BY <2>1 DEF LockIInv, LockTypeOK, Verifying, Counting, Locking, Lock!After
    <2>4. Cardinality(Verifying') = Cardinality(Verifying) + 1
      BY <2>3, LockCounts, Joins
    <2>5. Lock!WindowCloses' /\ Counted' /\ LockPending'
      BY <2>1, <2>3 DEF LockIInv, LockTypeOK, Lock!WindowCloses, Counted, LockPending
    <2>6. fails <= Threshold - 1 + Cardinality(Locking)
      BY <1>3, <2>1, LockCounts DEF Lock!Blocked, LockIInv, LockTypeOK, LockPending, LockInstance
    <2>7. wrong <= fails + Cardinality(Counting)
      BY <2>1 DEF LockIInv, Counted
    <2>8. Cardinality(Verifying) + 1 + Cardinality(Counting) + Cardinality(Locking) <= N
      BY <2>1, RoomForOne
    <2>9. wrong + (Cardinality(Verifying) + 1) <= Threshold + N - 1
      BY <2>6, <2>7, <2>8, LockCounts, NInNat DEF LockIInv, LockTypeOK, LockInstance
    <2> QED
      BY <2>1, <2>2, <2>4, <2>5, <2>9 DEF LockIInv, Admitted, N
  <1> QED
    BY <1>1, <1>2, <1>3 DEF Lock!Check, LockIInv, LockTypeOK

LEMMA VerifyInv ==
    ASSUME LockInstance, LockIInv, NEW r \in Requests, Lock!Verify(r)
    PROVE  LockIInv'
  <1>1. /\ pc[r] = "verify" /\ UNCHANGED <<kind, fails, ttl, locked, got, odd>>
    BY DEF Lock!Verify
  <1>2. /\ r \in Verifying /\ r \notin Counting
    BY <1>1 DEF Verifying, Counting
  <1>3. Cardinality(Verifying \ {r}) = Cardinality(Verifying) - 1
    BY <1>2, LockCounts, Leaves
  <1>4. Cardinality(Counting \cup {r}) = Cardinality(Counting) + 1
    BY <1>2, LockCounts, Joins
  <1>5. CASE Lock!Goto(r, "reset") /\ UNCHANGED wrong
    <2>1. /\ Verifying' = Verifying \ {r} /\ Counting' = Counting /\ Locking' = Locking
      BY <1>1, <1>5 DEF Lock!Goto, LockIInv, LockTypeOK, Verifying, Counting, Locking, Lock!After
    <2>2. Lock!WindowCloses' \/ odd
      BY <1>1, <1>5 DEF Lock!Goto, LockIInv, LockTypeOK, Lock!WindowCloses
    <2>3. LockTypeOK'
      BY <1>1, <1>5 DEF Lock!Goto, LockIInv, LockTypeOK
    <2> QED
      BY <1>1, <1>3, <1>5, <2>1, <2>2, <2>3, LockCounts, NInNat
      DEF LockIInv, LockTypeOK, Counted, LockPending, Admitted, N, LockInstance
  <1>6. CASE Lock!Goto(r, "incr") /\ wrong' = wrong + 1
    <2>1. /\ Verifying' = Verifying \ {r} /\ Counting' = Counting \cup {r} /\ Locking' = Locking
      BY <1>1, <1>6 DEF Lock!Goto, LockIInv, LockTypeOK, Verifying, Counting, Locking, Lock!After
    <2>2. Lock!WindowCloses' \/ odd
      BY <1>1, <1>6 DEF Lock!Goto, LockIInv, LockTypeOK, Lock!WindowCloses
    <2>3. LockTypeOK'
      BY <1>1, <1>6 DEF Lock!Goto, LockIInv, LockTypeOK
    <2> QED
      BY <1>1, <1>3, <1>4, <1>6, <2>1, <2>2, <2>3, LockCounts, NInNat
      DEF LockIInv, LockTypeOK, Counted, LockPending, Admitted, N, LockInstance
  <1> QED
    BY <1>5, <1>6 DEF Lock!Verify

LEMMA IncrInv ==
    ASSUME LockInstance, LockIInv, NEW r \in Requests, Lock!Incr(r)
    PROVE  LockIInv'
  <1> DEFINE to == IF fails' = 1 THEN "expire" ELSE Lock!After(fails')
  <1>1. /\ pc[r] = "incr" /\ UNCHANGED <<kind, ttl, locked, tries, wrong, odd>>
        /\ fails' = fails + 1 /\ got' = [got EXCEPT ![r] = fails + 1]
        /\ pc' = [pc EXCEPT ![r] = to]
    BY DEF Lock!Incr, Lock!Goto
  <1>2. /\ to \in {"idle", "expire", "lock"}
        /\ to = "lock" => Lock!After(fails + 1) = "lock"
        /\ Lock!After(fails + 1) = "lock" => to \in {"expire", "lock"}
    BY <1>1, AfterIs
  <1>3. fails \in Nat /\ fails' \in Nat
    BY <1>1 DEF LockIInv, LockTypeOK
  <1> HIDE DEF to
  <1>4. LockTypeOK'
    <2>1. pc' \in [Requests -> {"idle", "verify", "incr", "expire", "lock", "reset"}]
      BY <1>1, <1>2 DEF LockIInv, LockTypeOK
    <2>2. got' \in [Requests -> Nat]
      BY <1>1, <1>3 DEF LockIInv, LockTypeOK
    <2> QED
      BY <1>1, <1>3, <2>1, <2>2 DEF LockIInv, LockTypeOK
  <1>5. Lock!WindowCloses' \/ odd
    <2>1. CASE fails = 0
      <3>1. pc'[r] = "expire"
        BY <1>1, <2>1 DEF to, LockIInv, LockTypeOK
      <3> QED
        BY <3>1 DEF Lock!WindowCloses
    <2>2. CASE fails # 0 /\ ~odd
      BY <1>1, <1>2, <1>3, <2>2 DEF LockIInv, LockTypeOK, Lock!WindowCloses
    <2> QED
      BY <2>1, <2>2
  <1>6. /\ Verifying' = Verifying /\ Counting' = Counting \ {r} /\ r \in Counting
    BY <1>1, <1>2 DEF LockIInv, LockTypeOK, Verifying, Counting
  <1>7. Locking' = IF Lock!After(fails + 1) = "lock" THEN Locking \cup {r} ELSE Locking
    <2>1. \A q \in Requests \ {r} : pc'[q] = pc[q] /\ got'[q] = got[q]
      BY <1>1 DEF LockIInv, LockTypeOK
    <2>2. pc'[r] = to /\ got'[r] = fails + 1
      BY <1>1 DEF LockIInv, LockTypeOK
    <2>3. \A c : Lock!After(c)' = Lock!After(c)
      BY <1>1 DEF Lock!After
    <2>4. \A q \in Requests \ {r} : q \in Locking' <=> q \in Locking
      BY <2>1, <2>3 DEF Locking
    <2>5. r \in Locking' <=> Lock!After(fails + 1) = "lock"
      BY <1>2, <2>2, <2>3 DEF Locking
    <2>6. r \notin Locking /\ Locking \subseteq Requests /\ Locking' \subseteq Requests
      BY <1>1 DEF Locking
    <2> QED
      BY <2>4, <2>5, <2>6
  <1>8. r \notin Locking
    BY <1>1 DEF Locking
  <1>9. (Counted' /\ Admitted') \/ odd
    <2>1. Cardinality(Counting') = Cardinality(Counting) - 1
      BY <1>6, LockCounts, Leaves
    <2> QED
      BY <1>1, <1>3, <1>6, <2>1, LockCounts DEF LockIInv, LockTypeOK, Counted, Admitted, N
  <1>10. LockPending' \/ odd
    <2>1. CASE Lock!After(fails + 1) = "lock"
      <3>1. Cardinality(Locking') = Cardinality(Locking) + 1
        BY <1>7, <1>8, <2>1, LockCounts, Joins
      <3> QED
        BY <1>1, <1>3, <3>1, LockCounts DEF LockIInv, LockPending, LockInstance
    <2>2. CASE Lock!After(fails + 1) # "lock"
      <3>1. kind = "login" => fails + 1 < Threshold
        BY <1>3, <2>2, AfterIs DEF LockInstance
      <3> QED
        BY <1>1, <1>3, <1>7, <2>2, <3>1, LockCounts DEF LockPending, LockInstance
    <2> QED
      BY <2>1, <2>2
  <1> QED
    BY <1>1, <1>4, <1>5, <1>9, <1>10 DEF LockIInv

LEMMA ExpireInv ==
    ASSUME LockInstance, LockIInv, NEW r \in Requests, Lock!Expire(r)
    PROVE  LockIInv'
  <1>1. /\ pc[r] = "expire" /\ UNCHANGED <<kind, fails, locked, got, tries, wrong>>
        /\ ttl' = (fails > 0) /\ odd' = (odd \/ locked)
        /\ pc' = [pc EXCEPT ![r] = Lock!After(got[r])]
    BY DEF Lock!Expire, Lock!Goto
  <1>2. Lock!After(got[r]) \in {"idle", "lock"}
    BY AfterIs
  <1>3. LockTypeOK'
    <2>1. pc' \in [Requests -> {"idle", "verify", "incr", "expire", "lock", "reset"}]
      BY <1>1, <1>2 DEF LockIInv, LockTypeOK
    <2>2. ttl' \in BOOLEAN /\ odd' \in BOOLEAN
      BY <1>1
    <2> QED
      BY <1>1, <2>1, <2>2 DEF LockIInv, LockTypeOK
  <1>4. Lock!WindowCloses'
    BY <1>1 DEF Lock!WindowCloses
  <1>5. Verifying' = Verifying /\ Counting' = Counting
    BY <1>1, <1>2 DEF LockIInv, LockTypeOK, Verifying, Counting
  <1>6. Locking' = Locking
    <2>1. \A c : Lock!After(c)' = Lock!After(c)
      BY <1>1 DEF Lock!After
    <2> QED
      BY <1>1, <1>2, <2>1 DEF LockIInv, LockTypeOK, Locking
  <1>7. ~odd' => ~odd
    BY <1>1
  <1> QED
    BY <1>1, <1>3, <1>4, <1>5, <1>6, <1>7
    DEF LockIInv, Counted, LockPending, Admitted, N

LEMMA LockInv ==
    ASSUME LockInstance, LockIInv, NEW r \in Requests, Lock!Lock(r)
    PROVE  LockIInv'
  <1>1. /\ pc[r] = "lock" /\ UNCHANGED <<kind, fails, ttl, got, tries, wrong, odd>>
        /\ locked' = TRUE /\ pc' = [pc EXCEPT ![r] = "idle"]
    BY DEF Lock!Lock, Lock!Goto
  <1>2. pc' \in [Requests -> {"idle", "verify", "incr", "expire", "lock", "reset"}]
    BY <1>1 DEF LockIInv, LockTypeOK
  <1>3. LockTypeOK'
    BY <1>1, <1>2 DEF LockIInv, LockTypeOK
  <1>4. Lock!WindowCloses' \/ odd
    BY <1>1 DEF LockIInv, LockTypeOK, Lock!WindowCloses
  <1>5. Verifying' = Verifying /\ Counting' = Counting
    BY <1>1 DEF LockIInv, LockTypeOK, Verifying, Counting
  <1> QED
    BY <1>1, <1>3, <1>4, <1>5 DEF LockIInv, Counted, LockPending, Admitted, N

(* A counter that is gone has no wrong attempts.                           *)
LEMMA ClearInv ==
    ASSUME LockInstance, LockIInv, LockTypeOK', fails' = 0, wrong' = 0, UNCHANGED kind
    PROVE  LockIInv'
  <1>1. /\ Cardinality(Verifying') \in Nat /\ Cardinality(Verifying') <= N
        /\ Cardinality(Counting') \in Nat /\ Cardinality(Locking') \in Nat
    <2>1. /\ Verifying' \in SUBSET Requests /\ Counting' \in SUBSET Requests
          /\ Locking' \in SUBSET Requests
      BY DEF Verifying, Counting, Locking
    <2> QED
      BY <2>1, Finite, FS_Subset DEF LockInstance, N
  <1> QED
    BY <1>1, NInNat DEF LockIInv, Lock!WindowCloses, Counted, LockPending, Admitted, N, LockInstance

LEMMA ResetInv ==
    ASSUME LockInstance, LockIInv,
           (\E r \in Requests : Lock!Reset(r)) \/ Lock!WindowEnds
    PROVE  LockIInv'
  <1>1. fails' = 0 /\ wrong' = 0 /\ UNCHANGED kind
    BY DEF Lock!Reset, Lock!WindowEnds
  <1>2. LockTypeOK'
    <2>1. ASSUME NEW r \in Requests, Lock!Reset(r) PROVE LockTypeOK'
      <3>1. pc' \in [Requests -> {"idle", "verify", "incr", "expire", "lock", "reset"}]
        BY <2>1 DEF Lock!Reset, Lock!Goto, LockIInv, LockTypeOK
      <3> QED
        BY <2>1, <3>1 DEF Lock!Reset, LockIInv, LockTypeOK
    <2>2. ASSUME Lock!WindowEnds PROVE LockTypeOK'
      BY <2>2 DEF Lock!WindowEnds, LockIInv, LockTypeOK
    <2> QED
      BY <2>1, <2>2
  <1> QED
    BY <1>1, <1>2, ClearInv

LEMMA StopInv ==
    ASSUME LockIInv, NEW r \in Requests, Lock!Stop(r)
    PROVE  LockIInv'
  <1>1. pc' \in [Requests -> {"idle", "verify", "incr", "expire", "lock", "reset"}]
    BY DEF Lock!Stop, Lock!Goto, LockIInv, LockTypeOK
  <1> QED
    BY <1>1 DEF Lock!Stop, LockIInv, LockTypeOK

LEMMA LockEndsInv ==
    ASSUME LockInstance, LockIInv, Lock!LockEnds
    PROVE  LockIInv'
  <1>1. /\ fails = 0 \/ odd
        /\ locked' = FALSE /\ UNCHANGED <<kind, fails, ttl, pc, got, tries, wrong, odd>>
    BY DEF Lock!LockEnds
  <1>2. LockTypeOK'
    BY <1>1 DEF LockIInv, LockTypeOK
  <1>3. Verifying' = Verifying /\ Counting' = Counting /\ Locking' = Locking
    BY <1>1 DEF Verifying, Counting, Locking, Lock!After
  <1>4. odd \/ (Lock!WindowCloses' /\ Counted' /\ Admitted')
    BY <1>1, <1>3 DEF LockIInv, Lock!WindowCloses, Counted, Admitted, N
  <1>5. odd \/ LockPending'
    BY <1>1, <1>3, LockCounts DEF LockPending, LockInstance
  <1> QED
    BY <1>1, <1>2, <1>4, <1>5 DEF LockIInv

LEMMA LockInductive == LockInstance /\ LockIInv /\ [Lock!Next]_(Lock!vars) => LockIInv'
  <1> SUFFICES ASSUME LockInstance, LockIInv, [Lock!Next]_(Lock!vars) PROVE LockIInv'
    OBVIOUS
  <1>1. CASE UNCHANGED Lock!vars
    BY <1>1 DEF Lock!vars, LockIInv, LockTypeOK, Lock!WindowCloses, Counted, LockPending, Admitted,
                Verifying, Counting, Locking, Lock!After
  <1> QED
    BY <1>1, CheckInv, VerifyInv, IncrInv, ExpireInv, LockInv, ResetInv, StopInv, LockEndsInv
    DEF Lock!Next

(* However the Redis commands of concurrent attempts interleave            *)
(* (services/auth.py), a counter dies with its window, and a window lets   *)
(* through the threshold and those in flight when it was reached, no more, *)
(* unless a command failed or came after the lock.                         *)
THEOREM AttemptsAreCounted ==
    RowSpec => []AttemptsCounted
  <1>1. LockInstance
    BY SharedRowsAssumption DEF LockInstance
  <1>2. Lock!Init => LockIInv
    BY <1>1, LockInitially
  <1>3. LockIInv /\ [Lock!Next]_(Lock!vars) => LockIInv'
    BY <1>1, LockInductive
  <1>4. LockIInv => AttemptsCounted
    BY <1>1, LockCounts, NInNat, LockCardinality
    DEF LockIInv, LockTypeOK, Admitted, AttemptsCounted, Lock!AttemptsCounted, Lock!WindowBounds,
        N, LockInstance
  <1> QED
    BY <1>2, <1>3, <1>4, LockoutPart, PTL DEF Lock!Spec

-----------------------------------------------------------------------------
(* The limit allows one attempt; MaxCodes bounds the rows.                  *)
MailInstance == MaxAttempts \in Nat \ {0} /\ MaxCodes \in Nat

MailCopy == [st : {"none", "active", "consumed"}, age : {"young", "ripe", "expired"},
         attempts : Nat, sent : BOOLEAN]
MailReq == [op : {"issue", "confirm"}, given : 0..MaxCodes, at : 0..MaxCodes, copy : MailCopy,
        newest : 0..MaxCodes,
        pc : {"idle", "user", "load", "insert", "mail", "compare", "count", "swap"},
        answer : Mail!Answers]

MailTypeOK ==
    /\ code \in [Mail!Rows -> MailCopy]
    /\ mailReqs \in [Requests -> MailReq]
    /\ mailWrong \in [Mail!Rows -> Nat] /\ mailUncounted \in [Mail!Rows -> Nat]
    /\ mailRaced \subseteq {"issue", "confirm"}

(* Rows are issued in order, and the others are as they were made.         *)
Packed ==
    /\ \E n \in 0..MaxCodes : Mail!Issued = 1..n
    /\ \A i \in Mail!Rows \ Mail!Issued : code[i].attempts = 0

(* A row in a request's hands is one of the table.                         *)
Placed ==
    \A r \in Requests :
        /\ mailReqs[r].pc \in {"insert", "mail"} => mailReqs[r].op = "issue"
        /\ mailReqs[r].pc \in {"compare", "count", "swap"} => mailReqs[r].op = "confirm"
        /\ mailReqs[r].pc \in {"insert", "mail", "compare", "count", "swap"} /\ mailReqs[r].at # 0
             => mailReqs[r].at \in Mail!Issued
        /\ mailReqs[r].pc \in {"mail", "compare", "count", "swap"} => mailReqs[r].at # 0

NewestInForce ==
    /\ \A i \in Mail!Active : i = Mail!Last(Mail!Issued)
    /\ \A r \in Requests : mailReqs[r].pc = "insert" => \A i \in Mail!Active : i = mailReqs[r].at
    /\ \A r, q \in Requests : mailReqs[r].pc = "insert" /\ mailReqs[q].pc = "insert" => r = q
    /\ \A r \in Requests : mailReqs[r].pc \in {"compare", "swap"} => mailReqs[r].at = mailReqs[r].newest

(* A confirmation that has loaded the row and not committed yet, and one   *)
(* that has compared with row i.                                           *)
Weighing(r) == mailReqs[r].pc \in {"compare", "count"}
CountDue(i) == \E r \in Requests : mailReqs[r].pc = "count" /\ mailReqs[r].at = i

(* The wrong codes a row was compared with are those it counts, those      *)
(* whose commit failed, and the one that is about to be counted.           *)
CounterKept ==
    /\ \A i \in Mail!Rows : /\ mailWrong[i] = code[i].attempts + mailUncounted[i]
                                            + (IF CountDue(i) THEN 1 ELSE 0)
                            /\ code[i].attempts <= MaxAttempts
    /\ \A i \in Mail!Active : code[i].attempts < MaxAttempts
    /\ \A r, q \in Requests : Weighing(r) /\ Weighing(q) => r = q
    /\ \A r \in Requests : Weighing(r) =>
           mailReqs[r].copy.attempts = code[mailReqs[r].at].attempts /\ mailReqs[r].copy.attempts < MaxAttempts

MailIInv ==
    /\ MailTypeOK /\ Packed /\ Placed
    /\ "issue" \notin mailRaced => NewestInForce
    /\ "confirm" \notin mailRaced => CounterKept

-----------------------------------------------------------------------------
(* The newest of a set of rows.                                            *)

LEMMA LastIs ==
    ASSUME NEW S \in SUBSET Nat, NEW x \in S, \A y \in S : y <= x
    PROVE  Mail!Last(S) = x
  <1>1. PICK z : z = CHOOSE i \in S : \A j \in S : j <= i
    OBVIOUS
  <1>2. z \in S /\ \A j \in S : j <= z
    BY <1>1
  <1>3. z = x
    BY <1>2
  <1> QED
    BY <1>1, <1>3 DEF Mail!Last

LEMMA LastAlone ==
    ASSUME NEW S \in SUBSET Nat, NEW x \in S, \A y \in S : y = x
    PROVE  Mail!Last(S) = x
  BY LastIs

(* Last is one of the rows, or 0.                                          *)
LEMMA LastActive ==
    ASSUME MailInstance, "issue" \notin mailRaced, NewestInForce
    PROVE  \/ Mail!Active = {} /\ Mail!Last(Mail!Active) = 0
           \/ Mail!Active = {Mail!Last(Mail!Active)} /\ Mail!Last(Mail!Active) = Mail!Last(Mail!Issued)
  <1>1. CASE Mail!Active = {}
    BY <1>1 DEF Mail!Last
  <1>2. CASE Mail!Active # {}
    <2>1. PICK x : x \in Mail!Active
      BY <1>2
    <2>2. x = Mail!Last(Mail!Issued) /\ \A y \in Mail!Active : y = x
      BY <2>1 DEF NewestInForce
    <2>3. Mail!Active \in SUBSET Nat
      BY DEF Mail!Active, Mail!Rows, MailInstance
    <2>4. Mail!Last(Mail!Active) = x
      BY <2>1, <2>2, <2>3, LastAlone
    <2> QED
      BY <2>1, <2>2, <2>4
  <1> QED
    BY <1>1, <1>2

LEMMA NextRow ==
    ASSUME MailInstance, NEW n \in 0..MaxCodes, Mail!Issued = 1..n
    PROVE  Cardinality(Mail!Issued) + 1 = n + 1
  <1>1. Cardinality(1..n) = n
    BY FS_Interval DEF MailInstance
  <1> QED
    BY <1>1

(* Requests that overlap may leave several active rows: what Last finds is *)
(* one of them all the same.                                               *)
LEMMA LastIsRow ==
    ASSUME MailInstance, NEW S \in SUBSET Mail!Rows
    PROVE  Mail!Last(S) \in 0..MaxCodes /\ (Mail!Last(S) # 0 => Mail!Last(S) \in S)
  <1>1. CASE S = {}
    BY <1>1 DEF Mail!Last, MailInstance
  <1>2. CASE S # {}
    <2> DEFINE T == {MaxCodes - i : i \in S}
               R == OpToRel(<, Nat)
    <2>1. T \subseteq Nat /\ T # {}
      <3>1. \A i \in S : MaxCodes - i \in Nat
        BY DEF Mail!Rows, MailInstance
      <3>2. T \subseteq Nat
        BY <3>1
      <3>3. T # {}
        BY <1>2
      <3> QED
        BY <3>2, <3>3
    <2>2. IsWellFoundedOn(R, Nat)
      BY NatLessThanWellFounded
    <2>3. \A x, y \in Nat : x < y => <<x, y>> \in R
      BY DEF OpToRel
    <2> HIDE DEF R
    <2>4. PICK t \in T : \A u \in T : ~ (<<u, t>> \in R)
      <3> HIDE DEF T
      <3> QED
        BY <2>1, <2>2, WFMin
    <2>5. PICK x \in S : t = MaxCodes - x
      OBVIOUS
    <2>6. \A y \in S : y <= x
      <3> SUFFICES ASSUME NEW y \in S PROVE y <= x
        OBVIOUS
      <3>1. MaxCodes - y \in T
        OBVIOUS
      <3>2. ~ (MaxCodes - y < t)
        BY <3>1, <2>1, <2>3, <2>4
      <3> QED
        BY <3>2, <2>5 DEF Mail!Rows, MailInstance
    <2>7. S \in SUBSET Nat
      BY DEF Mail!Rows, MailInstance
    <2>8. Mail!Last(S) = x
      BY <2>6, <2>7, LastIs
    <2> QED
      BY <2>8 DEF Mail!Rows, MailInstance
  <1> QED
    BY <1>1, <1>2

-----------------------------------------------------------------------------
(* Types, and the rows that requests hold.                                 *)

LEMMA ActiveRows == MailInstance => /\ Mail!Active \in SUBSET Mail!Rows /\ Mail!Issued \in SUBSET Mail!Rows
                                /\ Mail!Active \subseteq Mail!Issued
  BY DEF Mail!Active, Mail!Issued

(* The row a new code takes.                                               *)
LEMMA NewRow ==
    ASSUME MailInstance, Packed, NEW r \in Requests, Mail!InsertCode(r)
    PROVE  \E n \in 0..MaxCodes - 1 :
             /\ Mail!Issued = 1..n /\ n + 1 \in Mail!Rows /\ n + 1 \notin Mail!Issued
             /\ code' = [j \in Mail!Rows |-> IF j = n + 1 THEN [Mail!NoRow EXCEPT !.st = "active"]
                                       ELSE IF j = mailReqs[r].at THEN [code[j] EXCEPT !.st = "consumed"]
                                       ELSE code[j]]
             /\ mailReqs' = [mailReqs EXCEPT ![r].pc = "mail", ![r].at = n + 1]
  <1>1. PICK n \in 0..MaxCodes : Mail!Issued = 1..n
    BY DEF Packed
  <1>2. Cardinality(Mail!Issued) + 1 = n + 1
    BY <1>1, NextRow
  <1>3. /\ n + 1 \in Mail!Rows
        /\ code' = [j \in Mail!Rows |-> IF j = n + 1 THEN [Mail!NoRow EXCEPT !.st = "active"]
                                  ELSE IF j = mailReqs[r].at THEN [code[j] EXCEPT !.st = "consumed"]
                                  ELSE code[j]]
        /\ mailReqs' = [mailReqs EXCEPT ![r].pc = "mail", ![r].at = n + 1]
    BY <1>2, MailCardinality DEF Mail!InsertCode
  <1>4. n \in 0..MaxCodes - 1 /\ n + 1 \notin Mail!Issued
    BY <1>1, <1>3 DEF Mail!Rows, MailInstance
  <1> QED
    BY <1>1, <1>3, <1>4

LEMMA NoRowTyped == Mail!NoRow \in MailCopy
  BY DEF Mail!NoRow, MailCopy

LEMMA IdleTyped ==
    ASSUME MailInstance, NEW a \in Mail!Answers
    PROVE  Mail!Idle(a) \in MailReq
  BY NoRowTyped DEF Mail!Idle, MailReq, MailInstance

LEMMA AnswerTyped ==
    ASSUME MailInstance, MailTypeOK, NEW r \in Requests, NEW a \in Mail!Answers, Mail!Answer(r, a)
    PROVE  mailReqs' \in [Requests -> MailReq]
  BY IdleTyped DEF Mail!Answer, MailTypeOK

LEMMA AnswersKnown == \A a \in {"none", "ok", "cooldown", "missing", "expired", "invalid", "too_many",
                         "verified", "exists"} : a \in Mail!Answers
  BY DEF Mail!Answers

LEMMA GotoTyped ==
    ASSUME MailInstance, MailTypeOK, NEW r \in Requests,
           NEW next \in {"idle", "user", "load", "insert", "mail", "compare", "count", "swap"},
           Mail!Goto(r, next)
    PROVE  mailReqs' \in [Requests -> MailReq]
  <1>1. [mailReqs[r] EXCEPT !.pc = next] \in MailReq
    BY DEF MailTypeOK, MailReq
  <1>2. mailReqs' = [mailReqs EXCEPT ![r] = [mailReqs[r] EXCEPT !.pc = next]]
    BY DEF Mail!Goto
  <1> QED
    BY <1>1, <1>2 DEF MailTypeOK

LEMMA MailTypeHolds == MailInstance /\ MailTypeOK /\ Packed /\ Placed /\ [Mail!Next]_(Mail!vars) => MailTypeOK'
  <1> SUFFICES ASSUME MailInstance, MailTypeOK, Packed, Placed, [Mail!Next]_(Mail!vars) PROVE MailTypeOK'
    OBVIOUS
  <1>1. ASSUME NEW r \in Requests, NEW op \in {"issue", "confirm"}, NEW given \in 0..MaxCodes,
               Mail!Begin(r, op, given)
        PROVE  MailTypeOK'
    <2> DEFINE new == [Mail!Idle("none") EXCEPT !.op = op, !.given = given, !.pc = "user"]
    <2>1. new \in MailReq
      <3>1. Mail!Idle("none") \in MailReq
        BY IdleTyped, AnswersKnown
      <3> QED
        BY <3>1 DEF MailReq
    <2>2. /\ mailReqs' = [mailReqs EXCEPT ![r] = new] /\ code' = code
          /\ UNCHANGED <<mailWrong, mailUncounted, mailRaced>>
      BY <1>1 DEF Mail!Begin
    <2> HIDE DEF new
    <2> QED
      BY <2>1, <2>2 DEF MailTypeOK
  <1>2. ASSUME NEW r \in Requests, Mail!LoadUser(r) PROVE MailTypeOK'
    <2>1. mailReqs' \in [Requests -> MailReq]
      BY <1>2, AnswerTyped, GotoTyped, AnswersKnown DEF Mail!LoadUser
    <2> QED
      BY <1>2, <2>1 DEF Mail!LoadUser, MailTypeOK
  <1>3. ASSUME NEW r \in Requests, Mail!Load(r) PROVE MailTypeOK'
    <2>1. Mail!Last(Mail!Active) \in 0..MaxCodes /\ Mail!Last(Mail!Issued) \in 0..MaxCodes
      BY ActiveRows, LastIsRow
    <2>2. Mail!Last(Mail!Active) # 0 => Mail!Last(Mail!Active) \in Mail!Rows
      BY ActiveRows, LastIsRow
    <2>3. mailRaced' \subseteq {"issue", "confirm"} /\ UNCHANGED <<mailWrong, mailUncounted>>
      BY <1>3 DEF Mail!Load, MailTypeOK, MailReq
    <2>4. code' \in [Mail!Rows -> MailCopy]
      BY <1>3, <2>2 DEF Mail!Load, MailTypeOK, MailCopy
    <2> DEFINE copy == IF Mail!Last(Mail!Active) = 0 THEN Mail!NoRow ELSE code[Mail!Last(Mail!Active)]
               loaded == [mailReqs[r] EXCEPT !.at = Mail!Last(Mail!Active), !.copy = copy,
                                        !.newest = Mail!Last(Mail!Issued)]
    <2>5. copy \in MailCopy
      BY <2>2, NoRowTyped DEF MailTypeOK
    <2>6. ASSUME NEW next \in {"insert", "compare"} PROVE [loaded EXCEPT !.pc = next] \in MailReq
      <3>1. mailReqs[r] \in MailReq
        BY DEF MailTypeOK
      <3> HIDE DEF copy
      <3> QED
        BY <3>1, <2>1, <2>5 DEF MailReq
    <2>7. \/ \E a \in Mail!Answers : Mail!Answer(r, a)
          \/ \E next \in {"insert", "compare"} : mailReqs' = [mailReqs EXCEPT ![r] = [loaded EXCEPT !.pc = next]]
      BY <1>3, AnswersKnown DEF Mail!Load
    <2>8. mailReqs' \in [Requests -> MailReq]
      <3> HIDE DEF loaded
      <3>1. CASE \E a \in Mail!Answers : Mail!Answer(r, a)
        BY <3>1, AnswerTyped
      <3>2. CASE \E next \in {"insert", "compare"} : mailReqs' = [mailReqs EXCEPT ![r] = [loaded EXCEPT !.pc = next]]
        BY <3>2, <2>6 DEF MailTypeOK
      <3> QED
        BY <3>1, <3>2, <2>7
    <2> QED
      BY <2>3, <2>4, <2>8 DEF MailTypeOK
  <1>4. ASSUME NEW r \in Requests, Mail!InsertCode(r) PROVE MailTypeOK'
    <2>1. PICK n \in 0..MaxCodes - 1 :
             /\ n + 1 \in Mail!Rows
             /\ code' = [j \in Mail!Rows |-> IF j = n + 1 THEN [Mail!NoRow EXCEPT !.st = "active"]
                                       ELSE IF j = mailReqs[r].at THEN [code[j] EXCEPT !.st = "consumed"]
                                       ELSE code[j]]
             /\ mailReqs' = [mailReqs EXCEPT ![r].pc = "mail", ![r].at = n + 1]
      BY <1>4, NewRow
    <2>2. code' \in [Mail!Rows -> MailCopy]
      <3>1. [Mail!NoRow EXCEPT !.st = "active"] \in MailCopy
        BY DEF Mail!NoRow, MailCopy
      <3>2. \A j \in Mail!Rows : [code[j] EXCEPT !.st = "consumed"] \in MailCopy
        BY DEF MailTypeOK, MailCopy
      <3> QED
        BY <3>1, <3>2, <2>1 DEF MailTypeOK
    <2>3. mailReqs' \in [Requests -> MailReq]
      <3>1. [mailReqs[r] EXCEPT !.pc = "mail", !.at = n + 1] \in MailReq
        <4>1. n + 1 \in 0..MaxCodes
          BY <2>1 DEF Mail!Rows, MailInstance
        <4> QED
          BY <4>1 DEF MailTypeOK, MailReq
      <3>2. mailReqs' = [mailReqs EXCEPT ![r] = [mailReqs[r] EXCEPT !.pc = "mail", !.at = n + 1]]
        BY <2>1
      <3> QED
        BY <3>1, <3>2 DEF MailTypeOK
    <2> QED
      BY <1>4, <2>2, <2>3 DEF Mail!InsertCode, MailTypeOK
  <1>5. ASSUME NEW r \in Requests, Mail!SendCode(r) PROVE MailTypeOK'
    <2>1. mailReqs' \in [Requests -> MailReq]
      BY <1>5, AnswerTyped, AnswersKnown DEF Mail!SendCode
    <2> QED
      BY <1>5, <2>1 DEF Mail!SendCode, MailTypeOK, MailCopy
  <1>6. ASSUME NEW r \in Requests, Mail!WrongCode(r) PROVE MailTypeOK'
    <2>1. mailReqs[r].at \in Mail!Rows
      BY <1>6 DEF Mail!WrongCode, Placed, Mail!Issued
    <2>2. mailWrong' \in [Mail!Rows -> Nat] /\ UNCHANGED <<code, mailUncounted, mailRaced>>
      BY <1>6, <2>1 DEF Mail!WrongCode, MailTypeOK
    <2>3. mailReqs' \in [Requests -> MailReq]
      BY <1>6, GotoTyped DEF Mail!WrongCode
    <2> QED
      BY <2>2, <2>3 DEF MailTypeOK
  <1>13. ASSUME NEW r \in Requests, Mail!CountAttempt(r) PROVE MailTypeOK'
    <2>1. mailReqs[r].at \in Mail!Rows /\ mailReqs[r].copy.attempts + 1 \in Nat
      BY <1>13 DEF Mail!CountAttempt, Placed, Mail!Issued, MailTypeOK, MailReq, MailCopy
    <2>2. code' \in [Mail!Rows -> MailCopy]
      BY <1>13, <2>1 DEF Mail!CountAttempt, MailTypeOK, MailCopy
    <2>3. UNCHANGED <<mailWrong, mailUncounted, mailRaced>>
      BY <1>13 DEF Mail!CountAttempt
    <2>4. mailReqs' \in [Requests -> MailReq]
      BY <1>13, AnswerTyped, AnswersKnown DEF Mail!CountAttempt
    <2> QED
      BY <2>2, <2>3, <2>4 DEF MailTypeOK
  <1>7. ASSUME NEW r \in Requests, Mail!RightCode(r) PROVE MailTypeOK'
    <2>1. mailReqs' \in [Requests -> MailReq]
      BY <1>7, GotoTyped DEF Mail!RightCode
    <2> QED
      BY <1>7, <2>1 DEF Mail!RightCode, MailTypeOK, MailCopy
  <1>8. ASSUME NEW r \in Requests, Mail!Settle(r) PROVE MailTypeOK'
    BY <1>8, AnswerTyped, AnswersKnown DEF Mail!Settle, MailTypeOK
  <1>9. ASSUME NEW r \in Requests, Mail!EmailExists(r) PROVE MailTypeOK'
    BY <1>9, AnswerTyped, AnswersKnown DEF Mail!EmailExists, MailTypeOK
  <1>10. ASSUME NEW r \in Requests, Mail!Abort(r) PROVE MailTypeOK'
    <2>1. mailReqs' \in [Requests -> MailReq] /\ UNCHANGED <<code, mailWrong, mailRaced>>
      BY <1>10, AnswerTyped, AnswersKnown DEF Mail!Abort
    <2>2. mailReqs[r].pc = "count" => mailReqs[r].at \in Mail!Rows
      BY DEF Placed, Mail!Issued
    <2>3. mailUncounted' \in [Mail!Rows -> Nat]
      BY <1>10, <2>2 DEF Mail!Abort, MailTypeOK
    <2> QED
      BY <2>1, <2>3 DEF MailTypeOK
  <1>11. ASSUME NEW i \in Mail!Rows, Mail!Ages(i) PROVE MailTypeOK'
    BY <1>11 DEF Mail!Ages, MailTypeOK, MailCopy
  <1>12. CASE UNCHANGED Mail!vars
    BY <1>12 DEF Mail!vars, MailTypeOK
  <1> QED
    BY <1>1, <1>2, <1>3, <1>4, <1>5, <1>6, <1>7, <1>8, <1>9, <1>10, <1>11, <1>12, <1>13
    DEF Mail!Next, Mail!VerifyEmail, Mail!ChangeEmail

-----------------------------------------------------------------------------
(* Rows stay packed, and what a request holds stays issued.                *)

(* The handlers' steps, without the insertion.                             *)
MailMoves(r) ==
    \/ Mail!LoadUser(r) \/ Mail!Load(r) \/ Mail!SendCode(r) \/ Mail!WrongCode(r) \/ Mail!CountAttempt(r)
    \/ Mail!RightCode(r) \/ Mail!Settle(r) \/ Mail!EmailExists(r) \/ Mail!Abort(r)
    \/ \E op \in {"issue", "confirm"}, given \in 0..MaxCodes : Mail!Begin(r, op, given)

(* No step but InsertCode issues a row, and none takes one away.           *)
LEMMA RowsOf ==
    ASSUME MailInstance, MailTypeOK, Placed, NEW r \in Requests, MailMoves(r)
    PROVE  /\ Mail!Issued' = Mail!Issued /\ Mail!Active' \subseteq Mail!Active
           /\ \A i \in Mail!Rows \ Mail!Issued : code'[i].attempts = code[i].attempts
           /\ \A q \in Requests \ {r} : mailReqs'[q] = mailReqs[q]
  <1>1. \A q \in Requests \ {r} : mailReqs'[q] = mailReqs[q]
    BY DEF MailMoves, MailTypeOK, Mail!LoadUser, Mail!Load, Mail!SendCode, Mail!WrongCode, Mail!CountAttempt,
           Mail!RightCode, Mail!Settle, Mail!EmailExists, Mail!Abort, Mail!Begin, Mail!Answer, Mail!Goto
  <1>2. CASE Mail!Load(r)
    <2>1. \/ code' = code
          \/ /\ Mail!Last(Mail!Active) # 0 /\ code' = [code EXCEPT ![Mail!Last(Mail!Active)].st = "consumed"]
      BY <1>2 DEF Mail!Load
    <2>2. Mail!Last(Mail!Active) # 0 => Mail!Last(Mail!Active) \in Mail!Active
      BY ActiveRows, LastIsRow
    <2> QED
      BY <1>1, <2>1, <2>2 DEF MailTypeOK, MailCopy, Mail!Issued, Mail!Active
  <1>3. CASE Mail!CountAttempt(r)
    <2>1. mailReqs[r].at \in Mail!Issued
      BY <1>3 DEF Mail!CountAttempt, Placed
    <2>2. \E n \in Nat : \/ code' = [code EXCEPT ![mailReqs[r].at].attempts = n, ![mailReqs[r].at].st = "consumed"]
                         \/ code' = [code EXCEPT ![mailReqs[r].at].attempts = n]
      <3>1. mailReqs[r].copy.attempts + 1 \in Nat
        BY DEF MailTypeOK, MailReq, MailCopy
      <3> QED
        BY <1>3, <3>1 DEF Mail!CountAttempt
    <2> QED
      BY <1>1, <2>1, <2>2 DEF MailTypeOK, MailCopy, Mail!Issued, Mail!Active
  <1>4. CASE Mail!RightCode(r)
    <2>1. mailReqs[r].at \in Mail!Issued
      BY <1>4 DEF Mail!RightCode, Placed
    <2>2. code' = [code EXCEPT ![mailReqs[r].at].st = "consumed"]
      BY <1>4 DEF Mail!RightCode
    <2> QED
      BY <1>1, <2>1, <2>2 DEF MailTypeOK, MailCopy, Mail!Issued, Mail!Active
  <1>5. CASE Mail!SendCode(r)
    <2>1. code' = [code EXCEPT ![mailReqs[r].at].sent = TRUE]
      BY <1>5 DEF Mail!SendCode
    <2> QED
      BY <1>1, <2>1 DEF MailTypeOK, MailCopy, Mail!Issued, Mail!Active
  <1>6. CASE code' = code
    BY <1>1, <1>6 DEF Mail!Issued, Mail!Active
  <1> QED
    BY <1>2, <1>3, <1>4, <1>5, <1>6 
    DEF MailMoves, Mail!LoadUser, Mail!WrongCode, Mail!Settle, Mail!EmailExists, Mail!Abort, Mail!Begin

(* Where such a step leaves the request.                                   *)
LEMMA Where ==
    ASSUME MailInstance, MailTypeOK, NEW r \in Requests, MailMoves(r)
    PROVE  \/ mailReqs'[r].pc \in {"idle", "user", "load"}
           \/ /\ Mail!Load(r)
              /\ mailReqs'[r].pc = "insert" /\ mailReqs'[r].op = "issue" /\ mailReqs[r].op = "issue"
              /\ mailReqs'[r].at = Mail!Last(Mail!Active)
           \/ /\ Mail!Load(r)
              /\ mailReqs'[r].pc = "compare" /\ mailReqs'[r].op = "confirm" /\ mailReqs[r].op = "confirm"
              /\ mailReqs'[r].at = Mail!Last(Mail!Active) /\ Mail!Last(Mail!Active) # 0
              /\ mailReqs'[r].newest = Mail!Last(Mail!Issued) /\ mailReqs'[r].copy = code[Mail!Last(Mail!Active)]
           \/ /\ Mail!WrongCode(r)
              /\ mailReqs[r].pc = "compare" /\ mailReqs' = [mailReqs EXCEPT ![r].pc = "count"]
              /\ mailReqs'[r].pc = "count" /\ mailReqs'[r].op = mailReqs[r].op
              /\ mailReqs'[r].at = mailReqs[r].at /\ mailReqs'[r].copy = mailReqs[r].copy
           \/ /\ Mail!RightCode(r)
              /\ mailReqs[r].pc = "compare" /\ mailReqs'[r].pc = "swap" /\ mailReqs'[r].op = mailReqs[r].op
              /\ mailReqs'[r].at = mailReqs[r].at /\ mailReqs'[r].newest = mailReqs[r].newest
  <1>0. mailReqs[r] \in MailReq /\ mailReqs \in [Requests -> MailReq]
    BY DEF MailTypeOK
  <1>1. ASSUME NEW a \in Mail!Answers, Mail!Answer(r, a) PROVE mailReqs'[r].pc = "idle"
    BY <1>0, <1>1 DEF Mail!Answer, Mail!Idle
  <1>2. CASE Mail!Load(r)
    <2>1. CASE \E a \in Mail!Answers : Mail!Answer(r, a)
      BY <2>1, <1>1
    <2> DEFINE copy == IF Mail!Last(Mail!Active) = 0 THEN Mail!NoRow ELSE code[Mail!Last(Mail!Active)]
               loaded == [mailReqs[r] EXCEPT !.at = Mail!Last(Mail!Active), !.copy = copy,
                                        !.newest = Mail!Last(Mail!Issued)]
    <2>2. CASE /\ mailReqs[r].op = "issue"
               /\ mailReqs' = [mailReqs EXCEPT ![r] = [loaded EXCEPT !.pc = "insert"]]
      BY <2>2, <1>0, <1>2 DEF MailReq
    <2>3. CASE /\ mailReqs[r].op # "issue" /\ Mail!Last(Mail!Active) # 0
               /\ mailReqs' = [mailReqs EXCEPT ![r] = [loaded EXCEPT !.pc = "compare"]]
      BY <2>3, <1>0, <1>2 DEF MailReq
    <2>4. \/ \E a \in Mail!Answers : Mail!Answer(r, a)
          \/ /\ mailReqs[r].op = "issue"
             /\ mailReqs' = [mailReqs EXCEPT ![r] = [loaded EXCEPT !.pc = "insert"]]
          \/ /\ mailReqs[r].op # "issue" /\ Mail!Last(Mail!Active) # 0
             /\ mailReqs' = [mailReqs EXCEPT ![r] = [loaded EXCEPT !.pc = "compare"]]
      BY <1>2, AnswersKnown DEF Mail!Load
    <2> QED
      BY <2>1, <2>2, <2>3, <2>4
  <1>3. CASE Mail!RightCode(r)
    BY <1>0, <1>3 DEF Mail!RightCode, Mail!Goto, MailReq
  <1>4. CASE Mail!LoadUser(r)
    <2>1. CASE Mail!Answer(r, "verified")
      BY <2>1, <1>1, AnswersKnown
    <2>2. CASE Mail!Goto(r, "load")
      BY <2>2, <1>0 DEF Mail!Goto, MailReq
    <2> QED
      BY <1>4, <2>1, <2>2 DEF Mail!LoadUser
  <1>5. CASE \E op \in {"issue", "confirm"}, given \in 0..MaxCodes : Mail!Begin(r, op, given)
    BY <1>5, <1>0 DEF Mail!Begin, Mail!Idle, MailReq
  <1>6. CASE \/ Mail!SendCode(r) \/ Mail!CountAttempt(r) \/ Mail!Settle(r) \/ Mail!EmailExists(r)
             \/ Mail!Abort(r)
    BY <1>6, <1>1, AnswersKnown
    DEF Mail!SendCode, Mail!CountAttempt, Mail!Settle, Mail!EmailExists, Mail!Abort
  <1>7. CASE Mail!WrongCode(r)
    BY <1>0, <1>7 DEF Mail!WrongCode, Mail!Goto, MailReq
  <1> QED
    BY <1>2, <1>3, <1>4, <1>5, <1>6, <1>7 DEF MailMoves

(* A step is one of these, an insertion, the passing of time or a stutter. *)
LEMMA StepCases ==
    ASSUME [Mail!Next]_(Mail!vars)
    PROVE  \/ \E r \in Requests : MailMoves(r) \/ Mail!InsertCode(r)
           \/ \E i \in Mail!Rows : Mail!Ages(i)
           \/ UNCHANGED Mail!vars
  BY DEF Mail!Next, MailMoves, Mail!VerifyEmail, Mail!ChangeEmail

(* Time makes rows older and changes nothing else.                         *)
LEMMA AgesOnly ==
    ASSUME MailTypeOK, NEW i \in Mail!Rows, Mail!Ages(i)
    PROVE  /\ Mail!Issued' = Mail!Issued /\ Mail!Active' = Mail!Active
           /\ \A j \in Mail!Rows : code'[j].attempts = code[j].attempts
           /\ UNCHANGED <<mailReqs, mailWrong, mailUncounted, mailRaced>>
  BY DEF Mail!Ages, MailTypeOK, MailCopy, Mail!Issued, Mail!Active

(* The new row, and what an insertion leaves as it is.                     *)
LEMMA Inserted ==
    ASSUME MailInstance, MailTypeOK, Packed, Placed, NEW r \in Requests, Mail!InsertCode(r)
    PROVE  \E n \in 0..MaxCodes - 1 :
             /\ Mail!Issued = 1..n /\ Mail!Issued' = 1..(n + 1) /\ n + 1 \in Mail!Rows
             /\ Mail!Active' \subseteq {n + 1} \cup (Mail!Active \ {mailReqs[r].at})
             /\ n + 1 \in Mail!Active' /\ code'[n + 1].attempts = 0
             /\ code[n + 1].attempts = 0
             /\ \A j \in Mail!Rows : code'[j].attempts = code[j].attempts
             /\ \A q \in Requests \ {r} : mailReqs'[q] = mailReqs[q]
             /\ mailReqs'[r].pc = "mail" /\ mailReqs'[r].op = mailReqs[r].op /\ mailReqs'[r].at = n + 1
  <1>1. PICK n \in 0..MaxCodes - 1 :
             /\ Mail!Issued = 1..n /\ n + 1 \in Mail!Rows /\ n + 1 \notin Mail!Issued
             /\ code' = [j \in Mail!Rows |-> IF j = n + 1 THEN [Mail!NoRow EXCEPT !.st = "active"]
                                       ELSE IF j = mailReqs[r].at THEN [code[j] EXCEPT !.st = "consumed"]
                                       ELSE code[j]]
             /\ mailReqs' = [mailReqs EXCEPT ![r].pc = "mail", ![r].at = n + 1]
    BY NewRow
  <1>2. code'[n + 1] = [Mail!NoRow EXCEPT !.st = "active"]
    BY <1>1
  <1>3. code'[n + 1].st = "active" /\ code'[n + 1].attempts = 0
    BY <1>2 DEF Mail!NoRow
  <1>4. code[n + 1].attempts = 0
    BY <1>1 DEF Packed
  <1>5. \A j \in Mail!Rows \ {n + 1} : /\ code'[j].attempts = code[j].attempts
                                  /\ code'[j].st = IF j = mailReqs[r].at THEN "consumed" ELSE code[j].st
    BY <1>1 DEF MailTypeOK, MailCopy
  <1>6. mailReqs[r].at # 0 => mailReqs[r].at \in Mail!Issued
    BY DEF Placed, Mail!InsertCode
  <1>7. Mail!Issued' = Mail!Issued \cup {n + 1}
    <2>1. \A j \in Mail!Rows : j # 0
      BY DEF Mail!Rows, MailInstance
    <2>2. \A j \in Mail!Rows \ {n + 1} : code'[j].st # "none" <=> code[j].st # "none"
      BY <2>1, <1>5, <1>6 DEF Mail!Issued
    <2> QED
      BY <2>2, <1>1, <1>3 DEF Mail!Issued
  <1>8. Mail!Issued' = 1..(n + 1)
    BY <1>1, <1>7 DEF MailInstance
  <1>9. Mail!Active' \subseteq {n + 1} \cup (Mail!Active \ {mailReqs[r].at}) /\ n + 1 \in Mail!Active'
    BY <1>1, <1>3, <1>5 DEF Mail!Active
  <1>10. /\ \A q \in Requests \ {r} : mailReqs'[q] = mailReqs[q]
         /\ mailReqs'[r].pc = "mail" /\ mailReqs'[r].op = mailReqs[r].op /\ mailReqs'[r].at = n + 1
    BY <1>1 DEF MailTypeOK, MailReq
  <1>11. \A j \in Mail!Rows : code'[j].attempts = code[j].attempts
    BY <1>3, <1>4, <1>5
  <1> QED
    BY <1>1, <1>3, <1>4, <1>8, <1>9, <1>10, <1>11

LEMMA PackedHolds == MailInstance /\ MailTypeOK /\ Packed /\ Placed /\ [Mail!Next]_(Mail!vars) => Packed'
  <1> SUFFICES ASSUME MailInstance, MailTypeOK, Packed, Placed, [Mail!Next]_(Mail!vars) PROVE Packed'
    OBVIOUS
  <1>1. ASSUME NEW r \in Requests, MailMoves(r) PROVE Packed'
    BY <1>1, RowsOf DEF Packed
  <1>2. ASSUME NEW r \in Requests, Mail!InsertCode(r) PROVE Packed'
    <2>1. PICK n \in 0..MaxCodes - 1 :
             /\ Mail!Issued = 1..n /\ Mail!Issued' = 1..(n + 1)
             /\ \A j \in Mail!Rows : code'[j].attempts = code[j].attempts
      BY <1>2, Inserted
    <2>2. n + 1 \in 0..MaxCodes /\ Mail!Issued \subseteq Mail!Issued'
      BY <2>1 DEF MailInstance
    <2> QED
      BY <2>1, <2>2 DEF Packed
  <1>3. ASSUME NEW i \in Mail!Rows, Mail!Ages(i) PROVE Packed'
    BY <1>3, AgesOnly DEF Packed
  <1>4. CASE UNCHANGED Mail!vars
    BY <1>4 DEF Mail!vars, Packed, Mail!Issued
  <1> QED
    BY <1>1, <1>2, <1>3, <1>4, StepCases

LEMMA PlacedHolds == MailInstance /\ MailTypeOK /\ Packed /\ Placed /\ [Mail!Next]_(Mail!vars) => Placed'
  <1> SUFFICES ASSUME MailInstance, MailTypeOK, Packed, Placed, [Mail!Next]_(Mail!vars) PROVE Placed'
    OBVIOUS
  <1>1. ASSUME NEW r \in Requests, MailMoves(r) PROVE Placed'
    <2>1. Mail!Issued' = Mail!Issued /\ \A q \in Requests \ {r} : mailReqs'[q] = mailReqs[q]
      BY <1>1, RowsOf
    <2>2. Mail!Last(Mail!Active) # 0 => Mail!Last(Mail!Active) \in Mail!Issued
      BY ActiveRows, LastIsRow
    <2>3. /\ mailReqs'[r].pc \in {"insert", "mail"} => mailReqs'[r].op = "issue"
          /\ mailReqs'[r].pc \in {"compare", "count", "swap"} => mailReqs'[r].op = "confirm"
          /\ mailReqs'[r].pc \in {"insert", "mail", "compare", "count", "swap"} /\ mailReqs'[r].at # 0
               => mailReqs'[r].at \in Mail!Issued
          /\ mailReqs'[r].pc \in {"mail", "compare", "count", "swap"} => mailReqs'[r].at # 0
      BY <1>1, <2>2, Where DEF Placed
    <2> QED
      BY <2>1, <2>3 DEF Placed
  <1>2. ASSUME NEW r \in Requests, Mail!InsertCode(r) PROVE Placed'
    <2>1. PICK n \in 0..MaxCodes - 1 :
             /\ Mail!Issued = 1..n /\ Mail!Issued' = 1..(n + 1)
             /\ \A q \in Requests \ {r} : mailReqs'[q] = mailReqs[q]
             /\ mailReqs'[r].pc = "mail" /\ mailReqs'[r].op = mailReqs[r].op /\ mailReqs'[r].at = n + 1
      BY <1>2, Inserted
    <2>2. Mail!Issued \subseteq Mail!Issued' /\ n + 1 \in Mail!Issued' /\ n + 1 # 0
      BY <2>1 DEF MailInstance
    <2>3. mailReqs[r].op = "issue"
      BY <1>2 DEF Placed, Mail!InsertCode
    <2> QED
      BY <2>1, <2>2, <2>3 DEF Placed
  <1>3. ASSUME NEW i \in Mail!Rows, Mail!Ages(i) PROVE Placed'
    BY <1>3, AgesOnly DEF Placed
  <1>4. CASE UNCHANGED Mail!vars
    BY <1>4 DEF Mail!vars, Placed, Mail!Issued
  <1> QED
    BY <1>1, <1>2, <1>3, <1>4, StepCases

-----------------------------------------------------------------------------
(* While requests for a code do not overlap.                               *)

LEMMA NewestHolds ==
    ASSUME MailInstance, MailTypeOK, Packed, Placed, [Mail!Next]_(Mail!vars),
           "issue" \notin mailRaced => NewestInForce, "issue" \notin mailRaced'
    PROVE  NewestInForce'
  <1>1. ASSUME NEW r \in Requests, MailMoves(r) PROVE NewestInForce'
    <2>1. /\ Mail!Issued' = Mail!Issued /\ Mail!Active' \subseteq Mail!Active
          /\ \A q \in Requests \ {r} : mailReqs'[q] = mailReqs[q]
      BY <1>1, RowsOf
    <2>2. mailRaced \subseteq mailRaced'
      BY <1>1 DEF MailMoves, Mail!LoadUser, Mail!Load, Mail!SendCode, Mail!WrongCode, Mail!CountAttempt, Mail!RightCode,
                  Mail!Settle, Mail!EmailExists, Mail!Abort, Mail!Begin
    <2>3. NewestInForce /\ "issue" \notin mailRaced
      BY <2>2
    <2>4. \/ Mail!Active = {} /\ Mail!Last(Mail!Active) = 0
          \/ Mail!Active = {Mail!Last(Mail!Active)} /\ Mail!Last(Mail!Active) = Mail!Last(Mail!Issued)
      BY <2>3, LastActive
    <2>5. Mail!Load(r) /\ mailReqs[r].op = "issue" => \A q \in Requests \ {r} : mailReqs[q].pc # "insert"
      <3> SUFFICES ASSUME Mail!Load(r), mailReqs[r].op = "issue", NEW q \in Requests, mailReqs[q].pc = "insert"
                   PROVE  FALSE
        OBVIOUS
      <3>1. Mail!Past(q, "issue")
        BY DEF Mail!Past, Placed
      <3> QED
        BY <3>1 DEF Mail!Load
    <2>6. Mail!Last(Mail!Issued)' = Mail!Last(Mail!Issued)
      BY <2>1 DEF Mail!Last
    <2>7. \A i \in Mail!Active' : i = Mail!Last(Mail!Issued)'
      BY <2>1, <2>3, <2>6 DEF NewestInForce
    <2>8. mailReqs'[r].pc = "insert" => /\ \A i \in Mail!Active : i = mailReqs'[r].at
                                   /\ \A q \in Requests \ {r} : mailReqs'[q].pc # "insert"
      BY <1>1, <2>1, <2>4, <2>5, Where
    <2>9. mailReqs'[r].pc \in {"compare", "swap"} => mailReqs'[r].at = mailReqs'[r].newest
      BY <1>1, <2>3, <2>4, Where DEF NewestInForce
    <2> QED
      BY <2>1, <2>3, <2>7, <2>8, <2>9 DEF NewestInForce
  <1>2. ASSUME NEW r \in Requests, Mail!InsertCode(r) PROVE NewestInForce'
    <2>1. PICK n \in 0..MaxCodes - 1 :
             /\ Mail!Issued' = 1..(n + 1)
             /\ Mail!Active' \subseteq {n + 1} \cup (Mail!Active \ {mailReqs[r].at})
             /\ \A q \in Requests \ {r} : mailReqs'[q] = mailReqs[q]
             /\ mailReqs'[r].pc = "mail"
      BY <1>2, Inserted
    <2>2. mailRaced' = mailRaced /\ mailReqs[r].pc = "insert"
      BY <1>2 DEF Mail!InsertCode
    <2>3. NewestInForce
      BY <2>2
    <2>4. Mail!Active' \subseteq {n + 1}
      BY <2>1, <2>2, <2>3 DEF NewestInForce
    <2>5. Mail!Last(Mail!Issued)' = n + 1
      <3>1. Mail!Issued' \in SUBSET Nat /\ n + 1 \in Mail!Issued' /\ \A y \in Mail!Issued' : y <= n + 1
        BY <2>1 DEF MailInstance
      <3>2. Mail!Last(Mail!Issued') = n + 1
        BY <3>1, LastIs
      <3> QED
        BY <3>2 DEF Mail!Last
    <2>6. \A q \in Requests : mailReqs'[q].pc # "insert"
      BY <2>1, <2>2, <2>3 DEF NewestInForce
    <2> QED
      BY <2>1, <2>3, <2>4, <2>5, <2>6 DEF NewestInForce
  <1>3. ASSUME NEW i \in Mail!Rows, Mail!Ages(i) PROVE NewestInForce'
    <2>1. /\ Mail!Issued' = Mail!Issued /\ Mail!Active' = Mail!Active /\ mailReqs' = mailReqs /\ mailRaced' = mailRaced
      BY <1>3, AgesOnly
    <2>2. Mail!Last(Mail!Issued)' = Mail!Last(Mail!Issued)
      BY <2>1 DEF Mail!Last
    <2> QED
      BY <2>1, <2>2 DEF NewestInForce
  <1>4. CASE UNCHANGED Mail!vars
    <2>1. /\ Mail!Issued' = Mail!Issued /\ Mail!Active' = Mail!Active /\ mailReqs' = mailReqs /\ mailRaced' = mailRaced
      BY <1>4 DEF Mail!vars, Mail!Issued, Mail!Active
    <2>2. Mail!Last(Mail!Issued)' = Mail!Last(Mail!Issued)
      BY <2>1 DEF Mail!Last
    <2> QED
      BY <2>1, <2>2 DEF NewestInForce
  <1> QED
    BY <1>1, <1>2, <1>3, <1>4, StepCases

-----------------------------------------------------------------------------
(* While confirmations do not overlap.                                     *)

(* A step that leaves the counters alone.                                  *)
LEMMA CounterStays ==
    ASSUME MailInstance, MailTypeOK, Placed, CounterKept, NEW r \in Requests,
           UNCHANGED <<mailWrong, mailUncounted>>,
           \A i \in Mail!Rows : code'[i].attempts = code[i].attempts,
           Mail!Active' \subseteq Mail!Active,
           \A q \in Requests \ {r} : mailReqs'[q] = mailReqs[q],
           mailReqs[r].pc # "count", mailReqs'[r].pc # "count",
           mailReqs'[r].pc = "compare" =>
               /\ \A q \in Requests \ {r} : ~Weighing(q)
               /\ mailReqs'[r].at \in Mail!Active /\ mailReqs'[r].copy = code[mailReqs'[r].at]
    PROVE  CounterKept'
  <1>1. Mail!Active \subseteq Mail!Rows
    BY DEF Mail!Active
  <1>2. \A i \in Mail!Rows : CountDue(i)' <=> CountDue(i)
    BY DEF CountDue
  <1>3. /\ \A i \in Mail!Rows : /\ mailWrong'[i] = code'[i].attempts + mailUncounted'[i]
                                                  + (IF CountDue(i)' THEN 1 ELSE 0)
                                /\ code'[i].attempts <= MaxAttempts
        /\ \A i \in Mail!Active' : code'[i].attempts < MaxAttempts
    BY <1>1, <1>2 DEF CounterKept
  <1>4. \A p, q \in Requests : Weighing(p)' /\ Weighing(q)' => p = q
    BY DEF CounterKept, Weighing
  <1>5. ASSUME NEW q \in Requests, Weighing(q)'
        PROVE  /\ mailReqs'[q].copy.attempts = code'[mailReqs'[q].at].attempts
               /\ mailReqs'[q].copy.attempts < MaxAttempts
    <2>1. CASE q = r
      <3>1. mailReqs'[r].at \in Mail!Active /\ mailReqs'[r].at \in Mail!Rows /\ mailReqs'[r].copy = code[mailReqs'[r].at]
        BY <1>1, <1>5, <2>1 DEF Weighing
      <3>2. code[mailReqs'[r].at].attempts < MaxAttempts
        BY <3>1 DEF CounterKept
      <3> QED
        BY <2>1, <3>1, <3>2
    <2>2. CASE q # r
      <3>1. mailReqs'[q] = mailReqs[q] /\ Weighing(q)
        BY <1>5, <2>2 DEF Weighing
      <3>2. mailReqs[q].at \in Mail!Rows
        BY <3>1 DEF Placed, Mail!Issued, Weighing
      <3> QED
        BY <3>1, <3>2 DEF CounterKept
    <2> QED
      BY <2>1, <2>2
  <1> QED
    BY <1>3, <1>4, <1>5 DEF CounterKept

(* The request that has compared is the only one that weighs a code, and   *)
(* its row the only one about to be counted for.                           *)
LEMMA CountsAlone ==
    ASSUME MailTypeOK, Placed, CounterKept, NEW r \in Requests, Weighing(r)
    PROVE  /\ mailReqs[r].at \in Mail!Rows
           /\ \A q \in Requests \ {r} : ~Weighing(q)
           /\ \A i \in Mail!Rows : CountDue(i) <=> mailReqs[r].pc = "count" /\ mailReqs[r].at = i
  <1>1. mailReqs[r].at \in Mail!Rows
    BY DEF Placed, Mail!Issued, Weighing
  <1>2. \A q \in Requests \ {r} : ~Weighing(q)
    BY DEF CounterKept
  <1>3. \A i \in Mail!Rows : CountDue(i) <=> mailReqs[r].pc = "count" /\ mailReqs[r].at = i
    BY <1>2 DEF CountDue, Weighing
  <1> QED
    BY <1>1, <1>2, <1>3

(* A code was compared and found wrong: it is counted for from now on.     *)
LEMMA WrongCodeCounts ==
    ASSUME MailInstance, MailTypeOK, Placed, CounterKept, NEW r \in Requests, Mail!WrongCode(r)
    PROVE  CounterKept'
  <1> DEFINE k == mailReqs[r].at
  <1>1. Weighing(r) /\ mailReqs[r].pc = "compare" /\ MailMoves(r)
    BY DEF Mail!WrongCode, Weighing, MailMoves
  <1>2. /\ k \in Mail!Rows /\ \A q \in Requests \ {r} : ~Weighing(q)
        /\ \A i \in Mail!Rows : ~CountDue(i)
    BY <1>1, CountsAlone
  <1>3. /\ mailWrong' = [mailWrong EXCEPT ![k] = @ + 1] /\ UNCHANGED <<code, mailUncounted>>
        /\ mailReqs' = [mailReqs EXCEPT ![r].pc = "count"]
    BY DEF Mail!WrongCode, Mail!Goto
  <1>4. /\ mailReqs'[r].pc = "count" /\ mailReqs'[r].at = k /\ mailReqs'[r].copy = mailReqs[r].copy
        /\ \A q \in Requests \ {r} : mailReqs'[q] = mailReqs[q]
    BY <1>3 DEF MailTypeOK, MailReq
  <1>5. \A i \in Mail!Rows : CountDue(i)' <=> i = k
    BY <1>2, <1>4 DEF CountDue, Weighing
  <1>6. \A i \in Mail!Rows : /\ mailWrong'[i] = code'[i].attempts + mailUncounted'[i]
                                               + (IF CountDue(i)' THEN 1 ELSE 0)
                             /\ code'[i].attempts <= MaxAttempts
    BY <1>2, <1>3, <1>5 DEF CounterKept, MailTypeOK, MailCopy
  <1>7. \A q \in Requests : Weighing(q)' => q = r
    BY <1>2, <1>4 DEF Weighing
  <1>8. /\ \A i \in Mail!Active' : code'[i].attempts < MaxAttempts
        /\ mailReqs'[r].copy.attempts = code'[mailReqs'[r].at].attempts
        /\ mailReqs'[r].copy.attempts < MaxAttempts
    BY <1>1, <1>3, <1>4 DEF CounterKept, Mail!Active
  <1> QED
    BY <1>6, <1>7, <1>8 DEF CounterKept

(* It is counted: the row's counter is one higher, and at the limit the    *)
(* row is dead.                                                            *)
LEMMA AttemptCounts ==
    ASSUME MailInstance, MailTypeOK, Placed, CounterKept, NEW r \in Requests, Mail!CountAttempt(r)
    PROVE  CounterKept'
  <1> DEFINE k == mailReqs[r].at
             n == mailReqs[r].copy.attempts + 1
  <1>1. Weighing(r) /\ mailReqs[r].pc = "count" /\ MailMoves(r)
    BY DEF Mail!CountAttempt, Weighing, MailMoves
  <1>2. /\ k \in Mail!Rows /\ \A q \in Requests \ {r} : ~Weighing(q)
        /\ \A i \in Mail!Rows : CountDue(i) <=> i = k
    BY <1>1, CountsAlone
  <1>3. /\ code[k].attempts = mailReqs[r].copy.attempts /\ mailReqs[r].copy.attempts < MaxAttempts
        /\ code[k].attempts \in Nat /\ mailReqs[r].copy.attempts \in Nat
    BY <1>1, <1>2 DEF CounterKept, MailTypeOK, MailReq, MailCopy
  <1>4. n \in Nat /\ n = code[k].attempts + 1 /\ n <= MaxAttempts
    BY <1>3 DEF MailInstance
  <1>5. /\ UNCHANGED <<mailWrong, mailUncounted>>
        /\ code'[k].attempts = n /\ (n >= MaxAttempts => k \notin Mail!Active')
        /\ \A i \in Mail!Rows \ {k} : code'[i] = code[i]
    BY <1>2 DEF Mail!CountAttempt, MailTypeOK, MailCopy, Mail!Active
  <1>6. /\ Mail!Active' \subseteq Mail!Active /\ \A q \in Requests \ {r} : mailReqs'[q] = mailReqs[q]
    BY <1>1, RowsOf
  <1>7. mailReqs'[r].pc \notin {"compare", "count"}
    BY AnswersKnown DEF Mail!CountAttempt, Mail!Answer, Mail!Idle, MailTypeOK
  <1>8. \A q \in Requests : ~Weighing(q)'
    BY <1>2, <1>6, <1>7 DEF Weighing
  <1>9. \A i \in Mail!Rows : ~CountDue(i)'
    BY <1>8 DEF CountDue, Weighing
  <1> HIDE DEF k, n
  <1>10. \A i \in Mail!Rows : /\ mailWrong'[i] = code'[i].attempts + mailUncounted'[i]
                                                + (IF CountDue(i)' THEN 1 ELSE 0)
                              /\ code'[i].attempts <= MaxAttempts
    <2> TAKE i \in Mail!Rows
    <2>1. /\ mailWrong[i] = code[i].attempts + mailUncounted[i] + (IF i = k THEN 1 ELSE 0)
          /\ code[i].attempts <= MaxAttempts /\ mailUncounted[i] \in Nat /\ code[i].attempts \in Nat
      BY <1>2 DEF CounterKept, MailTypeOK, MailCopy
    <2>2. /\ ~CountDue(i)'
          /\ mailWrong'[i] = mailWrong[i] /\ mailUncounted'[i] = mailUncounted[i]
      BY <1>5, <1>9
    <2>3. code'[i].attempts = (IF i = k THEN n ELSE code[i].attempts)
      BY <1>5
    <2> QED
      BY <1>4, <2>1, <2>2, <2>3
  <1>11. \A i \in Mail!Active' : code'[i].attempts < MaxAttempts
    <2>1. Mail!Active \subseteq Mail!Rows
      BY DEF Mail!Active
    <2>2. k \in Mail!Active' => n < MaxAttempts
      BY <1>4, <1>5 DEF MailInstance
    <2> QED
      BY <1>5, <1>6, <2>1, <2>2 DEF CounterKept
  <1> QED
    BY <1>8, <1>10, <1>11 DEF CounterKept

(* Its commit fails.                                                       *)
LEMMA AttemptLost ==
    ASSUME MailInstance, MailTypeOK, Placed, CounterKept, NEW r \in Requests,
           Mail!Abort(r), mailReqs[r].pc = "count"
    PROVE  CounterKept'
  <1> DEFINE k == mailReqs[r].at
  <1>1. Weighing(r)
    BY DEF Weighing
  <1>2. /\ k \in Mail!Rows /\ \A q \in Requests \ {r} : ~Weighing(q)
        /\ \A i \in Mail!Rows : CountDue(i) <=> i = k
    BY <1>1, CountsAlone
  <1>3. /\ UNCHANGED <<code, mailWrong>>
        /\ mailUncounted' = [mailUncounted EXCEPT ![k] = @ + 1]
        /\ \A q \in Requests \ {r} : mailReqs'[q] = mailReqs[q]
        /\ mailReqs'[r].pc = "idle"
    BY DEF Mail!Abort, Mail!Answer, Mail!Idle, MailTypeOK
  <1>4. \A q \in Requests : ~Weighing(q)'
    BY <1>2, <1>3 DEF Weighing
  <1>5. \A i \in Mail!Rows : ~CountDue(i)'
    BY <1>4 DEF CountDue, Weighing
  <1>6. \A i \in Mail!Rows : mailWrong'[i] = code'[i].attempts + mailUncounted'[i]
                                             + (IF CountDue(i)' THEN 1 ELSE 0)
    BY <1>2, <1>3, <1>5 DEF CounterKept, MailTypeOK, MailCopy
  <1> QED
    BY <1>3, <1>4, <1>6 DEF CounterKept, Mail!Active

LEMMA CounterHolds ==
    ASSUME MailInstance, MailTypeOK, Packed, Placed, [Mail!Next]_(Mail!vars),
           "confirm" \notin mailRaced => CounterKept, "confirm" \notin mailRaced'
    PROVE  CounterKept'
  <1>1. ASSUME NEW r \in Requests, MailMoves(r), mailReqs[r].pc # "count", ~Mail!WrongCode(r)
        PROVE  CounterKept'
    <2>1. /\ Mail!Active' \subseteq Mail!Active
          /\ \A q \in Requests \ {r} : mailReqs'[q] = mailReqs[q]
      BY <1>1, RowsOf
    <2>2. mailRaced \subseteq mailRaced' /\ UNCHANGED <<mailWrong, mailUncounted>>
      BY <1>1 DEF MailMoves, Mail!LoadUser, Mail!Load, Mail!SendCode, Mail!CountAttempt, Mail!RightCode,
                  Mail!Settle, Mail!EmailExists, Mail!Abort, Mail!Begin
    <2>3. CounterKept
      BY <2>2
    <2>4. \/ code' = code
          \/ \E i \in 0..MaxCodes : code' = [code EXCEPT ![i].st = "consumed"]
          \/ \E i \in 0..MaxCodes : code' = [code EXCEPT ![i].sent = TRUE]
      <3>1. Mail!Last(Mail!Active) \in 0..MaxCodes /\ mailReqs[r].at \in 0..MaxCodes
        BY ActiveRows, LastIsRow DEF MailTypeOK, MailReq
      <3> QED
        BY <1>1, <3>1 DEF MailMoves, Mail!LoadUser, Mail!Load, Mail!SendCode, Mail!CountAttempt, Mail!RightCode,
                          Mail!Settle, Mail!EmailExists, Mail!Abort, Mail!Begin
    <2>5. \A i \in Mail!Rows : code'[i].attempts = code[i].attempts
      BY <2>4 DEF MailTypeOK, MailCopy
    <2>6. mailReqs'[r].pc # "count"
      BY <1>1, Where
    <2>7. mailReqs'[r].pc = "compare" =>
              /\ \A q \in Requests \ {r} : ~Weighing(q)
              /\ mailReqs'[r].at \in Mail!Active /\ mailReqs'[r].copy = code[mailReqs'[r].at]
      <3> SUFFICES ASSUME mailReqs'[r].pc = "compare"
                   PROVE  /\ \A q \in Requests \ {r} : ~Weighing(q)
                          /\ mailReqs'[r].at \in Mail!Active /\ mailReqs'[r].copy = code[mailReqs'[r].at]
        OBVIOUS
      <3>1. /\ Mail!Load(r) /\ mailReqs[r].op = "confirm"
            /\ mailReqs'[r].at = Mail!Last(Mail!Active) /\ Mail!Last(Mail!Active) # 0
            /\ mailReqs'[r].copy = code[Mail!Last(Mail!Active)]
        BY <1>1, Where
      <3>2. Mail!Last(Mail!Active) \in Mail!Active
        BY <3>1, ActiveRows, LastIsRow
      <3>3. ASSUME NEW q \in Requests \ {r}, Weighing(q) PROVE FALSE
        <4>1. Mail!Past(q, "confirm")
          BY <3>3 DEF Mail!Past, Placed, Weighing
        <4> QED
          BY <3>1, <4>1 DEF Mail!Load
      <3> QED
        BY <3>1, <3>2, <3>3
    <2> QED
      BY <1>1, <2>1, <2>2, <2>3, <2>5, <2>6, <2>7, CounterStays
  <1>2. ASSUME NEW r \in Requests, Mail!WrongCode(r) PROVE CounterKept'
    <2>1. CounterKept
      BY <1>2 DEF Mail!WrongCode
    <2> QED
      BY <1>2, <2>1, WrongCodeCounts
  <1>3. ASSUME NEW r \in Requests, MailMoves(r), mailReqs[r].pc = "count" PROVE CounterKept'
    <2>1. Mail!CountAttempt(r) \/ Mail!Abort(r)
      BY <1>3 DEF MailMoves, Mail!LoadUser, Mail!Load, Mail!SendCode, Mail!WrongCode, Mail!RightCode,
                  Mail!Settle, Mail!EmailExists, Mail!Begin
    <2>2. CounterKept
      BY <2>1 DEF Mail!CountAttempt, Mail!Abort
    <2> QED
      BY <1>3, <2>1, <2>2, AttemptCounts, AttemptLost
  <1>4. ASSUME NEW r \in Requests, Mail!InsertCode(r) PROVE CounterKept'
    <2>1. PICK n \in 0..MaxCodes - 1 :
             /\ Mail!Issued = 1..n /\ n + 1 \in Mail!Rows
             /\ Mail!Active' \subseteq {n + 1} \cup (Mail!Active \ {mailReqs[r].at})
             /\ code[n + 1].attempts = 0
             /\ \A j \in Mail!Rows : code'[j].attempts = code[j].attempts
             /\ \A q \in Requests \ {r} : mailReqs'[q] = mailReqs[q]
             /\ mailReqs'[r].pc = "mail"
      BY <1>4, Inserted
    <2>2. UNCHANGED <<mailRaced, mailWrong, mailUncounted>> /\ mailReqs[r].pc = "insert"
      BY <1>4 DEF Mail!InsertCode
    <2>3. CounterKept
      BY <2>2
    <2>4. code'[n + 1].attempts < MaxAttempts
      BY <2>1, <2>3 DEF MailInstance
    <2>5. \A q \in Requests : Weighing(q) => mailReqs[q].at \in Mail!Rows
      BY DEF Placed, Mail!Issued, Weighing
    <2>6. \A i \in Mail!Rows : CountDue(i)' <=> CountDue(i)
      BY <2>1, <2>2 DEF CountDue
    <2>7. \A q \in Requests : Weighing(q)' => Weighing(q) /\ mailReqs'[q] = mailReqs[q]
      BY <2>1 DEF Weighing
    <2>8. \A i \in Mail!Active' : code'[i].attempts < MaxAttempts
      <3>1. Mail!Active \subseteq Mail!Rows
        BY DEF Mail!Active
      <3> QED
        BY <2>1, <2>3, <2>4, <3>1 DEF CounterKept
    <2>9. \A i \in Mail!Rows : /\ mailWrong'[i] = code'[i].attempts + mailUncounted'[i]
                                                 + (IF CountDue(i)' THEN 1 ELSE 0)
                               /\ code'[i].attempts <= MaxAttempts
      BY <2>1, <2>2, <2>3, <2>6 DEF CounterKept
    <2> QED
      BY <2>1, <2>3, <2>5, <2>7, <2>8, <2>9 DEF CounterKept
  <1>5. ASSUME NEW i \in Mail!Rows, Mail!Ages(i) PROVE CounterKept'
    <2>1. /\ Mail!Active' = Mail!Active
          /\ UNCHANGED <<mailReqs, mailRaced, mailWrong, mailUncounted>>
          /\ \A j \in Mail!Rows : code'[j].attempts = code[j].attempts
      BY <1>5, AgesOnly
    <2>2. \A q \in Requests : Weighing(q) => mailReqs[q].at \in Mail!Rows
      BY DEF Placed, Mail!Issued, Weighing
    <2>3. Mail!Active \subseteq Mail!Rows
      BY DEF Mail!Active
    <2>4. /\ \A q \in Requests : Weighing(q)' <=> Weighing(q)
          /\ \A j \in Mail!Rows : CountDue(j)' <=> CountDue(j)
      BY <2>1 DEF Weighing, CountDue
    <2> QED
      BY <2>1, <2>2, <2>3, <2>4 DEF CounterKept
  <1>6. CASE UNCHANGED Mail!vars
    BY <1>6 DEF Mail!vars, CounterKept, Mail!Active, Weighing, CountDue
  <1> QED
    BY <1>1, <1>2, <1>3, <1>4, <1>5, <1>6, StepCases

-----------------------------------------------------------------------------

LEMMA MailInitially == MailInstance /\ Mail!Init => MailIInv
  <1> SUFFICES ASSUME MailInstance, Mail!Init PROVE MailIInv
    OBVIOUS
  <1>1. Mail!Issued = {} /\ Mail!Active = {}
    BY DEF Mail!Init, Mail!NoRow, Mail!Issued, Mail!Active
  <1>2. MailTypeOK
    <2>1. Mail!Idle("none") \in MailReq
      BY IdleTyped, AnswersKnown
    <2> QED
      BY <2>1, NoRowTyped DEF Mail!Init, MailTypeOK
  <1>3. Packed
    <2>1. Mail!Issued = 1..0 /\ 0 \in 0..MaxCodes
      BY <1>1 DEF MailInstance
    <2> QED
      BY <2>1 DEF Packed, Mail!Init, Mail!NoRow
  <1>4. \A r \in Requests : mailReqs[r].pc = "idle"
    BY DEF Mail!Init, Mail!Idle
  <1>5. Placed /\ NewestInForce
    BY <1>1, <1>4 DEF Placed, NewestInForce
  <1>6. CounterKept
    BY <1>1, <1>4 DEF CounterKept, Weighing, CountDue, Mail!Init, Mail!NoRow, MailInstance
  <1> QED
    BY <1>2, <1>3, <1>5, <1>6 DEF MailIInv

LEMMA MailInductive == MailInstance /\ MailIInv /\ [Mail!Next]_(Mail!vars) => MailIInv'
  BY MailTypeHolds, PackedHolds, PlacedHolds, NewestHolds, CounterHolds DEF MailIInv

(* A superseded code stays dead, and a code is compared with no more wrong *)
(* guesses than the limit and those whose commit failed: CodesHold, for    *)
(* every limit and any requests (services/email_verifications.py).         *)
THEOREM CodesAreSound ==
    RowSpec => []CodesHold
  <1>1. MailInstance
    BY SharedRowsAssumption DEF MailInstance
  <1>2. MailIInv => CodesHold
    <2> SUFFICES ASSUME MailIInv PROVE Mail!SupersededStaysDead /\ Mail!GuessesBounded
      BY DEF CodesHold, Mail!CodesHold
    <2>1. Mail!SupersededStaysDead
      BY DEF MailIInv, NewestInForce, Mail!SupersededStaysDead
    <2>2. ASSUME "confirm" \notin mailRaced, NEW i \in Mail!Rows
          PROVE  mailWrong[i] <= MaxAttempts + mailUncounted[i]
      <3>1. /\ CounterKept /\ code[i].attempts \in Nat /\ mailUncounted[i] \in Nat
            /\ mailWrong[i] = code[i].attempts + mailUncounted[i] + (IF CountDue(i) THEN 1 ELSE 0)
            /\ code[i].attempts <= MaxAttempts
        BY <2>2 DEF MailIInv, MailTypeOK, MailCopy, CounterKept
      <3>2. CountDue(i) => code[i].attempts < MaxAttempts
        BY <3>1 DEF CounterKept, CountDue, Weighing
      <3> QED
        BY <1>1, <3>1, <3>2 DEF MailInstance
    <2> QED
      BY <2>1, <2>2 DEF Mail!GuessesBounded
  <1>3. Mail!Init => MailIInv
    BY <1>1, MailInitially
  <1>4. MailIInv /\ [Mail!Next]_(Mail!vars) => MailIInv'
    BY <1>1, MailInductive
  <1> QED
    BY <1>2, <1>3, <1>4, EmailCodesPart, PTL DEF Mail!Spec

-----------------------------------------------------------------------------
(* SecondFactor                                                            *)

MfaTypeOK ==
    /\ enrolled \in BOOLEAN /\ codes \subseteq Mfa!Code
    /\ handlers \in [Requests -> Mfa!Request]
    /\ lists \in 0..MaxLists /\ accepted \subseteq Mfa!Code
    /\ twice \in BOOLEAN /\ lost \in BOOLEAN

(* What is given or accepted is of a list that has been made, and what a   *)
(* handler is about to spend is in its copy.                               *)
CodesMade ==
    /\ \A c \in accepted : c.list <= lists
    /\ \A r \in Requests : /\ handlers[r].code = Mfa!NoCode \/ handlers[r].code.list <= lists
                           /\ handlers[r].pc = "spend" => handlers[r].code \in handlers[r].list

OneShot ==
    /\ ~twice
    /\ codes \subseteq Mfa!CodesOf(lists) \ accepted
    /\ codes # {} => enrolled

MfaIInv == MfaTypeOK /\ CodesMade /\ (~lost => OneShot)

LEMMA MfaValues ==
  /\ Mfa!Idle \in Mfa!Request /\ Mfa!Idle.pc = "idle" /\ Mfa!Idle.code = Mfa!NoCode
  /\ Mfa!Idle.list = {} /\ ~Mfa!Idle.on
  /\ Mfa!NoCode \notin Mfa!Code
  /\ \A c \in Mfa!Code : c.list \in Nat
  /\ \A l \in 1..MaxLists : Mfa!CodesOf(l) \subseteq Mfa!Code /\ \A c \in Mfa!CodesOf(l) : c.list = l
  <1>1. Mfa!Idle \in Mfa!Request
    BY DEF Mfa!Idle, Mfa!Request, Mfa!Ops
  <1>2. /\ Mfa!Idle.pc = "idle" /\ Mfa!Idle.code = Mfa!NoCode /\ Mfa!Idle.list = {} /\ ~Mfa!Idle.on
    BY DEF Mfa!Idle
  <1>3. Mfa!NoCode \notin Mfa!Code /\ \A c \in Mfa!Code : c.list \in Nat
    BY DEF Mfa!NoCode, Mfa!Code
  <1>4. \A l \in 1..MaxLists : Mfa!CodesOf(l) \subseteq Mfa!Code /\ \A c \in Mfa!CodesOf(l) : c.list = l
    BY DEF Mfa!CodesOf, Mfa!Code
  <1> QED
    BY <1>1, <1>2, <1>3, <1>4

LEMMA MfaInitially == Mfa!Init => MfaIInv
  <1> SUFFICES ASSUME Mfa!Init PROVE MfaIInv
    OBVIOUS
  <1>1. /\ enrolled = FALSE /\ codes = {} /\ lists = 0 /\ accepted = {} /\ twice = FALSE /\ lost = FALSE
        /\ handlers = [r \in Requests |-> Mfa!Idle]
    BY Zenon DEF Mfa!Init
  <1>2. lists \in 0..MaxLists
    BY <1>1, SharedRowsAssumption DEF SharedRowsAssumption
  <1>3. handlers \in [Requests -> Mfa!Request]
    BY <1>1, MfaValues
  <1>4. \A r \in Requests : handlers[r].pc = "idle" /\ handlers[r].code = Mfa!NoCode
    BY <1>1, MfaValues
  <1>5. enrolled \in BOOLEAN /\ twice \in BOOLEAN /\ lost \in BOOLEAN
    BY <1>1, Zenon
  <1>6. MfaTypeOK /\ CodesMade
    BY <1>1, <1>2, <1>3, <1>4, <1>5 DEF MfaTypeOK, CodesMade
  <1>7. OneShot
    BY <1>1 DEF OneShot
  <1> QED
    BY <1>6, <1>7 DEF MfaIInv

(* A handler that moves on without a write of its own.                     *)
LEMMA HandlerMoves ==
  ASSUME MfaIInv, NEW r \in Requests, NEW rec \in Mfa!Request,
         handlers' = [handlers EXCEPT ![r] = rec],
         UNCHANGED <<enrolled, codes, lists, accepted, twice, lost>>,
         rec.code = Mfa!NoCode \/ rec.code.list <= lists,
         rec.pc = "spend" => rec.code \in rec.list
  PROVE  MfaIInv'
  <1>1. /\ handlers \in [Requests -> Mfa!Request] /\ handlers'[r] = rec
        /\ \A q \in Requests \ {r} : handlers'[q] = handlers[q]
    BY DEF MfaIInv, MfaTypeOK
  <1>2. MfaTypeOK'
    BY <1>1 DEF MfaIInv, MfaTypeOK
  <1>3. CodesMade'
    BY <1>1 DEF MfaIInv, CodesMade
  <1> QED
    BY <1>2, <1>3 DEF MfaIInv, OneShot

(* A handler that ends with a write: the list is a new one, none, or what  *)
(* was left of it before.                                                  *)
LEMMA HandlerWrites ==
  ASSUME MfaIInv, NEW r \in Requests, NEW rec \in Mfa!Request,
         handlers' = [handlers EXCEPT ![r] = rec],
         rec.code = Mfa!NoCode \/ rec.code = handlers[r].code, rec.pc # "spend",
         enrolled' \in BOOLEAN, lost' \in BOOLEAN, lost => lost',
         UNCHANGED <<accepted, twice>>, codes' # {} => enrolled' \/ lost',
         \/ codes' = {} /\ UNCHANGED lists
         \/ lists' = lists + 1 /\ lists < MaxLists /\ codes' = Mfa!CodesOf(lists')
  PROVE  MfaIInv'
  <1>1. /\ handlers \in [Requests -> Mfa!Request] /\ handlers'[r] = rec
        /\ \A q \in Requests \ {r} : handlers'[q] = handlers[q]
        /\ lists \in 0..MaxLists /\ accepted \subseteq Mfa!Code /\ MaxLists \in Nat
    BY SharedRowsAssumption DEF MfaIInv, MfaTypeOK, SharedRowsAssumption
  <1>2. lists' \in 0..MaxLists /\ lists <= lists' /\ (codes' = {} \/ lists' \in 1..MaxLists)
    BY <1>1
  <1>3. codes' \subseteq Mfa!Code
    BY <1>2, MfaValues
  <1>4. MfaTypeOK'
    BY <1>1, <1>2, <1>3 DEF MfaIInv, MfaTypeOK
  <1>5. \A c \in accepted : c.list <= lists'
    BY <1>1, <1>2, MfaValues DEF MfaIInv, CodesMade
  <1>6. \A q \in Requests : handlers[q].code = Mfa!NoCode \/ handlers[q].code.list <= lists'
    <2>1. \A q \in Requests : handlers[q].code \in Mfa!Code \cup {Mfa!NoCode}
      BY <1>1 DEF Mfa!Request
    <2> QED
      BY <1>1, <1>2, <2>1, MfaValues DEF MfaIInv, CodesMade
  <1>7. CodesMade'
    BY <1>1, <1>5, <1>6 DEF MfaIInv, CodesMade
  <1>8. ASSUME ~lost' PROVE OneShot'
    <2>1. ~twice /\ \A c \in accepted : c.list <= lists
      BY <1>8 DEF MfaIInv, OneShot, CodesMade
    <2>2. codes' \subseteq Mfa!CodesOf(lists') \ accepted
      BY <1>1, <1>2, <2>1, MfaValues
    <2> QED
      BY <1>8, <2>1, <2>2 DEF OneShot
  <1> QED
    BY <1>4, <1>7, <1>8 DEF MfaIInv

(* verify's commit: the code was in the list, and is taken out of it.      *)
LEMMA CodeSpent ==
  ASSUME MfaIInv, NEW r \in Requests, Mfa!SpendCode(r)
  PROVE  MfaIInv'
  <1> DEFINE code0 == handlers[r].code
             list0 == handlers[r].list
             rec == [handlers[r] EXCEPT !.pc = "refresh"]
  <1>1. /\ handlers \in [Requests -> Mfa!Request] /\ handlers[r] \in Mfa!Request
        /\ lists \in 0..MaxLists /\ accepted \subseteq Mfa!Code /\ enrolled \in BOOLEAN
    BY DEF MfaIInv, MfaTypeOK
  <1>2. /\ code0 \in list0 /\ list0 \subseteq Mfa!Code /\ code0.list <= lists
    <2>1. code0 \in list0 /\ list0 \subseteq Mfa!Code
      BY <1>1 DEF Mfa!SpendCode, MfaIInv, CodesMade, Mfa!Request
    <2> QED
      BY <2>1, MfaValues DEF MfaIInv, CodesMade
  <1>3. /\ codes' = list0 \ {code0} /\ accepted' = accepted \cup {code0}
        /\ UNCHANGED <<enrolled, lists>>
    BY DEF Mfa!SpendCode, Mfa!Write
  <1>4. lost' \in BOOLEAN /\ twice' \in BOOLEAN
    BY Zenon DEF Mfa!SpendCode, Mfa!Write, MfaIInv, MfaTypeOK
  <1>5. ~lost' => ~lost /\ list0 = codes
    BY DEF Mfa!SpendCode, Mfa!Write
  <1>6. rec \in Mfa!Request /\ (rec.code = Mfa!NoCode \/ rec.code = code0) /\ rec.pc # "spend"
    BY <1>1, <1>2, <1>3, MfaValues DEF Mfa!Request
  <1>7. handlers' = [handlers EXCEPT ![r] = rec]
    BY <1>1 DEF Mfa!SpendCode, Mfa!Goto, Mfa!Request
  <1> HIDE DEF rec
  <1>8. /\ handlers' \in [Requests -> Mfa!Request] /\ handlers'[r] = rec
        /\ \A q \in Requests \ {r} : handlers'[q] = handlers[q]
    BY <1>1, <1>6, <1>7
  <1>9. MfaTypeOK'
    BY <1>1, <1>2, <1>3, <1>4, <1>8 DEF MfaTypeOK
  <1>10. CodesMade'
    BY <1>2, <1>3, <1>6, <1>8 DEF MfaIInv, CodesMade
  <1>11. ASSUME ~lost' PROVE OneShot'
    <2>1. ~lost /\ list0 = codes /\ OneShot
      BY <1>5, <1>11 DEF MfaIInv
    <2>2. code0 \notin accepted /\ codes' \subseteq codes
      BY <1>2, <1>3, <2>1 DEF OneShot
    <2>3. ~twice'
      BY <2>1, <2>2 DEF OneShot, Mfa!SpendCode
    <2> QED
      BY <1>3, <2>1, <2>2, <2>3 DEF OneShot
  <1> QED
    BY <1>9, <1>10, <1>11 DEF MfaIInv

LEMMA MfaInductive == MfaIInv /\ [Mfa!Next]_(Mfa!vars) => MfaIInv'
  <1> SUFFICES ASSUME MfaIInv, [Mfa!Next]_(Mfa!vars) PROVE MfaIInv'
    OBVIOUS
  <1>1. /\ handlers \in [Requests -> Mfa!Request] /\ lists \in 0..MaxLists
        /\ codes \subseteq Mfa!Code /\ enrolled \in BOOLEAN /\ lost \in BOOLEAN
        /\ \A r \in Requests : handlers[r] \in Mfa!Request
    BY DEF MfaIInv, MfaTypeOK
  <1>2. \A r \in Requests : handlers[r].code = Mfa!NoCode \/ handlers[r].code.list <= lists
    BY DEF MfaIInv, CodesMade
  <1>3. ASSUME NEW r \in Requests, Mfa!End(r), UNCHANGED <<enrolled, codes, lists, accepted, twice, lost>>
        PROVE  MfaIInv'
    BY <1>3, HandlerMoves, MfaValues DEF Mfa!End
  <1>4. ASSUME NEW r \in Requests, NEW pc0 \in {"enrol", "step_up", "spend", "refresh"}, Mfa!Goto(r, pc0),
               pc0 = "spend" => handlers[r].code \in handlers[r].list,
               UNCHANGED <<enrolled, codes, lists, accepted, twice, lost>>
        PROVE  MfaIInv'
    <2> DEFINE rec == [handlers[r] EXCEPT !.pc = pc0]
    <2>1. /\ rec \in Mfa!Request /\ rec.code = handlers[r].code /\ rec.list = handlers[r].list
          /\ rec.pc = pc0
      BY <1>1 DEF Mfa!Request
    <2>2. handlers' = [handlers EXCEPT ![r] = rec]
      BY <1>1, <1>4 DEF Mfa!Goto, Mfa!Request
    <2> HIDE DEF rec
    <2> QED
      BY <1>2, <1>4, <2>1, <2>2, HandlerMoves
  <1>5. ASSUME NEW r \in Requests, NEW op \in Mfa!Ops, NEW c \in Mfa!Code \cup {Mfa!NoCode},
               Mfa!Begin(r, op, c)
        PROVE  MfaIInv'
    <2> DEFINE rec == [Mfa!Idle EXCEPT !.op = op, !.code = c, !.pc = "load"]
    <2>1. rec \in Mfa!Request /\ rec.code = c /\ rec.pc = "load"
      BY DEF Mfa!Idle, Mfa!Request
    <2>2. c = Mfa!NoCode \/ c.list <= lists
      BY <1>5 DEF Mfa!Begin
    <2>3. /\ handlers' = [handlers EXCEPT ![r] = rec]
          /\ UNCHANGED <<enrolled, codes, lists, accepted, twice, lost>>
      BY <1>5 DEF Mfa!Begin
    <2> HIDE DEF rec
    <2> QED
      BY <2>1, <2>2, <2>3, HandlerMoves
  <1>6. ASSUME NEW r \in Requests, Mfa!Load(r) PROVE MfaIInv'
    <2> DEFINE rec == [handlers[r] EXCEPT !.on = enrolled, !.list = codes, !.pc = "verify"]
    <2>1. rec \in Mfa!Request /\ rec.code = handlers[r].code /\ rec.pc = "verify"
      BY <1>1 DEF Mfa!Request
    <2>2. /\ Mfa!End(r) \/ handlers' = [handlers EXCEPT ![r] = rec]
          /\ UNCHANGED <<enrolled, codes, lists, accepted, twice, lost>>
      BY <1>1, <1>6 DEF Mfa!Load, Mfa!Request
    <2> HIDE DEF rec
    <2> QED
      BY <1>2, <1>3, <2>1, <2>2, HandlerMoves
  <1>7. ASSUME NEW r \in Requests, Mfa!StartEnrollment(r) \/ Mfa!Abort(r) PROVE MfaIInv'
    BY <1>3, <1>7 DEF Mfa!StartEnrollment, Mfa!Abort
  <1>8. ASSUME NEW r \in Requests, Mfa!PeekEnrollment(r) PROVE MfaIInv'
    BY <1>3, <1>4, <1>8 DEF Mfa!PeekEnrollment
  <1>9. ASSUME NEW r \in Requests, Mfa!Verify(r) PROVE MfaIInv'
    BY <1>3, <1>4, <1>9 DEF Mfa!Verify
  <1>17. ASSUME NEW r \in Requests, Mfa!StepUp(r) PROVE MfaIInv'
    BY <1>4, <1>17 DEF Mfa!StepUp
  <1>10. ASSUME NEW r \in Requests, Mfa!Refresh(r) PROVE MfaIInv'
    <2> DEFINE rec == [handlers[r] EXCEPT !.pc = "apply", !.list = codes, !.on = enrolled]
    <2>1. rec \in Mfa!Request /\ rec.code = handlers[r].code /\ rec.pc = "apply"
      BY <1>1 DEF Mfa!Request
    <2>2. /\ Mfa!End(r) \/ handlers' = [handlers EXCEPT ![r] = rec]
          /\ UNCHANGED <<enrolled, codes, lists, accepted, twice, lost>>
      BY <1>1, <1>10 DEF Mfa!Refresh, Mfa!Request
    <2> HIDE DEF rec
    <2> QED
      BY <1>2, <1>3, <2>1, <2>2, HandlerMoves
  <1>11. ASSUME NEW r \in Requests, Mfa!End(r), enrolled' \in BOOLEAN, lost' \in BOOLEAN, lost => lost',
                UNCHANGED <<accepted, twice>>, codes' # {} => enrolled' \/ lost',
                \/ codes' = {} /\ UNCHANGED lists
                \/ lists' = lists + 1 /\ lists < MaxLists /\ codes' = Mfa!CodesOf(lists')
         PROVE  MfaIInv'
    BY <1>11, HandlerWrites, MfaValues DEF Mfa!End
  <1>12. ASSUME NEW r \in Requests, NEW list, Mfa!Write(r, list)
         PROVE  lost' \in BOOLEAN /\ (lost => lost') /\ codes' = list
                /\ (handlers[r].on /\ ~enrolled => lost')
    BY <1>1, <1>12, Zenon DEF Mfa!Write
  <1>13. ASSUME NEW r \in Requests, Mfa!ConfirmEnrollment(r) PROVE MfaIInv'
    BY <1>11, <1>12, <1>13 DEF Mfa!ConfirmEnrollment
  <1>14. ASSUME NEW r \in Requests, Mfa!Disable(r) PROVE MfaIInv'
    <2>1. enrolled' \in BOOLEAN /\ (~handlers[r].on => (enrolled' <=> enrolled))
      BY <1>14, Zenon DEF Mfa!Disable
    <2>2. Mfa!End(r) /\ UNCHANGED <<lists, accepted, twice>>
      BY <1>14 DEF Mfa!Disable
    <2>3. CASE handlers[r].on \/ handlers[r].list # {}
      <3>1. Mfa!Write(r, {})
        BY <1>14, <2>3 DEF Mfa!Disable
      <3> QED
        BY <1>11, <1>12, <2>1, <2>2, <3>1
    <2>4. CASE ~(handlers[r].on \/ handlers[r].list # {})
      <3>1. UNCHANGED <<codes, lost>>
        BY <1>14, <2>4 DEF Mfa!Disable
      <3>2. enrolled' = enrolled
        BY <1>1, <2>1, <2>4
      <3> QED
        BY <1>3, <2>2, <3>1, <3>2
    <2> QED
      BY <2>3, <2>4
  <1>15. ASSUME NEW r \in Requests, Mfa!Regenerate(r) PROVE MfaIInv'
    <2>1. /\ Mfa!End(r) /\ UNCHANGED <<enrolled, accepted, twice>> /\ lists < MaxLists
          /\ IF ~handlers[r].on THEN UNCHANGED <<codes, lists, lost>>
             ELSE lists' = lists + 1 /\ Mfa!Write(r, Mfa!CodesOf(lists'))
      BY <1>15 DEF Mfa!Regenerate
    <2>2. CASE ~handlers[r].on
      BY <1>3, <2>1, <2>2
    <2>3. CASE handlers[r].on
      BY <1>1, <1>11, <1>12, <2>1, <2>3
    <2> QED
      BY <2>2, <2>3
  <1>16. CASE Mfa!PendingExpires \/ UNCHANGED Mfa!vars
    BY <1>16 DEF Mfa!PendingExpires, Mfa!vars, MfaIInv, MfaTypeOK, CodesMade, OneShot
  <1> QED
    BY <1>5, <1>6, <1>7, <1>8, <1>9, <1>10, <1>13, <1>14, <1>15, <1>16, <1>17, CodeSpent DEF Mfa!Next

(* Recovery codes are one-shot and belong to an enrolment (services/       *)
(* totp.py): CodesOneShot, for any number of handlers and lists.           *)
THEOREM RecoveryCodesOneShot == RowSpec => []CodesOneShot
  <1>1. MfaIInv => CodesOneShot
    BY DEF MfaIInv, OneShot, CodesOneShot, Mfa!CodesOneShot
  <1> QED
    BY <1>1, MfaInitially, MfaInductive, SecondFactorPart, PTL DEF Mfa!Spec

=============================================================================
