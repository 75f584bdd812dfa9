-------------------------- MODULE SharedRowsProofs --------------------------
(***************************************************************************)
(* Proofs about parts of SharedRows, for any number of requests.           *)
(*                                                                         *)
(* Idempotency: until an answer is lost, Redis holds one as soon as any    *)
(* request has been answered; before that, every execution belongs to a    *)
(* request that is still about to store its answer, or its answer was      *)
(* never kept.                                                             *)
(*                                                                         *)
(* Userbots: a session that a caller holds was active when it was picked,  *)
(* and stays so until the caller lets it go.                               *)
(*                                                                         *)
(* BrandMemory: a document has one uncommitted write at most; an edit that *)
(* is alone still has the committed row in hand; until the two get out of  *)
(* step, whoever is about to set an entry has the committed row and no     *)
(* edit under way, and an edit about to commit has left no entry.          *)
(*                                                                         *)
(* AgentRuns: the calls of an unfinished run are all still there; a fold   *)
(* has the sum of calls that no other fold has and none has deleted.       *)
(***************************************************************************)
EXTENDS SharedRows, FiniteSetTheorems, TLAPS

(* An instance has a copy of the library of its own.                       *)
LEMMA KeyCardinality == \A X : Key!Cardinality(X) = Cardinality(X)
  BY DEF Key!Cardinality, Cardinality

(* The composition, seen through the variables of Idempotency.             *)
LEMMA IdempotencyPart == RowSpec => Key!Spec
  <1>1. RowInit => Key!Init
    BY DEF RowInit
  <1>2. [RowNext]_rowVars => [Key!Next]_(Key!vars)
    BY DEF RowNext, rowVars, Key!vars, vars, memVars, lockVars, mfaVars, mailVars, runVars, botVars,
           keyVars, tenVars
  <1> QED
    BY <1>1, <1>2, PTL DEF RowSpec, Key!Spec

(* The composition, seen through the variables of Userbots.                *)
LEMMA UserbotsPart == RowSpec => Bot!Spec
  <1>1. RowInit => Bot!Init
    BY DEF RowInit
  <1>2. [RowNext]_rowVars => [Bot!Next]_(Bot!vars)
    BY DEF RowNext, rowVars, Bot!vars, vars, memVars, lockVars, mfaVars, mailVars, runVars, botVars,
           keyVars, tenVars
  <1> QED
    BY <1>1, <1>2, PTL DEF RowSpec, Bot!Spec

(* The composition, seen through the variables of BrandMemory.             *)
LEMMA BrandMemoryPart == RowSpec => Mem!Spec
  <1>1. RowInit => Mem!Init
    BY DEF RowInit
  <1>2. [RowNext]_rowVars => [Mem!Next]_(Mem!vars)
    BY DEF RowNext, rowVars, Mem!vars, vars, memVars, lockVars, mfaVars, mailVars, runVars, botVars,
           keyVars, tenVars
  <1> QED
    BY <1>1, <1>2, PTL DEF RowSpec, Mem!Spec

-----------------------------------------------------------------------------
(* The requests in flight are finitely many.                               *)
KeyInstance == IsFiniteSet(Requests)

KeyReq == [pc : {"idle", "get", "run", "store"}, by : Nat, late : BOOLEAN,
        ran : BOOLEAN, answer : {"none", "ok", "error"}]

KeyTypeOK ==
    /\ kept \in Nat /\ effects \in Nat /\ unkept \in Nat /\ keyOdd \subseteq {"set", "ttl"}
    /\ retries \in [Requests -> KeyReq]

Running == {r \in Requests : retries[r].pc = "run"}
Storing == {r \in Requests : retries[r].pc = "store"}

N == Cardinality(Requests)

(* Who has found no entry will commit once more at most.                   *)
Room == effects + Cardinality(Running) <= N + unkept

(* Without an entry, who has committed still stores, or never will.        *)
Covered == kept = 0 => effects <= Cardinality(Storing) + unkept

Tally == Room /\ Covered

(* Without an entry nobody has been answered.                              *)
Unanswered == kept = 0 => \A r \in Requests : retries[r].answer # "ok"

(* A request that began after an answer finds it.                          *)
LateFinds ==
    \A r \in Requests : retries[r].late => /\ kept # 0 /\ ~retries[r].ran
                                       /\ retries[r].pc \in {"idle", "get"}

(* An answer is that of some execution.                                    *)
Signed == \A r \in Requests : retries[r].pc = "store" => retries[r].by # 0

Replayed == Unanswered /\ LateFinds

KeyIInv ==
    /\ KeyTypeOK /\ Signed
    /\ "ttl" \notin keyOdd => Tally
    /\ keyOdd = {} => Replayed

-----------------------------------------------------------------------------

LEMMA Counts ==
    ASSUME KeyInstance
    PROVE  /\ IsFiniteSet(Running) /\ Cardinality(Running) \in Nat
           /\ IsFiniteSet(Storing) /\ Cardinality(Storing) \in Nat
           /\ N \in Nat
  <1>1. Running \in SUBSET Requests /\ Storing \in SUBSET Requests
    BY DEF Running, Storing
  <1>2. IsFiniteSet(Running) /\ IsFiniteSet(Storing)
    BY <1>1, FS_Subset DEF KeyInstance
  <1> QED
    BY <1>2, FS_CardinalityType DEF KeyInstance, N

(* Who is still at the look-up is neither running nor storing.             *)
LEMMA RoomForOne ==
    ASSUME KeyInstance, NEW r \in Requests, retries[r].pc = "get"
    PROVE  Cardinality(Storing) + Cardinality(Running \cup {r}) <= N
  <1> DEFINE A == Running \cup {r}
  <1>1. IsFiniteSet(A)
    BY Counts, FS_AddElement
  <1>2. A \cap Storing = {} /\ A \cup Storing \in SUBSET Requests
    BY DEF Running, Storing
  <1>3. Cardinality(A \cup Storing) = Cardinality(A) + Cardinality(Storing) - Cardinality(A \cap Storing)
    BY <1>1, Counts, FS_Union
  <1>4. Cardinality(A \cap Storing) = 0
    BY <1>2, FS_EmptySet
  <1>5. Cardinality(A \cup Storing) <= N
    BY <1>2, FS_Subset DEF KeyInstance, N
  <1>6. Cardinality(A) \in Nat
    BY <1>1, FS_CardinalityType
  <1> HIDE DEF A
  <1>7. Cardinality(Storing) + Cardinality(A) <= N
    BY <1>3, <1>4, <1>5, <1>6, Counts
  <1> QED
    BY <1>7 DEF A

(* A request that moves joins or leaves the sets it moves between.         *)
LEMMA KeyMoves ==
    ASSUME KeyInstance, KeyTypeOK, KeyTypeOK', NEW r \in Requests,
           \A q \in Requests \ {r} : retries'[q] = retries[q]
    PROVE  /\ Running' = IF retries'[r].pc = "run" THEN Running \cup {r} ELSE Running \ {r}
           /\ Storing' = IF retries'[r].pc = "store" THEN Storing \cup {r} ELSE Storing \ {r}
  BY DEF Running, Storing

LEMMA AnswerTyped ==
    ASSUME retries \in [Requests -> KeyReq], NEW r \in Requests, NEW a \in {"ok", "none", "error"},
           Key!Answer(r, a)
    PROVE  retries' \in [Requests -> KeyReq]
  <1> DEFINE rec == [retries[r] EXCEPT !.pc = "idle", !.answer = a]
  <1>1. rec \in KeyReq /\ retries' = [retries EXCEPT ![r] = rec]
    BY DEF Key!Answer, KeyReq
  <1> HIDE DEF rec
  <1> QED
    BY <1>1

LEMMA KeyTypeHolds == KeyTypeOK /\ [Key!Next]_(Key!vars) => KeyTypeOK'
  <1> SUFFICES ASSUME KeyTypeOK, [Key!Next]_(Key!vars) PROVE KeyTypeOK'
    OBVIOUS
  <1> USE DEF KeyTypeOK, KeyReq
  <1>1. ASSUME NEW r \in Requests, Key!Start(r) PROVE KeyTypeOK'
    BY <1>1 DEF Key!Start, Key!Idle
  <1>2. ASSUME NEW r \in Requests, Key!Get(r) PROVE KeyTypeOK'
    BY <1>2 DEF Key!Get, Key!Answer
  <1>3. ASSUME NEW r \in Requests, Key!CallNext(r) PROVE KeyTypeOK'
    BY <1>3 DEF Key!CallNext, Key!Succeed, Key!CommitAndFail, Key!Answer
  <1>4. ASSUME NEW r \in Requests, Key!Store(r) PROVE KeyTypeOK'
    <2>1. /\ effects' = effects /\ unkept' \in {unkept, unkept + 1}
          /\ kept' \in {kept, retries[r].by} /\ keyOdd' \in {keyOdd, keyOdd \cup {"set"}}
          /\ Key!Answer(r, "ok")
      BY <1>4 DEF Key!Store
    <2>2. retries' \in [Requests -> KeyReq]
      BY <2>1, AnswerTyped
    <2>3. retries[r].by \in Nat
      OBVIOUS
    <2> QED
      BY <2>1, <2>2, <2>3
  <1>5. ASSUME NEW r \in Requests, Key!Abort(r) PROVE KeyTypeOK'
    <2>1. /\ UNCHANGED <<kept, effects, keyOdd>> /\ unkept' \in {unkept, unkept + 1}
          /\ Key!Answer(r, "none")
      BY <1>5 DEF Key!Abort
    <2>2. retries' \in [Requests -> KeyReq]
      BY <2>1, AnswerTyped
    <2> QED
      BY <2>1, <2>2
  <1>6. CASE Key!Expire
    BY <1>6 DEF Key!Expire
  <1>7. CASE UNCHANGED Key!vars
    BY <1>7 DEF Key!vars
  <1> QED
    BY <1>1, <1>2, <1>3, <1>4, <1>5, <1>6, <1>7 DEF Key!Next

LEMMA KeyInitially == KeyInstance /\ Key!Init => KeyIInv
  <1> SUFFICES ASSUME KeyInstance, Key!Init PROVE KeyIInv
    OBVIOUS
  <1>1. KeyTypeOK /\ Signed /\ Replayed
    BY DEF Key!Init, Key!Idle, KeyTypeOK, KeyReq, Signed, Replayed, Unanswered, LateFinds
  <1>2. Running = {}
    BY DEF Key!Init, Key!Idle, Running
  <1>3. effects = 0 /\ unkept = 0 /\ Cardinality(Running) = 0
    BY <1>2, FS_EmptySet DEF Key!Init
  <1>4. Tally
    BY <1>3, Counts DEF Tally, Room, Covered
  <1> QED
    BY <1>1, <1>4 DEF KeyIInv

-----------------------------------------------------------------------------

(* An execution commits only where there is room for one, until an entry   *)
(* expires.                                                                *)
LEMMA TallyHolds ==
    ASSUME KeyInstance, KeyTypeOK, KeyTypeOK', Signed, Tally, [Key!Next]_(Key!vars),
           "ttl" \notin keyOdd'
    PROVE  Tally'
  <1> DEFINE R == Cardinality(Running)
             S == Cardinality(Storing)
  <1>0. /\ R \in Nat /\ S \in Nat /\ N \in Nat /\ effects \in Nat /\ unkept \in Nat
        /\ effects + R <= N + unkept
        /\ kept = 0 => effects <= S + unkept
    BY Counts DEF KeyTypeOK, Tally, Room, Covered
  <1>1. ASSUME NEW r \in Requests, Key!Start(r) PROVE Tally'
    <2>1. /\ UNCHANGED <<kept, effects, unkept>> /\ retries[r].pc = "idle" /\ retries'[r].pc = "get"
          /\ \A q \in Requests \ {r} : retries'[q] = retries[q]
      BY <1>1 DEF Key!Start, Key!Idle, KeyTypeOK, KeyReq
    <2>2. Running' = Running /\ Storing' = Storing
      BY <2>1 DEF Running, Storing
    <2> QED
      BY <2>1, <2>2 DEF Tally, Room, Covered
  <1>2. ASSUME NEW r \in Requests, Key!Get(r) PROVE Tally'
    <2>1. /\ UNCHANGED <<kept, effects, unkept>> /\ retries[r].pc = "get"
          /\ \A q \in Requests \ {r} : retries'[q] = retries[q]
          /\ (kept = 0 /\ retries'[r].pc = "run") \/ retries'[r].pc = "idle"
      BY <1>2 DEF Key!Get, Key!Answer, KeyTypeOK, KeyReq
    <2>2. Storing' = Storing
      BY <2>1 DEF Storing
    <2>3. Room'
      <3>1. CASE kept = 0 /\ retries'[r].pc = "run"
        <4>1. Running' = Running \cup {r}
          BY <3>1, <2>1, KeyMoves
        <4>2. /\ Cardinality(Running \cup {r}) \in Nat
              /\ S + Cardinality(Running \cup {r}) <= N
          BY <2>1, Counts, RoomForOne, FS_AddElement, FS_CardinalityType
        <4> QED
          BY <3>1, <4>1, <4>2, <2>1, <1>0 DEF Room, N
      <3>2. CASE retries'[r].pc = "idle"
        <4>1. Running' = Running
          BY <3>2, <2>1 DEF Running
        <4> QED
          BY <4>1, <2>1 DEF Tally, Room
      <3> QED
        BY <3>1, <3>2, <2>1
    <2> QED
      BY <2>1, <2>2, <2>3 DEF Tally, Covered
  <1>3. ASSUME NEW r \in Requests, Key!CallNext(r) PROVE Tally'
    <2>1. /\ kept' = kept /\ retries[r].pc = "run"
          /\ \A q \in Requests \ {r} : retries'[q] = retries[q]
      BY <1>3 DEF Key!CallNext, Key!Succeed, Key!CommitAndFail, Key!Answer, KeyTypeOK, KeyReq
    <2>2. \/ effects' = effects + 1 /\ unkept' = unkept /\ retries'[r].pc = "store"
          \/ effects' = effects + 1 /\ unkept' = unkept + 1 /\ retries'[r].pc = "idle"
          \/ effects' = effects /\ unkept' = unkept /\ retries'[r].pc = "idle"
      BY <1>3 DEF Key!CallNext, Key!Succeed, Key!CommitAndFail, Key!Answer, KeyTypeOK, KeyReq
    <2>3. r \in Running /\ r \notin Storing /\ Running' = Running \ {r}
      <3>1. Running' = Running \ {r}
        BY <2>1, <2>2, KeyMoves
      <3> QED
        BY <3>1, <2>1 DEF Running, Storing
    <2>4. Cardinality(Running') = R - 1
      BY <2>3, Counts, FS_RemoveElement
    <2>5. Cardinality(Storing') = IF retries'[r].pc = "store" THEN S + 1 ELSE S
      <3>1. Storing' = IF retries'[r].pc = "store" THEN Storing \cup {r} ELSE Storing
        BY <2>1, <2>3, KeyMoves
      <3> QED
        BY <3>1, <2>3, Counts, FS_AddElement
    <2> HIDE DEF R, S
    <2> QED
      BY <2>1, <2>2, <2>4, <2>5, <1>0 DEF Tally, Room, Covered, N
  <1>4. ASSUME NEW r \in Requests, Key!Store(r) PROVE Tally'
    <2>1. /\ effects' = effects /\ retries[r].pc = "store" /\ retries'[r].pc = "idle"
          /\ \A q \in Requests \ {r} : retries'[q] = retries[q]
          /\ \/ kept' = retries[r].by /\ unkept' = unkept
             \/ kept' = kept /\ unkept' = unkept + 1
      BY <1>4 DEF Key!Store, Key!Answer, KeyTypeOK, KeyReq
    <2>2. Running' = Running /\ Storing' = Storing \ {r} /\ r \in Storing
      <3>1. Storing' = Storing \ {r}
        BY <2>1, KeyMoves
      <3> QED
        BY <3>1, <2>1 DEF Running, Storing
    <2>3. Cardinality(Storing') = S - 1
      BY <2>2, Counts, FS_RemoveElement
    <2>4. retries[r].by # 0
      BY <2>1 DEF Signed
    <2>5. Cardinality(Running') = R
      BY <2>2
    <2> HIDE DEF R, S
    <2> QED
      BY <2>1, <2>3, <2>4, <2>5, <1>0 DEF Tally, Room, Covered, N
  <1>5. ASSUME NEW r \in Requests, Key!Abort(r) PROVE Tally'
    <2>1. /\ UNCHANGED <<kept, effects>> /\ retries'[r].pc = "idle"
          /\ \A q \in Requests \ {r} : retries'[q] = retries[q]
          /\ unkept' = IF retries[r].pc = "store" THEN unkept + 1 ELSE unkept
      BY <1>5 DEF Key!Abort, Key!Answer, KeyTypeOK, KeyReq
    <2>2. Running' = Running \ {r} /\ Storing' = Storing \ {r}
      BY <2>1, KeyMoves
    <2>3. Cardinality(Running') \in Nat /\ Cardinality(Running') <= R
      <3>1. Running \ {r} \in SUBSET Running
        OBVIOUS
      <3>2. /\ IsFiniteSet(Running \ {r})
            /\ Cardinality(Running \ {r}) <= Cardinality(Running)
        BY <3>1, Counts, FS_Subset
      <3> QED
        BY <2>2, <3>2, FS_CardinalityType
    <2>4. Cardinality(Storing') = IF retries[r].pc = "store" THEN S - 1 ELSE S
      <3>1. CASE retries[r].pc = "store"
        BY <3>1, <2>2, Counts, FS_RemoveElement DEF Storing
      <3>2. CASE retries[r].pc # "store"
        <4>1. Storing' = Storing
          BY <3>2, <2>2 DEF Storing
        <4> QED
          BY <3>2, <4>1
      <3> QED
        BY <3>1, <3>2
    <2> HIDE DEF R, S
    <2> QED
      BY <2>1, <2>3, <2>4, <1>0 DEF Tally, Room, Covered, N
  <1>6. CASE Key!Expire
    BY <1>6 DEF Key!Expire
  <1>7. CASE UNCHANGED Key!vars
    BY <1>7 DEF Key!vars, Tally, Room, Covered, Running, Storing
  <1> QED
    BY <1>1, <1>2, <1>3, <1>4, <1>5, <1>6, <1>7 DEF Key!Next

(* Until an answer is lost, whoever comes after one finds it.              *)
LEMMA ReplayedHolds ==
    ASSUME KeyTypeOK, KeyTypeOK', Signed, [Key!Next]_(Key!vars),
           keyOdd = {} => Replayed, keyOdd' = {}
    PROVE  Replayed'
  <1>1. keyOdd = {} /\ Unanswered /\ LateFinds
    <2>1. keyOdd \subseteq keyOdd'
      BY DEF Key!Next, Key!vars, Key!Start, Key!Get, Key!CallNext, Key!Store, Key!Abort, Key!Expire
    <2> QED
      BY <2>1 DEF Replayed
  <1>2. ASSUME NEW r \in Requests, Key!Start(r) PROVE Replayed'
    <2>1. /\ kept' = kept /\ \A q \in Requests \ {r} : retries'[q] = retries[q]
          /\ retries'[r].pc = "get" /\ retries'[r].answer = "none" /\ ~retries'[r].ran
          /\ retries'[r].late = \E q \in Requests : retries[q].answer = "ok"
      BY <1>2 DEF Key!Start, Key!Idle, KeyTypeOK, KeyReq
    <2> QED
      BY <1>1, <2>1 DEF Replayed, Unanswered, LateFinds
  <1>3. ASSUME NEW r \in Requests, Key!Get(r) PROVE Replayed'
    <2>1. /\ kept' = kept /\ \A q \in Requests \ {r} : retries'[q] = retries[q]
          /\ retries'[r].late = retries[r].late /\ retries'[r].ran = retries[r].ran
          /\ \/ kept # 0 /\ retries'[r].pc = "idle"
             \/ kept = 0 /\ retries'[r].answer = retries[r].answer
             \/ retries'[r].pc = "idle" /\ retries'[r].answer = "error"
      BY <1>3 DEF Key!Get, Key!Answer, KeyTypeOK, KeyReq
    <2> QED
      BY <1>1, <2>1 DEF Replayed, Unanswered, LateFinds
  <1>4. ASSUME NEW r \in Requests, Key!CallNext(r) PROVE Replayed'
    <2>1. /\ kept' = kept /\ \A q \in Requests \ {r} : retries'[q] = retries[q]
          /\ retries[r].pc = "run" /\ retries'[r].late = retries[r].late
          /\ retries'[r].answer \in {retries[r].answer, "error"}
      BY <1>4 DEF Key!CallNext, Key!Succeed, Key!CommitAndFail, Key!Answer, KeyTypeOK, KeyReq
    <2> QED
      BY <1>1, <2>1 DEF Replayed, Unanswered, LateFinds
  <1>5. ASSUME NEW r \in Requests, Key!Store(r) PROVE Replayed'
    <2>1. /\ retries[r].pc = "store" /\ kept' = retries[r].by
          /\ \A q \in Requests \ {r} : retries'[q] = retries[q]
          /\ retries'[r].late = retries[r].late
      BY <1>5 DEF Key!Store, Key!Answer, KeyTypeOK, KeyReq
    <2>2. kept' # 0
      BY <2>1 DEF Signed
    <2> QED
      BY <1>1, <2>1, <2>2 DEF Replayed, Unanswered, LateFinds
  <1>6. ASSUME NEW r \in Requests, Key!Abort(r) PROVE Replayed'
    <2>1. /\ kept' = kept /\ \A q \in Requests \ {r} : retries'[q] = retries[q]
          /\ retries'[r].late = retries[r].late /\ retries'[r].ran = retries[r].ran
          /\ retries'[r].pc = "idle" /\ retries'[r].answer = "none"
      BY <1>6 DEF Key!Abort, Key!Answer, KeyTypeOK, KeyReq
    <2> QED
      BY <1>1, <2>1 DEF Replayed, Unanswered, LateFinds
  <1>7. CASE Key!Expire
    BY <1>7 DEF Key!Expire
  <1>8. CASE UNCHANGED Key!vars
    BY <1>1, <1>8 DEF Key!vars, Replayed, Unanswered, LateFinds
  <1> QED
    BY <1>2, <1>3, <1>4, <1>5, <1>6, <1>7, <1>8 DEF Key!Next

LEMMA SignedHolds ==
    ASSUME KeyTypeOK, KeyTypeOK', Signed, [Key!Next]_(Key!vars)
    PROVE  Signed'
  <1>1. ASSUME NEW r \in Requests, Key!Start(r) \/ Key!Get(r) \/ Key!Store(r) \/ Key!Abort(r)
        PROVE  Signed'
    <2>1. retries \in [Requests -> KeyReq]
      BY DEF KeyTypeOK
    <2>2. /\ \A q \in Requests \ {r} : retries'[q] = retries[q]
          /\ retries'[r].pc # "store"
      <3>1. CASE Key!Start(r) \/ Key!Get(r)
        BY <2>1, <3>1 DEF Key!Start, Key!Get, Key!Answer, Key!Idle, KeyReq
      <3>2. CASE Key!Store(r) \/ Key!Abort(r)
        <4>1. \E a \in {"ok", "none"} : Key!Answer(r, a)
          BY <3>2 DEF Key!Store, Key!Abort
        <4> QED
          BY <2>1, <4>1 DEF Key!Answer, KeyReq
      <3> QED
        BY <1>1, <3>1, <3>2
    <2> QED
      BY <2>2 DEF Signed
  <1>2. ASSUME NEW r \in Requests, Key!CallNext(r) PROVE Signed'
    <2>1. effects + 1 # 0
      BY DEF KeyTypeOK
    <2>2. /\ \A q \in Requests \ {r} : retries'[q] = retries[q]
          /\ retries'[r].pc = "store" => retries'[r].by = effects + 1
      BY <1>2 DEF Key!CallNext, Key!Succeed, Key!CommitAndFail, Key!Answer, KeyTypeOK, KeyReq
    <2> QED
      BY <2>1, <2>2 DEF Signed
  <1>3. CASE Key!Expire \/ UNCHANGED Key!vars
    BY <1>3 DEF Key!Expire, Key!vars, Signed
  <1> QED
    BY <1>1, <1>2, <1>3 DEF Key!Next

LEMMA KeyInductive == KeyInstance /\ KeyIInv /\ [Key!Next]_(Key!vars) => KeyIInv'
  <1> SUFFICES ASSUME KeyInstance, KeyIInv, [Key!Next]_(Key!vars) PROVE KeyIInv'
    OBVIOUS
  <1>1. KeyTypeOK /\ KeyTypeOK' /\ Signed
    BY KeyTypeHolds DEF KeyIInv
  <1>2. keyOdd \subseteq keyOdd'
    BY DEF Key!Next, Key!vars, Key!Start, Key!Get, Key!CallNext, Key!Store, Key!Abort, Key!Expire
  <1>3. Signed'
    BY <1>1, SignedHolds
  <1>4. "ttl" \notin keyOdd' => Tally'
    BY <1>1, <1>2, TallyHolds DEF KeyIInv
  <1>5. keyOdd' = {} => Replayed'
    BY <1>1, ReplayedHolds DEF KeyIInv
  <1> QED
    BY <1>1, <1>3, <1>4, <1>5 DEF KeyIInv

(* A retry sent after a 2xx answer came never executes the handler again,  *)
(* unless a SET failed or the entry expired, and what commits more often   *)
(* than there are requests was committed without its answer being kept:    *)
(* RetryReplays, for every number of requests                              *)
(* (api/middleware/idempotency.py).                                        *)
THEOREM RetriesReplay ==
    RowSpec => []RetryReplays
  <1>0. KeyInstance
    BY SharedRowsAssumption DEF KeyInstance
  <1>1. KeyIInv => RetryReplays
    <2> SUFFICES ASSUME KeyIInv
                 PROVE  /\ keyOdd = {} => \A r \in Requests : retries[r].late => ~retries[r].ran
                        /\ "ttl" \notin keyOdd => effects <= N + unkept
      BY KeyCardinality DEF RetryReplays, Key!RetryReplays, N
    <2>1. keyOdd = {} => \A r \in Requests : retries[r].late => ~retries[r].ran
      BY DEF KeyIInv, Replayed, LateFinds
    <2>2. "ttl" \notin keyOdd => effects <= N + unkept
      BY <1>0, Counts DEF KeyIInv, Tally, Room, KeyTypeOK, N
    <2> QED
      BY <2>1, <2>2
  <1>2. Key!Init => KeyIInv
    BY <1>0, KeyInitially
  <1>3. KeyIInv /\ [Key!Next]_(Key!vars) => KeyIInv'
    BY <1>0, KeyInductive
  <1> QED
    BY <1>1, <1>2, <1>3, IdempotencyPart, PTL DEF Key!Spec

-----------------------------------------------------------------------------
(* Userbots                                                                *)

BotTypeOK ==
    /\ session \in [Sessions -> Bot!Row]
    /\ caller \in [Requests -> Bot!Caller] /\ probe \in [Probes -> Bot!Probe]
    /\ \A p \in Probes : probe[p].pc # "idle" => probe[p].on \in Sessions
    /\ uses \in 0..MaxUses

Holding(c) == caller[c].pc # "idle"

(* SKIP LOCKED gives a session to one caller at a time, and while it has   *)
(* it nobody else writes the row, which was active when it was picked.     *)
HeldIsActive ==
    /\ \A c \in Requests : Holding(c) => /\ caller[c].picked \in Sessions
                                         /\ session[caller[c].picked].status = "active"
    /\ \A c, d \in Requests : Holding(c) /\ Holding(d) /\ caller[c].picked = caller[d].picked => c = d

BotIInv == BotTypeOK /\ HeldIsActive

LEMMA BotIdle == /\ Bot!Registered \in Bot!Row
                 /\ Bot!IdleCaller \in Bot!Caller /\ Bot!IdleCaller.pc = "idle"
                 /\ Bot!IdleProbe \in Bot!Probe /\ Bot!IdleProbe.pc = "idle"
  <1>1. 0 \in 0..MaxUses
    BY SharedRowsAssumption DEF SharedRowsAssumption
  <1>2. Bot!Registered \in Bot!Row
    BY <1>1 DEF Bot!Registered, Bot!Row
  <1> QED
    BY <1>2 DEF Bot!IdleCaller, Bot!Caller, Bot!IdleProbe, Bot!Probe

LEMMA BotInitially == Bot!Init => BotIInv
  <1> SUFFICES ASSUME Bot!Init PROVE BotIInv
    OBVIOUS
  <1>1. uses \in 0..MaxUses
    BY SharedRowsAssumption DEF SharedRowsAssumption, Bot!Init
  <1>2. BotTypeOK
    BY <1>1, BotIdle DEF Bot!Init, BotTypeOK
  <1>3. \A c \in Requests : ~Holding(c)
    BY BotIdle DEF Bot!Init, Holding
  <1> QED
    BY <1>2, <1>3 DEF BotIInv, HeldIsActive

(* A caller that picks a session, marks it or lets go of it.               *)
LEMMA CallerMoves ==
  ASSUME BotIInv, NEW c \in Requests, NEW rec \in Bot!Caller,
         caller' = [caller EXCEPT ![c] = rec], UNCHANGED <<session, probe>>, uses' \in 0..MaxUses,
         \/ rec.pc = "idle"
         \/ Holding(c) /\ rec.picked = caller[c].picked
         \/ /\ rec.picked \in Sessions /\ session[rec.picked].status = "active"
            /\ \A d \in Requests : caller[d].picked # rec.picked
  PROVE  BotIInv'
  <1>1. /\ caller' \in [Requests -> Bot!Caller] /\ caller'[c] = rec
        /\ \A d \in Requests \ {c} : caller'[d] = caller[d]
    BY DEF BotIInv, BotTypeOK
  <1>2. BotTypeOK'
    BY <1>1 DEF BotIInv, BotTypeOK
  <1>3. HeldIsActive'
    BY <1>1 DEF BotIInv, HeldIsActive, Holding
  <1> QED
    BY <1>2, <1>3 DEF BotIInv

LEMMA CallerSteps ==
  ASSUME BotIInv, NEW c \in Requests,
         Bot!PickNext(c) \/ Bot!MarkUsed(c) \/ Bot!MarkFloodWait(c) \/ Bot!MarkBanned(c) \/ Bot!Rollback(c)
  PROVE  BotIInv' /\ UNCHANGED session
  <1>1. /\ session \in [Sessions -> Bot!Row] /\ caller \in [Requests -> Bot!Caller]
        /\ caller[c] \in Bot!Caller /\ caller[c].new \in Bot!Row /\ uses \in 0..MaxUses
        /\ MaxUses \in Nat
    BY SharedRowsAssumption DEF BotIInv, BotTypeOK, Bot!Caller, SharedRowsAssumption
  <1>2. UNCHANGED <<session, probe>>
    BY DEF Bot!PickNext, Bot!MarkUsed, Bot!MarkFloodWait, Bot!MarkBanned, Bot!Rollback
  <1>3. uses' \in 0..MaxUses
    BY <1>1 DEF Bot!PickNext, Bot!MarkUsed, Bot!MarkFloodWait, Bot!MarkBanned, Bot!Rollback
  <1>4. CASE Bot!PickNext(c)
    <2>1. PICK s \in Bot!Eligible :
            /\ ~Bot!Locked(s)
            /\ caller' = [caller EXCEPT ![c] = [picked |-> s, new |-> session[s], pc |-> "call"]]
      BY <1>4 DEF Bot!PickNext
    <2>2. s \in Sessions /\ session[s].status = "active" /\ \A d \in Requests : caller[d].picked # s
      BY <2>1 DEF Bot!Eligible, Bot!Locked
    <2> DEFINE rec == [picked |-> s, new |-> session[s], pc |-> "call"]
    <2>3. rec \in Bot!Caller /\ rec.picked = s
      BY <1>1, <2>2 DEF Bot!Caller
    <2> QED
      BY <1>2, <1>3, <2>1, <2>2, <2>3, CallerMoves
  <1>5. ASSUME NEW new \in Bot!Row, Bot!Mark(c, new), Holding(c) PROVE BotIInv'
    <2> DEFINE rec == [caller[c] EXCEPT !.new = new, !.pc = "commit"]
    <2>1. rec \in Bot!Caller /\ rec.picked = caller[c].picked
      BY <1>1 DEF Bot!Caller
    <2>2. caller' = [caller EXCEPT ![c] = rec]
      BY <1>1, <1>5 DEF Bot!Mark, Bot!Caller
    <2> HIDE DEF rec
    <2> QED
      BY <1>2, <1>3, <1>5, <2>1, <2>2, CallerMoves
  <1>6. CASE Bot!MarkUsed(c)
    <2>1. [caller[c].new EXCEPT !.used = uses'] \in Bot!Row
      BY <1>1, <1>3 DEF Bot!Row
    <2> QED
      BY <1>5, <1>6, <2>1 DEF Bot!MarkUsed, Holding
  <1>7. CASE Bot!MarkFloodWait(c) \/ Bot!MarkBanned(c)
    <2>1. /\ [caller[c].new EXCEPT !.status = "flood_wait", !.cooling = TRUE] \in Bot!Row
          /\ [caller[c].new EXCEPT !.status = "banned"] \in Bot!Row
      BY <1>1 DEF Bot!Row
    <2> QED
      BY <1>5, <1>7, <2>1 DEF Bot!MarkFloodWait, Bot!MarkBanned, Holding
  <1>8. CASE Bot!Rollback(c)
    BY <1>2, <1>3, <1>8, BotIdle, CallerMoves DEF Bot!Rollback
  <1> QED
    BY <1>2, <1>4, <1>6, <1>7, <1>8

(* What writes a row leaves a banned one banned, and one that a caller     *)
(* holds active, but for that caller's commit.                             *)
LEMMA RowWritten ==
  ASSUME BotIInv,
         \/ \E c \in Requests : Bot!Commit(c)
         \/ \E p \in Probes : Bot!Ban(p)
         \/ \E s \in Sessions : Bot!CooldownEnds(s)
  PROVE  /\ BotIInv'
         /\ \A s \in Sessions : session[s].status = "banned" => session'[s].status = "banned"
  <1>1. /\ session \in [Sessions -> Bot!Row] /\ caller \in [Requests -> Bot!Caller]
        /\ probe \in [Probes -> Bot!Probe] /\ HeldIsActive
    BY DEF BotIInv, BotTypeOK
  <1>2. ASSUME NEW c \in Requests, Bot!Commit(c)
        PROVE  /\ BotIInv'
               /\ \A s \in Sessions : session[s].status = "banned" => session'[s].status = "banned"
    <2>1. /\ Holding(c) /\ caller[c].picked \in Sessions /\ caller[c].new \in Bot!Row
          /\ session[caller[c].picked].status = "active"
      BY <1>1, <1>2 DEF Bot!Commit, Holding, HeldIsActive, Bot!Caller
    <2>2. /\ session' = [session EXCEPT ![caller[c].picked] = caller[c].new]
          /\ caller' = [caller EXCEPT ![c] = Bot!IdleCaller] /\ UNCHANGED <<probe, uses>>
      BY <1>2 DEF Bot!Commit
    <2>3. /\ \A d \in Requests : Holding(d)' => d # c /\ Holding(d) /\ caller'[d] = caller[d]
          /\ \A s \in Sessions : s # caller[c].picked => session'[s] = session[s]
      BY <1>1, <2>1, <2>2, BotIdle DEF Holding
    <2>4. HeldIsActive'
      BY <1>1, <2>1, <2>3 DEF HeldIsActive
    <2>5. BotTypeOK'
      BY <1>1, <2>1, <2>2, BotIdle DEF BotIInv, BotTypeOK
    <2> QED
      BY <2>1, <2>3, <2>4, <2>5 DEF BotIInv
  <1>3. ASSUME NEW p \in Probes, Bot!Ban(p)
        PROVE  /\ BotIInv'
               /\ \A s \in Sessions : session[s].status = "banned" => session'[s].status = "banned"
    <2>1. /\ \A c \in Requests : caller[c].picked # probe[p].on
          /\ session' = session \/ session' = [session EXCEPT ![probe[p].on].status = "banned"]
          /\ probe' = [probe EXCEPT ![p] = Bot!IdleProbe] /\ UNCHANGED <<caller, uses>>
      BY <1>3 DEF Bot!Ban, Bot!Locked
    <2>2. /\ session' \in [Sessions -> Bot!Row]
          /\ \A s \in Sessions : s # probe[p].on => session'[s] = session[s]
      BY <1>1, <2>1 DEF Bot!Row
    <2>3. \A s \in Sessions : session[s].status = "banned" => session'[s].status = "banned"
      BY <1>1, <2>1 DEF Bot!Row
    <2>4. HeldIsActive'
      BY <1>1, <2>1, <2>2 DEF HeldIsActive, Holding
    <2>5. BotTypeOK'
      BY <1>1, <2>1, <2>2, BotIdle DEF BotIInv, BotTypeOK
    <2> QED
      BY <2>3, <2>4, <2>5 DEF BotIInv
  <1>4. ASSUME NEW s \in Sessions, Bot!CooldownEnds(s)
        PROVE  /\ BotIInv'
               /\ \A t \in Sessions : session[t].status = "banned" => session'[t].status = "banned"
    <2>1. session' = [session EXCEPT ![s].cooling = FALSE] /\ UNCHANGED <<caller, probe, uses>>
      BY <1>4 DEF Bot!CooldownEnds
    <2>2. /\ session' \in [Sessions -> Bot!Row]
          /\ \A t \in Sessions : session'[t].status = session[t].status
      BY <1>1, <2>1 DEF Bot!Row
    <2>3. BotTypeOK' /\ HeldIsActive'
      BY <1>1, <2>1, <2>2 DEF BotIInv, BotTypeOK, HeldIsActive, Holding
    <2> QED
      BY <2>2, <2>3 DEF BotIInv
  <1> QED
    BY <1>2, <1>3, <1>4

LEMMA BotInductive ==
  ASSUME BotIInv, [Bot!Next]_(Bot!vars)
  PROVE  /\ BotIInv'
         /\ \A s \in Sessions : session[s].status = "banned" => session'[s].status = "banned"
  <1>1. ASSUME NEW p \in Probes,
               Bot!Reload(p) \/ Bot!Healthcheck(p) \/ \E s \in Sessions : Bot!LoadSession(p, s)
        PROVE  BotIInv' /\ UNCHANGED session
    <2>1. UNCHANGED <<session, caller, uses>>
      BY <1>1 DEF Bot!Reload, Bot!Healthcheck, Bot!LoadSession
    <2>2. /\ session \in [Sessions -> Bot!Row] /\ probe \in [Probes -> Bot!Probe]
          /\ \A q \in Probes : probe[q].pc # "idle" => probe[q].on \in Sessions
      BY DEF BotIInv, BotTypeOK
    <2>3. PICK rec \in Bot!Probe : /\ probe' = [probe EXCEPT ![p] = rec]
                                   /\ rec.pc # "idle" => rec.on \in Sessions
      <3>1. CASE Bot!Reload(p)
        <4> DEFINE new == [probe[p] EXCEPT !.copy = session[probe[p].on], !.pc = "last"]
        <4>1. new \in Bot!Probe /\ new.on \in Sessions
          BY <3>1, <2>2 DEF Bot!Reload, Bot!Probe
        <4>2. probe' = [probe EXCEPT ![p] = new]
          BY <3>1, <2>2 DEF Bot!Reload, Bot!Probe
        <4> HIDE DEF new
        <4> QED
          BY <4>1, <4>2
      <3>2. CASE Bot!Healthcheck(p)
        <4>1. CASE probe' = [probe EXCEPT ![p] = Bot!IdleProbe]
          BY <4>1, BotIdle
        <4>2. ASSUME NEW c \in {"retry", "ban"}, probe' = [probe EXCEPT ![p].pc = c],
                     probe[p].pc # "idle"
              PROVE  \E rec \in Bot!Probe : /\ probe' = [probe EXCEPT ![p] = rec]
                                            /\ rec.pc # "idle" => rec.on \in Sessions
          <5> DEFINE new == [probe[p] EXCEPT !.pc = c]
          <5>1. new \in Bot!Probe /\ new.on \in Sessions
            BY <4>2, <2>2 DEF Bot!Probe
          <5>2. probe' = [probe EXCEPT ![p] = new]
            BY <4>2, <2>2 DEF Bot!Probe
          <5> HIDE DEF new
          <5> QED
            BY <5>1, <5>2
        <4> QED
          BY <3>2, <4>1, <4>2 DEF Bot!Healthcheck
      <3>3. ASSUME NEW s \in Sessions, Bot!LoadSession(p, s)
            PROVE  \E rec \in Bot!Probe : /\ probe' = [probe EXCEPT ![p] = rec]
                                          /\ rec.pc # "idle" => rec.on \in Sessions
        <4>1. [on |-> s, copy |-> session[s], pc |-> "healthcheck"] \in Bot!Probe
          BY <2>2 DEF Bot!Probe
        <4> QED
          BY <3>3, <4>1 DEF Bot!LoadSession
      <3> QED
        BY <1>1, <3>1, <3>2, <3>3
    <2>4. /\ probe' \in [Probes -> Bot!Probe]
          /\ \A q \in Probes : probe'[q].pc # "idle" => probe'[q].on \in Sessions
      BY <2>2, <2>3
    <2> QED
      BY <2>1, <2>4 DEF BotIInv, BotTypeOK, HeldIsActive, Holding
  <1>2. CASE UNCHANGED Bot!vars
    BY <1>2 DEF Bot!vars, BotIInv, BotTypeOK, HeldIsActive, Holding
  <1> QED
    BY <1>1, <1>2, CallerSteps, RowWritten DEF Bot!Next

(* A ban is final (adapters/userbot/pool.py): BanIsFinal, for any number   *)
(* of sessions, callers and healthchecks.                                  *)
THEOREM BansAreFinal == RowSpec => BanIsFinal
  <1> DEFINE Kept == \A s \in Sessions : session[s].status = "banned" => session'[s].status = "banned"
  <1>1. BotIInv /\ [Bot!Next]_(Bot!vars) => BotIInv' /\ [Kept]_(Bot!vars)
    BY BotInductive
  <1> QED
    BY <1>1, BotInitially, UserbotsPart, PTL DEF BanIsFinal, Bot!BanIsFinal, Bot!Spec

-----------------------------------------------------------------------------
(* BrandMemory                                                             *)

MemDoc == [ver : Nat, by : Nat]

MemReq == [op : {"read", "effective", "edit", "place"}, doc : Mem!Docs, match : Nat,
           pc : {"idle", "binding", "get", "select", "insert", "set", "load", "create",
                 "check", "update", "del", "commit"},
           copy : MemDoc, new : MemDoc, by : Nat, alone : BOOLEAN, seen : BOOLEAN,
           answer : Mem!Answers]

MemTypeOK ==
    /\ doc \in [Mem!Docs -> MemDoc] /\ entry \in [Mem!Docs -> MemDoc] /\ bound \in BOOLEAN
    /\ edits \in [Requests -> MemReq] /\ memCalls \in Nat /\ memRaced \in BOOLEAN

Wrote(r) == edits[r].new # Mem!NoDoc

(* What an edit has found and written; alone, the committed row is the one *)
(* that it loaded, or is still to be the empty core that it wrote itself.  *)
Known(r) ==
    LET q == edits[r] IN
    /\ q.pc = "create" => q.copy = Mem!NoDoc
    /\ q.pc \in {"check", "update"} => q.copy # Mem!NoDoc
    /\ q.doc = "core" /\ q.pc # "create" => q.copy # Mem!NoDoc
    /\ q.pc \in {"del", "commit"} => q.new.ver = q.copy.ver + 1
    /\ q.pc \in {"update", "del", "commit"} /\ q.copy # Mem!NoDoc => q.match \in {0, q.copy.ver}
    /\ q.alone /\ q.pc # "create" => \/ q.copy = doc[q.doc]
                                     \/ doc[q.doc] = Mem!NoDoc /\ q.copy = Mem!Empty /\ Wrote(r)

(* A request by itself: past the check of the channel it has been          *)
(* connected, and a read has written nothing but the empty core.           *)
Sound(r) ==
    LET q == edits[r] IN
    /\ q.pc # "idle" => q.answer = "none" /\ (bound => q.seen)
    /\ q.doc = "overlay" /\ q.pc \notin {"idle", "binding"} => q.seen
    /\ q.doc = "overlay" /\ q.answer = "ok" => q.seen
    /\ q.pc \in {"get", "select", "insert", "set"} => ~Mem!Writer(r)
    /\ q.pc \in {"load", "create", "check", "update", "del"} => Mem!Writer(r)
    /\ q.pc = "insert" => q.doc = "core"
    /\ q.pc = "set" => q.copy # Mem!NoDoc
    /\ Mem!Writer(r) /\ q.pc \in {"del", "commit"} => Wrote(r)
    /\ Wrote(r) /\ ~Mem!Writer(r) => /\ q.new = Mem!Empty /\ Mem!Written(r) = "core"
                                     /\ doc["core"] = Mem!NoDoc
    /\ Mem!Editing(r) => Known(r)

(* One writer of a document at a time, and alone means alone.              *)
Exclusive ==
    /\ \A q, r \in Requests : Wrote(q) /\ Wrote(r) /\ Mem!Written(q) = Mem!Written(r) => q = r
    /\ \A q, r \in Requests :
         Mem!Editing(q) /\ Mem!Editing(r) /\ edits[q].doc = edits[r].doc /\ edits[r].alone => q = r

Current(d) ==
    \/ entry[d] \in {Mem!NoDoc, doc[d]}
    \/ d = "core" /\ doc[d] = Mem!NoDoc /\ entry[d] = Mem!Empty

(* What a read is about to cache is the committed row, with no edit under  *)
(* way, or the empty core that the read itself wrote.                      *)
Setting(r) ==
    LET q == edits[r] IN
    q.pc = "set" =>
      \/ q.copy = doc[q.doc] /\ \A e \in Requests : Mem!Editing(e) => edits[e].doc # q.doc
      \/ q.doc = "core" /\ q.copy = Mem!Empty /\ Wrote(r) /\ ~Mem!Writer(r)

Deleted(r) == Mem!Editing(r) /\ edits[r].pc = "commit" => entry[edits[r].doc] = Mem!NoDoc

InStep == (\A d \in Mem!Docs : Current(d)) /\ (\A r \in Requests : Setting(r) /\ Deleted(r))

MemIInv == MemTypeOK /\ (\A r \in Requests : Sound(r)) /\ Exclusive /\ (~memRaced => InStep)

LEMMA MemNothing ==
    /\ Mem!NoDoc \in MemDoc /\ Mem!Empty \in MemDoc /\ Mem!Empty # Mem!NoDoc
    /\ Mem!NoDoc.ver = 0 /\ Mem!Empty.ver = 1
  BY DEF Mem!NoDoc, Mem!Empty, MemDoc

LEMMA MemInitially == Mem!Init => MemIInv
  <1> SUFFICES ASSUME Mem!Init PROVE MemIInv
    OBVIOUS
  <1>1. /\ doc = [d \in Mem!Docs |-> Mem!NoDoc] /\ entry = [d \in Mem!Docs |-> Mem!NoDoc]
        /\ edits = [r \in Requests |-> Mem!Fresh("read", "core", 0)]
    BY DEF Mem!Init
  <1> DEFINE rec == Mem!Fresh("read", "core", 0)
  <1>2. /\ rec \in MemReq /\ rec.pc = "idle" /\ rec.answer = "none" /\ rec.new = Mem!NoDoc
        /\ rec.doc = "core"
    BY MemNothing DEF Mem!Fresh, MemReq, Mem!Docs, Mem!Answers
  <1> HIDE DEF rec
  <1>3. \A r \in Requests : edits[r] = rec
    BY <1>1 DEF rec
  <1>4. bound \in BOOLEAN /\ memCalls \in Nat /\ memRaced \in BOOLEAN
    BY DEF Mem!Init
  <1>5. MemTypeOK
    BY <1>1, <1>2, <1>4, MemNothing DEF MemTypeOK, rec
  <1>6. \A r \in Requests : Sound(r) /\ ~Wrote(r) /\ ~Mem!Editing(r) /\ Setting(r) /\ Deleted(r)
    BY <1>2, <1>3 DEF Sound, Wrote, Mem!Editing, Setting, Deleted
  <1>7. \A d \in Mem!Docs : Current(d)
    BY <1>1 DEF Current
  <1> QED
    BY <1>5, <1>6, <1>7 DEF MemIInv, Exclusive, InStep

-----------------------------------------------------------------------------

(* The entries that a step may leave: as they were, one of them dropped,   *)
(* or one set by a read.                                                   *)
EntryStep ==
    \/ UNCHANGED entry
    \/ \E d \in Mem!Docs : entry' = [entry EXCEPT ![d] = Mem!NoDoc]
    \/ \E r \in Requests : edits[r].pc = "set" /\ entry' = [entry EXCEPT ![edits[r].doc] = edits[r].copy]

LEMMA EntryMoves ==
  ASSUME MemIInv, InStep, EntryStep, UNCHANGED doc
  PROVE  /\ entry' \in [Mem!Docs -> MemDoc]
         /\ \A d \in Mem!Docs : Current(d)'
         /\ \A r \in Requests : Mem!Editing(r) /\ edits[r].pc = "commit" => entry'[edits[r].doc] = Mem!NoDoc
  <1>1. /\ entry \in [Mem!Docs -> MemDoc] /\ edits \in [Requests -> MemReq]
        /\ \A d \in Mem!Docs : Current(d)
        /\ \A r \in Requests : Sound(r) /\ Setting(r) /\ Deleted(r) /\ edits[r] \in MemReq
    BY DEF MemIInv, MemTypeOK, InStep
  <1>2. CASE UNCHANGED entry
    BY <1>1, <1>2 DEF Current, Deleted
  <1>3. ASSUME NEW d \in Mem!Docs, entry' = [entry EXCEPT ![d] = Mem!NoDoc]
        PROVE  /\ entry' \in [Mem!Docs -> MemDoc]
               /\ \A c \in Mem!Docs : Current(c)'
               /\ \A r \in Requests : Mem!Editing(r) /\ edits[r].pc = "commit"
                                      => entry'[edits[r].doc] = Mem!NoDoc
    <2>1. /\ entry' \in [Mem!Docs -> MemDoc] /\ entry'[d] = Mem!NoDoc
          /\ \A c \in Mem!Docs : c # d => entry'[c] = entry[c]
      BY <1>1, <1>3, MemNothing
    <2>2. \A r \in Requests : edits[r].doc \in Mem!Docs
      BY <1>1 DEF MemReq
    <2> QED
      BY <1>1, <2>1, <2>2 DEF Current, Deleted
  <1>4. ASSUME NEW s \in Requests, edits[s].pc = "set",
               entry' = [entry EXCEPT ![edits[s].doc] = edits[s].copy]
        PROVE  /\ entry' \in [Mem!Docs -> MemDoc]
               /\ \A c \in Mem!Docs : Current(c)'
               /\ \A r \in Requests : Mem!Editing(r) /\ edits[r].pc = "commit"
                                      => entry'[edits[r].doc] = Mem!NoDoc
    <2> DEFINE d == edits[s].doc
    <2>1. d \in Mem!Docs /\ edits[s].copy \in MemDoc /\ \A r \in Requests : edits[r].doc \in Mem!Docs
      BY <1>1 DEF MemReq
    <2>2. /\ entry' \in [Mem!Docs -> MemDoc] /\ entry'[d] = edits[s].copy
          /\ \A c \in Mem!Docs : c # d => entry'[c] = entry[c]
      BY <1>1, <1>4, <2>1
    <2>3. ASSUME NEW r \in Requests, Mem!Editing(r), edits[r].pc = "commit" PROVE edits[r].doc # d
      <3> SUFFICES ASSUME d = "core", Wrote(s), ~Mem!Writer(s), edits[r].doc = "core" PROVE FALSE
        BY <1>1, <1>4, <2>3 DEF Setting
      <3>1. Wrote(r) /\ Mem!Written(r) = "core" /\ Mem!Writer(r)
        BY <1>1, <2>3 DEF Sound, Mem!Editing, Mem!Written, Mem!Writer
      <3>2. Mem!Written(s) = "core"
        BY <1>1 DEF Sound
      <3> QED
        BY <3>1, <3>2 DEF MemIInv, Exclusive
    <2>4. ASSUME NEW c \in Mem!Docs, c = d PROVE Current(c)'
      <3>1. CASE edits[s].copy = doc[d]
        BY <2>2, <2>4, <3>1 DEF Current
      <3>2. CASE d = "core" /\ edits[s].copy = Mem!Empty /\ Wrote(s) /\ ~Mem!Writer(s)
        <4>1. doc["core"] = Mem!NoDoc
          BY <1>1, <3>2 DEF Sound
        <4> QED
          BY <2>2, <2>4, <3>2, <4>1 DEF Current
      <3> QED
        BY <1>1, <1>4, <3>1, <3>2 DEF Setting
    <2>5. \A c \in Mem!Docs : Current(c)'
      <3> SUFFICES ASSUME NEW c \in Mem!Docs, c # d PROVE Current(c)'
        BY <2>4
      <3> QED
        BY <1>1, <2>2 DEF Current
    <2> QED
      BY <1>1, <2>1, <2>2, <2>3, <2>5 DEF Deleted
  <1> QED
    BY <1>2, <1>3, <1>4 DEF EntryStep

(* One request moves; no row changes.                                      *)
LEMMA MemMoves ==
  ASSUME MemIInv, NEW r \in Requests,
         UNCHANGED <<doc, bound>>, memCalls' \in Nat, memRaced' \in BOOLEAN,
         memRaced => memRaced', entry' \in [Mem!Docs -> MemDoc], EntryStep,
         edits' \in [Requests -> MemReq], \A q \in Requests : q # r => edits'[q] = edits[q],
         Sound(r)',
         Wrote(r)' => \/ Wrote(r) /\ Mem!Written(r)' = Mem!Written(r)
                      \/ \A q \in Requests \ {r} : Wrote(q) => Mem!Written(q) # Mem!Written(r)',
         Mem!Editing(r)' => /\ Mem!Editing(r) /\ edits'[r].doc = edits[r].doc
                            /\ edits'[r].alone => edits[r].alone,
         ~memRaced' => Setting(r)' /\ Deleted(r)'
  PROVE  MemIInv'
  <1>1. /\ edits \in [Requests -> MemReq] /\ Exclusive /\ \A q \in Requests : Sound(q)
        /\ doc \in [Mem!Docs -> MemDoc] /\ bound \in BOOLEAN
    BY DEF MemIInv, MemTypeOK
  <1>2. MemTypeOK'
    BY <1>1 DEF MemTypeOK
  <1>3. ASSUME NEW q \in Requests, q # r
        PROVE  /\ edits'[q] = edits[q] /\ Mem!Writer(q)' = Mem!Writer(q) /\ Wrote(q)' = Wrote(q)
               /\ Mem!Written(q)' = Mem!Written(q) /\ Mem!Editing(q)' = Mem!Editing(q)
    BY <1>3 DEF Mem!Writer, Wrote, Mem!Written, Mem!Editing
  <1>4. \A q \in Requests : q # r => Sound(q)'
    <2> SUFFICES ASSUME NEW q \in Requests, q # r PROVE Sound(q)'
      OBVIOUS
    <2>1. Sound(q) /\ doc' = doc /\ bound' = bound
      BY <1>1
    <2> QED
      BY <1>3, <2>1 DEF Sound, Known
  <1>5. Exclusive'
    BY <1>1, <1>3 DEF Exclusive
  <1>6. ASSUME ~memRaced' PROVE InStep'
    <2>1. InStep
      BY <1>6 DEF MemIInv
    <2>2. /\ \A d \in Mem!Docs : Current(d)'
          /\ \A q \in Requests : Mem!Editing(q) /\ edits[q].pc = "commit" => entry'[edits[q].doc] = Mem!NoDoc
      BY <2>1, EntryMoves
    <2>3. ASSUME NEW q \in Requests, q # r PROVE Setting(q)' /\ Deleted(q)'
      <3>1. Deleted(q)'
        BY <1>3, <2>2, <2>3 DEF Deleted
      <3>2. \A e \in Requests : Mem!Editing(e)' => Mem!Editing(e) /\ edits'[e].doc = edits[e].doc
        BY <1>3
      <3>3. Setting(q)'
        BY <1>3, <2>1, <2>3, <3>2 DEF Setting, InStep
      <3> QED
        BY <3>1, <3>3
    <2> QED
      BY <1>6, <2>2, <2>3 DEF InStep
  <1> QED
    BY <1>2, <1>4, <1>5, <1>6 DEF MemIInv

(* What is known of a request, and of a step that changes it alone.        *)
LEMMA MemKnown ==
  ASSUME MemIInv, NEW r \in Requests
  PROVE  /\ edits \in [Requests -> MemReq] /\ doc \in [Mem!Docs -> MemDoc]
         /\ entry \in [Mem!Docs -> MemDoc] /\ bound \in BOOLEAN /\ memCalls \in Nat
         /\ memRaced \in BOOLEAN /\ edits[r] \in MemReq /\ edits[r].doc \in Mem!Docs
         /\ doc[edits[r].doc] \in MemDoc /\ edits[r].copy \in MemDoc /\ edits[r].new \in MemDoc
         /\ Sound(r)
  BY DEF MemIInv, MemTypeOK, MemReq

LEMMA MemChanged ==
  ASSUME MemIInv, NEW r \in Requests, NEW rec \in MemReq, edits' = [edits EXCEPT ![r] = rec]
  PROVE  /\ edits' \in [Requests -> MemReq] /\ edits'[r] = rec
         /\ \A q \in Requests : q # r => edits'[q] = edits[q]
  BY DEF MemIInv, MemTypeOK

(* The end of a request, but for its commit.                               *)
LEMMA MemEnds ==
  ASSUME MemIInv, NEW r \in Requests, NEW a \in Mem!Answers \ {"ok"}, Mem!Answer(r, a),
         UNCHANGED <<doc, entry, bound, memCalls, memRaced>>
  PROVE  MemIInv'
  <1> DEFINE rec == [Mem!Fresh("read", edits[r].doc, 0) EXCEPT !.seen = edits[r].seen, !.answer = a]
  <1>1. edits' = [edits EXCEPT ![r] = rec]
    BY MemKnown DEF Mem!Answer
  <1>2. /\ rec \in MemReq /\ rec.pc = "idle" /\ rec.new = Mem!NoDoc /\ rec.answer = a
    BY MemKnown, MemNothing DEF Mem!Fresh, MemReq
  <1> HIDE DEF rec
  <1>3. /\ edits' \in [Requests -> MemReq] /\ edits'[r] = rec
        /\ \A q \in Requests : q # r => edits'[q] = edits[q]
    BY <1>1, <1>2, MemChanged
  <1>4. Sound(r)' /\ ~Wrote(r)' /\ ~Mem!Editing(r)' /\ Setting(r)' /\ Deleted(r)'
    BY <1>2, <1>3 DEF Sound, Wrote, Mem!Editing, Setting, Deleted
  <1> QED
    BY <1>3, <1>4, MemKnown, MemMoves DEF EntryStep

LEMMA MemStarts ==
  ASSUME MemIInv, NEW r \in Requests, NEW op \in {"read", "effective", "edit"}, NEW d \in Mem!Docs,
         NEW m \in 0..MaxMatch, Mem!Start(r, op, d, m)
  PROVE  MemIInv'
  <1> DEFINE rec == [Mem!Fresh(op, d, m) EXCEPT !.pc = Mem!First(op, d), !.seen = bound,
                                                 !.by = IF op = "edit" THEN memCalls' ELSE 0]
  <1>1. /\ edits' = [edits EXCEPT ![r] = rec] /\ memCalls' = memCalls + 1
        /\ UNCHANGED <<doc, entry, bound, memRaced>>
    BY DEF Mem!Start
  <1>2. m \in Nat
    BY SharedRowsAssumption DEF SharedRowsAssumption
  <1>3. memCalls \in Nat /\ memCalls' \in Nat /\ bound \in BOOLEAN
    BY <1>1, MemKnown
  <1>4. /\ rec \in MemReq /\ rec.new = Mem!NoDoc /\ rec.answer = "none" /\ rec.seen = bound
        /\ rec.op = op /\ rec.doc = d /\ rec.pc = Mem!First(op, d)
    BY <1>2, <1>3, MemNothing DEF Mem!Fresh, MemReq, Mem!First, Mem!Answers
  <1> HIDE DEF rec
  <1>5. /\ edits' \in [Requests -> MemReq] /\ edits'[r] = rec
        /\ \A q \in Requests : q # r => edits'[q] = edits[q]
    BY <1>1, <1>4, MemChanged
  <1>6. ~Wrote(r)' /\ ~Mem!Editing(r)' /\ Setting(r)' /\ Deleted(r)'
    BY <1>4, <1>5 DEF Wrote, Mem!Editing, Setting, Deleted, Mem!First
  <1>7. Sound(r)'
    <2>1. /\ rec.doc = "overlay" => rec.pc = "binding"
          /\ rec.pc = "get" => op # "edit"
          /\ rec.pc = "load" => op = "edit"
          /\ rec.pc \in {"binding", "load", "get"}
      BY <1>4 DEF Mem!First
    <2>2. bound' => edits'[r].seen
      BY <1>1, <1>4, <1>5
    <2> QED
      BY <1>4, <1>5, <1>6, <2>1, <2>2 DEF Sound, Mem!Writer
  <1> QED
    BY <1>1, <1>3, <1>5, <1>6, <1>7, MemKnown, MemMoves DEF EntryStep

LEMMA MemBinds ==
  ASSUME MemIInv, NEW r \in Requests, Mem!EnsureChannelBound(r)
  PROVE  MemIInv'
  <1>1. UNCHANGED <<doc, entry, bound, memCalls, memRaced>> /\ edits[r].pc = "binding"
    BY DEF Mem!EnsureChannelBound
  <1>2. CASE ~bound
    BY <1>1, <1>2, MemEnds DEF Mem!EnsureChannelBound, Mem!Answers
  <1>3. CASE bound
    <2> DEFINE pc_ == IF Mem!Writer(r) THEN "load" ELSE "get"
               rec == [edits[r] EXCEPT !.pc = pc_]
    <2>1. edits' = [edits EXCEPT ![r] = rec]
      BY <1>3, MemKnown DEF Mem!EnsureChannelBound, Mem!Goto
    <2>2. /\ rec \in MemReq /\ rec.pc = pc_ /\ rec.new = edits[r].new /\ rec.answer = edits[r].answer
          /\ rec.seen = edits[r].seen /\ rec.op = edits[r].op /\ rec.doc = edits[r].doc
      BY MemKnown DEF MemReq
    <2>3. pc_ \in {"load", "get"} /\ (pc_ = "load" <=> Mem!Writer(r))
      OBVIOUS
    <2> HIDE DEF rec, pc_
    <2>4. /\ edits' \in [Requests -> MemReq] /\ edits'[r] = rec
          /\ \A q \in Requests : q # r => edits'[q] = edits[q]
      BY <2>1, <2>2, MemChanged
    <2>5. /\ Mem!Writer(r)' = Mem!Writer(r) /\ Wrote(r)' = Wrote(r) /\ Mem!Written(r)' = Mem!Written(r)
          /\ ~Mem!Editing(r)' /\ Setting(r)' /\ Deleted(r)'
      BY <2>2, <2>3, <2>4 DEF Mem!Writer, Wrote, Mem!Written, Mem!Editing, Setting, Deleted
    <2>6. edits[r].seen
      BY <1>1, <1>3, MemKnown DEF Sound
    <2>7. Sound(r)'
      BY <1>1, <2>2, <2>3, <2>4, <2>5, <2>6, MemKnown DEF Sound
    <2> QED
      BY <1>1, <2>4, <2>5, <2>7, MemKnown, MemMoves DEF EntryStep
  <1> QED
    BY <1>2, <1>3

(* What follows a document read.                                           *)
LEMMA MemReads ==
  ASSUME MemIInv, NEW r \in Requests, edits[r].pc \in {"get", "set"}, Mem!Read(r), EntryStep,
         UNCHANGED <<doc, bound, memCalls, memRaced>>, entry' \in [Mem!Docs -> MemDoc]
  PROVE  MemIInv'
  <1>1. PICK rec : /\ edits' = [edits EXCEPT ![r] = rec]
                   /\ \/ rec = [edits[r] EXCEPT !.pc = "commit"]
                      \/ /\ rec = [edits[r] EXCEPT !.pc = "binding", !.doc = "overlay"]
                         /\ edits[r].op = "effective"
    BY MemKnown DEF Mem!Read, Mem!Goto
  <1>2. /\ rec \in MemReq /\ rec.new = edits[r].new /\ rec.answer = edits[r].answer
        /\ rec.seen = edits[r].seen /\ rec.op = edits[r].op
        /\ \/ rec.pc = "commit" /\ rec.doc = edits[r].doc
           \/ rec.pc = "binding" /\ edits[r].op = "effective" /\ rec.doc = "overlay"
    BY <1>1, MemKnown DEF MemReq, Mem!Docs
  <1>3. /\ edits' \in [Requests -> MemReq] /\ edits'[r] = rec
        /\ \A q \in Requests : q # r => edits'[q] = edits[q]
    BY <1>1, <1>2, MemChanged
  <1>4. ~Mem!Writer(r)
    BY MemKnown DEF Sound
  <1>5. /\ Mem!Writer(r)' = Mem!Writer(r) /\ Wrote(r)' = Wrote(r) /\ Mem!Written(r)' = Mem!Written(r)
        /\ ~Mem!Editing(r)' /\ Setting(r)' /\ Deleted(r)'
    BY <1>2, <1>3, <1>4 DEF Mem!Writer, Wrote, Mem!Written, Mem!Editing, Setting, Deleted
  <1>6. Sound(r)'
    BY <1>2, <1>3, <1>4, <1>5, MemKnown DEF Sound
  <1> QED
    BY <1>3, <1>5, <1>6, MemKnown, MemMoves

LEMMA MemSelects ==
  ASSUME MemIInv, NEW r \in Requests, Mem!Select(r) \/ Mem!CacheGet(r) \/ Mem!CacheSet(r)
  PROVE  MemIInv'
  <1>1. ASSUME Mem!CacheGet(r) \/ Mem!CacheSet(r), Mem!Read(r) PROVE MemIInv'
    <2>1. EntryStep /\ UNCHANGED <<doc, bound, memCalls, memRaced>>
      BY <1>1 DEF Mem!CacheGet, Mem!CacheSet, EntryStep
    <2>2. entry' \in [Mem!Docs -> MemDoc]
      BY <1>1, MemKnown DEF Mem!CacheGet, Mem!CacheSet
    <2>3. edits[r].pc \in {"get", "set"}
      BY <1>1 DEF Mem!CacheGet, Mem!CacheSet
    <2> QED
      BY <1>1, <2>1, <2>2, <2>3, MemReads
  <1>2. ASSUME \/ Mem!CacheGet(r) /\ Mem!Goto(r, "select")
               \/ Mem!Select(r)
        PROVE  MemIInv'
    <2> DEFINE d == edits[r].doc
    <2>1. PICK rec :
            /\ edits' = [edits EXCEPT ![r] = rec]
            /\ \/ rec = [edits[r] EXCEPT !.pc = "select"] /\ edits[r].pc = "get"
               \/ rec = [edits[r] EXCEPT !.pc = "set", !.copy = doc[d]] /\ doc[d] # Mem!NoDoc
                  /\ (memRaced' \/ \A q \in Requests : Mem!Editing(q) => edits[q].doc # d)
               \/ rec = [edits[r] EXCEPT !.pc = "insert"] /\ d = "core"
               \/ rec = [edits[r] EXCEPT !.pc = "commit"]
               \/ rec = [edits[r] EXCEPT !.pc = "binding", !.op = "place"] /\ d = "overlay"
                  /\ edits[r].op # "effective"
      <3>1. CASE Mem!CacheGet(r) /\ Mem!Goto(r, "select")
        BY <3>1 DEF Mem!CacheGet, Mem!Goto
      <3>2. CASE Mem!Select(r)
        <4>1. memRaced' \/ \A q \in Requests : Mem!Editing(q) => edits[q].doc # d
          BY <3>2 DEF Mem!Select
        <4>2. d \in {"core", "overlay"}
          BY MemKnown DEF Mem!Docs
        <4> QED
          BY <3>2, <4>1, <4>2 DEF Mem!Select, Mem!Goto
      <3> QED
        BY <1>2, <3>1, <3>2
    <2>2. UNCHANGED <<doc, entry, bound, memCalls>> /\ edits[r].pc \in {"get", "select"}
      BY <1>2 DEF Mem!CacheGet, Mem!Select
    <2>3. memRaced' \in BOOLEAN /\ (memRaced => memRaced')
      <3>1. CASE Mem!CacheGet(r)
        BY <3>1, MemKnown DEF Mem!CacheGet
      <3>2. CASE Mem!Select(r)
        BY <3>2, Zenon DEF Mem!Select
      <3> QED
        BY <1>2, <3>1, <3>2
    <2>4. ~Mem!Writer(r)
      BY <2>2, MemKnown DEF Sound
    <2>5. rec \in MemReq
      BY <2>1, MemKnown DEF MemReq
    <2>6. /\ edits' \in [Requests -> MemReq] /\ edits'[r] = rec
          /\ \A q \in Requests : q # r => edits'[q] = edits[q]
      BY <2>1, <2>5, MemChanged
    <2>7. CASE rec = [edits[r] EXCEPT !.pc = "binding", !.op = "place"] /\ d = "overlay"
               /\ edits[r].op # "effective"
      <3>1. /\ rec.new = edits[r].new /\ rec.answer = edits[r].answer /\ rec.seen = edits[r].seen
            /\ rec.op = "place" /\ rec.pc = "binding" /\ rec.doc = "overlay"
        BY <2>7, MemKnown DEF MemReq
      <3>2. ~Wrote(r)
        BY <2>4, <2>7, MemKnown DEF Sound, Mem!Written
      <3>3. ~Wrote(r)' /\ ~Mem!Editing(r)' /\ Setting(r)' /\ Deleted(r)' /\ Sound(r)'
        BY <2>2, <2>6, <3>1, <3>2, MemKnown DEF Sound, Mem!Writer, Mem!Editing, Wrote, Setting, Deleted
      <3> QED
        BY <2>2, <2>3, <2>6, <3>3, MemKnown, MemMoves DEF EntryStep
    <2>8. CASE ~(rec = [edits[r] EXCEPT !.pc = "binding", !.op = "place"] /\ d = "overlay"
                 /\ edits[r].op # "effective")
      <3>1. /\ rec.new = edits[r].new /\ rec.answer = edits[r].answer /\ rec.seen = edits[r].seen
            /\ rec.op = edits[r].op /\ rec.doc = edits[r].doc
            /\ rec.pc \in {"select", "set", "insert", "commit"}
            /\ rec.pc = "insert" => d = "core"
            /\ rec.pc = "set" => /\ rec.copy = doc[d] /\ doc[d] # Mem!NoDoc
                                 /\ memRaced' \/ \A q \in Requests : Mem!Editing(q) => edits[q].doc # d
        BY <2>1, <2>8, MemKnown DEF MemReq
      <3>2. /\ Mem!Writer(r)' = Mem!Writer(r) /\ Wrote(r)' = Wrote(r)
            /\ Mem!Written(r)' = Mem!Written(r) /\ ~Mem!Editing(r)' /\ Deleted(r)'
        BY <2>4, <2>6, <3>1 DEF Mem!Writer, Wrote, Mem!Written, Mem!Editing, Deleted
      <3>3. Sound(r)'
        BY <2>2, <2>4, <2>6, <3>1, <3>2, MemKnown DEF Sound
      <3>4. ~memRaced' => Setting(r)'
        <4>1. \A q \in Requests : Mem!Editing(q)' => Mem!Editing(q) /\ edits'[q].doc = edits[q].doc
          BY <2>6, <3>2 DEF Mem!Editing, Mem!Writer
        <4> QED
          BY <2>2, <2>6, <3>1, <4>1 DEF Setting
      <3> QED
        BY <2>2, <2>3, <2>6, <3>2, <3>3, <3>4, MemKnown, MemMoves DEF EntryStep
    <2> QED
      BY <2>7, <2>8
  <1> QED
    BY <1>1, <1>2 DEF Mem!CacheGet, Mem!CacheSet

(* A write waits until no other request has one of its document.           *)
LEMMA MemWrites ==
  ASSUME MemIInv, NEW r \in Requests,
         Mem!Materialise(r) \/ Mem!Create(r) \/ Mem!Check(r) \/ Mem!Update(r)
  PROVE  MemIInv'
  <1>1. UNCHANGED <<doc, entry, bound, memCalls, memRaced>>
    BY DEF Mem!Materialise, Mem!Create, Mem!Check, Mem!Update
  <1>2. CASE Mem!Answer(r, "error") \/ Mem!Answer(r, "conflict")
    BY <1>1, <1>2, MemEnds DEF Mem!Answers
  <1>3. CASE Mem!Materialise(r) /\ ~Mem!Answer(r, "error")
    <2> DEFINE rec == [edits[r] EXCEPT !.pc = "set", !.copy = Mem!Empty, !.new = Mem!Empty]
    <2>1. /\ edits' = [edits EXCEPT ![r] = rec] /\ edits[r].pc = "insert" /\ doc["core"] = Mem!NoDoc
          /\ ~Mem!Held(r)
      BY <1>3, MemKnown DEF Mem!Materialise
    <2>2. /\ rec \in MemReq /\ rec.new = Mem!Empty /\ rec.copy = Mem!Empty /\ rec.pc = "set"
          /\ rec.answer = edits[r].answer /\ rec.seen = edits[r].seen /\ rec.op = edits[r].op
          /\ rec.doc = edits[r].doc
      BY MemKnown, MemNothing DEF MemReq
    <2> HIDE DEF rec
    <2>3. /\ edits' \in [Requests -> MemReq] /\ edits'[r] = rec
          /\ \A q \in Requests : q # r => edits'[q] = edits[q]
      BY <2>1, <2>2, MemChanged
    <2>4. edits[r].doc = "core" /\ ~Mem!Writer(r)
      BY <2>1, MemKnown DEF Sound
    <2>5. /\ Mem!Writer(r)' = Mem!Writer(r) /\ Wrote(r)' /\ Mem!Written(r)' = "core"
          /\ ~Mem!Editing(r)' /\ Setting(r)' /\ Deleted(r)'
      BY <2>2, <2>3, <2>4, MemNothing DEF Mem!Writer, Wrote, Mem!Written, Mem!Editing, Setting, Deleted
    <2>6. Sound(r)'
      BY <1>1, <2>1, <2>2, <2>3, <2>4, <2>5, MemKnown, MemNothing DEF Sound
    <2>7. \A q \in Requests \ {r} : Wrote(q) => Mem!Written(q) # Mem!Written(r)'
      BY <2>1, <2>4, <2>5 DEF Mem!Held, Wrote
    <2> QED
      BY <1>1, <2>3, <2>5, <2>6, <2>7, MemKnown, MemMoves DEF EntryStep
  <1>4. CASE (Mem!Create(r) \/ Mem!Check(r) \/ Mem!Update(r))
             /\ ~Mem!Answer(r, "error") /\ ~Mem!Answer(r, "conflict")
    <2> DEFINE d == edits[r].doc
               first == [ver |-> 1, by |-> edits[r].by]
               next == [ver |-> edits[r].copy.ver + 1, by |-> edits[r].by]
    <2>1. PICK rec :
            /\ edits' = [edits EXCEPT ![r] = rec]
            /\ \/ /\ rec = [edits[r] EXCEPT !.pc = "check", !.copy = Mem!Empty, !.new = Mem!Empty]
                  /\ edits[r].pc = "create" /\ d = "core" /\ doc[d] = Mem!NoDoc /\ ~Mem!Held(r)
               \/ /\ rec = [edits[r] EXCEPT !.pc = "del", !.new = first]
                  /\ edits[r].pc = "create" /\ d # "core" /\ doc[d] = Mem!NoDoc /\ ~Mem!Held(r)
               \/ /\ rec = [edits[r] EXCEPT !.pc = "update"]
                  /\ edits[r].pc = "check" /\ edits[r].match \in {0, edits[r].copy.ver}
               \/ /\ rec = [edits[r] EXCEPT !.pc = "del", !.new = next]
                  /\ edits[r].pc = "update" /\ ~Mem!Held(r)
      BY <1>4, MemKnown DEF Mem!Create, Mem!Check, Mem!Update, Mem!Goto
    <2>2. Mem!Writer(r) /\ Mem!Editing(r) /\ Known(r) /\ Mem!Written(r) = d
      <3>1. edits[r].pc \in {"create", "check", "update"}
        BY <2>1
      <3>2. Mem!Writer(r) /\ Mem!Editing(r)
        BY <3>1, MemKnown DEF Sound, Mem!Editing
      <3> QED
        BY <3>2, MemKnown DEF Sound, Mem!Written, Mem!Writer
    <2>3. /\ first \in MemDoc /\ next \in MemDoc /\ first.ver = 1
          /\ next.ver = edits[r].copy.ver + 1 /\ edits[r].copy.ver \in Nat
      BY MemKnown DEF MemReq, MemDoc
    <2> HIDE DEF first, next
    <2>4. /\ rec \in MemReq /\ rec.answer = edits[r].answer /\ rec.seen = edits[r].seen
          /\ rec.op = edits[r].op /\ rec.doc = edits[r].doc /\ rec.alone = edits[r].alone
          /\ rec.match = edits[r].match /\ rec.pc \in {"check", "update", "del"}
      BY <2>1, <2>3, MemKnown, MemNothing DEF MemReq
    <2>5. /\ edits' \in [Requests -> MemReq] /\ edits'[r] = rec
          /\ \A q \in Requests : q # r => edits'[q] = edits[q]
      BY <2>1, <2>4, MemChanged
    <2>6. /\ Mem!Writer(r)' = Mem!Writer(r) /\ Mem!Written(r)' = Mem!Written(r)
          /\ Mem!Editing(r)' /\ Setting(r)' /\ Deleted(r)'
      BY <2>2, <2>4, <2>5 DEF Mem!Writer, Mem!Written, Mem!Editing, Setting, Deleted
    <2>7. Wrote(r)' => Wrote(r) \/ \A q \in Requests \ {r} : Wrote(q) => Mem!Written(q) # d
      <3>1. CASE Mem!Held(r)
        BY <2>1, <2>5, <3>1, MemKnown DEF Wrote, MemReq
      <3>2. CASE ~Mem!Held(r)
        BY <3>2 DEF Mem!Held, Wrote
      <3> QED
        BY <3>1, <3>2
    <2>8. Known(r)'
      <3>1. CASE edits[r].pc = "create" /\ d = "core"
        <4>1. rec.copy = Mem!Empty /\ rec.new = Mem!Empty /\ rec.pc = "check" /\ doc[d] = Mem!NoDoc
          BY <2>1, <3>1, MemKnown DEF MemReq
        <4> QED
          BY <1>1, <2>4, <2>5, <4>1, MemNothing DEF Known, Wrote
      <3>2. CASE edits[r].pc = "create" /\ d # "core"
        <4>1. /\ rec.copy = Mem!NoDoc /\ rec.new.ver = 1 /\ rec.pc = "del" /\ doc[d] = Mem!NoDoc
          BY <2>1, <2>2, <2>3, <3>2, MemKnown DEF MemReq, Known
        <4> QED
          BY <1>1, <2>4, <2>5, <3>2, <4>1, MemNothing DEF Known
      <3>3. CASE edits[r].pc = "check"
        <4>1. /\ rec.copy = edits[r].copy /\ rec.new = edits[r].new /\ rec.pc = "update"
              /\ rec.match \in {0, rec.copy.ver}
          BY <2>1, <2>4, <3>3, MemKnown DEF MemReq
        <4>2. Wrote(r)' = Wrote(r)
          BY <2>5, <4>1 DEF Wrote
        <4> QED
          BY <1>1, <2>2, <2>4, <2>5, <3>3, <4>1, <4>2 DEF Known
      <3>4. CASE edits[r].pc = "update"
        <4>1. /\ rec.copy = edits[r].copy /\ rec.new.ver = rec.copy.ver + 1 /\ rec.pc = "del"
          BY <2>1, <2>3, <3>4, MemKnown DEF MemReq
        <4>2. Wrote(r)'
          BY <2>3, <2>5, <4>1, MemNothing DEF Wrote
        <4> QED
          BY <1>1, <2>2, <2>4, <2>5, <3>4, <4>1, <4>2 DEF Known
      <3> QED
        BY <2>1, <3>1, <3>2, <3>3, <3>4
    <2>9. rec.pc = "del" => Wrote(r)'
      <3>1. rec.pc = "del" => rec.new.ver # 0
        <4>1. rec.pc = "del" => rec.new = first \/ rec.new = next
          BY <2>1, MemKnown DEF MemReq
        <4> QED
          BY <2>3, <4>1
      <3> QED
        BY <2>5, <3>1, MemNothing DEF Wrote
    <2>10. Sound(r)'
      BY <1>1, <2>1, <2>2, <2>4, <2>5, <2>6, <2>8, <2>9, MemKnown DEF Sound
    <2> QED
      BY <1>1, <2>2, <2>4, <2>5, <2>6, <2>7, <2>10, MemKnown, MemMoves DEF EntryStep
  <1> QED
    BY <1>2, <1>3, <1>4

LEMMA MemDeletes ==
  ASSUME MemIInv, NEW r \in Requests, Mem!CacheDelete(r)
  PROVE  MemIInv'
  <1> DEFINE rec == [edits[r] EXCEPT !.pc = "commit"]
             d == edits[r].doc
  <1>1. /\ edits' = [edits EXCEPT ![r] = rec] /\ edits[r].pc = "del"
        /\ UNCHANGED <<doc, bound, memCalls>>
        /\ \/ entry' = [entry EXCEPT ![d] = Mem!NoDoc] /\ memRaced' = memRaced
           \/ memRaced' = TRUE /\ UNCHANGED entry
    BY MemKnown DEF Mem!CacheDelete, Mem!Goto
  <1>2. /\ rec \in MemReq /\ rec.pc = "commit" /\ rec.answer = edits[r].answer
        /\ rec.seen = edits[r].seen /\ rec.op = edits[r].op /\ rec.doc = edits[r].doc
        /\ rec.alone = edits[r].alone /\ rec.match = edits[r].match /\ rec.copy = edits[r].copy
        /\ rec.new = edits[r].new
    BY MemKnown DEF MemReq
  <1> HIDE DEF rec
  <1>3. /\ edits' \in [Requests -> MemReq] /\ edits'[r] = rec
        /\ \A q \in Requests : q # r => edits'[q] = edits[q]
    BY <1>1, <1>2, MemChanged
  <1>4. d \in Mem!Docs /\ entry' \in [Mem!Docs -> MemDoc] /\ EntryStep
    BY <1>1, MemKnown, MemNothing DEF EntryStep
  <1>5. Mem!Writer(r) /\ Mem!Editing(r) /\ Wrote(r) /\ Known(r)
    <2>1. Mem!Writer(r)
      BY <1>1, MemKnown DEF Sound
    <2>2. Mem!Editing(r)
      BY <1>1, <2>1 DEF Mem!Editing
    <2> QED
      BY <1>1, <2>1, <2>2, MemKnown DEF Sound
  <1>6. /\ Mem!Writer(r)' = Mem!Writer(r) /\ Wrote(r)' = Wrote(r) /\ Mem!Written(r)' = Mem!Written(r)
        /\ Mem!Editing(r)' /\ Setting(r)'
    BY <1>2, <1>3, <1>5 DEF Mem!Writer, Wrote, Mem!Written, Mem!Editing, Setting
  <1>7. Known(r)'
    BY <1>1, <1>2, <1>3, <1>5, <1>6 DEF Known
  <1>8. Sound(r)'
    BY <1>1, <1>2, <1>3, <1>5, <1>6, <1>7, MemKnown DEF Sound
  <1>9. ~memRaced' => Deleted(r)'
    BY <1>1, <1>2, <1>3, <1>4, MemKnown DEF Deleted
  <1>10. memRaced' \in BOOLEAN /\ (memRaced => memRaced')
    <2>1. memRaced \in BOOLEAN
      BY MemKnown
    <2>2. CASE memRaced' = memRaced
      BY <2>1, <2>2
    <2>3. CASE memRaced' = TRUE
      BY <2>3
    <2> QED
      BY <1>1, <2>2, <2>3
  <1> QED
    BY <1>1, <1>2, <1>3, <1>4, <1>5, <1>6, <1>8, <1>9, <1>10, MemKnown, MemMoves

-----------------------------------------------------------------------------

(* A request is loaded: whoever edits the document is no longer alone.     *)
LEMMA MemLoads ==
  ASSUME MemIInv, NEW r \in Requests, Mem!Load(r)
  PROVE  MemIInv'
  <1> DEFINE d == edits[r].doc
             others == {q \in Requests \ {r} : Mem!Editing(q) /\ edits[q].doc = edits[r].doc}
             p == IF doc[d] = Mem!NoDoc THEN "create" ELSE "check"
             rec == [edits[r] EXCEPT !.pc = p, !.copy = doc[d], !.alone = others = {}]
  <1>1. /\ edits[r].pc = "load" /\ UNCHANGED <<doc, entry, bound, memCalls>>
        /\ edits' = [q \in Requests |-> IF q = r THEN rec
                                        ELSE [edits[q] EXCEPT !.alone = @ /\ q \notin others]]
    BY DEF Mem!Load, Mem!Loaded
  <1>2. /\ memRaced' \in BOOLEAN /\ (memRaced => memRaced')
        /\ ~memRaced' => \A q \in Requests : edits[q].pc = "set" => edits[q].doc # d
    BY Zenon DEF Mem!Load
  <1>3. /\ rec \in MemReq /\ rec.pc = p /\ rec.copy = doc[d] /\ rec.alone = (others = {})
        /\ rec.answer = edits[r].answer /\ rec.seen = edits[r].seen /\ rec.op = edits[r].op
        /\ rec.doc = d /\ rec.new = edits[r].new
    <2>1. p \in {"create", "check"} /\ (others = {}) \in BOOLEAN
      OBVIOUS
    <2> HIDE DEF p, others
    <2> QED
      BY <2>1, MemKnown DEF MemReq
  <1>4. \A q \in Requests : q # r =>
          /\ edits'[q] \in MemReq /\ edits'[q].pc = edits[q].pc /\ edits'[q].copy = edits[q].copy
          /\ edits'[q].new = edits[q].new /\ edits'[q].op = edits[q].op /\ edits'[q].doc = edits[q].doc
          /\ edits'[q].match = edits[q].match /\ edits'[q].seen = edits[q].seen
          /\ edits'[q].answer = edits[q].answer
          /\ edits'[q].alone = (edits[q].alone /\ q \notin others)
    <2> TAKE q \in Requests
    <2> HAVE q # r
    <2> DEFINE b == edits[q].alone /\ q \notin others
    <2>1. b \in BOOLEAN
      OBVIOUS
    <2>2. edits'[q] = [edits[q] EXCEPT !.alone = b]
      BY <1>1
    <2> HIDE DEF b
    <2>3. edits'[q].alone = b
      BY <2>2, MemKnown DEF MemReq
    <2>4. edits[q] \in MemReq
      BY MemKnown
    <2> HIDE DEF others
    <2>5. /\ edits'[q] \in MemReq /\ edits'[q].pc = edits[q].pc /\ edits'[q].copy = edits[q].copy
          /\ edits'[q].new = edits[q].new /\ edits'[q].op = edits[q].op /\ edits'[q].doc = edits[q].doc
          /\ edits'[q].match = edits[q].match /\ edits'[q].seen = edits[q].seen
          /\ edits'[q].answer = edits[q].answer
      BY <2>1, <2>2, <2>4 DEF MemReq
    <2> QED
      BY <2>3, <2>5 DEF b
  <1> HIDE DEF rec
  <1>5. edits'[r] = rec /\ edits' \in [Requests -> MemReq]
    BY <1>1, <1>3, <1>4
  <1>6. MemTypeOK'
    BY <1>1, <1>2, <1>5, MemKnown DEF MemTypeOK
  <1>7. Mem!Writer(r) /\ ~Mem!Editing(r)
    BY <1>1, MemKnown DEF Sound, Mem!Editing
  <1>8. /\ \A q \in Requests : /\ Mem!Writer(q)' = Mem!Writer(q) /\ Wrote(q)' = Wrote(q)
                               /\ Mem!Written(q)' = Mem!Written(q) /\ edits'[q].doc = edits[q].doc
                               /\ edits'[q].new = edits[q].new
        /\ \A q \in Requests : q # r => Mem!Editing(q)' = Mem!Editing(q)
    BY <1>3, <1>4, <1>5 DEF Mem!Writer, Wrote, Mem!Written, Mem!Editing
  <1>9. \A q \in Requests : Sound(q)'
    <2>1. ASSUME NEW q \in Requests, q # r PROVE Sound(q)'
      <3>1. Sound(q) /\ (edits'[q].alone => edits[q].alone)
        BY <1>4, <2>1, MemKnown
      <3>2. Mem!Editing(q)' => Known(q)'
        BY <1>1, <1>4, <1>8, <2>1, <3>1 DEF Sound, Known
      <3> QED
        BY <1>1, <1>4, <1>8, <2>1, <3>1, <3>2 DEF Sound
    <2>2. Known(r)'
      BY <1>1, <1>3, <1>5 DEF Known
    <2>3. Sound(r)'
      BY <1>1, <1>3, <1>5, <1>7, <1>8, <2>2, MemKnown DEF Sound
    <2> QED
      BY <2>1, <2>3
  <1>10. Exclusive'
    <2>1. \A q, s \in Requests : Wrote(q)' /\ Wrote(s)' /\ Mem!Written(q)' = Mem!Written(s)' => q = s
      BY <1>8 DEF MemIInv, Exclusive
    <2>2. ASSUME NEW q \in Requests, NEW s \in Requests, Mem!Editing(q)', Mem!Editing(s)',
                 edits'[q].doc = edits'[s].doc, edits'[s].alone
          PROVE  q = s
      <3>1. CASE s = r
        <4> SUFFICES ASSUME q # r PROVE FALSE
          BY <3>1
        <4>1. q \in others
          BY <1>8, <2>2, <3>1
        <4> QED
          BY <1>3, <1>5, <2>2, <3>1, <4>1
      <3>2. CASE s # r /\ q = r
        <4>1. s \in others
          BY <1>8, <2>2, <3>2
        <4> QED
          BY <1>4, <2>2, <3>2, <4>1
      <3>3. CASE s # r /\ q # r
        <4>1. edits[s].alone
          BY <1>4, <2>2, <3>3
        <4> QED
          BY <1>8, <2>2, <3>3, <4>1 DEF MemIInv, Exclusive
      <3> QED
        BY <3>1, <3>2, <3>3
    <2> QED
      BY <2>1, <2>2 DEF Exclusive
  <1>11. ASSUME ~memRaced' PROVE InStep'
    <2>1. InStep
      BY <1>2, <1>11 DEF MemIInv
    <2>2. \A c \in Mem!Docs : Current(c)'
      BY <1>1, <2>1 DEF InStep, Current
    <2>3. ASSUME NEW q \in Requests PROVE Setting(q)' /\ Deleted(q)'
      <3>1. CASE q = r
        BY <1>3, <1>5, <3>1 DEF Setting, Deleted
      <3>2. CASE q # r
        <4>1. Setting(q) /\ Deleted(q)
          BY <2>1 DEF InStep
        <4>2. Deleted(q)'
          BY <1>1, <1>4, <1>8, <3>2, <4>1 DEF Deleted
        <4>3. \A e \in Requests : edits[q].pc = "set" /\ Mem!Editing(e)' /\ edits'[e].doc = edits[q].doc
                                  => Mem!Editing(e) /\ edits[e].doc = edits[q].doc
          BY <1>2, <1>8, <1>11
        <4>4. Setting(q)'
          BY <1>1, <1>4, <1>8, <3>2, <4>1, <4>3 DEF Setting
        <4> QED
          BY <4>2, <4>4
      <3> QED
        BY <3>1, <3>2
    <2> QED
      BY <2>2, <2>3 DEF InStep
  <1> QED
    BY <1>6, <1>9, <1>10, <1>11 DEF MemIInv

(* A commit puts what the request wrote, and ends it.                      *)
LEMMA MemCommits ==
  ASSUME MemIInv, NEW r \in Requests, Mem!Commit(r)
  PROVE  MemIInv'
  <1> DEFINE rec == [Mem!Fresh("read", edits[r].doc, 0) EXCEPT !.seen = edits[r].seen, !.answer = "ok"]
             t == Mem!Written(r)
  <1>1. /\ edits[r].pc = "commit" /\ edits' = [edits EXCEPT ![r] = rec]
        /\ doc' = IF Wrote(r) THEN [doc EXCEPT ![t] = edits[r].new] ELSE doc
        /\ UNCHANGED <<entry, bound, memCalls, memRaced>>
    BY MemKnown DEF Mem!Commit, Mem!Answer, Wrote
  <1>2. /\ rec \in MemReq /\ rec.pc = "idle" /\ rec.new = Mem!NoDoc /\ rec.answer = "ok"
        /\ rec.seen = edits[r].seen /\ rec.doc = edits[r].doc
    BY MemKnown, MemNothing DEF Mem!Fresh, MemReq, Mem!Answers
  <1> HIDE DEF rec
  <1>3. /\ edits' \in [Requests -> MemReq] /\ edits'[r] = rec
        /\ \A q \in Requests : q # r => edits'[q] = edits[q]
    BY <1>1, <1>2, MemChanged
  <1>4. /\ t \in Mem!Docs /\ (Mem!Writer(r) => t = edits[r].doc)
    BY MemKnown DEF Mem!Written, Mem!Writer, Mem!Docs
  <1>5. /\ t \in Mem!Docs /\ doc' \in [Mem!Docs -> MemDoc]
        /\ \A d \in Mem!Docs : d # t => doc'[d] = doc[d]
        /\ doc'[t] = IF Wrote(r) THEN edits[r].new ELSE doc[t]
    BY <1>1, <1>4, MemKnown
  <1>6. /\ ~Wrote(r)' /\ ~Mem!Editing(r)' /\ Setting(r)' /\ Deleted(r)'
        /\ \A q \in Requests : q # r =>
             /\ edits'[q] = edits[q] /\ Mem!Writer(q)' = Mem!Writer(q) /\ Wrote(q)' = Wrote(q)
             /\ Mem!Written(q)' = Mem!Written(q) /\ Mem!Editing(q)' = Mem!Editing(q)
    BY <1>2, <1>3 DEF Mem!Writer, Wrote, Mem!Written, Mem!Editing, Setting, Deleted
  <1>7. Sound(r)'
    BY <1>1, <1>2, <1>3, <1>6, MemKnown DEF Sound
  <1>8. Mem!Editing(r) \/ (Wrote(r) => edits[r].new = Mem!Empty /\ t = "core" /\ doc["core"] = Mem!NoDoc)
    BY <1>1, MemKnown DEF Sound, Mem!Editing
  <1>9. ASSUME NEW q \in Requests, q # r PROVE Sound(q)'
    <2>0. Sound(q) /\ Exclusive /\ edits[q].doc \in Mem!Docs
      BY MemKnown DEF MemIInv
    <2>1. ASSUME Wrote(q), ~Mem!Writer(q) PROVE doc'["core"] = Mem!NoDoc
      <3>1. Mem!Written(q) = "core" /\ doc["core"] = Mem!NoDoc
        BY <2>0, <2>1 DEF Sound
      <3>2. ~(Wrote(r) /\ t = "core")
        BY <1>9, <2>0, <2>1, <3>1 DEF Exclusive
      <3> QED
        BY <1>5, <3>1, <3>2 DEF Mem!Docs
    <2>2. ASSUME Mem!Editing(q) PROVE Known(q)'
      <3>1. Known(q)
        BY <2>0, <2>2 DEF Sound
      <3>2. ASSUME edits[q].alone, edits[q].pc # "create", Wrote(r), t = edits[q].doc PROVE FALSE
        <4>1. CASE Mem!Editing(r)
          BY <1>4, <1>9, <2>0, <2>2, <3>2, <4>1 DEF Exclusive, Mem!Editing
        <4>2. CASE ~Mem!Editing(r)
          <5>1. t = "core" /\ doc["core"] = Mem!NoDoc
            BY <1>8, <3>2, <4>2
          <5>2. edits[q].copy # Mem!NoDoc
            BY <3>1, <3>2, <5>1 DEF Known
          <5>3. Wrote(q)
            BY <3>1, <3>2, <5>1, <5>2 DEF Known
          <5>4. Mem!Written(q) = "core"
            BY <2>2, <3>2, <5>1 DEF Mem!Written, Mem!Editing, Mem!Writer
          <5> QED
            BY <1>9, <2>0, <3>2, <5>1, <5>3, <5>4 DEF Exclusive
        <4> QED
          BY <4>1, <4>2
      <3>3. edits[q].alone /\ edits[q].pc # "create" => doc'[edits[q].doc] = doc[edits[q].doc]
        BY <1>5, <2>0, <3>2
      <3> QED
        BY <1>6, <1>9, <3>1, <3>3 DEF Known
    <2> QED
      BY <1>1, <1>6, <1>9, <2>0, <2>1, <2>2 DEF Sound
  <1>10. MemTypeOK'
    BY <1>1, <1>3, <1>5, MemKnown DEF MemTypeOK
  <1>11. Exclusive'
    BY <1>6 DEF MemIInv, Exclusive
  <1>12. ASSUME ~memRaced' PROVE InStep'
    <2>1. InStep /\ Exclusive
      BY <1>1, <1>12 DEF MemIInv
    <2>2. ASSUME NEW d \in Mem!Docs PROVE Current(d)'
      <3>1. CASE d = t /\ Wrote(r) /\ Mem!Editing(r)
        <4>1. entry[t] = Mem!NoDoc
          BY <1>1, <1>4, <2>1, <3>1 DEF InStep, Deleted, Mem!Editing
        <4> QED
          BY <1>1, <3>1, <4>1 DEF Current
      <3>2. CASE d = t /\ Wrote(r) /\ ~Mem!Editing(r)
        BY <1>1, <1>5, <1>8, <2>1, <2>2, <3>2 DEF Current, InStep
      <3>3. CASE d # t \/ ~Wrote(r)
        <4>1. doc'[d] = doc[d]
          BY <1>5, <3>3
        <4> QED
          BY <1>1, <2>1, <2>2, <4>1 DEF Current, InStep
      <3> QED
        BY <3>1, <3>2, <3>3
    <2>3. ASSUME NEW q \in Requests, q # r PROVE Setting(q)' /\ Deleted(q)'
      <3>1. Setting(q) /\ Deleted(q) /\ Sound(q) /\ edits[q].doc \in Mem!Docs
        BY <2>1, MemKnown DEF InStep
      <3>2. Deleted(q)'
        BY <1>1, <1>6, <2>3, <3>1 DEF Deleted
      <3>3. ASSUME edits[q].pc = "set", edits[q].copy = doc[edits[q].doc],
                   \A e \in Requests : Mem!Editing(e) => edits[e].doc # edits[q].doc
            PROVE  doc'[edits[q].doc] = doc[edits[q].doc]
        <4> SUFFICES ASSUME Wrote(r), t = edits[q].doc PROVE FALSE
          BY <1>5, <3>1
        <4>1. ~Mem!Editing(r)
          BY <1>4, <3>3 DEF Mem!Editing
        <4>2. doc[edits[q].doc] = Mem!NoDoc
          BY <1>8, <4>1
        <4> QED
          BY <3>1, <3>3, <4>2 DEF Sound
      <3>4. \A e \in Requests : Mem!Editing(e)' => Mem!Editing(e) /\ edits'[e].doc = edits[e].doc
        BY <1>6
      <3>5. Setting(q)'
        BY <1>6, <2>3, <3>1, <3>3, <3>4 DEF Setting
      <3> QED
        BY <3>2, <3>5
    <2> QED
      BY <1>6, <2>2, <2>3 DEF InStep
  <1> QED
    BY <1>7, <1>9, <1>10, <1>11, <1>12 DEF MemIInv

(* The channel is detached or reconnected, or an entry expires.            *)
LEMMA MemRebinds ==
  ASSUME MemIInv, Mem!Rebind
  PROVE  MemIInv'
  <1>1. /\ UNCHANGED <<doc, entry, memCalls, memRaced>> /\ bound' = ~bound
        /\ edits' = [r \in Requests |-> IF edits[r].pc = "idle" THEN edits[r]
                                        ELSE [edits[r] EXCEPT !.seen = @ \/ bound']]
    BY DEF Mem!Rebind
  <1>2. bound' \in BOOLEAN
    BY <1>1
  <1>3. \A r \in Requests :
          /\ edits'[r] \in MemReq /\ edits'[r].pc = edits[r].pc /\ edits'[r].copy = edits[r].copy
          /\ edits'[r].new = edits[r].new /\ edits'[r].op = edits[r].op /\ edits'[r].doc = edits[r].doc
          /\ edits'[r].match = edits[r].match /\ edits'[r].alone = edits[r].alone
          /\ edits'[r].answer = edits[r].answer
          /\ edits[r].seen => edits'[r].seen
          /\ edits[r].pc # "idle" /\ bound' => edits'[r].seen
    <2> TAKE r \in Requests
    <2>1. edits[r] \in MemReq
      BY MemKnown
    <2>2. CASE edits[r].pc = "idle"
      BY <1>1, <2>1, <2>2
    <2>3. CASE edits[r].pc # "idle"
      <3> DEFINE b == edits[r].seen \/ bound'
      <3>1. b \in BOOLEAN /\ edits'[r] = [edits[r] EXCEPT !.seen = b]
        BY <1>1, <2>3
      <3>2. (edits[r].seen => b) /\ (bound' => b)
        OBVIOUS
      <3> HIDE DEF b
      <3>3. edits'[r].seen = b
        BY <2>1, <3>1 DEF MemReq
      <3>4. /\ edits'[r] \in MemReq /\ edits'[r].pc = edits[r].pc /\ edits'[r].copy = edits[r].copy
            /\ edits'[r].new = edits[r].new /\ edits'[r].op = edits[r].op
            /\ edits'[r].doc = edits[r].doc /\ edits'[r].match = edits[r].match
            /\ edits'[r].alone = edits[r].alone /\ edits'[r].answer = edits[r].answer
        BY <2>1, <3>1 DEF MemReq
      <3> QED
        BY <3>2, <3>3, <3>4
    <2> QED
      BY <2>2, <2>3
  <1>4. edits' \in [Requests -> MemReq]
    BY <1>1, <1>3
  <1>5. \A r \in Requests : /\ Mem!Writer(r)' = Mem!Writer(r) /\ Wrote(r)' = Wrote(r)
                            /\ Mem!Written(r)' = Mem!Written(r) /\ Mem!Editing(r)' = Mem!Editing(r)
    BY <1>3 DEF Mem!Writer, Wrote, Mem!Written, Mem!Editing
  <1>6. MemTypeOK'
    BY <1>1, <1>2, <1>4 DEF MemTypeOK, MemIInv
  <1>7. ASSUME NEW r \in Requests PROVE Sound(r)'
    <2>1. Known(r) => Known(r)'
      BY <1>1, <1>3, <1>5 DEF Known
    <2> QED
      BY <1>1, <1>3, <1>5, <2>1, MemKnown DEF Sound
  <1>8. Exclusive'
    BY <1>3, <1>5 DEF MemIInv, Exclusive
  <1>9. ASSUME ~memRaced' PROVE InStep'
    <2>1. InStep
      BY <1>1, <1>9 DEF MemIInv
    <2>2. \A d \in Mem!Docs : Current(d)'
      BY <1>1, <2>1 DEF Current, InStep
    <2>3. ASSUME NEW r \in Requests PROVE Setting(r)' /\ Deleted(r)'
      BY <1>1, <1>3, <1>5, <2>1 DEF Setting, Deleted, InStep
    <2> QED
      BY <2>2, <2>3 DEF InStep
  <1> QED
    BY <1>6, <1>7, <1>8, <1>9 DEF MemIInv

LEMMA MemExpires ==
  ASSUME MemIInv, NEW d \in Mem!Docs, Mem!Expire(d)
  PROVE  MemIInv'
  <1>1. /\ entry' = [entry EXCEPT ![d] = Mem!NoDoc] /\ UNCHANGED <<doc, bound, edits, memCalls, memRaced>>
    BY DEF Mem!Expire
  <1>2. EntryStep
    BY <1>1 DEF EntryStep
  <1>3. MemTypeOK'
    BY <1>1, MemNothing DEF MemIInv, MemTypeOK
  <1>4. Exclusive' /\ \A r \in Requests : Sound(r)'
    BY <1>1 DEF MemIInv, Exclusive, Sound, Known, Wrote, Mem!Editing, Mem!Writer, Mem!Written
  <1>5. ASSUME ~memRaced' PROVE InStep'
    <2>1. InStep
      BY <1>1, <1>5 DEF MemIInv
    <2>2. \A r \in Requests : Setting(r)'
      BY <1>1, <2>1 DEF InStep, Setting, Wrote, Mem!Editing, Mem!Writer
    <2>3. \A r \in Requests : Deleted(r)'
      BY <1>1, <1>2, <2>1, EntryMoves DEF Deleted, Mem!Editing, Mem!Writer
    <2> QED
      BY <1>1, <1>2, <2>1, <2>2, <2>3, EntryMoves DEF InStep
  <1> QED
    BY <1>3, <1>4, <1>5 DEF MemIInv

LEMMA MemInductive ==
  MemIInv /\ [Mem!Next]_(Mem!vars) => MemIInv'
  <1> SUFFICES ASSUME MemIInv, [Mem!Next]_(Mem!vars) PROVE MemIInv'
    OBVIOUS
  <1>1. CASE UNCHANGED Mem!vars
    BY <1>1 DEF Mem!vars, MemIInv, MemTypeOK, Sound, Known, Exclusive, InStep, Current, Setting,
                Deleted, Wrote, Mem!Editing, Mem!Writer, Mem!Written
  <1>2. ASSUME NEW r \in Requests, Mem!Abort(r) PROVE MemIInv'
    BY <1>2, MemEnds DEF Mem!Abort, Mem!Answers
  <1> QED
    BY <1>1, <1>2, MemStarts, MemBinds, MemSelects, MemWrites, MemLoads, MemDeletes, MemCommits,
       MemRebinds, MemExpires DEF Mem!Next

-----------------------------------------------------------------------------

(* A cached document is the committed one, unless a read overlapped an     *)
(* edit or Redis missed a DEL, and an overlay is shown or edited only      *)
(* while its channel is connected (services/brand_memory.py): MemoryHolds, *)
(* for any number of requests and of versions.                             *)
THEOREM MemoriesHold == RowSpec => []MemoryHolds
  <1>1. MemIInv => MemoryHolds
    BY DEF MemIInv, InStep, Current, Sound, MemoryHolds, Mem!MemoryHolds, Mem!EntryIsCurrent,
           Mem!OverlayOnlyWhileBound
  <1> QED
    BY <1>1, MemInitially, MemInductive, BrandMemoryPart, PTL DEF Mem!Spec

(* What ends an edit with success is its commit alone.                     *)
LEMMA EditEnds ==
  ASSUME MemIInv, [Mem!Next]_(Mem!vars), NEW r \in Requests, Mem!Editing(r),
         edits'[r].pc = "idle", edits'[r].answer = "ok"
  PROVE  Mem!Commit(r)
  <1>1. /\ edits \in [Requests -> MemReq] /\ edits[r] \in MemReq /\ edits[r].pc # "idle"
        /\ edits[r].pc \in {"create", "check", "update", "del", "commit"}
    BY MemKnown DEF Mem!Editing
  <1>2. ~UNCHANGED Mem!vars
    BY <1>1 DEF Mem!vars
  <1>3. ~Mem!Rebind /\ ~(\E d \in Mem!Docs : Mem!Expire(d))
    <2>1. ASSUME Mem!Rebind PROVE FALSE
      <3>1. edits'[r].pc = edits[r].pc
        BY <1>1, <2>1 DEF Mem!Rebind, MemReq
      <3> QED
        BY <1>1, <3>1
    <2> QED
      BY <1>1, <2>1 DEF Mem!Expire
  <1>4. ASSUME NEW a \in Mem!Answers \ {"ok"}, Mem!Answer(r, a) PROVE FALSE
    BY <1>1, <1>4 DEF Mem!Answer, Mem!Fresh
  <1>5. ASSUME NEW p, p # "idle", Mem!Goto(r, p) PROVE FALSE
    <2>1. edits'[r].pc = p
      BY <1>1, <1>5 DEF Mem!Goto, MemReq
    <2> QED
      BY <1>5, <2>1
  <1>6. ASSUME NEW q \in Requests, q # r,
               \/ \E op \in {"read", "effective", "edit"}, d \in Mem!Docs, m \in 0..MaxMatch :
                    Mem!Start(q, op, d, m)
               \/ Mem!EnsureChannelBound(q) \/ Mem!CacheGet(q) \/ Mem!Select(q) \/ Mem!Materialise(q)
               \/ Mem!CacheSet(q) \/ Mem!Create(q) \/ Mem!Check(q) \/ Mem!Update(q)
               \/ Mem!CacheDelete(q) \/ Mem!Commit(q) \/ Mem!Abort(q)
        PROVE  FALSE
    <2>1. edits'[r] = edits[r]
      BY <1>1, <1>6 DEF Mem!Start, Mem!EnsureChannelBound, Mem!CacheGet, Mem!Select, Mem!Materialise,
         Mem!CacheSet, Mem!Create, Mem!Check, Mem!Update, Mem!CacheDelete, Mem!Commit, Mem!Abort,
         Mem!Answer, Mem!Goto, Mem!Read
    <2> QED
      BY <1>1, <2>1
  <1>7. ASSUME NEW q \in Requests, Mem!Load(q) PROVE FALSE
    <2>1. edits'[r].pc \in {edits[r].pc, "create", "check"}
      BY <1>1, <1>7 DEF Mem!Load, Mem!Loaded, MemReq
    <2> QED
      BY <1>1, <2>1
  <1>8. ASSUME Mem!Create(r) \/ Mem!Check(r) \/ Mem!Update(r) \/ Mem!CacheDelete(r) \/ Mem!Abort(r)
        PROVE  FALSE
    <2>1. {"error", "conflict", "none"} \subseteq Mem!Answers \ {"ok"}
      BY DEF Mem!Answers
    <2>2. CASE Mem!Check(r) \/ Mem!CacheDelete(r) \/ Mem!Abort(r)
      BY <1>4, <1>5, <2>1, <2>2 DEF Mem!Check, Mem!CacheDelete, Mem!Abort
    <2>3. CASE Mem!Create(r) \/ Mem!Update(r)
      <3>1. Mem!Answer(r, "error") \/ edits'[r].pc \in {"check", "del"}
        BY <1>1, <2>3 DEF Mem!Create, Mem!Update, MemReq
      <3> QED
        BY <1>4, <2>1, <3>1
    <2> QED
      BY <1>8, <2>2, <2>3
  <1>9. ~Mem!EnsureChannelBound(r) /\ ~Mem!CacheGet(r) /\ ~Mem!Select(r) /\ ~Mem!Materialise(r)
        /\ ~Mem!CacheSet(r)
        /\ \A op \in {"read", "effective", "edit"}, d \in Mem!Docs, m \in 0..MaxMatch :
             ~Mem!Start(r, op, d, m)
    BY <1>1 DEF Mem!Start, Mem!EnsureChannelBound, Mem!CacheGet, Mem!Select, Mem!Materialise,
       Mem!CacheSet
  <1>10. PICK q \in Requests :
               \/ \E op \in {"read", "effective", "edit"}, d \in Mem!Docs, m \in 0..MaxMatch :
                    Mem!Start(q, op, d, m)
               \/ Mem!EnsureChannelBound(q) \/ Mem!CacheGet(q) \/ Mem!Select(q) \/ Mem!Materialise(q)
               \/ Mem!CacheSet(q) \/ Mem!Create(q) \/ Mem!Check(q) \/ Mem!Update(q)
               \/ Mem!CacheDelete(q) \/ Mem!Commit(q) \/ Mem!Abort(q)
    BY <1>2, <1>3, <1>7 DEF Mem!Next
  <1> QED
    BY <1>6, <1>8, <1>9, <1>10

(* An edit that overlapped no other replaces the version its author named, *)
(* and raises it (update_core, update_overlay): EditReplacesNamed.         *)
THEOREM EditsReplaceTheNamed == RowSpec => EditReplacesNamed
  <1> DEFINE Replaced == \A r \in Requests :
                LET q == edits[r]  old == doc[q.doc] IN
                /\ Mem!Editing(r) /\ q.alone /\ edits'[r].pc = "idle" /\ edits'[r].answer = "ok"
                => doc'[q.doc].ver > old.ver /\ (old # Mem!NoDoc => q.match \in {0, old.ver})
  <1>1. MemIInv /\ [Mem!Next]_(Mem!vars) => Replaced
    <2> SUFFICES ASSUME MemIInv, [Mem!Next]_(Mem!vars), NEW r \in Requests, Mem!Editing(r),
                        edits[r].alone, edits'[r].pc = "idle", edits'[r].answer = "ok"
                 PROVE  /\ doc'[edits[r].doc].ver > doc[edits[r].doc].ver
                        /\ doc[edits[r].doc] # Mem!NoDoc => edits[r].match \in {0, doc[edits[r].doc].ver}
      OBVIOUS
    <2>1. Mem!Commit(r)
      BY EditEnds
    <2>2. edits[r].pc = "commit" /\ Known(r) /\ Wrote(r) /\ Mem!Written(r) = edits[r].doc
      BY <2>1, MemKnown DEF Mem!Commit, Sound, Mem!Editing, Mem!Writer, Mem!Written
    <2>3. doc'[edits[r].doc] = edits[r].new
      BY <2>1, <2>2, MemKnown DEF Mem!Commit, Wrote
    <2>4. /\ edits[r].copy \in MemDoc /\ doc[edits[r].doc] \in MemDoc
          /\ edits[r].new.ver = edits[r].copy.ver + 1
      BY <2>2, MemKnown DEF Known
    <2>5. CASE edits[r].copy = doc[edits[r].doc]
      BY <2>2, <2>3, <2>4, <2>5 DEF Known, MemDoc
    <2>6. CASE doc[edits[r].doc] = Mem!NoDoc /\ edits[r].copy = Mem!Empty
      BY <2>3, <2>4, <2>6, MemNothing DEF MemDoc
    <2> QED
      BY <2>2, <2>5, <2>6 DEF Known
  <1>2. MemIInv /\ [Mem!Next]_(Mem!vars) => MemIInv' /\ [Replaced]_(Mem!vars)
    BY <1>1, MemInductive
  <1> QED
    BY <1>2, MemInitially, BrandMemoryPart, PTL DEF EditReplacesNamed, Mem!EditReplacesNamed, Mem!Spec
-----------------------------------------------------------------------------
(* AgentRuns: sums over finite sets                                        *)

(* Induction over the subsets of a finite set, with the set of those that  *)
(* the claim holds for in the place of the claim.                          *)
LEMMA SubsetInduction ==
    ASSUME NEW S, IsFiniteSet(S), NEW P \in SUBSET (SUBSET S), {} \in P,
           \A T \in SUBSET S : T # {} /\ (\A i \in T : T \ {i} \in P) => T \in P
    PROVE  P = SUBSET S
  <1> DEFINE Q == (SUBSET S) \ P
  <1> SUFFICES ASSUME Q # {} PROVE FALSE
    OBVIOUS
  <1>1. IsWellFoundedOn(StrictSubsetOrdering(S), FiniteSubsetsOf(S))
    BY FS_StrictSubsetOrderingWellFounded
  <1>2. Q \subseteq FiniteSubsetsOf(S)
    BY FS_Subset DEF FiniteSubsetsOf
  <1> HIDE DEF Q
  <1>3. PICK T \in Q : \A U \in Q : ~(<<U, T>> \in StrictSubsetOrdering(S))
    BY <1>1, <1>2, WFMin
  <1>4. T \in SUBSET S /\ T # {} /\ T \notin P
    BY DEF Q
  <1>5. PICK i : i \in T /\ T \ {i} \notin P
    BY <1>4
  <1>6. T \ {i} \in Q
    BY <1>4, <1>5 DEF Q
  <1>7. <<T \ {i}, T>> \in StrictSubsetOrdering(S)
    <2>1. T \ {i} \subseteq T /\ T \ {i} # T /\ T \ {i} \in SUBSET S
      BY <1>4, <1>5
    <2> QED
      BY <1>4, <2>1 DEF StrictSubsetOrdering
  <1> QED
    BY <1>3, <1>6, <1>7

(* sum[T] is the sum of f over T, whatever the order it is taken in.       *)
Adds(sum, S, f) ==
    /\ sum \in [SUBSET S -> Nat]
    /\ sum[{}] = 0
    /\ \A T \in SUBSET S : \A i \in T : sum[T] = f[i] + sum[T \ {i}]

Sums(S, f) == CHOOSE sum : Adds(sum, S, f)

LEMMA SumsExist ==
    ASSUME NEW S, IsFiniteSet(S), NEW f \in [S -> Nat]
    PROVE  Adds(Sums(S, f), S, f)
  <1> DEFINE P == {T \in SUBSET S : \E sum : Adds(sum, T, f)}
  <1>1. {} \in P
    <2>1. Adds([T \in SUBSET {} |-> 0], {}, f)
      BY DEF Adds
    <2> QED
      BY <2>1
  <1>2. ASSUME NEW U \in SUBSET S, NEW x \in U, U \ {x} \in P
        PROVE  U \in P
    <2>1. PICK h : Adds(h, U \ {x}, f)
      BY <1>2
    <2> DEFINE sum == [T \in SUBSET U |-> IF x \in T THEN f[x] + h[T \ {x}] ELSE h[T]]
    <2>2. sum \in [SUBSET U -> Nat] /\ sum[{}] = 0
      BY <2>1 DEF Adds
    <2>3. ASSUME NEW T \in SUBSET U, NEW i \in T
          PROVE  sum[T] = f[i] + sum[T \ {i}]
      <3>1. CASE i = x
        BY <3>1
      <3>2. CASE i # x /\ x \in T
        <4>1. h[T \ {x}] = f[i] + h[(T \ {x}) \ {i}]
          BY <2>1, <3>2 DEF Adds
        <4>2. (T \ {x}) \ {i} = (T \ {i}) \ {x}
          OBVIOUS
        <4>3. f[i] \in Nat /\ f[x] \in Nat /\ h[(T \ {x}) \ {i}] \in Nat
          BY <2>1 DEF Adds
        <4> QED
          BY <3>2, <4>1, <4>2, <4>3
      <3>3. CASE i # x /\ x \notin T
        BY <2>1, <3>3 DEF Adds
      <3> QED
        BY <3>1, <3>2, <3>3
    <2> HIDE DEF sum
    <2> QED
      BY <2>2, <2>3 DEF Adds
  <1>9. P \in SUBSET (SUBSET S)
    OBVIOUS
  <1> HIDE DEF P
  <1>8. \A T \in SUBSET S : T # {} /\ (\A i \in T : T \ {i} \in P) => T \in P
    BY <1>2
  <1>3. P = SUBSET S
    BY <1>1, <1>8, <1>9, SubsetInduction
  <1> QED
    BY <1>3 DEF P, Sums

LEMMA SumsAgree ==
    ASSUME NEW S, IsFiniteSet(S), NEW f \in [S -> Nat], NEW g \in [S -> Nat],
           NEW K \in SUBSET S, \A i \in K : f[i] = g[i]
    PROVE  Sums(S, f)[K] = Sums(S, g)[K]
  <1> DEFINE P == {T \in SUBSET S : T \subseteq K => Sums(S, f)[T] = Sums(S, g)[T]}
  <1>1. Adds(Sums(S, f), S, f) /\ Adds(Sums(S, g), S, g)
    BY SumsExist
  <1>2. {} \in P
    BY <1>1 DEF Adds
  <1>3. ASSUME NEW T \in SUBSET S, NEW i \in T, T \ {i} \in P PROVE T \in P
    BY <1>1, <1>3 DEF Adds
  <1>9. P \in SUBSET (SUBSET S)
    OBVIOUS
  <1> HIDE DEF P
  <1>8. \A T \in SUBSET S : T # {} /\ (\A i \in T : T \ {i} \in P) => T \in P
    BY <1>3
  <1>4. P = SUBSET S
    BY <1>2, <1>8, <1>9, SubsetInduction
  <1> QED
    BY <1>4 DEF P

LEMMA SumsSplit ==
    ASSUME NEW S, IsFiniteSet(S), NEW f \in [S -> Nat],
           NEW A \in SUBSET S, NEW B \in SUBSET S, A \cap B = {}
    PROVE  Sums(S, f)[A \cup B] = Sums(S, f)[A] + Sums(S, f)[B]
  <1> DEFINE sum == Sums(S, f)
             P == {T \in SUBSET S : T \cap A = {} => sum[A \cup T] = sum[A] + sum[T]}
  <1>1. Adds(sum, S, f)
    BY SumsExist
  <1> HIDE DEF sum
  <1>2. {} \in P
    BY <1>1 DEF Adds
  <1>3. ASSUME NEW T \in SUBSET S, NEW i \in T, T \ {i} \in P, T \cap A = {}
        PROVE sum[A \cup T] = sum[A] + sum[T]
    <2>1. (A \cup T) \ {i} = A \cup (T \ {i})
      BY <1>3
    <2>2. sum[A \cup T] = f[i] + sum[A \cup (T \ {i})]
      BY <1>1, <2>1 DEF Adds
    <2>3. sum[T] = f[i] + sum[T \ {i}]
      BY <1>1 DEF Adds
    <2>4. f[i] \in Nat /\ sum[A] \in Nat /\ sum[T \ {i}] \in Nat
      BY <1>1 DEF Adds
    <2>5. sum[A \cup (T \ {i})] = sum[A] + sum[T \ {i}]
      BY <1>3
    <2> QED
      BY <2>2, <2>3, <2>4, <2>5
  <1>4. \A T \in SUBSET S : \A i \in T : T \ {i} \in P => T \in P
    BY <1>3
  <1>9. P \in SUBSET (SUBSET S)
    OBVIOUS
  <1> HIDE DEF P
  <1>8. \A T \in SUBSET S : T # {} /\ (\A i \in T : T \ {i} \in P) => T \in P
    BY <1>4
  <1>5. P = SUBSET S
    BY <1>2, <1>8, <1>9, SubsetInduction
  <1> QED
    BY <1>5 DEF P, sum

LEMMA SumsZero ==
    ASSUME NEW S, IsFiniteSet(S), NEW f \in [S -> Nat],
           NEW K \in SUBSET S, \A i \in K : f[i] = 0
    PROVE  Sums(S, f)[K] = 0
  <1> DEFINE P == {T \in SUBSET S : T \subseteq K => Sums(S, f)[T] = 0}
  <1>1. Adds(Sums(S, f), S, f)
    BY SumsExist
  <1>2. {} \in P
    BY <1>1 DEF Adds
  <1>3. ASSUME NEW T \in SUBSET S, NEW i \in T, T \ {i} \in P PROVE T \in P
    BY <1>1, <1>3 DEF Adds
  <1>9. P \in SUBSET (SUBSET S)
    OBVIOUS
  <1> HIDE DEF P
  <1>8. \A T \in SUBSET S : T # {} /\ (\A i \in T : T \ {i} \in P) => T \in P
    BY <1>3
  <1>4. P = SUBSET S
    BY <1>2, <1>8, <1>9, SubsetInduction
  <1> QED
    BY <1>4 DEF P
-----------------------------------------------------------------------------
(* AgentRuns: no token is lost or counted twice                            *)

RunTokens == [i \in Runs |-> run[i].tokens]
CallTokens == [i \in Runs |-> raw[i].tokens]
CallCounts == [i \in Runs |-> raw[i].count]
Finished == {i \in Runs : Agt!Done(i)}

Counted == [count : Nat, tokens : Nat]

AgtTypeOK ==
    /\ run \in [Runs -> [st : {"none", "open", "finishing", "succeeded", "failed"},
                         error : BOOLEAN, tokens : Nat, branded : BOOLEAN,
                         ancient : BOOLEAN]]
    /\ raw \in [Runs -> Counted]
    /\ daily \in Counted
    /\ fold \in [Requests -> [pc : {"idle", "upsert", "delete", "commit"},
                              rows : SUBSET Runs, sum : Counted]]

(* What a fold goes by: the calls that it has summed are all still there,  *)
(* and no other fold has them.                                             *)
FoldsApart ==
    /\ \A f \in Requests : fold[f].pc # "idle" =>
          fold[f].sum.tokens = Sums(Runs, CallTokens)[fold[f].rows]
    /\ \A f, g \in Requests : f # g => fold[f].rows \cap fold[g].rows = {}

Conserved ==
    Sums(Runs, RunTokens)[Finished] = Sums(Runs, CallTokens)[Finished] + daily.tokens

(* Until a run is finished the calls it counts are all in llm_calls.       *)
AgtIInv ==
    /\ AgtTypeOK
    /\ \A i \in Runs : ~Agt!Done(i) => raw[i].tokens = run[i].tokens
    /\ \A i \in Runs : run[i].st = "none" => run[i].tokens = 0
    /\ \A f \in Requests : fold[f].pc = "idle" => fold[f].rows = {}
    /\ \A f \in Requests : fold[f].rows \subseteq Finished
    /\ doubled \/ (FoldsApart /\ Conserved)

LEMMA FiniteRuns == IsFiniteSet(Runs)
  BY SharedRowsAssumption DEF SharedRowsAssumption

LEMMA TokensTyped ==
    ASSUME AgtTypeOK
    PROVE  /\ RunTokens \in [Runs -> Nat] /\ CallTokens \in [Runs -> Nat]
           /\ CallCounts \in [Runs -> Nat]
  BY DEF AgtTypeOK, RunTokens, CallTokens, CallCounts, Counted

(* The folds of the model are these sums.                                  *)
LEMMA TotalIs ==
    ASSUME AgtTypeOK, NEW K \in SUBSET Runs
    PROVE  /\ Agt!Total(K, raw).tokens = Sums(Runs, CallTokens)[K]
           /\ Agt!Total(K, raw) \in Counted
  <1> DEFINE Pick(T) == CHOOSE i \in T : TRUE
             Total(it) == [T \in SUBSET K |-> IF T = {} THEN Agt!Zero
                                              ELSE Agt!Plus(raw[Pick(T)], it[T \ {Pick(T)}])]
             sum == [T \in SUBSET K |-> [count |-> Sums(Runs, CallCounts)[T],
                                         tokens |-> Sums(Runs, CallTokens)[T]]]
             it == CHOOSE it : it = Total(it)
  <1>1. Adds(Sums(Runs, CallTokens), Runs, CallTokens) /\ Adds(Sums(Runs, CallCounts), Runs, CallCounts)
    BY FiniteRuns, TokensTyped, SumsExist
  <1>2. sum = Total(sum)
    <2> SUFFICES ASSUME NEW T \in SUBSET K
                 PROVE  sum[T] = IF T = {} THEN Agt!Zero
                                 ELSE Agt!Plus(raw[Pick(T)], sum[T \ {Pick(T)}])
      OBVIOUS
    <2>1. CASE T = {}
      BY <1>1, <2>1 DEF Adds, Agt!Zero
    <2>2. CASE T # {}
      <3>1. Pick(T) \in T /\ Pick(T) \in Runs /\ T \ {Pick(T)} \in SUBSET K
        BY <2>2
      <3>2. /\ Sums(Runs, CallTokens)[T] = raw[Pick(T)].tokens + Sums(Runs, CallTokens)[T \ {Pick(T)}]
            /\ Sums(Runs, CallCounts)[T] = raw[Pick(T)].count + Sums(Runs, CallCounts)[T \ {Pick(T)}]
        BY <1>1, <3>1 DEF Adds, CallTokens, CallCounts
      <3> HIDE DEF Pick
      <3> QED
        BY <2>2, <3>1, <3>2 DEF Agt!Plus
    <2> QED
      BY <2>1, <2>2
  <1>3. it = Total(it)
    BY <1>2
  <1> DEFINE P == {T \in SUBSET K : it[T] = sum[T]}
  <1>4. Agt!Total(K, raw) = it[K]
    BY DEF Agt!Total, Agt!FoldSet, Agt!MapThenFoldSet
  <1> HIDE DEF it
  <1>5. {} \in P
    BY <1>2, <1>3
  <1>6. ASSUME NEW T \in SUBSET K, T # {}, \A i \in T : T \ {i} \in P PROVE T \in P
    <2>1. Pick(T) \in T
      BY <1>6
    <2>2. it[T] = Agt!Plus(raw[Pick(T)], it[T \ {Pick(T)}])
      BY <1>3, <1>6
    <2>3. sum[T] = Agt!Plus(raw[Pick(T)], sum[T \ {Pick(T)}])
      BY <1>2, <1>6
    <2>4. it[T \ {Pick(T)}] = sum[T \ {Pick(T)}]
      BY <1>6, <2>1
    <2> QED
      BY <2>2, <2>3, <2>4
  <1>7. P \in SUBSET (SUBSET K) /\ IsFiniteSet(K)
    BY FiniteRuns, FS_Subset
  <1>8. sum[K].tokens = Sums(Runs, CallTokens)[K] /\ sum[K] \in Counted
    BY <1>1 DEF Adds, Counted
  <1> HIDE DEF P
  <1>9. P = SUBSET K
    BY <1>5, <1>6, <1>7, SubsetInduction
  <1>10. it[K] = sum[K]
    BY <1>9 DEF P
  <1> HIDE DEF sum
  <1> QED
    BY <1>4, <1>8, <1>10
LEMMA RunTotalIs ==
    ASSUME AgtTypeOK, NEW K \in SUBSET Runs
    PROVE  Agt!FoldSet(LAMBDA i, n : n + run[i].tokens, 0, K) = Sums(Runs, RunTokens)[K]
  <1> DEFINE Pick(T) == CHOOSE i \in T : TRUE
             Total(it) == [T \in SUBSET K |-> IF T = {} THEN 0
                                              ELSE it[T \ {Pick(T)}] + run[Pick(T)].tokens]
             sum == [T \in SUBSET K |-> Sums(Runs, RunTokens)[T]]
             it == CHOOSE it : it = Total(it)
  <1>1. Adds(Sums(Runs, RunTokens), Runs, RunTokens)
    BY FiniteRuns, TokensTyped, SumsExist
  <1>2. sum = Total(sum)
    <2> SUFFICES ASSUME NEW T \in SUBSET K
                 PROVE  sum[T] = IF T = {} THEN 0 ELSE sum[T \ {Pick(T)}] + run[Pick(T)].tokens
      OBVIOUS
    <2>1. CASE T = {}
      BY <1>1, <2>1 DEF Adds
    <2>2. CASE T # {}
      <3>1. Pick(T) \in T /\ Pick(T) \in Runs /\ T \ {Pick(T)} \in SUBSET K
        BY <2>2
      <3>2. /\ Sums(Runs, RunTokens)[T] = run[Pick(T)].tokens + Sums(Runs, RunTokens)[T \ {Pick(T)}]
            /\ Sums(Runs, RunTokens)[T \ {Pick(T)}] \in Nat /\ run[Pick(T)].tokens \in Nat
        BY <1>1, <3>1 DEF Adds, RunTokens, AgtTypeOK
      <3> HIDE DEF Pick
      <3> QED
        BY <2>2, <3>1, <3>2
    <2> QED
      BY <2>1, <2>2
  <1>3. it = Total(it)
    BY <1>2
  <1> DEFINE P == {T \in SUBSET K : it[T] = sum[T]}
  <1>4. Agt!FoldSet(LAMBDA i, n : n + run[i].tokens, 0, K) = it[K]
    BY DEF Agt!FoldSet, Agt!MapThenFoldSet
  <1> HIDE DEF it
  <1>5. {} \in P
    BY <1>2, <1>3
  <1>6. ASSUME NEW T \in SUBSET K, T # {}, \A i \in T : T \ {i} \in P PROVE T \in P
    <2>1. Pick(T) \in T
      BY <1>6
    <2>2. it[T] = it[T \ {Pick(T)}] + run[Pick(T)].tokens
      BY <1>3, <1>6
    <2>3. sum[T] = sum[T \ {Pick(T)}] + run[Pick(T)].tokens
      BY <1>2, <1>6
    <2>4. it[T \ {Pick(T)}] = sum[T \ {Pick(T)}]
      BY <1>6, <2>1
    <2> QED
      BY <2>2, <2>3, <2>4
  <1>7. P \in SUBSET (SUBSET K) /\ IsFiniteSet(K)
    BY FiniteRuns, FS_Subset
  <1> HIDE DEF P
  <1>8. P = SUBSET K
    BY <1>5, <1>6, <1>7, SubsetInduction
  <1> QED
    BY <1>4, <1>8 DEF P

LEMMA AgtInitially == Agt!Init => AgtIInv
  <1> SUFFICES ASSUME Agt!Init PROVE AgtIInv
    OBVIOUS
  <1>1. AgtTypeOK /\ Finished = {}
    BY DEF Agt!Init, AgtTypeOK, Finished, Agt!Done, Agt!NoRun, Agt!Zero, Agt!NoFold, Counted
  <1>2. /\ Sums(Runs, RunTokens)[{}] = 0 /\ Sums(Runs, CallTokens)[{}] = 0
    BY <1>1, FiniteRuns, TokensTyped, SumsZero
  <1> QED
    BY <1>1, <1>2 DEF Agt!Init, AgtIInv, FoldsApart, Conserved, Agt!Done, Agt!NoRun, Agt!Zero, Agt!NoFold

LEMMA TokensTypedNext ==
    ASSUME AgtTypeOK'
    PROVE  RunTokens' \in [Runs -> Nat] /\ CallTokens' \in [Runs -> Nat]
  BY DEF AgtTypeOK, RunTokens, CallTokens, Counted

(* A run in work changes: nothing that was summed up does.                 *)
LEMMA InWork ==
    ASSUME AgtIInv, AgtTypeOK', NEW i \in Runs, ~Agt!Done(i), ~Agt!Done(i)',
           \A j \in Runs : j # i => run'[j] = run[j] /\ raw'[j] = raw[j],
           raw'[i].tokens = run'[i].tokens, run'[i].st = "none" => run'[i].tokens = 0,
           UNCHANGED <<daily, fold, doubled>>
    PROVE  AgtIInv'
  <1>1. Finished' = Finished /\ i \notin Finished /\ Finished \in SUBSET Runs
    BY DEF Finished, Agt!Done
  <1>2. /\ RunTokens \in [Runs -> Nat] /\ RunTokens' \in [Runs -> Nat]
        /\ CallTokens \in [Runs -> Nat] /\ CallTokens' \in [Runs -> Nat]
    BY TokensTyped, TokensTypedNext DEF AgtIInv
  <1>3. \A j \in Finished : RunTokens'[j] = RunTokens[j] /\ CallTokens'[j] = CallTokens[j]
    BY <1>1 DEF RunTokens, CallTokens
  <1>4. \A K \in SUBSET Finished : /\ Sums(Runs, RunTokens')[K] = Sums(Runs, RunTokens)[K]
                                   /\ Sums(Runs, CallTokens')[K] = Sums(Runs, CallTokens)[K]
    <2> SUFFICES ASSUME NEW K \in SUBSET Finished
                 PROVE  /\ Sums(Runs, RunTokens')[K] = Sums(Runs, RunTokens)[K]
                        /\ Sums(Runs, CallTokens')[K] = Sums(Runs, CallTokens)[K]
      OBVIOUS
    <2>1. \A j \in K : RunTokens'[j] = RunTokens[j] /\ CallTokens'[j] = CallTokens[j]
      BY <1>3
    <2>2. K \in SUBSET Runs
      BY <1>1
    <2> QED
      BY <1>2, <2>1, <2>2, FiniteRuns, SumsAgree
  <1>5. /\ ~doubled => FoldsApart' /\ Conserved'
        /\ \A f \in Requests : fold'[f].rows \subseteq Finished'
    BY <1>1, <1>4 DEF AgtIInv, FoldsApart, Conserved
  <1>6. \A j \in Runs : ~Agt!Done(j)' => raw'[j].tokens = run'[j].tokens
    BY DEF AgtIInv, Agt!Done
  <1>7. \A j \in Runs : run'[j].st = "none" => run'[j].tokens = 0
    BY DEF AgtIInv
  <1> QED
    BY <1>5, <1>6, <1>7 DEF AgtIInv

RunRow == [st : {"none", "open", "finishing", "succeeded", "failed"},
           error : BOOLEAN, tokens : Nat, branded : BOOLEAN, ancient : BOOLEAN]

LEMMA RunMoves ==
    ASSUME AgtIInv, NEW i \in Runs, ~Agt!Done(i), NEW r \in RunRow, NEW w \in Counted,
           run' = [run EXCEPT ![i] = r], raw' = [raw EXCEPT ![i] = w],
           w.tokens = r.tokens, r.st \notin {"succeeded", "failed"},
           r.st = "none" => r.tokens = 0,
           UNCHANGED <<daily, fold, doubled>>
    PROVE  AgtIInv'
  <1>1. AgtTypeOK'
    BY DEF AgtIInv, AgtTypeOK, RunRow
  <1>2. run'[i] = r /\ raw'[i] = w
    BY DEF AgtIInv, AgtTypeOK
  <1>3. \A j \in Runs : j # i => run'[j] = run[j] /\ raw'[j] = raw[j]
    BY DEF AgtIInv, AgtTypeOK
  <1> QED
    BY <1>1, <1>2, <1>3, InWork DEF Agt!Done

LEMMA RunSteps ==
    ASSUME AgtIInv, NEW i \in Runs,
           \/ \E branded \in BOOLEAN : Agt!StartRun(i, branded)
           \/ \E tokens \in 0..1 : Agt!RecordLlmCall(i, tokens)
           \/ Agt!FinishRun(i) \/ Agt!RollbackRun(i)
    PROVE  AgtIInv'
  <1>1. /\ run[i] \in RunRow /\ raw[i] \in Counted
        /\ run \in [Runs -> RunRow] /\ raw \in [Runs -> Counted]
        /\ ~Agt!Done(i) => raw[i].tokens = run[i].tokens
    BY DEF AgtIInv, AgtTypeOK, RunRow
  <1>6. run[i].st = "none" => run[i].tokens = 0
    BY DEF AgtIInv
  <1>2. ASSUME NEW branded \in BOOLEAN, Agt!StartRun(i, branded) PROVE AgtIInv'
    <2> DEFINE r == [Agt!NoRun EXCEPT !.st = "open", !.branded = branded]
    <2>1. r \in RunRow /\ r.tokens = 0 /\ r.st = "open"
      BY DEF Agt!NoRun, RunRow
    <2>2. run' = [run EXCEPT ![i] = r] /\ raw' = [raw EXCEPT ![i] = raw[i]]
      BY <1>1, <1>2 DEF Agt!StartRun
    <2>3. ~Agt!Done(i) /\ raw[i].tokens = 0 /\ UNCHANGED <<daily, fold, doubled>>
      BY <1>1, <1>2, <1>6 DEF Agt!StartRun, Agt!Done
    <2> HIDE DEF r
    <2> QED
      BY <1>1, <2>1, <2>2, <2>3, RunMoves
  <1>3. ASSUME NEW tokens \in 0..1, Agt!RecordLlmCall(i, tokens) PROVE AgtIInv'
    <2>1. PICK failed \in BOOLEAN : run' = [run EXCEPT ![i].tokens = @ + tokens, ![i].error = failed]
      BY <1>3 DEF Agt!RecordLlmCall
    <2> DEFINE r == [run[i] EXCEPT !.tokens = @ + tokens, !.error = failed]
               w == Agt!Plus(raw[i], Agt!LlmCall(tokens))
    <2>2. run[i].st = "open"
      BY <1>3 DEF Agt!RecordLlmCall, Agt!Working
    <2>0. run[i].tokens + tokens \in Nat
      BY <1>1 DEF RunRow
    <2>3. r \in RunRow /\ r.tokens = run[i].tokens + tokens /\ r.st = "open"
      BY <1>1, <2>0, <2>2 DEF RunRow
    <2>4. w \in Counted /\ w.tokens = raw[i].tokens + tokens
      BY <1>1 DEF Agt!Plus, Agt!LlmCall, Counted
    <2>5. run' = [run EXCEPT ![i] = r]
      BY <1>1, <2>1 DEF RunRow
    <2>6. raw' = [raw EXCEPT ![i] = w] /\ UNCHANGED <<daily, fold, doubled>>
      BY <1>1, <1>3 DEF Agt!RecordLlmCall
    <2> HIDE DEF r, w
    <2> QED
      BY <1>1, <2>2, <2>3, <2>4, <2>5, <2>6, RunMoves DEF Agt!Done
  <1>4. CASE Agt!FinishRun(i)
    <2>1. PICK raised \in BOOLEAN : run' = [run EXCEPT ![i].st = "finishing", ![i].error = @ \/ raised]
      BY <1>4 DEF Agt!FinishRun
    <2> DEFINE r == [run[i] EXCEPT !.st = "finishing", !.error = @ \/ raised]
    <2>2. r \in RunRow /\ r.tokens = run[i].tokens /\ r.st = "finishing"
      BY <1>1 DEF RunRow
    <2>3. run' = [run EXCEPT ![i] = r] /\ raw' = [raw EXCEPT ![i] = raw[i]]
      BY <1>1, <1>4, <2>1 DEF RunRow, Agt!FinishRun
    <2>4. ~Agt!Done(i) /\ raw[i].tokens = run[i].tokens /\ UNCHANGED <<daily, fold, doubled>>
      BY <1>1, <1>4 DEF Agt!FinishRun, Agt!Done
    <2> HIDE DEF r
    <2> QED
      BY <1>1, <2>2, <2>3, <2>4, RunMoves
  <1>5. CASE Agt!RollbackRun(i)
    <2>1. Agt!NoRun \in RunRow /\ Agt!Zero \in Counted /\ Agt!Zero.tokens = Agt!NoRun.tokens
          /\ Agt!NoRun.st = "none" /\ Agt!NoRun.tokens = 0
      BY DEF Agt!NoRun, Agt!Zero, RunRow, Counted
    <2>2. /\ run' = [run EXCEPT ![i] = Agt!NoRun] /\ raw' = [raw EXCEPT ![i] = Agt!Zero]
          /\ ~Agt!Done(i) /\ UNCHANGED <<daily, fold, doubled>>
      BY <1>5 DEF Agt!RollbackRun, Agt!Done
    <2> QED
      BY <2>1, <2>2, RunMoves
  <1> QED
    BY <1>2, <1>3, <1>4, <1>5

(* A run is committed: its tokens and those of its calls come in together. *)
LEMMA RunCommits ==
    ASSUME AgtIInv, NEW i \in Runs, Agt!CommitRun(i)
    PROVE  AgtIInv'
  <1>1. /\ run[i] \in RunRow /\ run \in [Runs -> RunRow] /\ AgtTypeOK
        /\ run[i].st = "finishing" /\ raw[i].tokens = run[i].tokens
        /\ UNCHANGED <<raw, daily, fold, doubled>>
    BY DEF AgtIInv, AgtTypeOK, RunRow, Agt!CommitRun, Agt!Done
  <1>2. /\ run'[i].st \in {"succeeded", "failed"} /\ run'[i].tokens = run[i].tokens
        /\ run'[i] \in RunRow
        /\ \A j \in Runs : j # i => run'[j] = run[j]
    BY <1>1 DEF Agt!CommitRun, Agt!Outcome, RunRow
  <1>3. AgtTypeOK'
    <2>1. run' \in [Runs -> RunRow]
      BY <1>1, <1>2 DEF Agt!CommitRun
    <2> QED
      BY <1>1, <2>1 DEF AgtTypeOK, RunRow
  <1>4. Finished' = Finished \cup {i} /\ i \notin Finished /\ Finished \in SUBSET Runs
    BY <1>1, <1>2 DEF Finished, Agt!Done
  <1>5. RunTokens' = RunTokens /\ CallTokens' = CallTokens /\ RunTokens[i] = CallTokens[i]
    BY <1>1, <1>2 DEF RunTokens, CallTokens
  <1>6. ~doubled => FoldsApart' /\ Conserved'
    <2> SUFFICES ASSUME ~doubled PROVE FoldsApart' /\ Conserved'
      OBVIOUS
    <2>1. FoldsApart /\ Conserved
      BY DEF AgtIInv
    <2>2. FoldsApart'
      BY <1>1, <1>5, <2>1 DEF FoldsApart
    <2>3. /\ Sums(Runs, RunTokens)[Finished \cup {i}] = RunTokens[i] + Sums(Runs, RunTokens)[Finished]
          /\ Sums(Runs, CallTokens)[Finished \cup {i}] = CallTokens[i] + Sums(Runs, CallTokens)[Finished]
          /\ Sums(Runs, CallTokens)[Finished] \in Nat /\ CallTokens[i] \in Nat
      <3>1. Adds(Sums(Runs, RunTokens), Runs, RunTokens) /\ Adds(Sums(Runs, CallTokens), Runs, CallTokens)
        BY <1>1, FiniteRuns, TokensTyped, SumsExist
      <3>2. (Finished \cup {i}) \ {i} = Finished /\ (Finished \cup {i}) \in SUBSET Runs
        BY <1>4
      <3>3. CallTokens[i] \in Nat
        BY <1>1, TokensTyped
      <3> QED
        BY <1>4, <3>1, <3>2, <3>3 DEF Adds
    <2>4. daily \in Counted
      BY <1>1 DEF AgtTypeOK
    <2> QED
      BY <1>1, <1>4, <1>5, <2>1, <2>2, <2>3, <2>4 DEF Conserved, Counted
  <1>7. \A j \in Runs : /\ ~Agt!Done(j)' => raw'[j].tokens = run'[j].tokens
                        /\ run'[j].st = "none" => run'[j].tokens = 0
    BY <1>1, <1>2 DEF AgtIInv, Agt!Done
  <1>8. \A f \in Requests : fold'[f].rows \subseteq Finished'
    BY <1>1, <1>4 DEF AgtIInv
  <1> QED
    BY <1>1, <1>3, <1>6, <1>7, <1>8 DEF AgtIInv

LEMMA RunAges ==
    ASSUME AgtIInv, NEW i \in Runs, Agt!Ages(i)
    PROVE  AgtIInv'
  <1>1. /\ run \in [Runs -> RunRow] /\ AgtTypeOK
        /\ UNCHANGED <<raw, daily, fold, doubled>>
    BY DEF AgtIInv, AgtTypeOK, RunRow, Agt!Ages
  <1>2. \A j \in Runs : run'[j].st = run[j].st /\ run'[j].tokens = run[j].tokens
    BY <1>1 DEF Agt!Ages, RunRow
  <1>3. AgtTypeOK'
    BY <1>1 DEF AgtTypeOK, RunRow, Agt!Ages
  <1>4. Finished' = Finished /\ RunTokens' = RunTokens /\ CallTokens' = CallTokens
    BY <1>1, <1>2 DEF Finished, Agt!Done, RunTokens, CallTokens
  <1>5. FoldsApart /\ Conserved => FoldsApart' /\ Conserved'
    BY <1>1, <1>4 DEF FoldsApart, Conserved
  <1>6. \A j \in Runs : /\ ~Agt!Done(j)' => raw'[j].tokens = run'[j].tokens
                        /\ run'[j].st = "none" => run'[j].tokens = 0
    BY <1>1, <1>2 DEF AgtIInv, Agt!Done
  <1>7. \A f \in Requests : fold'[f].rows \subseteq Finished'
    BY <1>1, <1>4 DEF AgtIInv
  <1> QED
    BY <1>1, <1>3, <1>5, <1>6, <1>7 DEF AgtIInv

FoldRow == [pc : {"idle", "upsert", "delete", "commit"}, rows : SUBSET Runs, sum : Counted]

(* A fold moves on without writing.                                        *)
LEMMA FoldMoves ==
    ASSUME AgtIInv, NEW f \in Requests, NEW k \in FoldRow, fold' = [fold EXCEPT ![f] = k],
           k.pc = "idle" => k.rows = {}, k.rows \subseteq Finished,
           UNCHANGED <<run, raw, daily>>, doubled => doubled',
           ~doubled' => /\ k.pc # "idle" => k.sum.tokens = Sums(Runs, CallTokens)[k.rows]
                        /\ \A g \in Requests \ {f} : fold[g].rows \cap k.rows = {}
    PROVE  AgtIInv'
  <1>1. AgtTypeOK'
    BY DEF AgtIInv, AgtTypeOK, FoldRow
  <1>2. fold'[f] = k /\ \A g \in Requests \ {f} : fold'[g] = fold[g]
    BY DEF AgtIInv, AgtTypeOK
  <1>3. Finished' = Finished /\ RunTokens' = RunTokens /\ CallTokens' = CallTokens
    BY DEF Finished, Agt!Done, RunTokens, CallTokens
  <1>4. ~doubled' => FoldsApart' /\ Conserved'
    <2> SUFFICES ASSUME ~doubled' PROVE FoldsApart' /\ Conserved'
      OBVIOUS
    <2>1. FoldsApart /\ Conserved
      BY DEF AgtIInv
    <2> QED
      BY <1>2, <1>3, <2>1 DEF FoldsApart, Conserved
  <1>5. \A j \in Runs : /\ ~Agt!Done(j)' => raw'[j].tokens = run'[j].tokens
                        /\ run'[j].st = "none" => run'[j].tokens = 0
    BY DEF AgtIInv, Agt!Done
  <1>6. \A g \in Requests : /\ fold'[g].pc = "idle" => fold'[g].rows = {}
                            /\ fold'[g].rows \subseteq Finished'
    BY <1>2, <1>3 DEF AgtIInv
  <1> QED
    BY <1>1, <1>4, <1>5, <1>6 DEF AgtIInv

LEMMA FoldSteps ==
    ASSUME AgtIInv, NEW f \in Requests,
           Agt!Scan(f) \/ Agt!Upsert(f) \/ Agt!DeleteFolded(f) \/ Agt!AbortFold(f)
    PROVE  AgtIInv'
  <1>1. /\ AgtTypeOK /\ fold[f] \in FoldRow /\ fold \in [Requests -> FoldRow]
        /\ UNCHANGED <<run, raw, daily>>
    BY DEF AgtIInv, AgtTypeOK, FoldRow, Agt!Scan, Agt!Upsert, Agt!DeleteFolded, Agt!AbortFold
  <1>5. doubled => doubled'
    BY Zenon DEF Agt!Scan, Agt!Upsert, Agt!DeleteFolded, Agt!AbortFold
  <1>2. CASE Agt!Scan(f)
    <2> DEFINE A == Agt!Ancient
               k == [pc |-> "upsert", rows |-> A, sum |-> Agt!Total(A, raw)]
    <2>1. A \subseteq Finished /\ A \in SUBSET Runs
      BY DEF Agt!Ancient, Finished
    <2>2. k.sum.tokens = Sums(Runs, CallTokens)[A] /\ k \in FoldRow
      BY <1>1, <2>1, TotalIs DEF FoldRow
    <2>3. fold' = [fold EXCEPT ![f] = k]
      BY <1>2 DEF Agt!Scan
    <2>4. ~doubled' => \A g \in Requests \ {f} : fold[g].rows \cap A = {}
      BY <1>2 DEF Agt!Scan
    <2>5. k.pc = "upsert" /\ k.rows = A
      OBVIOUS
    <2>6. ~doubled' => /\ k.pc # "idle" => k.sum.tokens = Sums(Runs, CallTokens)[k.rows]
                       /\ \A g \in Requests \ {f} : fold[g].rows \cap k.rows = {}
      BY <2>1, <2>2, <2>4, <2>5
    <2>7. /\ k.pc = "idle" => k.rows = {}
          /\ k.rows \subseteq Finished
      BY <2>1, <2>5
    <2>8. k \in FoldRow
      BY <2>2
    <2> HIDE DEF A, k
    <2> QED
      BY <1>1, <1>5, <2>3, <2>6, <2>7, <2>8, FoldMoves
  <1>3. CASE Agt!Upsert(f) \/ Agt!DeleteFolded(f)
    <2> DEFINE k == [fold[f] EXCEPT !.pc = IF Agt!Upsert(f) THEN "delete" ELSE "commit"]
    <2>1. k \in FoldRow /\ k.rows = fold[f].rows /\ k.sum = fold[f].sum /\ k.pc # "idle"
      BY <1>1 DEF FoldRow
    <2>2. fold' = [fold EXCEPT ![f] = k] /\ fold[f].pc # "idle" /\ doubled' = doubled
      BY <1>1, <1>3 DEF Agt!Upsert, Agt!DeleteFolded, FoldRow
    <2>3. ~doubled => /\ fold[f].sum.tokens = Sums(Runs, CallTokens)[fold[f].rows]
                      /\ \A g \in Requests \ {f} : fold[g].rows \cap fold[f].rows = {}
      BY <2>2 DEF AgtIInv, FoldsApart
    <2>4. ~doubled' => /\ k.pc # "idle" => k.sum.tokens = Sums(Runs, CallTokens)[k.rows]
                       /\ \A g \in Requests \ {f} : fold[g].rows \cap k.rows = {}
      BY <2>1, <2>2, <2>3
    <2>5. /\ k.pc = "idle" => k.rows = {}
          /\ k.rows \subseteq Finished
      BY <2>1 DEF AgtIInv
    <2>6. k \in FoldRow /\ fold' = [fold EXCEPT ![f] = k]
      BY <2>1, <2>2
    <2> HIDE DEF k
    <2> QED
      BY <1>1, <1>5, <2>4, <2>5, <2>6, FoldMoves
  <1>4. CASE Agt!AbortFold(f)
    <2>1. Agt!NoFold \in FoldRow /\ Agt!NoFold.pc = "idle" /\ Agt!NoFold.rows = {}
      BY DEF Agt!NoFold, Agt!Zero, FoldRow, Counted
    <2>2. fold' = [fold EXCEPT ![f] = Agt!NoFold] /\ doubled' = doubled
      BY <1>4 DEF Agt!AbortFold
    <2>3. ~doubled' => /\ Agt!NoFold.pc # "idle" =>
                             Agt!NoFold.sum.tokens = Sums(Runs, CallTokens)[Agt!NoFold.rows]
                       /\ \A g \in Requests \ {f} : fold[g].rows \cap Agt!NoFold.rows = {}
      BY <2>1
    <2> QED
      BY <1>1, <1>5, <2>1, <2>2, <2>3, FoldMoves
  <1> QED
    BY <1>2, <1>3, <1>4

(* The sum goes into the daily row and the calls it was made of go, both   *)
(* in one transaction.                                                     *)
LEMMA FoldCommits ==
    ASSUME AgtIInv, NEW f \in Requests, Agt!CommitFold(f)
    PROVE  AgtIInv'
  <1>1. /\ AgtTypeOK /\ fold[f] \in FoldRow /\ fold \in [Requests -> FoldRow]
        /\ fold[f].pc = "commit" /\ UNCHANGED <<run, doubled>>
        /\ daily' = Agt!Plus(daily, fold[f].sum)
        /\ raw' = [i \in Runs |-> IF i \in fold[f].rows THEN Agt!Zero ELSE raw[i]]
        /\ fold' = [fold EXCEPT ![f] = Agt!NoFold]
    BY DEF AgtIInv, AgtTypeOK, FoldRow, Agt!CommitFold
  <1>2. Agt!NoFold \in FoldRow /\ Agt!NoFold.pc = "idle" /\ Agt!NoFold.rows = {} /\ Agt!Zero \in Counted
        /\ Agt!Zero.tokens = 0
    BY DEF Agt!NoFold, Agt!Zero, FoldRow, Counted
  <1>3. AgtTypeOK'
    <2>1. daily' \in Counted /\ daily'.tokens = daily.tokens + fold[f].sum.tokens
      BY <1>1 DEF AgtTypeOK, Agt!Plus, Counted, FoldRow
    <2>2. raw' \in [Runs -> Counted]
      BY <1>1, <1>2 DEF AgtTypeOK
    <2>3. fold' \in [Requests -> FoldRow]
      BY <1>1, <1>2
    <2> QED
      BY <1>1, <2>1, <2>2, <2>3 DEF AgtTypeOK, FoldRow
  <1>4. PICK B \in SUBSET Runs : B = fold[f].rows
    BY <1>1 DEF FoldRow
  <1>5. fold'[f] = Agt!NoFold /\ \A g \in Requests \ {f} : fold'[g] = fold[g]
    BY <1>1
  <1>6. Finished' = Finished /\ RunTokens' = RunTokens /\ Finished \in SUBSET Runs
    BY <1>1 DEF Finished, Agt!Done, RunTokens
  <1>7. /\ CallTokens \in [Runs -> Nat] /\ CallTokens' \in [Runs -> Nat]
        /\ \A i \in Runs : CallTokens'[i] = IF i \in B THEN 0 ELSE CallTokens[i]
    <2>1. CallTokens \in [Runs -> Nat] /\ CallTokens' \in [Runs -> Nat]
      BY <1>1, <1>3, TokensTyped, TokensTypedNext
    <2> QED
      BY <1>1, <1>2, <1>4, <2>1 DEF CallTokens
  <1>8. \A K \in SUBSET Runs : K \cap B = {} => Sums(Runs, CallTokens')[K] = Sums(Runs, CallTokens)[K]
    <2> SUFFICES ASSUME NEW K \in SUBSET Runs, K \cap B = {}
                 PROVE  Sums(Runs, CallTokens')[K] = Sums(Runs, CallTokens)[K]
      OBVIOUS
    <2>1. \A i \in K : CallTokens'[i] = CallTokens[i]
      BY <1>7
    <2> QED
      BY <1>7, <2>1, FiniteRuns, SumsAgree
  <1>9. Sums(Runs, CallTokens')[B] = 0
    <2>1. \A i \in B : CallTokens'[i] = 0
      BY <1>7
    <2> QED
      BY <1>7, <2>1, FiniteRuns, SumsZero
  <1>10. ~doubled => FoldsApart' /\ Conserved'
    <2> SUFFICES ASSUME ~doubled PROVE FoldsApart' /\ Conserved'
      OBVIOUS
    <2>1. FoldsApart /\ Conserved
      BY DEF AgtIInv
    <2>2. /\ B \subseteq Finished
          /\ fold[f].sum.tokens = Sums(Runs, CallTokens)[B]
          /\ \A g \in Requests \ {f} : fold[g].rows \cap B = {} /\ fold[g].rows \in SUBSET Runs
      BY <1>1, <1>4, <2>1 DEF AgtIInv, FoldsApart, FoldRow
    <2>3. FoldsApart'
      BY <1>2, <1>5, <1>6, <1>8, <2>1, <2>2 DEF FoldsApart
    <2>4. PICK A \in SUBSET Runs : A = Finished \ B
      BY <1>6
    <2>5. A \cap B = {} /\ A \cup B = Finished
      BY <2>2, <2>4
    <2>6. /\ Sums(Runs, CallTokens)[A \cup B] = Sums(Runs, CallTokens)[A] + Sums(Runs, CallTokens)[B]
          /\ Sums(Runs, CallTokens')[A \cup B] = Sums(Runs, CallTokens')[A] + Sums(Runs, CallTokens')[B]
      BY <1>7, <2>5, FiniteRuns, SumsSplit
    <2>7. Sums(Runs, CallTokens)[A] \in Nat /\ Sums(Runs, CallTokens)[B] \in Nat
      <3>1. Adds(Sums(Runs, CallTokens), Runs, CallTokens)
        BY <1>7, FiniteRuns, SumsExist
      <3> QED
        BY <3>1 DEF Adds
    <2>8. daily'.tokens = daily.tokens + fold[f].sum.tokens /\ daily.tokens \in Nat
      BY <1>1 DEF AgtTypeOK, Agt!Plus, Counted
    <2>9. Sums(Runs, CallTokens')[Finished] = Sums(Runs, CallTokens)[A]
      <3>1. Sums(Runs, CallTokens')[A] = Sums(Runs, CallTokens)[A]
        BY <1>8, <2>5
      <3>2. Sums(Runs, CallTokens')[A \cup B] = Sums(Runs, CallTokens)[A] + 0
        BY <1>9, <2>6, <3>1
      <3>3. Sums(Runs, CallTokens)[A] + 0 = Sums(Runs, CallTokens)[A]
        BY <2>7
      <3> QED
        BY <2>5, <3>2, <3>3
    <2>10. Sums(Runs, CallTokens)[Finished] = Sums(Runs, CallTokens)[A] + fold[f].sum.tokens
      BY <2>2, <2>5, <2>6
    <2>11. Conserved'
      BY <1>6, <2>1, <2>2, <2>7, <2>8, <2>9, <2>10 DEF Conserved
    <2> QED
      BY <2>3, <2>11
  <1>11. \A j \in Runs : /\ ~Agt!Done(j)' => raw'[j].tokens = run'[j].tokens
                         /\ run'[j].st = "none" => run'[j].tokens = 0
    <2>1. B \subseteq Finished
      BY <1>4 DEF AgtIInv
    <2> QED
      BY <1>1, <1>2, <1>4, <2>1 DEF AgtIInv, Agt!Done, Finished
  <1>12. \A g \in Requests : /\ fold'[g].pc = "idle" => fold'[g].rows = {}
                             /\ fold'[g].rows \subseteq Finished'
    BY <1>2, <1>5, <1>6 DEF AgtIInv
  <1> QED
    BY <1>1, <1>3, <1>10, <1>11, <1>12 DEF AgtIInv
(* The composition, seen through the variables of AgentRuns.               *)
LEMMA AgentRunsPart == RowSpec => Agt!Spec
  <1>1. RowInit => Agt!Init
    BY DEF RowInit
  <1>2. [RowNext]_rowVars => [Agt!Next]_(Agt!vars)
    BY DEF RowNext, rowVars, Agt!vars, vars, memVars, lockVars, mfaVars, mailVars, runVars, botVars,
           keyVars, tenVars
  <1> QED
    BY <1>1, <1>2, PTL DEF RowSpec, Agt!Spec

LEMMA AgtInductive == AgtIInv /\ [Agt!Next]_(Agt!vars) => AgtIInv'
  <1> SUFFICES ASSUME AgtIInv, [Agt!Next]_(Agt!vars) PROVE AgtIInv'
    OBVIOUS
  <1>1. CASE UNCHANGED Agt!vars
    <2>1. Finished' = Finished /\ RunTokens' = RunTokens /\ CallTokens' = CallTokens
      BY <1>1 DEF Agt!vars, Finished, Agt!Done, RunTokens, CallTokens
    <2>2. FoldsApart /\ Conserved => FoldsApart' /\ Conserved'
      BY <1>1, <2>1 DEF Agt!vars, FoldsApart, Conserved
    <2> QED
      BY <1>1, <2>1, <2>2 DEF Agt!vars, AgtIInv, AgtTypeOK, Agt!Done
  <1>2. CASE Agt!Next
    BY <1>2, RunSteps, RunCommits, RunAges, FoldSteps, FoldCommits DEF Agt!Next
  <1> QED
    BY <1>1, <1>2

(* For any number of runs, calls and executions of the fold, and however   *)
(* they abort: runs, calls and daily rows agree to the token, unless two   *)
(* folds overlapped.                                                       *)
THEOREM TokensAreConserved == RowSpec => []TokensConserved
  <1>1. AgtIInv => TokensConserved
    <2> SUFFICES ASSUME AgtIInv, ~doubled PROVE TokensConserved
      BY DEF TokensConserved, Agt!TokensConserved
    <2>1. AgtTypeOK /\ Finished \in SUBSET Runs
      BY DEF AgtIInv, Finished
    <2>2. Agt!FoldSet(LAMBDA i, n : n + run[i].tokens, 0, Finished) = Agt!Total(Finished, raw).tokens + daily.tokens
      BY <2>1, TotalIs, RunTotalIs DEF AgtIInv, Conserved
    <2> QED
      BY <2>2 DEF TokensConserved, Agt!TokensConserved, Finished
  <1> QED
    BY <1>1, AgtInitially, AgtInductive, AgentRunsPart, PTL DEF Agt!Spec

=============================================================================
