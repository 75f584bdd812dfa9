-------------------------- MODULE DerivedDataProofs --------------------------
(***************************************************************************)
(* Proofs about parts of DerivedData, for any number of readers, writers,  *)
(* workers, deliveries and messages.                                       *)
(*                                                                         *)
(* Memberships: until a read overlaps a change, nobody is about to fill    *)
(* the cache while one is under way, so a change that has dropped the      *)
(* entry finds none at its commit.                                         *)
(*                                                                         *)
(* Embeddings: until attempts overlap, the one that runs knows every row   *)
(* there is, and has read a text no older than any of them.                *)
(***************************************************************************)
EXTENDS DerivedData, FiniteSetTheorems, WellFoundedInduction, TLAPS

(* The composition, seen through the variables of Memberships.             *)
LEMMA MembershipsPart == DataSpec => Mbr!Init /\ [][Mbr!Next]_(Mbr!vars)
  <1>1. DataInit => Mbr!Init
    BY DEF DataInit
  <1>2. [DataNext]_dataVars => [Mbr!Next]_(Mbr!vars)
    BY DEF DataNext, dataVars, Mbr!vars, vars, embVars, memVars, wsVars
  <1> QED
    BY <1>1, <1>2, PTL DEF DataSpec

(* The composition, seen through the variables of Embeddings.              *)
LEMMA EmbeddingsPart == DataSpec => Emb!Init /\ [][Emb!Next]_(Emb!vars)
  <1>1. DataInit => Emb!Init
    BY DEF DataInit
  <1>2. [DataNext]_dataVars => [Emb!Next]_(Emb!vars)
    BY DEF DataNext, dataVars, Emb!vars, vars, embVars, memVars, wsVars
  <1> QED
    BY <1>1, <1>2, PTL DEF DataSpec

-----------------------------------------------------------------------------
(* Memberships                                                             *)

(* The flush of a change waits for the one before it.                      *)
OneChange == \A v, w \in Writers : writer[v].pc # "idle" /\ writer[w].pc # "idle" => v = w

(* What holds until a read overlaps a change or a DEL fails.               *)
InStep ==
    /\ cache.val \in {Mbr!Absent, row}
    /\ \A r \in Readers : reader[r].pc = "set" => reader[r].got = row /\ ~Mbr!Changing
    /\ \A w \in Writers : writer[w].pc = "commit" => cache.val = Mbr!Absent

MbrIInv == Mbr!TypeOK /\ OneChange /\ (~raced => InStep)

LEMMA MbrInitially == Mbr!Init => MbrIInv
  <1> SUFFICES ASSUME Mbr!Init PROVE MbrIInv
    OBVIOUS
  <1>1. row \in Mbr!Role /\ cache \in Mbr!Entry
    BY DEF Mbr!Init, Mbr!Role, Mbr!Entry, Mbr!NoEntry
  <1>2. \A r \in Readers : reader[r].pc = "idle"
    BY DEF Mbr!Init, Mbr!IdleReader
  <1>3. \A w \in Writers : writer[w].pc = "idle"
    BY DEF Mbr!Init, Mbr!IdleWriter
  <1>4. Mbr!IdleReader \in Mbr!Reader /\ Mbr!IdleWriter \in Mbr!Writer
    BY DEF Mbr!IdleReader, Mbr!IdleWriter, Mbr!Reader, Mbr!Writer, Mbr!Role
  <1>5. reader \in [Readers -> Mbr!Reader] /\ writer \in [Writers -> Mbr!Writer]
    BY <1>4 DEF Mbr!Init
  <1>6. writes \in 0..MaxWrites /\ raced \in BOOLEAN
    <2>1. MaxWrites \in Nat
      BY DerivedDataAssumption DEF DerivedDataAssumption
    <2>2. raced \in BOOLEAN
      BY Zenon DEF Mbr!Init
    <2>3. writes = 0
      BY Zenon DEF Mbr!Init
    <2> QED
      BY <2>1, <2>2, <2>3
  <1>7. OneChange
    BY <1>3 DEF OneChange
  <1>8. InStep
    BY <1>2, <1>3 DEF Mbr!Init, InStep, Mbr!NoEntry
  <1> QED
    BY <1>1, <1>5, <1>6, <1>7, <1>8 DEF MbrIInv, Mbr!TypeOK

LEMMA MbrTypeHolds == Mbr!TypeOK /\ [Mbr!Next]_(Mbr!vars) => Mbr!TypeOK'
  <1> SUFFICES ASSUME Mbr!TypeOK, [Mbr!Next]_(Mbr!vars) PROVE Mbr!TypeOK'
    OBVIOUS
  <1>1. /\ row \in Mbr!Role /\ cache \in Mbr!Entry
        /\ reader \in [Readers -> Mbr!Reader] /\ writer \in [Writers -> Mbr!Writer]
        /\ writes \in 0..MaxWrites /\ raced \in BOOLEAN
    BY DEF Mbr!TypeOK
  <1>2. ASSUME NEW r \in Readers, Mbr!ReaderStep(r) PROVE Mbr!TypeOK'
    <2>1. Mbr!Changing \in BOOLEAN
      BY DEF Mbr!Changing
    <2>2. UNCHANGED <<row, writer, writes>> /\ raced' \in BOOLEAN
      BY <1>1, <1>2, <2>1
      DEF Mbr!ReaderStep, Mbr!ReadCache, Mbr!LoadFromDb, Mbr!SetCache, Mbr!EndRequest
    <2>3. reader[r] \in Mbr!Reader /\ reader[r].got \in Mbr!Role
      BY <1>1 DEF Mbr!Reader
    <2>4. \A role \in Mbr!Role, b \in BOOLEAN : [val |-> role, ex |-> b] \in Mbr!Entry
      BY DEF Mbr!Entry
    <2>5. cache' \in Mbr!Entry
      BY <1>1, <1>2, <2>3, <2>4
      DEF Mbr!ReaderStep, Mbr!ReadCache, Mbr!LoadFromDb, Mbr!SetCache, Mbr!EndRequest
    <2>6. cache.val # Mbr!Absent => cache.val \in Mbr!Role
      BY <1>1 DEF Mbr!Entry
    <2>7. Mbr!IdleReader \in Mbr!Reader
      BY DEF Mbr!IdleReader, Mbr!Reader, Mbr!Role
    <2>8. \A role \in Mbr!Role, p \in {"set", "use"} : [pc |-> p, got |-> role] \in Mbr!Reader
      BY DEF Mbr!Reader
    <2>9. [reader[r] EXCEPT !.pc = "select"] \in Mbr!Reader
      BY <2>3 DEF Mbr!Reader
    <2>10. \E rec \in Mbr!Reader : reader' = [reader EXCEPT ![r] = rec]
      BY <1>1, <1>2, <2>3, <2>6, <2>7, <2>8, <2>9
      DEF Mbr!ReaderStep, Mbr!ReadCache, Mbr!LoadFromDb, Mbr!SetCache, Mbr!EndRequest, Mbr!Use
    <2>11. reader' \in [Readers -> Mbr!Reader]
      BY <1>1, <2>10
    <2> QED
      BY <1>1, <2>2, <2>5, <2>11 DEF Mbr!TypeOK
  <1>3. ASSUME NEW w \in Writers, NEW role \in Roles \cup {Mbr!None}, Mbr!Change(w, role)
        PROVE  Mbr!TypeOK'
    <2>1. writes' \in 0..MaxWrites
      BY <1>1, <1>3, DerivedDataAssumption DEF Mbr!Change, DerivedDataAssumption
    <2>2. [pc |-> "invalidate", role |-> role] \in Mbr!Writer
      BY DEF Mbr!Writer, Mbr!Role
    <2>3. writer' \in [Writers -> Mbr!Writer] /\ raced' \in BOOLEAN
      BY <1>1, <1>3, <2>2 DEF Mbr!Change
    <2> QED
      BY <1>1, <1>3, <2>1, <2>3 DEF Mbr!Change, Mbr!TypeOK
  <1>4. ASSUME NEW w \in Writers,
               Mbr!Invalidate(w) \/ Mbr!CommitChange(w) \/ Mbr!Rollback(w)
        PROVE  Mbr!TypeOK'
    <2>1. writer[w] \in Mbr!Writer /\ writer[w].role \in Mbr!Role
      BY <1>1 DEF Mbr!Writer
    <2>2. Mbr!IdleWriter \in Mbr!Writer /\ [writer[w] EXCEPT !.pc = "commit"] \in Mbr!Writer
      BY <2>1 DEF Mbr!IdleWriter, Mbr!Writer, Mbr!Role
    <2>3. writer' \in [Writers -> Mbr!Writer] /\ row' \in Mbr!Role
      BY <1>1, <1>4, <2>1, <2>2 DEF Mbr!Invalidate, Mbr!CommitChange, Mbr!Rollback
    <2>4. Mbr!NoEntry \in Mbr!Entry
      BY DEF Mbr!NoEntry, Mbr!Entry
    <2>5. cache' \in Mbr!Entry /\ raced' \in BOOLEAN /\ writes' = writes /\ reader' = reader
      BY <1>1, <1>4, <2>4 DEF Mbr!Invalidate, Mbr!CommitChange, Mbr!Rollback
    <2> QED
      BY <1>1, <2>3, <2>5 DEF Mbr!TypeOK
  <1>5. CASE Mbr!Expire
    <2>1. Mbr!NoEntry \in Mbr!Entry
      BY DEF Mbr!NoEntry, Mbr!Entry
    <2> QED
      BY <1>1, <1>5, <2>1 DEF Mbr!Expire, Mbr!TypeOK
  <1>6. CASE UNCHANGED Mbr!vars
    BY <1>1, <1>6 DEF Mbr!vars, Mbr!TypeOK
  <1> QED
    BY <1>2, <1>3, <1>4, <1>5, <1>6 DEF Mbr!Next, Mbr!Add, Mbr!SetRole, Mbr!Remove

LEMMA MbrInductive == MbrIInv /\ [Mbr!Next]_(Mbr!vars) => MbrIInv'
  <1> SUFFICES ASSUME MbrIInv, [Mbr!Next]_(Mbr!vars) PROVE OneChange' /\ (~raced' => InStep')
    BY MbrTypeHolds DEF MbrIInv
  <1> USE DEF MbrIInv, OneChange, InStep, Mbr!Changing
  <1>0. reader \in [Readers -> Mbr!Reader] /\ writer \in [Writers -> Mbr!Writer]
    BY DEF Mbr!TypeOK
  <1>1. ASSUME NEW r \in Readers, Mbr!ReaderStep(r) PROVE OneChange' /\ (~raced' => InStep')
    <2>1. UNCHANGED writer
      BY <1>1 DEF Mbr!ReaderStep, Mbr!ReadCache, Mbr!LoadFromDb, Mbr!SetCache, Mbr!EndRequest
    <2>2. CASE Mbr!ReadCache(r) \/ Mbr!EndRequest(r)
      BY <1>0, <2>1, <2>2 DEF Mbr!ReadCache, Mbr!EndRequest, Mbr!Use, Mbr!Reader, Mbr!IdleReader
    <2>3. CASE Mbr!LoadFromDb(r)
      BY <1>0, <2>1, <2>3 DEF Mbr!LoadFromDb, Mbr!Reader
    <2>4. CASE Mbr!SetCache(r)
      BY <1>0, <2>1, <2>4 DEF Mbr!SetCache, Mbr!Use, Mbr!Reader
    <2> QED
      BY <1>1, <2>2, <2>3, <2>4 DEF Mbr!ReaderStep
  <1>2. ASSUME NEW w \in Writers, NEW role, Mbr!Change(w, role)
        PROVE  OneChange' /\ (~raced' => InStep')
    BY <1>0, <1>2 DEF Mbr!Change, Mbr!Writer
  <1>3. ASSUME NEW w \in Writers, Mbr!Invalidate(w) PROVE OneChange' /\ (~raced' => InStep')
    <2>1. Mbr!Changing
      BY <1>3 DEF Mbr!Invalidate
    <2> QED
      BY <1>0, <1>3, <2>1 DEF Mbr!Invalidate, Mbr!Writer, Mbr!NoEntry
  <1>4. ASSUME NEW w \in Writers, Mbr!CommitChange(w) PROVE OneChange' /\ (~raced' => InStep')
    <2>1. Mbr!Changing /\ (~raced => cache.val = Mbr!Absent)
      BY <1>4 DEF Mbr!CommitChange
    <2>2. \A r \in Readers : ~raced => reader[r].pc # "set"
      BY <2>1
    <2>3. writer' = [writer EXCEPT ![w] = Mbr!IdleWriter] /\ UNCHANGED <<cache, reader, raced>>
      BY <1>4 DEF Mbr!CommitChange
    <2>4. \A v \in Writers : writer'[v].pc # "idle" => v # w /\ writer'[v] = writer[v]
      BY <1>0, <2>3 DEF Mbr!IdleWriter
    <2>5. writer[w].pc # "idle"
      BY <1>4 DEF Mbr!CommitChange
    <2> QED
      BY <2>1, <2>2, <2>3, <2>4, <2>5
  <1>5. ASSUME NEW w \in Writers, Mbr!Rollback(w) PROVE OneChange' /\ (~raced' => InStep')
    <2>1. writer' = [writer EXCEPT ![w] = Mbr!IdleWriter] /\ UNCHANGED <<row, cache, reader, raced>>
      BY <1>5 DEF Mbr!Rollback
    <2>2. \A v \in Writers : writer'[v].pc # "idle" => v # w /\ writer'[v] = writer[v]
      BY <1>0, <2>1 DEF Mbr!IdleWriter
    <2>3. \A v \in Writers : writer'[v].pc = "commit" => writer[v].pc = "commit"
      BY <2>2
    <2> QED
      BY <2>1, <2>2, <2>3
  <1>6. CASE Mbr!Expire
    BY <1>6 DEF Mbr!Expire, Mbr!NoEntry
  <1>7. CASE UNCHANGED Mbr!vars
    BY <1>7 DEF Mbr!vars
  <1> QED
    BY <1>1, <1>2, <1>3, <1>4, <1>5, <1>6, <1>7 DEF Mbr!Next, Mbr!Add, Mbr!SetRole, Mbr!Remove

(* Between changes the cached membership is the committed one, unless a    *)
(* reader filled it across a change or Redis missed the DEL                *)
(* (services/memberships_cache.py): FreshUnlessRaced, for any readers.     *)
THEOREM CacheIsFresh == DataSpec => []FreshUnlessRaced
  <1>1. MbrIInv => FreshUnlessRaced
    BY DEF MbrIInv, InStep, FreshUnlessRaced, Mbr!FreshUnlessRaced
  <1> QED
    BY <1>1, MbrInitially, MbrInductive, MembershipsPart, PTL

-----------------------------------------------------------------------------
(* Embeddings                                                              *)

(* A text that was read, or whose vector is stored, is not one to come.    *)
NotAhead == \A w \in Workers : embedded[w] <= text /\ work[w].text <= text

(* What holds until two attempts overlap.                                  *)
Alone ==
    /\ \A v, w \in Workers : Emb!Running(v) /\ Emb!Running(w) => v = w
    /\ \A u, v \in Emb!Rows : u = v
    /\ \A w \in Workers : Emb!Running(w) => \A v \in Workers : embedded[v] <= work[w].text
    /\ \A w \in Workers : work[w].pc = "insert" => Emb!Rows = {}
    /\ \A w \in Workers : work[w].pc \in {"update", "commit"} => Emb!Rows \subseteq {work[w].row}

EmbIInv == Emb!TypeOK /\ NotAhead /\ (~overlapped => Alone)

LEMMA OverIsAttempt == \A w \in Workers, o \in {"none", "done", "skipped", "failed"} :
                            Emb!Over(w, o) \in Emb!Attempt /\ Emb!Over(w, o).pc = "idle"
                            /\ Emb!Over(w, o).text = 0
  <1>1. 0 \in 0..MaxText /\ 0 \in 0..MAX_RETRIES
    BY DerivedDataAssumption DEF DerivedDataAssumption
  <1> QED
    BY <1>1 DEF Emb!Over, Emb!Attempt

LEMMA EmbInitially == Emb!Init => EmbIInv
  <1> SUFFICES ASSUME Emb!Init PROVE EmbIInv
    OBVIOUS
  <1>1. overlapped \in BOOLEAN /\ bound \in BOOLEAN
    BY Zenon DEF Emb!Init
  <1>2. embedded = [w \in Workers |-> 0] /\ work = [w \in Workers |-> Emb!Over(w, "none")]
    BY Zenon DEF Emb!Init
  <1>3. text \in 0..MaxText /\ tasks \in 0..MaxTasks
    BY DerivedDataAssumption DEF Emb!Init, DerivedDataAssumption
  <1>4. \A w \in Workers : work[w] \in Emb!Attempt /\ work[w].pc = "idle" /\ work[w].text = 0
    BY <1>2, OverIsAttempt
  <1>5. work \in [Workers -> Emb!Attempt] /\ embedded \in [Workers -> 0..MaxText]
    BY <1>2, <1>4, DerivedDataAssumption DEF DerivedDataAssumption
  <1>6. Alone
    BY <1>2, <1>4 DEF Alone, Emb!Running, Emb!Rows
  <1>7. NotAhead
    BY <1>2, <1>3, <1>4 DEF NotAhead
  <1> QED
    BY <1>1, <1>3, <1>5, <1>6, <1>7 DEF EmbIInv, Emb!TypeOK

(* What an attempt may become in a step that stores no vector.             *)
Goes(w, rec) ==
    \/ rec.pc \in {"idle", "queued"}
    \/ rec.pc = "bind" /\ rec.text = text /\ \A v \in Workers \ {w} : ~Emb!Running(v)
    \/ /\ Emb!Running(w) /\ rec.text = work[w].text
       /\ rec.pc = "insert" => Emb!Rows = {}
       /\ rec.pc \in {"update", "commit"} => Emb!Rows \subseteq {rec.row}

LEMMA EmbGoes ==
  ASSUME NEW w \in Workers, NEW rec \in Emb!Attempt, Emb!TypeOK, NotAhead,
         work' = [work EXCEPT ![w] = rec], UNCHANGED <<text, embedded>>, rec.text <= text
  PROVE  /\ work' \in [Workers -> Emb!Attempt]
         /\ NotAhead'
         /\ Alone /\ Goes(w, rec) => Alone'
  <1>1. /\ work \in [Workers -> Emb!Attempt]
        /\ work'[w] = rec /\ \A v \in Workers \ {w} : work'[v] = work[v]
    BY DEF Emb!TypeOK
  <1>2. NotAhead'
    BY <1>1 DEF NotAhead
  <1>3. ASSUME Alone, Goes(w, rec) PROVE Alone'
    <2>1. Emb!Rows' = Emb!Rows
      BY DEF Emb!Rows
    <2>2. \A v \in Workers : v # w => (Emb!Running(v)' <=> Emb!Running(v))
      BY <1>1 DEF Emb!Running
    <2>3. Emb!Running(w)' <=> rec.pc \notin {"idle", "queued"}
      BY <1>1 DEF Emb!Running
    <2>4. Emb!Running(w)' => Emb!Running(w) \/ \A v \in Workers \ {w} : ~Emb!Running(v)
      BY <1>3, <2>3 DEF Goes
    <2>5. (\A u, v \in Workers : Emb!Running(u) /\ Emb!Running(v) => u = v)'
      BY <1>3, <2>2, <2>4 DEF Alone
    <2>6. (\A u, v \in Emb!Rows : u = v)'
      BY <1>3, <2>1 DEF Alone
    <2>7. (\A u \in Workers : Emb!Running(u) => \A v \in Workers : embedded[v] <= work[u].text)'
      <3> SUFFICES ASSUME NEW u \in Workers, Emb!Running(u)', NEW v \in Workers
                   PROVE  embedded[v] <= work'[u].text
        BY DEF Emb!Running
      <3>1. CASE u # w
        BY <1>1, <1>3, <2>2, <3>1 DEF Alone
      <3>2. CASE u = w
        BY <1>1, <1>3, <2>3, <3>2 DEF Alone, Goes, NotAhead
      <3> QED
        BY <3>1, <3>2
    <2>8. (\A u \in Workers : work[u].pc = "insert" => Emb!Rows = {})'
      BY <1>1, <1>3, <2>1 DEF Alone, Goes
    <2>9. (\A u \in Workers : work[u].pc \in {"update", "commit"} => Emb!Rows \subseteq {work[u].row})'
      BY <1>1, <1>3, <2>1 DEF Alone, Goes
    <2> QED
      BY <2>5, <2>6, <2>7, <2>8, <2>9 DEF Alone
  <1> QED
    BY <1>1, <1>2, <1>3

(* The steps of a message that store no vector, each with what its attempt *)
(* becomes.                                                                *)
LEMMA EmbQuietStep ==
  ASSUME EmbIInv, NEW w \in Workers,
         Emb!Deliver(w) \/ Emb!Retry(w) \/ Emb!FirstActiveBinding(w) \/ Emb!Embed(w)
            \/ Emb!FindExisting(w) \/ Emb!InsertRow(w) \/ Emb!UpdateRow(w) \/ Emb!WorkerLost(w)
  PROVE  EmbIInv'
  <1> DEFINE Becomes(rec) == /\ rec \in Emb!Attempt /\ rec.text <= text
                             /\ work' = [work EXCEPT ![w] = rec]
                             /\ ~overlapped' => ~overlapped /\ (Alone => Goes(w, rec))
  <1>1. Emb!TypeOK /\ NotAhead /\ (~overlapped => Alone)
    BY DEF EmbIInv
  <1>2. /\ text \in 0..MaxText /\ work \in [Workers -> Emb!Attempt] /\ work[w] \in Emb!Attempt
        /\ work[w].text <= text /\ overlapped \in BOOLEAN /\ tasks \in 0..MaxTasks
    BY <1>1 DEF Emb!TypeOK, NotAhead
  <1>3. UNCHANGED <<text, bound, embedded>>
    BY DEF Emb!Deliver, Emb!Retry, Emb!Read, Emb!FirstActiveBinding, Emb!Embed, Emb!FindExisting,
           Emb!InsertRow, Emb!UpdateRow, Emb!WorkerLost
  <1>4. overlapped' \in BOOLEAN
    BY <1>2, Zenon
    DEF Emb!Deliver, Emb!Retry, Emb!Read, Emb!FirstActiveBinding, Emb!Embed, Emb!FindExisting,
        Emb!InsertRow, Emb!UpdateRow, Emb!WorkerLost, Emb!Running
  <1>5. tasks' \in 0..MaxTasks
    BY <1>2, DerivedDataAssumption
    DEF DerivedDataAssumption, Emb!Deliver, Emb!Retry, Emb!Read, Emb!FirstActiveBinding, Emb!Embed,
        Emb!FindExisting, Emb!InsertRow, Emb!UpdateRow, Emb!WorkerLost
  <1>6. \A p \in {"queued", "embed", "select", "insert", "update", "commit"} :
            [work[w] EXCEPT !.pc = p] \in Emb!Attempt
    BY <1>2 DEF Emb!Attempt
  <1>7. ASSUME NEW o \in {"none", "done", "skipped", "failed"}, Emb!Finish(w, o),
               UNCHANGED overlapped
        PROVE  \E rec : Becomes(rec)
    <2>1. Becomes(Emb!Over(w, o))
      BY <1>2, <1>7, OverIsAttempt DEF Emb!Finish, Goes
    <2> QED
      BY <2>1
  <1>8. ASSUME NEW retries \in 0..MAX_RETRIES, Emb!Read(w, retries) PROVE \E rec : Becomes(rec)
    <2>1. CASE text = 0
      <3>1. Becomes(Emb!Over(w, "skipped"))
        BY <1>2, <1>8, <2>1, OverIsAttempt DEF Emb!Read, Emb!Finish, Goes
      <3> QED
        BY <3>1
    <2>2. CASE text # 0
      <3> DEFINE rec == [Emb!Over(w, "none") EXCEPT !.pc = "bind", !.text = text,
                                                    !.retries = retries]
      <3>1. rec \in Emb!Attempt /\ rec.pc = "bind" /\ rec.text = text
        BY <1>2, OverIsAttempt DEF Emb!Attempt, Emb!Over
      <3>2. work' = [work EXCEPT ![w] = rec]
        BY <1>8, <2>2 DEF Emb!Read
      <3>3. ~overlapped' => ~overlapped /\ \A v \in Workers \ {w} : ~Emb!Running(v)
        BY <1>8 DEF Emb!Read
      <3> HIDE DEF rec
      <3>4. rec.text <= text
        BY <1>2, <3>1
      <3>5. Becomes(rec)
        BY <3>1, <3>2, <3>3, <3>4 DEF Goes
      <3> QED
        BY <3>5
    <2> QED
      BY <2>1, <2>2
  <1>9. ASSUME NEW p \in {"embed", "select", "insert", "update", "commit"}, Emb!Step(w, p),
               Emb!Running(w), UNCHANGED overlapped,
               p = "insert" => Emb!Rows = {},
               p \in {"update", "commit"} => (Alone /\ ~overlapped => Emb!Rows \subseteq {work[w].row})
        PROVE  \E rec : Becomes(rec)
    <2> DEFINE rec == [work[w] EXCEPT !.pc = p]
    <2>1. rec \in Emb!Attempt /\ rec.pc = p /\ rec.text = work[w].text /\ rec.row = work[w].row
      BY <1>2, <1>6 DEF Emb!Attempt
    <2>2. work' = [work EXCEPT ![w] = rec]
      BY <1>2, <1>9 DEF Emb!Step
    <2> HIDE DEF rec
    <2> QED
      BY <1>2, <1>9, <2>1, <2>2 DEF Goes
  <1>10. ASSUME Emb!Deliver(w) \/ Emb!Retry(w) PROVE \E rec : Becomes(rec)
    <2>1. 0 \in 0..MAX_RETRIES /\ work[w].retries \in 0..MAX_RETRIES
      BY <1>2, DerivedDataAssumption DEF DerivedDataAssumption, Emb!Attempt
    <2>2. \E retries \in 0..MAX_RETRIES : Emb!Read(w, retries)
      BY <1>10, <2>1 DEF Emb!Deliver, Emb!Retry
    <2> QED
      BY <1>8, <2>2
  <1>11. ASSUME Emb!FirstActiveBinding(w) PROVE \E rec : Becomes(rec)
    BY <1>7, <1>9, <1>11 DEF Emb!FirstActiveBinding, Emb!Running
  <1>12. ASSUME Emb!Embed(w) PROVE \E rec : Becomes(rec)
    <2> DEFINE rec == [work[w] EXCEPT !.pc = "queued", !.retries = @ + 1]
    <2>1. ASSUME work[w].retries < MAX_RETRIES, UNCHANGED overlapped,
                 work' = [work EXCEPT ![w].pc = "queued", ![w].retries = @ + 1]
          PROVE  \E r : Becomes(r)
      <3>1. /\ rec \in Emb!Attempt /\ rec.pc = "queued" /\ rec.text = work[w].text
        BY <1>2, <2>1, DerivedDataAssumption DEF Emb!Attempt, DerivedDataAssumption
      <3>2. work' = [work EXCEPT ![w] = rec]
        BY <1>2, <2>1 DEF Emb!Attempt
      <3> HIDE DEF rec
      <3>3. Becomes(rec)
        BY <1>2, <2>1, <3>1, <3>2 DEF Goes
      <3> QED
        BY <3>3
    <2> QED
      BY <1>7, <1>9, <1>12, <2>1 DEF Emb!Embed, Emb!Running
  <1>13. ASSUME Emb!FindExisting(w) PROVE \E rec : Becomes(rec)
    <2>1. Emb!Running(w) /\ UNCHANGED overlapped
      BY <1>13 DEF Emb!FindExisting, Emb!Running
    <2>2. ASSUME NEW v \in Emb!Rows,
                 work' = [work EXCEPT ![w].pc = "update", ![w].row = v]
          PROVE  \E rec : Becomes(rec)
      <3> DEFINE rec == [work[w] EXCEPT !.pc = "update", !.row = v]
      <3>1. /\ rec \in Emb!Attempt /\ rec.pc = "update" /\ rec.text = work[w].text /\ rec.row = v
        BY <1>2 DEF Emb!Attempt, Emb!Rows
      <3>2. work' = [work EXCEPT ![w] = rec]
        BY <1>2, <2>2 DEF Emb!Attempt
      <3>3. Alone => Emb!Rows \subseteq {v}
        BY DEF Alone
      <3> HIDE DEF rec
      <3>4. Becomes(rec)
        BY <1>2, <2>1, <3>1, <3>2, <3>3 DEF Goes
      <3> QED
        BY <3>4
    <2> QED
      BY <1>7, <1>9, <1>13, <2>1, <2>2 DEF Emb!FindExisting
  <1>14. ASSUME Emb!InsertRow(w) PROVE \E rec : Becomes(rec)
    <2> DEFINE rec == [work[w] EXCEPT !.pc = "commit", !.row = w]
    <2>1. /\ rec \in Emb!Attempt /\ rec.pc = "commit" /\ rec.text = work[w].text /\ rec.row = w
      BY <1>2 DEF Emb!Attempt
    <2>2. work' = [work EXCEPT ![w] = rec]
      BY <1>2, <1>14 DEF Emb!Attempt, Emb!InsertRow
    <2>3. Alone => Emb!Rows = {}
      BY <1>14 DEF Alone, Emb!InsertRow
    <2>4. Emb!Running(w) /\ UNCHANGED overlapped
      BY <1>14 DEF Emb!InsertRow, Emb!Running
    <2> HIDE DEF rec
    <2>5. Becomes(rec)
      BY <1>2, <2>1, <2>2, <2>3, <2>4 DEF Goes
    <2> QED
      BY <2>5
  <1>15. ASSUME Emb!UpdateRow(w) PROVE \E rec : Becomes(rec)
    <2>1. Emb!Running(w) /\ UNCHANGED overlapped /\ Emb!Step(w, "commit")
      BY <1>15 DEF Emb!UpdateRow, Emb!Running
    <2>2. Alone => Emb!Rows \subseteq {work[w].row}
      BY <1>15 DEF Alone, Emb!UpdateRow
    <2> QED
      BY <1>9, <2>1, <2>2
  <1>16. ASSUME Emb!WorkerLost(w) PROVE \E rec : Becomes(rec)
    <2> DEFINE rec == [work[w] EXCEPT !.pc = "queued"]
    <2>1. rec \in Emb!Attempt /\ rec.pc = "queued" /\ rec.text = work[w].text
      BY <1>2, <1>6 DEF Emb!Attempt
    <2>2. work' = [work EXCEPT ![w] = rec] /\ UNCHANGED overlapped
      BY <1>2, <1>16 DEF Emb!WorkerLost, Emb!Step
    <2> HIDE DEF rec
    <2>3. Becomes(rec)
      BY <1>2, <2>1, <2>2 DEF Goes
    <2> QED
      BY <2>3
  <1>17. PICK rec : Becomes(rec)
    BY <1>10, <1>11, <1>12, <1>13, <1>14, <1>15, <1>16
  <1>18. /\ work' \in [Workers -> Emb!Attempt] /\ NotAhead'
         /\ Alone /\ Goes(w, rec) => Alone'
    BY <1>1, <1>3, <1>17, EmbGoes
  <1>19. ~overlapped' => Alone'
    BY <1>1, <1>17, <1>18
  <1>20. Emb!TypeOK'
    BY <1>1, <1>3, <1>4, <1>5, <1>18 DEF Emb!TypeOK
  <1> QED
    BY <1>18, <1>19, <1>20 DEF EmbIInv

LEMMA EmbInductive == EmbIInv /\ [Emb!Next]_(Emb!vars) => EmbIInv'
  <1> SUFFICES ASSUME EmbIInv, [Emb!Next]_(Emb!vars) PROVE EmbIInv'
    OBVIOUS
  <1>1. /\ Emb!TypeOK /\ NotAhead /\ (~overlapped => Alone)
        /\ embedded \in [Workers -> 0..MaxText] /\ work \in [Workers -> Emb!Attempt]
        /\ text \in 0..MaxText
    BY DEF EmbIInv, Emb!TypeOK
  <1>2. CASE Emb!EditPost
    <2>1. text' = text + 1 /\ text' \in 0..MaxText
      BY <1>1, <1>2, DerivedDataAssumption DEF Emb!EditPost, DerivedDataAssumption
    <2>2. UNCHANGED <<bound, embedded, work, tasks, overlapped>>
      BY <1>2 DEF Emb!EditPost
    <2>3. \A w \in Workers : embedded[w] \in Nat /\ work[w].text \in Nat
      BY <1>1 DEF Emb!Attempt
    <2>4. NotAhead'
      BY <1>1, <2>1, <2>2, <2>3 DEF NotAhead
    <2>5. Alone' <=> Alone
      BY <2>2 DEF Alone, Emb!Rows, Emb!Running
    <2> QED
      BY <1>1, <2>1, <2>2, <2>4, <2>5 DEF EmbIInv, Emb!TypeOK
  <1>3. CASE Emb!BindOrDetach \/ UNCHANGED Emb!vars
    <2>1. UNCHANGED <<text, embedded, work, tasks, overlapped>>
      BY <1>3 DEF Emb!BindOrDetach, Emb!vars
    <2>2. bound' \in BOOLEAN
      BY <1>1, <1>3, Zenon DEF Emb!BindOrDetach, Emb!vars, Emb!TypeOK
    <2>3. (Alone' <=> Alone) /\ (NotAhead' <=> NotAhead)
      BY <2>1 DEF Alone, NotAhead, Emb!Rows, Emb!Running
    <2> QED
      BY <1>1, <2>1, <2>2, <2>3 DEF EmbIInv, Emb!TypeOK
  <1>4. ASSUME NEW w \in Workers, Emb!Commit(w) PROVE EmbIInv'
    <2>1. /\ work[w].pc = "commit" /\ work[w].row \in Workers /\ work[w].text \in 0..MaxText
          /\ Emb!Running(w) /\ work[w].text <= text
      BY <1>1, <1>4 DEF Emb!Commit, Emb!Attempt, Emb!Running, NotAhead
    <2>2. /\ UNCHANGED <<text, bound, tasks, overlapped>>
          /\ embedded' = [embedded EXCEPT ![work[w].row] = work[w].text]
          /\ work' = [work EXCEPT ![w] = Emb!Over(w, "done")]
      BY <1>4 DEF Emb!Commit, Emb!Finish
    <2>3. embedded' \in [Workers -> 0..MaxText] /\ work' \in [Workers -> Emb!Attempt]
      BY <1>1, <2>1, <2>2, OverIsAttempt
    <2>4. work'[w].pc = "idle" /\ work'[w].text = 0 /\ \A v \in Workers \ {w} : work'[v] = work[v]
      BY <1>1, <2>2, OverIsAttempt
    <2>5. NotAhead'
      BY <1>1, <2>1, <2>2, <2>4 DEF NotAhead
    <2>6. ASSUME ~overlapped PROVE Alone'
      <3>1. \A v \in Workers : ~Emb!Running(v)'
        BY <1>1, <2>1, <2>4, <2>6 DEF Alone, Emb!Running
      <3>2. Emb!Rows' \subseteq {work[w].row}
        BY <1>1, <2>1, <2>2, <2>6 DEF Alone, Emb!Rows
      <3>3. \A v \in Workers : work'[v].pc \in {"idle", "queued"}
        BY <3>1 DEF Emb!Running
      <3> QED
        BY <3>1, <3>2, <3>3 DEF Alone
    <2>7. Emb!TypeOK'
      BY <1>1, <2>2, <2>3 DEF Emb!TypeOK
    <2> QED
      BY <2>2, <2>5, <2>6, <2>7 DEF EmbIInv
  <1> QED
    BY <1>2, <1>3, <1>4, EmbQuietStep DEF Emb!Next, Emb!Attempting

(* The library's Cardinality is the same in every instance.                *)
LEMMA EmbCardinality == \A S : Emb!Cardinality(S) = Cardinality(S)
  BY DEF Emb!Cardinality, Cardinality

(* One embedding row per post and model (models/channel_post_embedding.py) *)
(* as long as attempts do not overlap (services/embeddings.py):            *)
(* OneRowAlone, whatever is retried, redelivered or lost in between.       *)
THEOREM OneRowWhileAlone == DataSpec => []OneRowAlone
  <1>1. EmbIInv => OneRowAlone
    <2> SUFFICES ASSUME EmbIInv, ~overlapped PROVE Cardinality(Emb!Rows) <= 1
      BY EmbCardinality DEF OneRowAlone, Emb!OneRowAlone, Emb!OneRow
    <2>1. CASE Emb!Rows = {}
      BY <2>1, FS_EmptySet
    <2>2. CASE Emb!Rows # {}
      <3>1. PICK v : Emb!Rows = {v}
        BY <2>2 DEF EmbIInv, Alone
      <3>2. Cardinality({v}) = 1
        BY FS_Singleton
      <3> QED
        BY <3>1, <3>2
    <2> QED
      BY <2>1, <2>2
  <1> QED
    BY <1>1, EmbInitially, EmbInductive, EmbeddingsPart, PTL

(* A vector goes back to an older text only after attempts overlapped      *)
(* (services/embeddings.py): NoOldVector, for any workers and deliveries.  *)
THEOREM VectorsFollowTheText == DataSpec => NoOldVector
  <1> DEFINE Kept == \A w \in Workers : embedded'[w] >= embedded[w] \/ overlapped
  <1>1. EmbIInv /\ [Emb!Next]_(Emb!vars) => [Kept]_(Emb!vars)
    <2> SUFFICES ASSUME EmbIInv, Emb!Next, ~overlapped, NEW u \in Workers
                 PROVE  embedded'[u] >= embedded[u]
      OBVIOUS
    <2>1. embedded \in [Workers -> Nat] /\ work \in [Workers -> Emb!Attempt] /\ Alone
      BY DEF EmbIInv, Emb!TypeOK
    <2>2. ASSUME NEW w \in Workers, Emb!Commit(w) PROVE embedded'[u] >= embedded[u]
      <3>1. /\ work[w].text \in Nat /\ embedded[u] <= work[w].text
            /\ embedded' = [embedded EXCEPT ![work[w].row] = work[w].text]
        BY <2>1, <2>2 DEF Emb!Commit, Emb!Attempt, Alone, Emb!Running
      <3> QED
        BY <2>1, <3>1
    <2>3. CASE UNCHANGED embedded
      BY <2>1, <2>3
    <2> QED
      BY <2>2, <2>3
      DEF Emb!Next, Emb!EditPost, Emb!BindOrDetach, Emb!Attempting, Emb!Deliver, Emb!Retry, Emb!Read,
          Emb!FirstActiveBinding, Emb!Embed, Emb!FindExisting, Emb!InsertRow, Emb!UpdateRow,
          Emb!WorkerLost
  <1> QED
    BY <1>1, EmbInitially, EmbInductive, EmbeddingsPart, PTL DEF NoOldVector, Emb!NoOldVector

-----------------------------------------------------------------------------
(* Ingest                                                                  *)

Handling(h) == hook[h].pc # "idle"

(* A delivery carries an update; it has loaded a row that is there or has  *)
(* inserted its own, but not both; at its commit it writes the update      *)
(* unless the row it loaded was the update already.                        *)
DeliveriesSound ==
    \A h \in Hooks :
        /\ hook[h].new => Handling(h) /\ hook[h].row # 0
        /\ Handling(h) =>
             /\ <<hook[h].m, hook[h].r>> \in Updates
             /\ hook[h].copy # 0 => Stored(hook[h].m)
             /\ hook[h].pc \in {"look", "relook", "insert"} => hook[h].copy = 0 /\ ~hook[h].new
             /\ hook[h].pc \in {"touch", "commit"} => (hook[h].copy # 0 <=> ~hook[h].new)
             /\ hook[h].pc = "commit" =>
                  hook[h].row = IF hook[h].copy = hook[h].r THEN 0 ELSE hook[h].r

(* What the task has fetched is stored or still to be stored; what it has  *)
(* inserted nobody else has.                                               *)
TaskSound ==
    /\ \A m \in bf.todo \cup bf.rows : bf.snap[m] # 0
    /\ \A m \in bf.rows : posts[m] = 0 /\ InsertedByHook(m) = {}
    /\ \A m \in Messages : bf.snap[m] # 0 => bf.pc = "look" \/ Stored(m) \/ m \in bf.todo \cup bf.rows
    /\ bf.pc \in {"refresh", "fetch"} => bf.snap = NoSnap
    /\ bf.pc \in {"idle", "refresh", "fetch", "look", "audit"} => bf.rows = {}
    /\ bf.pc # "insert" => bf.todo = {}

(* For a message whose updates came in order, those acknowledged are no    *)
(* newer than the one being handled, and the deliveries of it handle one.  *)
OrderKept ==
    \A h \in Hooks : Handling(h) /\ hook[h].m \notin disordered =>
        /\ \A v \in acked : v[1] = hook[h].m => v[2] <= hook[h].r
        /\ \A g \in Hooks : Handling(g) /\ hook[g].m = hook[h].m => hook[g].r = hook[h].r
        /\ hook[h].copy = hook[h].r => posts[hook[h].m] >= hook[h].r

IngestIInv ==
    /\ TypeOK /\ \A m \in Messages : tg[m] <= MaxRev[m]
    /\ DeliveriesSound /\ TaskSound /\ OrderKept
    /\ AckedStored /\ NewestWhenOrdered

(* The sets the model's numbers are from.                                  *)
LEMMA IngestNumbers ==
  /\ Rev \subseteq Nat /\ 0 \in Rev
  /\ \A m \in Messages, r \in Nat : r <= MaxRev[m] => r \in Rev
  /\ \A m, r : <<m, r>> \in Updates <=> m \in Messages /\ r \in 1..MaxRev[m]
  /\ \A u \in Updates : u[1] \in Messages /\ u[2] \in Nat \ {0} /\ u[2] \in Rev /\ u = <<u[1], u[2]>>
  <1>1. MaxRev \in [Messages -> Nat \ {0}] /\ Messages # {}
    BY IngestAssumption DEF IngestAssumption
  <1>2. Rev \subseteq Nat /\ 0 \in Rev
    BY <1>1 DEF Rev
  <1>3. \A m \in Messages, r \in Nat : r <= MaxRev[m] => r \in Rev
    BY <1>1 DEF Rev
  <1>4. \A m, r : <<m, r>> \in Updates <=> m \in Messages /\ r \in 1..MaxRev[m]
    BY DEF Updates
  <1>5. \A u \in Updates : u = <<u[1], u[2]>> /\ u[1] \in Messages /\ u[2] \in 1..MaxRev[u[1]]
    BY DEF Updates
  <1> QED
    BY <1>1, <1>2, <1>3, <1>4, <1>5

LEMMA RecordsTyped ==
  /\ NoDelivery \in Delivery /\ NoDelivery.pc = "idle" /\ ~NoDelivery.new /\ NoDelivery.copy = 0
  /\ NoSnap \in [Messages -> Rev]
  /\ \A o \in {"none", "ok", "failed", "integrity", "killed"} : NoTask(o) \in Task
  <1>1. NoSnap \in [Messages -> Rev]
    BY IngestNumbers DEF NoSnap
  <1>2. NoDelivery \in Delivery
    BY IngestNumbers DEF NoDelivery, Delivery
  <1>3. NoDelivery.pc = "idle" /\ ~NoDelivery.new /\ NoDelivery.copy = 0
    BY DEF NoDelivery
  <1>4. \A o \in {"none", "ok", "failed", "integrity", "killed"} : NoTask(o) \in Task
    BY <1>1 DEF NoTask, Task
  <1> QED
    BY <1>1, <1>2, <1>3, <1>4

LEMMA IngestInitially == Init => IngestIInv
  <1> SUFFICES ASSUME Init PROVE IngestIInv
    OBVIOUS
  <1>1. /\ tg = NoSnap /\ posts = NoSnap /\ acked = {} /\ dropped = {} /\ disordered = {}
        /\ hook = [h \in Hooks |-> NoDelivery] /\ bf = NoTask("none") /\ runs = 0 /\ faults = 0
    BY DEF Init, NoSnap
  <1>2. known \in BOOLEAN
    BY Zenon DEF Init
  <1>3. 0 \in 0..MaxRuns /\ 0 \in 0..MaxFaults
    BY IngestAssumption DEF IngestAssumption
  <1>4. hook \in [Hooks -> Delivery]
    BY <1>1, RecordsTyped
  <1>5. TypeOK
    BY <1>1, <1>2, <1>3, <1>4, RecordsTyped DEF TypeOK
  <1>6. \A m \in Messages : tg[m] <= MaxRev[m]
    BY <1>1, IngestAssumption DEF NoSnap, IngestAssumption
  <1>7. \A h \in Hooks : ~Handling(h) /\ ~hook[h].new
    BY <1>1, RecordsTyped DEF Handling
  <1>8. DeliveriesSound /\ OrderKept
    BY <1>7 DEF DeliveriesSound, OrderKept
  <1>9. TaskSound
    BY <1>1 DEF TaskSound, NoTask, NoSnap
  <1> QED
    BY <1>1, <1>5, <1>6, <1>8, <1>9 DEF IngestIInv, AckedStored, NewestWhenOrdered

(* A delivery that goes on, its update not acknowledged yet.               *)
LEMMA DeliveryGoesOn ==
  ASSUME IngestIInv, NEW h \in Hooks, Handling(h), NEW rec \in Delivery,
         hook' = [hook EXCEPT ![h] = rec],
         UNCHANGED <<acked, posts, bf, dropped, disordered>>,
         rec.pc # "idle", rec.m = hook[h].m, rec.r = hook[h].r,
         rec.new => rec.row # 0 /\ (hook[h].new \/ rec.m \notin bf.rows),
         rec.copy # 0 => Stored(rec.m),
         rec.copy = rec.r => rec.m \in disordered \/ posts[rec.m] >= rec.r,
         rec.pc \in {"look", "relook", "insert"} => rec.copy = 0 /\ ~rec.new,
         rec.pc \in {"touch", "commit"} => (rec.copy # 0 <=> ~rec.new),
         rec.pc = "commit" => rec.row = IF rec.copy = rec.r THEN 0 ELSE rec.r
  PROVE  DeliveriesSound' /\ TaskSound' /\ OrderKept' /\ AckedStored' /\ NewestWhenOrdered'
  <1>1. /\ hook \in [Hooks -> Delivery] /\ hook'[h] = rec
        /\ \A g \in Hooks \ {h} : hook'[g] = hook[g]
    BY DEF IngestIInv, TypeOK
  <1>2. DeliveriesSound'
    BY <1>1 DEF IngestIInv, DeliveriesSound, Handling, Stored
  <1>3. \A m \in bf.rows : InsertedByHook(m)' = {}
    <2>1. \A m \in bf.rows, g \in Hooks : ~(hook[g].new /\ hook[g].m = m /\ hook[g].row # 0)
      BY DEF IngestIInv, TaskSound, InsertedByHook
    <2>2. hook[h].new => hook[h].row # 0
      BY DEF IngestIInv, DeliveriesSound
    <2>3. \A m \in bf.rows, g \in Hooks : ~(hook'[g].new /\ hook'[g].m = m /\ hook'[g].row # 0)
      BY <1>1, <2>1, <2>2
    <2> QED
      BY <2>3 DEF InsertedByHook
  <1>4. TaskSound'
    BY <1>3 DEF IngestIInv, TaskSound, Stored
  <1>5. \A g \in Hooks : (Handling(g)' <=> Handling(g)) /\ hook'[g].m = hook[g].m /\ hook'[g].r = hook[g].r
    BY <1>1 DEF Handling
  <1>6. OrderKept'
    BY <1>1, <1>5 DEF IngestIInv, OrderKept
  <1> QED
    BY <1>2, <1>4, <1>6 DEF IngestIInv, AckedStored, NewestWhenOrdered, Stored

(* A delivery that ends, committed or not, answered or not: of the updates *)
(* only its own may become acknowledged, and only if it was dropped or is  *)
(* in the table.                                                           *)
LEMMA DeliveryEnds ==
  ASSUME IngestIInv, NEW h \in Hooks, Handling(h),
         hook' = [hook EXCEPT ![h] = NoDelivery],
         UNCHANGED <<bf, disordered>>, dropped \subseteq dropped',
         acked \subseteq acked', acked' \subseteq acked \cup {<<hook[h].m, hook[h].r>>},
         \/ posts' = posts
         \/ hook[h].pc = "commit" /\ hook[h].row # 0 /\ posts' = [posts EXCEPT ![hook[h].m] = hook[h].row],
         <<hook[h].m, hook[h].r>> \in acked' \ acked =>
            \/ <<hook[h].m, hook[h].r>> \in dropped'
            \/ posts'[hook[h].m] # 0 /\ (hook[h].m \notin disordered => posts'[hook[h].m] >= hook[h].r)
  PROVE  DeliveriesSound' /\ TaskSound' /\ OrderKept' /\ AckedStored' /\ NewestWhenOrdered'
  <1> DEFINE m == hook[h].m
             r == hook[h].r
  <1>1. /\ hook \in [Hooks -> Delivery] /\ hook'[h] = NoDelivery
        /\ \A g \in Hooks \ {h} : hook'[g] = hook[g]
        /\ posts \in [Messages -> Rev] /\ acked \subseteq Updates
    BY DEF IngestIInv, TypeOK
  <1>2. /\ m \in Messages /\ r \in Nat \ {0} /\ <<m, r>>[1] = m /\ <<m, r>>[2] = r
    BY IngestNumbers DEF IngestIInv, DeliveriesSound
  <1>3. \A n \in Messages : n # m => posts'[n] = posts[n]
    BY <1>1, <1>2
  <1>4. posts' # posts => /\ posts'[m] = r /\ hook[h].row = r /\ hook[h].copy # r
                          /\ hook[h].copy # 0 \/ hook[h].new
    BY <1>1, <1>2 DEF IngestIInv, DeliveriesSound
  <1>5. \A n \in Messages : Stored(n) => Stored(n)'
    BY <1>2, <1>3, <1>4 DEF Stored
  <1>6. ~Handling(h)' /\ ~hook'[h].new /\ \A g \in Hooks : g # h => (Handling(g)' <=> Handling(g))
    BY <1>1, RecordsTyped DEF Handling
  <1>7. DeliveriesSound'
    <2> SUFFICES ASSUME NEW g \in Hooks, g # h
                 PROVE  /\ hook[g].new => Handling(g) /\ hook[g].row # 0
                        /\ Handling(g) =>
                             /\ <<hook[g].m, hook[g].r>> \in Updates
                             /\ hook[g].copy # 0 => Stored(hook[g].m)'
                             /\ hook[g].pc \in {"look", "relook", "insert"} => hook[g].copy = 0 /\ ~hook[g].new
                             /\ hook[g].pc \in {"touch", "commit"} => (hook[g].copy # 0 <=> ~hook[g].new)
                             /\ hook[g].pc = "commit" =>
                                  hook[g].row = IF hook[g].copy = hook[g].r THEN 0 ELSE hook[g].r
      BY <1>1, <1>6 DEF DeliveriesSound
    <2> QED
      BY <1>5, IngestNumbers DEF IngestIInv, DeliveriesSound
  <1>8. TaskSound'
    <2>1. posts' # posts => m \notin bf.rows
      <3>1. hook[h].new => hook[h].row # 0
        BY DEF IngestIInv, DeliveriesSound
      <3>2. hook[h].copy # 0 => posts[m] # 0
        BY DEF IngestIInv, DeliveriesSound, Stored
      <3>3. m \in bf.rows => posts[m] = 0 /\ ~(hook[h].new /\ hook[h].row # 0)
        BY DEF IngestIInv, TaskSound, InsertedByHook
      <3> QED
        BY <1>4, <3>1, <3>2, <3>3
    <2>2. \A n \in bf.rows : posts'[n] = 0
      BY <1>1, <1>3, <2>1 DEF IngestIInv, TaskSound, TypeOK, Task
    <2>3. \A n \in bf.rows : InsertedByHook(n)' = {}
      BY <1>1, <1>6 DEF IngestIInv, TaskSound, InsertedByHook
    <2> QED
      BY <1>5, <2>2, <2>3 DEF IngestIInv, TaskSound
  <1>9. OrderKept'
    <2> SUFFICES ASSUME NEW g \in Hooks, g # h, Handling(g), hook[g].m \notin disordered
                 PROVE  /\ \A v \in acked' : v[1] = hook[g].m => v[2] <= hook[g].r
                        /\ \A k \in Hooks : Handling(k) /\ hook[k].m = hook[g].m => hook[k].r = hook[g].r
                        /\ hook[g].copy = hook[g].r => posts'[hook[g].m] >= hook[g].r
      BY <1>1, <1>6 DEF OrderKept
    <2>1. \A k \in Hooks : Handling(k) /\ hook[k].m = hook[g].m => hook[k].r = hook[g].r
      BY DEF IngestIInv, OrderKept
    <2>2. m = hook[g].m => r = hook[g].r
      BY <2>1
    <2>3. \A v \in acked' : v[1] = hook[g].m => v[2] <= hook[g].r
      BY <1>2, <2>2 DEF IngestIInv, OrderKept
    <2>4. hook[g].m \in Messages /\ (hook[g].copy = hook[g].r => posts[hook[g].m] >= hook[g].r)
      BY IngestNumbers DEF IngestIInv, OrderKept, DeliveriesSound
    <2>5. hook[g].copy = hook[g].r => posts'[hook[g].m] >= hook[g].r
      BY <1>2, <1>3, <1>4, <2>2, <2>4
    <2> QED
      BY <2>1, <2>3, <2>5
  <1>10. AckedStored'
    <2> SUFFICES ASSUME NEW u \in acked', u \notin dropped' PROVE Stored(u[1])'
      BY DEF AckedStored
    <2>1. CASE u \in acked
      <3>1. u[1] \in Messages /\ Stored(u[1])
        BY <1>1, <2>1, IngestNumbers DEF IngestIInv, AckedStored
      <3> QED
        BY <1>5, <3>1
    <2>2. CASE u \notin acked
      BY <1>2, <2>2 DEF Stored
    <2> QED
      BY <2>1, <2>2
  <1>11. NewestWhenOrdered'
    <2> SUFFICES ASSUME NEW u \in acked', u \notin dropped', u[1] \notin disordered
                 PROVE  posts'[u[1]] >= u[2]
      BY DEF NewestWhenOrdered
    <2>1. CASE u \in acked
      <3>1. u[1] \in Messages /\ posts[u[1]] >= u[2]
        BY <1>1, <2>1, IngestNumbers DEF IngestIInv, NewestWhenOrdered
      <3>2. u[1] = m => u[2] <= r
        BY <2>1 DEF IngestIInv, OrderKept
      <3>3. u[2] \in Nat
        BY <1>1, <2>1, IngestNumbers
      <3> QED
        BY <1>2, <1>3, <1>4, <3>1, <3>2, <3>3
    <2>2. CASE u \notin acked
      BY <1>2, <2>2
    <2> QED
      BY <2>1, <2>2
  <1> QED
    BY <1>7, <1>8, <1>9, <1>10, <1>11

LEMMA AcknowledgeAcks ==
  ASSUME NEW h \in Hooks, Acknowledge(h), TypeOK, <<hook[h].m, hook[h].r>> \in Updates
  PROVE  /\ hook' = [hook EXCEPT ![h] = NoDelivery]
         /\ acked \subseteq acked' /\ acked' \subseteq acked \cup {<<hook[h].m, hook[h].r>>}
         /\ acked' \subseteq Updates /\ faults' \in 0..MaxFaults
  BY IngestAssumption DEF Acknowledge, IngestAssumption, TypeOK

(* Every way a delivery that is being handled can end.                     *)
LEMMA DeliveryEnded ==
  ASSUME IngestIInv, NEW h \in Hooks, Handling(h),
         \/ UnknownChannel(h) \/ Duplicate(h) \/ CommitDelivery(h) \/ DeliveryFails(h)
         \/ InsertPost(h) /\ Stored(hook[h].m)
         \/ BreakDeadlock(h) /\ UNCHANGED bf
  PROVE  IngestIInv'
  <1>1. TypeOK /\ DeliveriesSound /\ TaskSound /\ hook \in [Hooks -> Delivery] /\ posts \in [Messages -> Rev]
    BY DEF IngestIInv, TypeOK
  <1>2. /\ <<hook[h].m, hook[h].r>> \in Updates /\ hook[h].m \in Messages
        /\ hook[h].r \in Nat \ {0} /\ hook[h].r \in Rev
    BY <1>1, IngestNumbers DEF DeliveriesSound
  <1>3. UNCHANGED <<tg, known, bf, runs, disordered>>
    BY DEF UnknownChannel, Duplicate, CommitDelivery, DeliveryFails, InsertPost, BreakDeadlock, histories
  <1>4. /\ hook' = [hook EXCEPT ![h] = NoDelivery]
        /\ acked \subseteq acked' /\ acked' \subseteq acked \cup {<<hook[h].m, hook[h].r>>}
        /\ acked' \subseteq Updates /\ faults' \in 0..MaxFaults
    <2>1. CASE UnknownChannel(h) \/ Duplicate(h) \/ CommitDelivery(h)
      BY <1>1, <1>2, <2>1, AcknowledgeAcks DEF UnknownChannel, Duplicate, CommitDelivery
    <2>2. CASE DeliveryFails(h)
      BY <1>1, <2>2, IngestAssumption DEF DeliveryFails, IngestAssumption, TypeOK
    <2>3. CASE (InsertPost(h) /\ Stored(hook[h].m)) \/ (BreakDeadlock(h) /\ UNCHANGED bf)
      <3>1. BreakDeadlock(h) /\ UNCHANGED bf => hook' = [hook EXCEPT ![h] = NoDelivery]
        <4>1. bf.pc = "insert" /\ BreakDeadlock(h) => bf # NoTask("killed")
          BY DEF NoTask
        <4> QED
          BY <4>1 DEF BreakDeadlock, Deadlocked
      <3> QED
        BY <1>1, <2>3, <3>1 DEF InsertPost, BreakDeadlock, TypeOK
    <2> QED
      BY <2>1, <2>2, <2>3
  <1>5. dropped \subseteq dropped' /\ dropped' \subseteq Updates
    BY <1>1, <1>2
    DEF UnknownChannel, Duplicate, CommitDelivery, DeliveryFails, InsertPost, BreakDeadlock, histories, TypeOK
  <1>6. CASE CommitDelivery(h)
    <2>1. /\ hook[h].pc = "commit"
          /\ hook[h].copy # 0 => posts[hook[h].m] # 0
          /\ hook[h].row = IF hook[h].copy = hook[h].r THEN 0 ELSE hook[h].r
          /\ hook[h].copy = hook[h].r /\ hook[h].m \notin disordered => posts[hook[h].m] >= hook[h].r
      BY <1>1, <1>6 DEF CommitDelivery, DeliveriesSound, Handling, Stored, IngestIInv, OrderKept
    <2>2. posts' = [posts EXCEPT ![hook[h].m] = IF hook[h].row # 0 THEN hook[h].row ELSE @]
      BY <1>6 DEF CommitDelivery
    <2>3. posts' \in [Messages -> Rev]
      BY <1>1, <1>2, <2>1, <2>2
    <2>4. \/ posts' = posts
          \/ hook[h].row # 0 /\ posts' = [posts EXCEPT ![hook[h].m] = hook[h].row]
      BY <1>1, <2>2
    <2>5. posts'[hook[h].m] # 0 /\ (hook[h].m \notin disordered => posts'[hook[h].m] >= hook[h].r)
      BY <1>1, <1>2, <2>1, <2>2
    <2>6. DeliveriesSound' /\ TaskSound' /\ OrderKept' /\ AckedStored' /\ NewestWhenOrdered'
      BY <1>3, <1>4, <1>5, <2>1, <2>4, <2>5, DeliveryEnds
    <2> QED
      BY <1>1, <1>3, <1>4, <1>5, <2>3, <2>6, RecordsTyped DEF IngestIInv, TypeOK
  <1>7. CASE ~CommitDelivery(h)
    <2>1. posts' = posts
      BY <1>7 DEF UnknownChannel, Duplicate, DeliveryFails, InsertPost, BreakDeadlock
    <2>2. <<hook[h].m, hook[h].r>> \in acked' \ acked =>
            \/ <<hook[h].m, hook[h].r>> \in dropped'
            \/ posts[hook[h].m] # 0 /\ posts[hook[h].m] >= hook[h].r
      <3>1. UnknownChannel(h) => <<hook[h].m, hook[h].r>> \in dropped'
        BY DEF UnknownChannel
      <3>2. Duplicate(h) => posts[hook[h].m] # 0 /\ posts[hook[h].m] >= hook[h].r
        BY <1>1, <1>2, IngestNumbers DEF Duplicate, Stored
      <3>3. ~UnknownChannel(h) /\ ~Duplicate(h) => acked' = acked
        BY <1>7 DEF DeliveryFails, InsertPost, BreakDeadlock
      <3> QED
        BY <3>1, <3>2, <3>3
    <2>3. DeliveriesSound' /\ TaskSound' /\ OrderKept' /\ AckedStored' /\ NewestWhenOrdered'
      BY <1>3, <1>4, <1>5, <2>1, <2>2, DeliveryEnds
    <2> QED
      BY <1>1, <1>3, <1>4, <1>5, <2>1, <2>3, RecordsTyped DEF IngestIInv, TypeOK
  <1> QED
    BY <1>6, <1>7

(* Every way it can go on.                                                 *)
LEMMA DeliveryContinued ==
  ASSUME IngestIInv, NEW h \in Hooks, Handling(h),
         \/ LoadPost(h) \/ NoPost(h) \/ RelookPost(h) \/ TouchAndPublish(h)
         \/ InsertPost(h) /\ ~Stored(hook[h].m)
  PROVE  IngestIInv'
  <1>1. TypeOK /\ DeliveriesSound /\ TaskSound /\ hook \in [Hooks -> Delivery] /\ posts \in [Messages -> Rev]
    BY DEF IngestIInv, TypeOK
  <1>2. /\ hook[h].m \in Messages /\ hook[h].r \in Nat \ {0} /\ hook[h].r \in Rev
        /\ hook[h] \in Delivery /\ posts[hook[h].m] \in Rev
    BY <1>1, IngestNumbers DEF DeliveriesSound
  <1>3. UNCHANGED <<tg, acked, known, posts, bf, runs, faults, dropped, disordered>>
    BY DEF LoadPost, NoPost, RelookPost, TouchAndPublish, InsertPost, histories
  <1>4. hook[h].copy = hook[h].r => hook[h].m \in disordered \/ posts[hook[h].m] >= hook[h].r
    BY DEF IngestIInv, OrderKept
  <1> DEFINE Sound(rec) ==
               /\ rec \in Delivery /\ hook' = [hook EXCEPT ![h] = rec]
               /\ rec.pc # "idle" /\ rec.m = hook[h].m /\ rec.r = hook[h].r
               /\ rec.new => rec.row # 0 /\ (hook[h].new \/ rec.m \notin bf.rows)
               /\ rec.copy # 0 => Stored(rec.m)
               /\ rec.copy = rec.r => rec.m \in disordered \/ posts[rec.m] >= rec.r
               /\ rec.pc \in {"look", "relook", "insert"} => rec.copy = 0 /\ ~rec.new
               /\ rec.pc \in {"touch", "commit"} => (rec.copy # 0 <=> ~rec.new)
               /\ rec.pc = "commit" => rec.row = IF rec.copy = rec.r THEN 0 ELSE rec.r
  <1>5. ASSUME LoadPost(h) PROVE \E rec : Sound(rec)
    <2> DEFINE rec == [hook[h] EXCEPT !.pc = "touch", !.copy = posts[hook[h].m]]
    <2>1. hook' = [hook EXCEPT ![h] = rec]
      BY <1>1, <1>2, <1>5 DEF LoadPost, Delivery
    <2>2. /\ rec \in Delivery /\ rec.pc = "touch" /\ rec.m = hook[h].m /\ rec.r = hook[h].r
          /\ rec.copy = posts[hook[h].m] /\ rec.new = hook[h].new /\ rec.row = hook[h].row
      BY <1>2 DEF Delivery
    <2>3. Stored(hook[h].m) /\ posts[hook[h].m] \in Nat /\ hook[h].pc = "look"
      BY <1>2, <1>5, IngestNumbers DEF LoadPost
    <2> HIDE DEF rec
    <2>4. ~rec.new
      BY <1>1, <2>2, <2>3 DEF DeliveriesSound
    <2>5. rec.copy # 0 /\ Stored(rec.m)
      BY <2>2, <2>3 DEF Stored
    <2>6. rec.copy = rec.r => posts[rec.m] >= rec.r
      BY <2>2, <2>3
    <2>7. Sound(rec)
      BY <2>1, <2>2, <2>4, <2>5, <2>6
    <2> QED
      BY <2>7
  <1>6. ASSUME NEW p \in {"insert", "relook", "look"}, Goto(h, p),
               hook[h].pc \in {"look", "relook"}
        PROVE  \E rec : Sound(rec)
    <2> DEFINE rec == [hook[h] EXCEPT !.pc = p]
    <2>1. hook' = [hook EXCEPT ![h] = rec]
      BY <1>1, <1>2, <1>6 DEF Goto, Delivery
    <2>2. /\ rec \in Delivery /\ rec.pc = p /\ rec.m = hook[h].m /\ rec.r = hook[h].r
          /\ rec.copy = hook[h].copy /\ rec.new = hook[h].new /\ rec.row = hook[h].row
      BY <1>2 DEF Delivery
    <2> HIDE DEF rec
    <2>3. Sound(rec)
      BY <1>1, <1>4, <1>6, <2>1, <2>2 DEF DeliveriesSound
    <2> QED
      BY <2>3
  <1>7. ASSUME InsertPost(h), ~Stored(hook[h].m) PROVE \E rec : Sound(rec)
    <2> DEFINE rec == [hook[h] EXCEPT !.pc = "touch", !.row = hook[h].r, !.new = TRUE]
    <2>1. hook' = [hook EXCEPT ![h] = rec]
      BY <1>1, <1>2, <1>7 DEF InsertPost, Delivery
    <2>2. /\ rec \in Delivery /\ rec.pc = "touch" /\ rec.m = hook[h].m /\ rec.r = hook[h].r
          /\ rec.copy = hook[h].copy /\ rec.new /\ rec.row = hook[h].r
      BY <1>2 DEF Delivery
    <2>3. hook[h].m \notin bf.rows /\ hook[h].pc = "insert"
      BY <1>7 DEF InsertPost, KeyBusy
    <2> HIDE DEF rec
    <2>4. Sound(rec)
      BY <1>1, <1>2, <2>1, <2>2, <2>3 DEF DeliveriesSound
    <2> QED
      BY <2>4
  <1>8. ASSUME TouchAndPublish(h) PROVE \E rec : Sound(rec)
    <2> DEFINE new == IF hook[h].copy = hook[h].r THEN 0 ELSE hook[h].r
               rec == [hook[h] EXCEPT !.pc = "commit", !.row = new]
    <2>1. hook' = [hook EXCEPT ![h] = rec]
      BY <1>1, <1>2, <1>8 DEF TouchAndPublish, Delivery
    <2>2. /\ rec \in Delivery /\ rec.pc = "commit" /\ rec.m = hook[h].m /\ rec.r = hook[h].r
          /\ rec.copy = hook[h].copy /\ rec.new = hook[h].new /\ rec.row = new
      BY <1>2, IngestNumbers DEF Delivery
    <2>3. hook[h].pc = "touch"
      BY <1>8 DEF TouchAndPublish
    <2> HIDE DEF rec
    <2>4. hook[h].new => hook[h].copy # hook[h].r
      BY <1>1, <1>2, <2>3 DEF DeliveriesSound, Handling
    <2>5. Sound(rec)
      BY <1>1, <1>2, <1>4, <2>1, <2>2, <2>3, <2>4 DEF DeliveriesSound
    <2> QED
      BY <2>5
  <1>9. PICK rec : Sound(rec)
    BY <1>5, <1>6, <1>7, <1>8 DEF NoPost, RelookPost
  <1>10. TypeOK'
    BY <1>1, <1>3, <1>9 DEF TypeOK
  <1>11. DeliveriesSound' /\ TaskSound' /\ OrderKept' /\ AckedStored' /\ NewestWhenOrdered'
    BY <1>3, <1>9, DeliveryGoesOn
  <1> QED
    BY <1>3, <1>10, <1>11 DEF IngestIInv

(* A new delivery of an update that was sent and not acknowledged.         *)
LEMMA DeliveryBegun ==
  ASSUME IngestIInv, NEW h \in Hooks, NEW u \in Updates, Deliver(h, u)
  PROVE  IngestIInv'
  <1> DEFINE rec == [NoDelivery EXCEPT !.pc = "look", !.m = u[1], !.r = u[2]]
  <1>1. /\ TypeOK /\ hook \in [Hooks -> Delivery] /\ ~Handling(h)
        /\ UNCHANGED <<tg, acked, known, posts, bf, runs, dropped>>
    BY DEF IngestIInv, TypeOK, Deliver, Handling
  <1>2. /\ u[1] \in Messages /\ u[2] \in Nat \ {0} /\ u[2] \in Rev /\ u = <<u[1], u[2]>>
    BY IngestNumbers
  <1>3. /\ rec \in Delivery /\ rec.pc = "look" /\ rec.m = u[1] /\ rec.r = u[2]
        /\ rec.copy = 0 /\ rec.row = 0 /\ ~rec.new
    BY <1>2, IngestNumbers DEF NoDelivery, Delivery
  <1>4. hook' = [hook EXCEPT ![h] = rec] /\ disordered \subseteq disordered'
    BY DEF Deliver
  <1>5. u[1] \notin disordered' =>
            /\ \A v \in acked : v[1] = u[1] => ~(v[2] > u[2])
            /\ \A g \in Hooks : Handling(g) /\ hook[g].m = u[1] => hook[g].r = u[2]
    BY DEF Deliver, Handling
  <1>6. disordered' \subseteq Messages /\ faults' \in 0..MaxFaults
    BY <1>1, <1>2, IngestAssumption DEF Deliver, IngestAssumption, TypeOK
  <1> HIDE DEF rec
  <1>7. hook'[h] = rec /\ \A g \in Hooks \ {h} : hook'[g] = hook[g]
    BY <1>1, <1>4
  <1>8. Handling(h)' /\ \A g \in Hooks \ {h} : Handling(g)' <=> Handling(g)
    BY <1>3, <1>7 DEF Handling
  <1>9. DeliveriesSound'
    <2>1. <<rec.m, rec.r>> \in Updates
      BY <1>2, <1>3
    <2>2. UNCHANGED posts /\ rec.copy = 0 /\ ~rec.new /\ rec.pc = "look"
      BY <1>1, <1>3
    <2>3. \A g \in Hooks \ {h} :
            /\ hook[g].new => Handling(g) /\ hook[g].row # 0
            /\ Handling(g) =>
                 /\ <<hook[g].m, hook[g].r>> \in Updates
                 /\ hook[g].copy # 0 => Stored(hook[g].m)
                 /\ hook[g].pc \in {"look", "relook", "insert"} => hook[g].copy = 0 /\ ~hook[g].new
                 /\ hook[g].pc \in {"touch", "commit"} => (hook[g].copy # 0 <=> ~hook[g].new)
                 /\ hook[g].pc = "commit" =>
                      hook[g].row = IF hook[g].copy = hook[g].r THEN 0 ELSE hook[g].r
      BY DEF IngestIInv, DeliveriesSound
    <2> QED
      BY <1>7, <1>8, <2>1, <2>2, <2>3 DEF DeliveriesSound, Stored
  <1>10. TaskSound'
    <2>1. \A m \in bf.rows : InsertedByHook(m)' = {}
      BY <1>3, <1>7 DEF IngestIInv, TaskSound, InsertedByHook
    <2> QED
      BY <1>1, <2>1 DEF IngestIInv, TaskSound, Stored
  <1>11. OrderKept'
    <2> SUFFICES ASSUME NEW g \in Hooks, Handling(g)', hook'[g].m \notin disordered'
                 PROVE  /\ \A v \in acked : v[1] = hook'[g].m => v[2] <= hook'[g].r
                        /\ \A k \in Hooks : Handling(k)' /\ hook'[k].m = hook'[g].m => hook'[k].r = hook'[g].r
                        /\ hook'[g].copy = hook'[g].r => posts[hook'[g].m] >= hook'[g].r
      BY <1>1 DEF OrderKept
    <2>1. CASE g = h
      <3>1. \A v \in acked : v[2] \in Nat
        BY <1>1, IngestNumbers DEF TypeOK
      <3> QED
        BY <1>2, <1>3, <1>5, <1>7, <1>8, <2>1, <3>1
    <2>2. CASE g # h
      <3>1. Handling(g) /\ hook[g].m \notin disordered /\ hook'[g] = hook[g]
        BY <1>4, <1>7, <1>8, <2>2
      <3>2. \A k \in Hooks : Handling(k)' /\ hook'[k].m = hook'[g].m => hook'[k].r = hook'[g].r
        BY <1>3, <1>5, <1>7, <1>8, <3>1 DEF IngestIInv, OrderKept
      <3> QED
        BY <3>1, <3>2 DEF IngestIInv, OrderKept
    <2> QED
      BY <2>1, <2>2
  <1>12. AckedStored' /\ NewestWhenOrdered'
    BY <1>1, <1>4 DEF IngestIInv, AckedStored, NewestWhenOrdered, Stored
  <1>13. TypeOK'
    BY <1>1, <1>3, <1>4, <1>6 DEF TypeOK
  <1> QED
    BY <1>1, <1>9, <1>10, <1>11, <1>12, <1>13 DEF IngestIInv

(* The channel's authors and the connect handler touch no row.             *)
LEMMA OutsideSteps ==
  ASSUME IngestIInv,
         \/ \E m \in Messages : Post(m) \/ Edit(m)
         \/ ConnectChannel
         \/ UNCHANGED vars
  PROVE  IngestIInv'
  <1>1. UNCHANGED <<acked, posts, hook, bf, runs, faults, dropped, disordered>>
    BY DEF Post, Edit, ConnectChannel, vars, histories
  <1>2. tg' \in [Messages -> Rev] /\ \A m \in Messages : tg'[m] <= MaxRev[m]
    <2>1. /\ tg \in [Messages -> Rev] /\ \A m \in Messages : tg[m] <= MaxRev[m]
          /\ MaxRev \in [Messages -> Nat \ {0}]
      BY IngestAssumption DEF IngestIInv, TypeOK, IngestAssumption
    <2>2. ASSUME NEW m \in Messages, Post(m) \/ Edit(m)
          PROVE  \E r \in Rev : r <= MaxRev[m] /\ tg' = [tg EXCEPT ![m] = r]
      <3>1. CASE Post(m)
        <4>1. 1 \in Rev /\ 1 <= MaxRev[m]
          BY <2>1, IngestNumbers
        <4> QED
          BY <3>1, <4>1 DEF Post
      <3>2. CASE Edit(m)
        <4>1. tg[m] + 1 \in Rev /\ tg[m] + 1 <= MaxRev[m]
          BY <2>1, <3>2, IngestNumbers DEF Edit
        <4> QED
          BY <3>2, <4>1 DEF Edit
      <3> QED
        BY <2>2, <3>1, <3>2
    <2>3. CASE tg' = tg
      BY <2>1, <2>3
    <2>4. ASSUME NEW m \in Messages, NEW r \in Rev, r <= MaxRev[m], tg' = [tg EXCEPT ![m] = r]
          PROVE  tg' \in [Messages -> Rev] /\ \A n \in Messages : tg'[n] <= MaxRev[n]
      BY <2>1, <2>4
    <2> QED
      BY <2>2, <2>3, <2>4 DEF ConnectChannel, vars
  <1>3. known' \in BOOLEAN
    BY Zenon DEF IngestIInv, TypeOK, Post, Edit, ConnectChannel, vars
  <1>4. TypeOK'
    BY <1>1, <1>2, <1>3 DEF IngestIInv, TypeOK
  <1>5. DeliveriesSound' /\ TaskSound' /\ OrderKept' /\ AckedStored' /\ NewestWhenOrdered'
    BY <1>1 DEF IngestIInv, DeliveriesSound, TaskSound, OrderKept, AckedStored, NewestWhenOrdered,
                Handling, Stored, InsertedByHook
  <1> QED
    BY <1>2, <1>4, <1>5 DEF IngestIInv

LEMMA LeastOf == ASSUME NEW S \in SUBSET Nat, S # {} PROVE Min(S) \in S
  <1>1. PICK x \in S : \A y \in S : ~(<<y, x>> \in OpToRel(<, Nat))
    BY NatLessThanWellFounded, WFMin
  <1>2. \A y \in S : ~(y < x)
    BY <1>1, Zenon DEF OpToRel
  <1>3. \A y \in S : x <= y
    BY <1>2
  <1> QED
    BY <1>3 DEF Min

(* The task, but for its commit.                                           *)
LEMMA TaskWorks ==
  ASSUME IngestIInv,
         \/ StartBackfill \/ BackfillKilled
         \/ RefreshSubscribers \/ FetchHistory \/ BackfillRefused \/ SelectExisting
         \/ InsertSnapshot \/ PublishBackfill \/ AuditBackfill
         \/ \E h \in Hooks : BreakDeadlock(h) /\ UNCHANGED hook
  PROVE  IngestIInv'
  <1>1. /\ TypeOK /\ TaskSound /\ bf \in Task /\ tg \in [Messages -> Rev]
    BY DEF IngestIInv, TypeOK
  <1>2. UNCHANGED <<tg, acked, known, posts, hook, dropped, disordered>>
    BY DEF StartBackfill, BackfillKilled, RefreshSubscribers, FetchHistory, BackfillRefused, SelectExisting,
           InsertSnapshot, PublishBackfill, AuditBackfill, BreakDeadlock, histories
  <1>3. runs' \in 0..MaxRuns /\ faults' \in 0..MaxFaults
    BY <1>1, IngestAssumption
    DEF StartBackfill, BackfillKilled, RefreshSubscribers, FetchHistory, BackfillRefused, SelectExisting,
        InsertSnapshot, PublishBackfill, AuditBackfill, BreakDeadlock, IngestAssumption, TypeOK
  <1>4. ASSUME NEW o \in {"none", "ok", "failed", "integrity", "killed"}, bf' = NoTask(o)
        PROVE  bf' \in Task /\ TaskSound'
    BY <1>2, <1>4, RecordsTyped DEF TaskSound, NoTask, NoSnap
  <1>5. /\ bf.snap \in [Messages -> Rev] /\ bf.todo \subseteq Messages /\ bf.rows \subseteq Messages
        /\ \A m \in Messages : (Stored(m)' <=> Stored(m)) /\ (InsertedByHook(m)' = InsertedByHook(m))
    BY <1>1, <1>2 DEF Task, Stored, InsertedByHook
  <1>6. ASSUME StartBackfill PROVE bf' \in Task /\ TaskSound'
    <2> DEFINE rec == [NoTask("none") EXCEPT !.pc = "refresh"]
    <2>1. bf' = rec
      BY <1>6 DEF StartBackfill
    <2>2. /\ rec \in Task /\ rec.pc = "refresh" /\ rec.snap = NoSnap /\ rec.todo = {} /\ rec.rows = {}
      BY RecordsTyped DEF NoTask, Task
    <2> HIDE DEF rec
    <2> QED
      BY <2>1, <2>2 DEF TaskSound, NoSnap
  <1>7. ASSUME NEW c \in BOOLEAN, bf.pc = "refresh",
               bf' = [bf EXCEPT !.pc = "fetch", !.chan = c]
        PROVE  bf' \in Task /\ TaskSound'
    <2>1. bf' \in Task /\ bf'.pc = "fetch" /\ bf'.snap = bf.snap /\ bf'.todo = bf.todo /\ bf'.rows = bf.rows
      BY <1>1, <1>7 DEF Task
    <2> QED
      BY <1>1, <1>5, <1>7, <2>1 DEF TaskSound, NoSnap
  <1>8. ASSUME RefreshSubscribers PROVE bf' \in Task /\ TaskSound'
    <2>1. bf.chan \in BOOLEAN /\ [bf EXCEPT !.pc = "fetch"] = [bf EXCEPT !.pc = "fetch", !.chan = bf.chan]
      BY <1>1 DEF Task
    <2> QED
      BY <1>7, <1>8, <2>1 DEF RefreshSubscribers
  <1>9. ASSUME FetchHistory PROVE bf' \in Task /\ TaskSound'
    <2>1. bf.pc = "fetch" /\ bf.snap = NoSnap /\ bf.rows = {} /\ bf.todo = {}
      BY <1>1, <1>9 DEF FetchHistory, TaskSound
    <2>2. CASE bf' = [bf EXCEPT !.pc = "commit"]
      <3>1. bf' \in Task /\ bf'.pc = "commit" /\ bf'.snap = bf.snap /\ bf'.todo = {} /\ bf'.rows = {}
        BY <1>1, <2>1, <2>2 DEF Task
      <3> QED
        BY <2>1, <3>1 DEF TaskSound, NoSnap
    <2>3. CASE bf' = [bf EXCEPT !.pc = "look", !.snap = tg]
      <3>1. bf' \in Task /\ bf'.pc = "look" /\ bf'.todo = {} /\ bf'.rows = {}
        BY <1>1, <2>1, <2>3 DEF Task
      <3> QED
        BY <3>1 DEF TaskSound
    <2> QED
      BY <1>9, <2>2, <2>3 DEF FetchHistory
  <1>10. ASSUME SelectExisting PROVE bf' \in Task /\ TaskSound'
    <2> DEFINE missing == {m \in Messages : bf.snap[m] # 0 /\ ~Stored(m)}
    <2>1. bf' = [bf EXCEPT !.pc = "insert", !.todo = missing] /\ bf.pc = "look"
      BY <1>10 DEF SelectExisting
    <2>2. /\ bf' \in Task /\ bf'.pc = "insert" /\ bf'.snap = bf.snap /\ bf'.todo = missing
          /\ bf'.rows = bf.rows
      BY <1>1, <2>1 DEF Task
    <2>3. bf.rows = {}
      BY <1>1, <2>1 DEF TaskSound
    <2> QED
      BY <1>5, <2>2, <2>3 DEF TaskSound
  <1>11. ASSUME InsertSnapshot PROVE bf' \in Task /\ TaskSound'
    <2> DEFINE m == Min(bf.todo)
    <2>1. m \in bf.todo /\ bf.pc = "insert"
      BY <1>5, <1>11, LeastOf, IngestAssumption DEF InsertSnapshot, IngestAssumption
    <2>2. ~KeyBusy(m, Hooks) /\ bf' = IF Stored(m) THEN NoTask("integrity")
                                      ELSE [bf EXCEPT !.todo = @ \ {m}, !.rows = @ \cup {m}]
      BY <1>11 DEF InsertSnapshot
    <2> HIDE DEF m
    <2>3. CASE Stored(m)
      BY <1>4, <2>2, <2>3
    <2>4. CASE ~Stored(m)
      <3>1. /\ bf' \in Task /\ bf'.pc = "insert" /\ bf'.snap = bf.snap
            /\ bf'.todo = bf.todo \ {m} /\ bf'.rows = bf.rows \cup {m}
        BY <1>1, <1>5, <2>1, <2>2, <2>4 DEF Task
      <3>2. posts[m] = 0 /\ InsertedByHook(m) = {} /\ m \in Messages
        BY <1>5, <2>1, <2>2, <2>4 DEF KeyBusy, Stored, InsertedByHook
      <3>3. \A n \in bf'.rows : posts'[n] = 0 /\ InsertedByHook(n)' = {}
        BY <1>1, <1>2, <1>5, <3>1, <3>2 DEF TaskSound
      <3>4. \A n \in bf'.todo \cup bf'.rows : bf'.snap[n] # 0
        BY <1>1, <2>1, <3>1 DEF TaskSound
      <3>5. \A n \in Messages : bf'.snap[n] # 0 => Stored(n)' \/ n \in bf'.todo \cup bf'.rows
        BY <1>1, <1>5, <2>1, <3>1 DEF TaskSound
      <3> QED
        BY <3>1, <3>3, <3>4, <3>5 DEF TaskSound
    <2> QED
      BY <2>3, <2>4
  <1>12. ASSUME PublishBackfill PROVE bf' \in Task /\ TaskSound'
    <2>1. /\ bf' \in Task /\ bf'.pc = "commit" /\ bf'.snap = bf.snap /\ bf'.todo = {} /\ bf.todo = {}
          /\ bf'.rows = bf.rows /\ bf.pc = "insert"
      BY <1>1, <1>12 DEF Task, PublishBackfill
    <2> QED
      BY <1>1, <1>2, <1>5, <2>1 DEF TaskSound
  <1>13. ASSUME NEW h \in Hooks, BreakDeadlock(h), UNCHANGED hook PROVE bf' \in Task /\ TaskSound'
    <2>1. hook' # hook \/ bf' = NoTask("killed")
      <3>1. hook[h].pc = "touch" /\ hook \in [Hooks -> Delivery]
        BY <1>1, <1>13 DEF BreakDeadlock, Deadlocked, TypeOK
      <3>2. hook # [hook EXCEPT ![h] = NoDelivery]
        BY <3>1, RecordsTyped
      <3> QED
        BY <1>13, <3>2 DEF BreakDeadlock
    <2> QED
      BY <1>4, <1>13, <2>1
  <1>14. bf' \in Task /\ TaskSound'
    BY <1>4, <1>6, <1>8, <1>9, <1>10, <1>11, <1>12, <1>13 DEF BackfillKilled, BackfillRefused, AuditBackfill
  <1>15. TypeOK'
    BY <1>2, <1>3, <1>14 DEF IngestIInv, TypeOK
  <1> QED
    BY <1>2, <1>14, <1>15
    DEF IngestIInv, DeliveriesSound, OrderKept, AckedStored, NewestWhenOrdered, Handling, Stored

(* Its commit.                                                             *)
LEMMA TaskCommits == IngestIInv /\ CommitBackfill => IngestIInv'
  <1> SUFFICES ASSUME IngestIInv, CommitBackfill PROVE IngestIInv'
    OBVIOUS
  <1>1. /\ TypeOK /\ TaskSound /\ DeliveriesSound /\ bf \in Task /\ bf.snap \in [Messages -> Rev]
        /\ bf.rows \subseteq Messages /\ posts \in [Messages -> Rev] /\ bf.pc = "commit" /\ bf.todo = {}
    BY DEF IngestIInv, TypeOK, Task, CommitBackfill, TaskSound
  <1>2. UNCHANGED <<tg, acked, known, hook, runs, faults, dropped, disordered>>
    BY DEF CommitBackfill, histories
  <1>3. /\ bf' \in Task /\ bf'.pc = "audit" /\ bf'.snap = bf.snap /\ bf'.todo = {} /\ bf'.rows = {}
    BY <1>1 DEF CommitBackfill, Task
  <1>4. posts' = [m \in Messages |-> IF m \in bf.rows THEN bf.snap[m] ELSE posts[m]]
    BY DEF CommitBackfill
  <1>5. posts' \in [Messages -> Rev]
    BY <1>1, <1>4
  <1>6. \A m \in Messages : posts[m] # 0 => posts'[m] = posts[m]
    BY <1>1, <1>4 DEF TaskSound
  <1>7. \A m \in Messages : Stored(m) => Stored(m)'
    BY <1>6 DEF Stored
  <1>8. \A m \in Messages : bf'.snap[m] # 0 => Stored(m)'
    BY <1>1, <1>3, <1>4, <1>7 DEF TaskSound, Stored
  <1>9. TaskSound'
    BY <1>3, <1>8 DEF TaskSound
  <1>10. TypeOK'
    BY <1>1, <1>2, <1>3, <1>5 DEF TypeOK
  <1>11. DeliveriesSound'
    <2>1. \A h \in Hooks : Handling(h) => hook[h].m \in Messages
      BY <1>1, IngestNumbers DEF DeliveriesSound
    <2> QED
      BY <1>1, <1>2, <1>7, <2>1 DEF DeliveriesSound, Handling
  <1>12. OrderKept'
    <2>1. ASSUME NEW h \in Hooks, Handling(h), hook[h].copy = hook[h].r, hook[h].m \notin disordered
          PROVE  posts'[hook[h].m] >= hook[h].r
      <3>1. hook[h].m \in Messages /\ hook[h].r \in Nat \ {0} /\ posts[hook[h].m] >= hook[h].r
        BY <1>1, <2>1, IngestNumbers DEF DeliveriesSound, IngestIInv, OrderKept
      <3> QED
        BY <1>6, <3>1
    <2> QED
      BY <1>2, <2>1 DEF IngestIInv, OrderKept, Handling
  <1>13. AckedStored' /\ NewestWhenOrdered'
    <2>1. \A u \in acked \ dropped : u[1] \in Messages /\ Stored(u[1])
      BY <1>1, IngestNumbers DEF IngestIInv, TypeOK, AckedStored
    <2>2. \A u \in acked \ dropped : posts'[u[1]] = posts[u[1]]
      BY <1>6, <2>1 DEF Stored
    <2> QED
      BY <1>2, <2>1, <2>2 DEF IngestIInv, AckedStored, NewestWhenOrdered, Stored
  <1> QED
    BY <1>2, <1>9, <1>10, <1>11, <1>12, <1>13 DEF IngestIInv

LEMMA IngestInductive == IngestIInv /\ [Next]_vars => IngestIInv'
  <1> SUFFICES ASSUME IngestIInv, [Next]_vars PROVE IngestIInv'
    OBVIOUS
  <1>1. ASSUME NEW h \in Hooks, HookStep(h) \/ DeliveryFails(h) \/ BreakDeadlock(h) PROVE IngestIInv'
    <2>1. Handling(h)
      BY <1>1 DEF HookStep, DeliveryFails, BreakDeadlock, Deadlocked, UnknownChannel, Duplicate, LoadPost, NoPost,
                  RelookPost, InsertPost, TouchAndPublish, CommitDelivery, Handling
    <2>2. CASE BreakDeadlock(h)
      <3>1. UNCHANGED bf \/ UNCHANGED hook
        BY <2>2 DEF BreakDeadlock
      <3> QED
        BY <2>1, <2>2, <3>1, DeliveryEnded, TaskWorks
    <2> QED
      BY <1>1, <2>1, <2>2, DeliveryEnded, DeliveryContinued DEF HookStep
  <1> QED
    BY <1>1, DeliveryBegun, OutsideSteps, TaskWorks, TaskCommits DEF Next, BackfillStep

LEMMA IngestHolds == DataSpec => []IngestIInv
  <1>1. DataInit => Init
    BY DEF DataInit
  <1>2. [DataNext]_dataVars => [Next]_vars
    BY DEF DataNext, dataVars, vars, histories
  <1> QED
    BY <1>1, <1>2, IngestInitially, IngestInductive, PTL DEF DataSpec

(* A 204 is a promise (routes/integrations.py, services/channel_ingest.py):*)
(* AckedStored, for any deliveries, messages, edits, crashes and lost or   *)
(* repeated answers, with a backfill at any time.                          *)
THEOREM AcknowledgedIsStored == DataSpec => []AckedStored
  <1>1. IngestIInv => AckedStored
    BY DEF IngestIInv
  <1> QED
    BY <1>1, IngestHolds, PTL

(* Updates handled in order leave the newest text (services/               *)
(* channel_ingest.py): NewestWhenOrdered, whatever a backfill fetched.     *)
THEOREM NewestIsKept == DataSpec => []NewestWhenOrdered
  <1>1. IngestIInv => NewestWhenOrdered
    BY DEF IngestIInv
  <1> QED
    BY <1>1, IngestHolds, PTL

(* A backfill that reports success (services/channel_history.py) has left  *)
(* nothing it fetched out of the table: BackfillComplete.                  *)
THEOREM BackfillIsComplete == DataSpec => []BackfillComplete
  <1>1. IngestIInv => BackfillComplete
    BY DEF IngestIInv, TaskSound, BackfillComplete
  <1> QED
    BY <1>1, IngestHolds, PTL

=============================================================================
