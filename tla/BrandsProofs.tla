---------------------------- MODULE BrandsProofs ----------------------------
(***************************************************************************)
(* Proofs about Brands, for any number of handlers in flight and any plan. *)
(*                                                                         *)
(* Every step of a handler is one of three: it starts, it moves on leaving *)
(* the table alone, or it commits. The quota argument counts the brands    *)
(* there are together with the handlers that have passed the gate. The     *)
(* argument about the default brand says what a handler that runs alone    *)
(* knows of the table at each point of its code.                           *)
(***************************************************************************)
EXTENDS Brands, FiniteSetTheorems, TLAPS

Busy(r) == req[r].op # "none"
Creating == {r \in Requests : req[r].op = "create"}
Slack == IF raced THEN Cardinality(Requests) - 1 ELSE 0

(* What a handler's record says of it at each point of its code.           *)
HandlerOK(h) ==
    /\ h.pc = "idle" <=> h.op = "none"
    /\ h.op \in {"create", "default", "delete"} /\ h.pc # "failed" => h.brand \in Ids
    /\ h.pc = "insert" => h.op = "create"
    /\ h.pc = "promote" => h.op = "default"
    /\ h.pc \in {"count", "delete"} => h.op = "delete"
    /\ h.pc \in {"demote", "demote_lock"} => h.op \in {"create", "default"}
    /\ h.pc \in {"look", "repair", "backfill"} => h.op \in {"resolve", "default"}

HandlersOK == \A r \in Requests : HandlerOK(req[r])

(* As long as nothing has overlapped, one handler at most is busy.         *)
Alone == ~raced => \A r, q \in Requests : Busy(r) /\ Busy(q) => r = q

(* Whoever has passed the gate has its place.                              *)
Room == Cardinality(Live) + Cardinality(Creating) <= MaxBrands + Slack

(* A deletion that has passed its guards leaves a brand behind.            *)
LeavesBrand ==
    ~raced => \A r \in Requests : req[r].pc = "delete" => Live \ {req[r].brand} # {}

IInv ==
    /\ TypeOK
    /\ HandlersOK
    /\ Alone
    /\ Room
    /\ LeavesBrand
    /\ KeepsBrand

(* The sets that are counted are finite.                                   *)
LEMMA Finite ==
    /\ IsFiniteSet(Live) /\ Cardinality(Live) \in Nat
    /\ IsFiniteSet(Creating) /\ Cardinality(Creating) \in Nat
    /\ Cardinality(Requests) \in Nat
    /\ Requests # {} => Cardinality(Requests) >= 1
  <1>1. IsFiniteSet(Ids)
    BY BrandsAssumption, FS_Interval DEF Ids
  <1>2. IsFiniteSet(Live) /\ IsFiniteSet(Creating)
    BY <1>1, BrandsAssumption, FS_Subset DEF Live, Creating
  <1>3. Cardinality(Requests) \in Nat
    BY BrandsAssumption, FS_CardinalityType
  <1>4. Requests # {} => Cardinality(Requests) # 0
    BY BrandsAssumption, FS_EmptySet
  <1> QED
    BY <1>2, <1>3, <1>4, FS_CardinalityType

LEMMA IdleOK == Idle \in Handler /\ HandlerOK(Idle) /\ Idle.op = "none"
  BY DEF Idle, Handler, HandlerOK, Pcs, Ids

LEMMA InitInv == Init => IInv
  <1> SUFFICES ASSUME Init PROVE IInv
    OBVIOUS
  <1>1. 1 \in Ids
    BY BrandsAssumption DEF Ids
  <1>2. TypeOK /\ HandlersOK
    <2>1. PICK d \in BOOLEAN :
            brands = [i \in Ids |-> IF i = 1 THEN [st |-> "live", is_default |-> d]
                                    ELSE [st |-> "free", is_default |-> FALSE]]
      BY BrandsAssumption DEF Init
    <2>2. /\ [st |-> "live", is_default |-> d] \in Brand
          /\ [st |-> "free", is_default |-> FALSE] \in Brand
      BY DEF Brand
    <2>3. brands \in [Ids -> Brand]
      BY <2>1, <2>2
    <2> QED
      BY <2>3, IdleOK DEF Init, TypeOK, HandlersOK
  <1>3. Live = {1}
    BY <1>1 DEF Init, Live
  <1>4. Creating = {}
    BY DEF Init, Creating, Idle
  <1>5. Room
    BY <1>3, <1>4, FS_Singleton, FS_EmptySet, BrandsAssumption DEF Room, Slack, Init
  <1>6. Alone /\ LeavesBrand /\ KeepsBrand
    BY <1>3 DEF Init, Alone, Busy, LeavesBrand, KeepsBrand, Idle
  <1> QED
    BY <1>2, <1>5, <1>6 DEF IInv

-----------------------------------------------------------------------------
(* A busy handler moves on, or answers, and the table stays as it is.      *)
LEMMA MovesOn ==
    ASSUME IInv, NEW r \in Requests, NEW k \in Handler,
           HandlerOK(k), k.op \in {req[r].op, "none"},
           k.pc = "delete" => Live \ {k.brand} # {},
           Busy(r), req' = [req EXCEPT ![r] = k], UNCHANGED <<brands, raced>>
    PROVE  IInv'
  <1>1. TypeOK' /\ HandlersOK'
    BY DEF IInv, TypeOK, HandlersOK
  <1>2. Live' = Live /\ Slack' = Slack
    BY DEF Live, Slack
  <1>3. Alone'
    BY DEF IInv, TypeOK, Alone, Busy
  <1>4. Creating' \subseteq Creating
    BY DEF IInv, TypeOK, Creating
  <1>5. /\ Cardinality(Creating') <= Cardinality(Creating)
        /\ Cardinality(Creating') \in Nat
    BY <1>4, Finite, FS_Subset, FS_CardinalityType
  <1>6. Slack \in Int
    BY Finite DEF Slack
  <1>7. Room'
    BY <1>2, <1>5, <1>6, Finite, BrandsAssumption DEF IInv, Room
  <1>8. LeavesBrand' /\ KeepsBrand'
    BY <1>2 DEF IInv, TypeOK, LeavesBrand, KeepsBrand
  <1> QED
    BY <1>1, <1>3, <1>7, <1>8 DEF IInv

(* A handler starts. One that has passed the quota gate takes a place; if  *)
(* others were busy, their places are covered by the slack.                *)
LEMMA Starts ==
    ASSUME IInv, NEW r \in Requests, NEW k \in Handler,
           HandlerOK(k), k.op # "none", k.pc # "delete",
           k.op = "create" => Cardinality(Live) < MaxBrands,
           Start(r, k)
    PROVE  IInv'
  <1>1. /\ ~Busy(r) /\ req' = [req EXCEPT ![r] = k] /\ UNCHANGED brands
        /\ raced' = (raced \/ \E q \in Requests \ {r} : Busy(q))
    BY DEF Start, IInv, HandlersOK, HandlerOK, Busy
  <1>2. TypeOK' /\ HandlersOK'
    BY <1>1 DEF IInv, TypeOK, HandlersOK
  <1>3. Live' = Live
    BY <1>1 DEF Live
  <1>4. Alone'
    BY <1>1 DEF IInv, TypeOK, Alone, Busy
  <1>5. LeavesBrand' /\ KeepsBrand'
    BY <1>1, <1>3 DEF IInv, TypeOK, LeavesBrand, KeepsBrand
  <1>6. CASE k.op # "create"
    <2>1. Creating' = Creating
      BY <1>1, <1>6 DEF IInv, TypeOK, Creating, Busy
    <2>2. Slack <= Slack' /\ Slack \in Int /\ Slack' \in Int
      <3>1. raced => raced'
        BY <1>1 DEF IInv, TypeOK
      <3>2. Cardinality(Requests) - 1 \in Nat
        BY Finite
      <3>3. CASE raced
        BY <3>1, <3>2, <3>3 DEF Slack
      <3>4. CASE ~raced
        BY <3>2, <3>4 DEF Slack
      <3> QED
        BY <3>3, <3>4
    <2>3. Room'
      BY <1>3, <2>1, <2>2, Finite, BrandsAssumption DEF IInv, Room
    <2> QED
      BY <1>2, <1>4, <1>5, <2>3 DEF IInv
  <1>7. CASE k.op = "create"
    <2>1. Creating' = Creating \cup {r}
      BY <1>1, <1>7 DEF IInv, TypeOK, Creating
    <2>2. CASE raced'
      <3>1. /\ Cardinality(Creating') <= Cardinality(Requests)
            /\ Cardinality(Creating') \in Nat
        BY <2>1, BrandsAssumption, FS_Subset, FS_CardinalityType DEF Creating
      <3>2. Slack' = Cardinality(Requests) - 1
        BY <2>2 DEF Slack
      <3>3. Room'
        BY <1>3, <1>7, <3>1, <3>2, Finite, BrandsAssumption DEF Room
      <3> QED
        BY <1>2, <1>4, <1>5, <3>3 DEF IInv
    <2>3. CASE ~raced'
      <3>1. Creating = {}
        BY <1>1, <2>3 DEF Creating, Busy
      <3>2. Cardinality(Creating') = 1
        BY <2>1, <3>1, FS_Singleton
      <3>3. Slack' = 0
        BY <2>3 DEF Slack
      <3>4. Room'
        BY <1>3, <1>7, <3>2, <3>3, Finite, BrandsAssumption DEF Room
      <3> QED
        BY <1>2, <1>4, <1>5, <3>4 DEF IInv
    <2> QED
      BY <2>2, <2>3
  <1> QED
    BY <1>6, <1>7

(* A handler commits. Only one that creates adds a brand, and gives its    *)
(* place up for it; only one that leaves another brand takes one away.     *)
LEMMA Commits ==
    ASSUME IInv, NEW r \in Requests, NEW i \in Ids, NEW new \in Brand,
           CommitWith(r, i, new), UNCHANGED raced, Busy(r),
           new.st = "live" => i \in Live \/ req[r].op = "create",
           new.st # "live" => (~raced => Live \ {i} # {})
    PROVE  IInv'
  <1>1. req' = [req EXCEPT ![r] = Idle]
    BY DEF CommitWith, Answer
  <1>2. TypeOK' /\ HandlersOK'
    BY <1>1, IdleOK DEF IInv, TypeOK, HandlersOK, CommitWith, Brand
  <1>3. \A j \in Ids : brands'[j].st = IF j = i THEN new.st ELSE brands[j].st
    BY DEF CommitWith, IInv, TypeOK, Brand
  <1>4. Live' = IF new.st = "live" THEN Live \cup {i} ELSE Live \ {i}
    BY <1>3 DEF Live
  <1>5. Alone'
    BY <1>1, IdleOK DEF IInv, TypeOK, Alone, Busy
  <1>6. Creating' = Creating \ {r}
    BY <1>1, IdleOK DEF IInv, TypeOK, Creating
  <1>7. /\ Cardinality(Creating') = IF r \in Creating THEN Cardinality(Creating) - 1
                                    ELSE Cardinality(Creating)
        /\ Cardinality(Live') <= IF r \in Creating THEN Cardinality(Live) + 1
                                 ELSE Cardinality(Live)
        /\ Cardinality(Live') \in Nat
    <2>1. Cardinality(Creating \ {r}) = IF r \in Creating THEN Cardinality(Creating) - 1
                                        ELSE Cardinality(Creating)
      BY Finite, FS_RemoveElement
    <2>2. CASE new.st = "live" /\ req[r].op = "create"
      <3>1. r \in Creating /\ Live' = Live \cup {i}
        BY <1>4, <2>2 DEF Creating
      <3>2. /\ Cardinality(Live \cup {i}) <= Cardinality(Live) + 1
            /\ Cardinality(Live \cup {i}) \in Nat
        <4>1. Cardinality(Live \cup {i}) \in Nat
          BY Finite, FS_AddElement, FS_CardinalityType
        <4>2. Cardinality(Live \cup {i}) = IF i \in Live THEN Cardinality(Live)
                                           ELSE Cardinality(Live) + 1
          BY Finite, FS_AddElement
        <4> QED
          BY <4>1, <4>2, Finite
      <3> QED
        BY <1>6, <2>1, <3>1, <3>2
    <2>3. CASE new.st = "live" /\ req[r].op # "create"
      <3>1. Live' = Live
        BY <1>4, <2>3
      <3> QED
        BY <1>6, <2>1, <3>1, Finite
    <2>4. CASE new.st # "live"
      <3>1. Live' \in SUBSET Live
        BY <1>4, <2>4
      <3>2. Cardinality(Live') <= Cardinality(Live) /\ Cardinality(Live') \in Nat
        BY <3>1, Finite, FS_Subset, FS_CardinalityType
      <3> QED
        BY <1>6, <2>1, <3>2, Finite
    <2> QED
      BY <2>2, <2>3, <2>4
  <1>8. Slack' = Slack /\ Slack \in Int
    BY Finite DEF Slack
  <1>9. Room'
    BY <1>7, <1>8, Finite, BrandsAssumption DEF IInv, Room
  <1>10. KeepsBrand'
    BY <1>4 DEF IInv, KeepsBrand
  <1>11. LeavesBrand'
    <2> SUFFICES ASSUME ~raced, NEW q \in Requests, req'[q].pc = "delete"
                 PROVE  Live' \ {req'[q].brand} # {}
      BY DEF LeavesBrand
    <2>1. q # r /\ req[q].pc = "delete"
      BY <1>1 DEF IInv, TypeOK, Idle
    <2>2. Busy(q)
      BY <2>1 DEF Busy, IInv, HandlersOK, HandlerOK
    <2> QED
      BY <2>1, <2>2 DEF IInv, Alone
  <1> QED
    BY <1>2, <1>5, <1>9, <1>10, <1>11 DEF IInv
(* The statement that makes row i default commits or is rolled back.       *)
LEMMA CommitsDefault ==
    ASSUME IInv, NEW r \in Requests, NEW i \in Ids, NEW new \in Brand,
           CommitDefault(r, i, new), UNCHANGED raced, Busy(r),
           new.st = "live" => i \in Live \/ req[r].op = "create",
           new.st # "live" => (~raced => Live \ {i} # {})
    PROVE  IInv'
  <1>1. CASE Rivals(r, i) = {}
    BY <1>1, Commits DEF CommitDefault
  <1>2. CASE Rivals(r, i) # {}
    <2> DEFINE k == [Idle EXCEPT !.op = req[r].op, !.pc = "failed"]
    <2>1. req[r] \in Handler
      BY DEF IInv, TypeOK
    <2>2. k \in Handler /\ HandlerOK(k) /\ k.op = req[r].op /\ k.pc = "failed"
      BY <2>1 DEF Idle, Handler, HandlerOK, Pcs, Busy
    <2>3. req' = [req EXCEPT ![r] = k] /\ UNCHANGED brands
      BY <1>2 DEF CommitDefault
    <2> HIDE DEF k
    <2> QED
      BY <2>2, <2>3, MovesOn
  <1> QED
    BY <1>1, <1>2

(* What it means to continue a look-up of the default brand.               *)
LEMMA Continues ==
    ASSUME IInv, NEW r \in Requests, Continue(r), UNCHANGED <<brands, raced>>,
           Busy(r), req[r].op \in {"resolve", "default"}, req[r].pc # "failed"
    PROVE  IInv'
  <1>1. req[r] \in Handler /\ HandlerOK(req[r])
    BY DEF IInv, TypeOK, HandlersOK
  <1>2. CASE req[r].op = "resolve" \/ req[r].copy
    BY <1>2, IdleOK, MovesOn DEF Continue, Answer, Idle
  <1>3. CASE ~(req[r].op = "resolve" \/ req[r].copy)
    <2> DEFINE k == [req[r] EXCEPT !.pc = "demote"]
    <2>1. k \in Handler /\ HandlerOK(k) /\ k.op = req[r].op /\ k.pc = "demote"
      BY <1>1, <1>3 DEF Handler, HandlerOK, Pcs
    <2>2. req' = [req EXCEPT ![r] = k]
      BY <1>3 DEF Continue, Goto
    <2> HIDE DEF k
    <2> QED
      BY <2>1, <2>2, MovesOn
  <1> QED
    BY <1>2, <1>3

-----------------------------------------------------------------------------
LEMMA ArriveStep ==
    ASSUME IInv, NEW r \in Requests, Arrive(r)
    PROVE  IInv'
  <1>1. CASE Resolve(r)
    <2> DEFINE k == [Idle EXCEPT !.op = "resolve", !.pc = "look"]
    <2>1. /\ k \in Handler /\ HandlerOK(k)
          /\ k.op \notin {"none", "create"} /\ k.pc # "delete"
      BY DEF Idle, Handler, HandlerOK, Pcs
    <2> HIDE DEF k
    <2> QED
      BY <1>1, <2>1, Starts DEF Resolve, k
  <1>2. ASSUME NEW d \in BOOLEAN, CreateBrand(r, d) PROVE IInv'
    <2>1. PICK i \in Ids :
            LET effective == d \/ Live = {} IN
            Start(r, [Idle EXCEPT !.op = "create", !.brand = i, !.copy = effective,
                                  !.pc = IF effective THEN "demote" ELSE "insert"])
      BY <1>2 DEF CreateBrand
    <2> DEFINE e == d \/ Live = {}
               k == [Idle EXCEPT !.op = "create", !.brand = i, !.copy = e,
                                 !.pc = IF e THEN "demote" ELSE "insert"]
    <2>2. e \in BOOLEAN
      OBVIOUS
    <2>3. Start(r, k)
      BY <2>1
    <2> HIDE DEF e
    <2>4. /\ k \in Handler /\ HandlerOK(k)
          /\ k.op = "create" /\ k.pc # "delete"
      BY <2>2 DEF Idle, Handler, HandlerOK, Pcs
    <2>5. Cardinality(Live) < MaxBrands
      BY <1>2 DEF CreateBrand
    <2> HIDE DEF k
    <2> QED
      BY <2>3, <2>4, <2>5, Starts
  <1>3. ASSUME NEW b \in Ids, SetBrandDefault(r, b) \/ DeleteBrand(r, b) PROVE IInv'
    <2>1. brands[b].is_default \in BOOLEAN
      BY DEF IInv, TypeOK, Brand
    <2>2. CASE SetBrandDefault(r, b)
      <3> DEFINE k == [Idle EXCEPT !.op = "default", !.pc = "look", !.brand = b,
                                   !.copy = brands[b].is_default]
      <3>1. /\ k \in Handler /\ HandlerOK(k)
            /\ k.op \notin {"none", "create"} /\ k.pc # "delete"
        BY <2>1 DEF Idle, Handler, HandlerOK, Pcs
      <3>2. Start(r, k)
        BY <2>2 DEF SetBrandDefault
      <3> HIDE DEF k
      <3> QED
        BY <3>1, <3>2, Starts
    <2>3. CASE DeleteBrand(r, b)
      <3> DEFINE k == [Idle EXCEPT !.op = "delete", !.pc = "count", !.brand = b,
                                   !.copy = brands[b].is_default]
      <3>1. /\ k \in Handler /\ HandlerOK(k)
            /\ k.op \notin {"none", "create"} /\ k.pc # "delete"
        BY <2>1 DEF Idle, Handler, HandlerOK, Pcs
      <3>2. Start(r, k)
        BY <2>3 DEF DeleteBrand
      <3> HIDE DEF k
      <3> QED
        BY <3>1, <3>2, Starts
    <2> QED
      BY <1>3, <2>2, <2>3
  <1> QED
    BY <1>1, <1>2, <1>3 DEF Arrive

(* The steps that only read, lock, or give up.                             *)
LEMMA ReadStep ==
    ASSUME IInv, NEW r \in Requests,
           \/ DefaultForWorkspace(r) \/ SelectOldest(r)
           \/ ResetDefaultFlag(r) \/ DemoteLocked(r) \/ DeleteGuards(r)
           \/ ServerError(r) \/ Abort(r)
    PROVE  IInv'
  <1>1. /\ req[r] \in Handler /\ HandlerOK(req[r]) /\ req \in [Requests -> Handler]
        /\ Defaults(r) \subseteq Ids
    BY DEF IInv, TypeOK, HandlersOK, Defaults, Live
  <1>2. Busy(r)
    BY <1>1 DEF Busy, HandlerOK, DefaultForWorkspace, SelectOldest, ResetDefaultFlag,
                DemoteLocked, DeleteGuards, ServerError, Abort
  <1>3. CASE DefaultForWorkspace(r)
    <2>1. req[r].pc = "look" /\ UNCHANGED <<brands, raced>>
      BY <1>3 DEF DefaultForWorkspace
    <2>2. CASE Defaults(r) # {}
      BY <1>1, <1>2, <1>3, <2>1, <2>2, Continues DEF DefaultForWorkspace, HandlerOK
    <2>3. CASE Defaults(r) = {}
      <3> DEFINE k == [req[r] EXCEPT !.pc = "repair"]
      <3>1. k \in Handler /\ HandlerOK(k) /\ k.op = req[r].op /\ k.pc # "delete"
        BY <1>1, <2>1 DEF Handler, HandlerOK, Pcs
      <3>2. req' = [req EXCEPT ![r] = k]
        BY <1>3, <2>3 DEF DefaultForWorkspace, Goto
      <3> HIDE DEF k
      <3> QED
        BY <1>2, <2>1, <3>1, <3>2, MovesOn
    <2> QED
      BY <2>2, <2>3
  <1>4. CASE SelectOldest(r)
    <2>1. req[r].pc = "repair" /\ UNCHANGED <<brands, raced>>
      BY <1>4 DEF SelectOldest
    <2>2. CASE Continue(r)
      BY <1>1, <1>2, <2>1, <2>2, Continues DEF HandlerOK
    <2>3. ASSUME NEW i \in Ids,
                 req' = [req EXCEPT ![r].pc = "backfill", ![r].rows = {i}]
          PROVE  IInv'
      <3> DEFINE k == [req[r] EXCEPT !.pc = "backfill", !.rows = {i}]
      <3>1. k \in Handler /\ HandlerOK(k) /\ k.op = req[r].op /\ k.pc # "delete"
        BY <1>1, <2>1 DEF Handler, HandlerOK, Pcs
      <3>2. req' = [req EXCEPT ![r] = k]
        BY <1>1, <2>3
      <3> HIDE DEF k
      <3> QED
        BY <1>2, <2>1, <3>1, <3>2, MovesOn
    <2> QED
      BY <1>4, <2>2, <2>3 DEF SelectOldest
  <1>5. CASE ResetDefaultFlag(r)
    <2> DEFINE k == [req[r] EXCEPT !.pc = "demote_lock",
                                   !.rows = Defaults(r) \ {req[r].brand}]
    <2>1. req[r].pc = "demote" /\ UNCHANGED <<brands, raced>>
      BY <1>5 DEF ResetDefaultFlag
    <2>2. k \in Handler /\ HandlerOK(k) /\ k.op = req[r].op /\ k.pc # "delete"
      BY <1>1, <2>1 DEF Handler, HandlerOK, Pcs
    <2>3. req' = [req EXCEPT ![r] = k]
      BY <1>1, <1>5 DEF ResetDefaultFlag
    <2> HIDE DEF k
    <2> QED
      BY <1>2, <2>1, <2>2, <2>3, MovesOn
  <1>6. CASE DemoteLocked(r)
    <2> DEFINE k == [req[r] EXCEPT
                       !.pc = IF req[r].op = "create" THEN "insert" ELSE "promote",
                       !.demoted = req[r].rows \cap Defaults(r), !.rows = {}]
    <2>1. req[r].pc = "demote_lock" /\ UNCHANGED <<brands, raced>>
      BY <1>6 DEF DemoteLocked
    <2>2. k \in Handler /\ HandlerOK(k) /\ k.op = req[r].op /\ k.pc # "delete"
      BY <1>1, <2>1 DEF Handler, HandlerOK, Pcs
    <2>3. req' = [req EXCEPT ![r] = k]
      BY <1>1, <1>6 DEF DemoteLocked
    <2> HIDE DEF k
    <2> QED
      BY <1>2, <2>1, <2>2, <2>3, MovesOn
  <1>7. CASE DeleteGuards(r)
    <2>1. req[r].pc = "count" /\ UNCHANGED <<brands, raced>>
      BY <1>7 DEF DeleteGuards
    <2>2. CASE Cardinality(Live) <= 1 \/ req[r].copy
      BY <1>2, <1>7, <2>1, <2>2, IdleOK, MovesOn DEF DeleteGuards, Answer, Idle
    <2>3. CASE ~(Cardinality(Live) <= 1 \/ req[r].copy)
      <3> DEFINE k == [req[r] EXCEPT !.pc = "delete"]
      <3>1. k \in Handler /\ HandlerOK(k) /\ k.op = req[r].op /\ k.brand = req[r].brand
        BY <1>1, <2>1 DEF Handler, HandlerOK, Pcs
      <3>2. req' = [req EXCEPT ![r] = k]
        BY <1>7, <2>3 DEF DeleteGuards, Goto
      <3>3. Live \ {req[r].brand} # {}
        <4> SUFFICES ASSUME Live \subseteq {req[r].brand} PROVE FALSE
          OBVIOUS
        <4>1. Cardinality(Live) <= Cardinality({req[r].brand})
          BY FS_Singleton, FS_Subset
        <4> QED
          BY <2>3, <4>1, Finite, FS_Singleton
      <3> HIDE DEF k
      <3> QED
        BY <1>2, <2>1, <3>1, <3>2, <3>3, MovesOn
    <2> QED
      BY <2>2, <2>3
  <1>8. CASE ServerError(r) \/ Abort(r)
    BY <1>2, <1>8, IdleOK, MovesOn DEF ServerError, Abort, Answer, Idle
  <1> QED
    BY <1>3, <1>4, <1>5, <1>6, <1>7, <1>8

(* The steps that write.                                                   *)
LEMMA WriteStep ==
    ASSUME IInv, NEW r \in Requests,
           Backfill(r) \/ InsertBrand(r) \/ PromoteBrand(r) \/ DeleteWrite(r)
    PROVE  IInv'
  <1>1. /\ req[r] \in Handler /\ HandlerOK(req[r]) /\ req \in [Requests -> Handler]
        /\ brands \in [Ids -> Brand]
    BY DEF IInv, TypeOK, HandlersOK
  <1>2. Busy(r)
    BY <1>1 DEF Busy, HandlerOK, Backfill, InsertBrand, PromoteBrand, DeleteWrite
  <1>3. CASE Backfill(r)
    <2>1. PICK i \in req[r].rows :
            IF req[r].op = "resolve" \/ i = req[r].brand \/ Rivals(r, i) # {}
            THEN CommitDefault(r, i, [brands[i] EXCEPT !.is_default = TRUE])
            ELSE /\ req' = [req EXCEPT ![r].pc = "demote", ![r].backfilled = {i}]
                 /\ UNCHANGED brands
      BY <1>3 DEF Backfill
    <2>2. i \in Ids /\ req[r].pc = "backfill" /\ UNCHANGED raced
      BY <1>1, <1>3 DEF Backfill, Handler
    <2> DEFINE new == [brands[i] EXCEPT !.is_default = TRUE]
    <2>3. new \in Brand /\ new.st = brands[i].st
      BY <1>1, <2>2 DEF Brand
    <2>4. CASE req[r].op = "resolve" \/ i = req[r].brand \/ Rivals(r, i) # {}
      <3>1. CommitDefault(r, i, new)
        BY <2>1, <2>4
      <3>2. new.st = "live" => i \in Live
        BY <2>2, <2>3 DEF Live
      <3>3. new.st # "live" => (~raced => Live \ {i} # {})
        BY <2>3 DEF IInv, KeepsBrand, Live
      <3> HIDE DEF new
      <3> QED
        BY <1>2, <2>2, <2>3, <3>1, <3>2, <3>3, CommitsDefault
    <2>5. CASE ~(req[r].op = "resolve" \/ i = req[r].brand \/ Rivals(r, i) # {})
      <3> DEFINE k == [req[r] EXCEPT !.pc = "demote", !.backfilled = {i}]
      <3>1. k \in Handler /\ HandlerOK(k) /\ k.op = req[r].op /\ k.pc # "delete"
        BY <1>1, <2>2, <2>5 DEF Handler, HandlerOK, Pcs
      <3>2. req' = [req EXCEPT ![r] = k] /\ UNCHANGED brands
        BY <1>1, <2>1, <2>5
      <3> HIDE DEF k
      <3> QED
        BY <1>2, <2>2, <3>1, <3>2, MovesOn
    <2> QED
      BY <2>4, <2>5
  <1>4. CASE InsertBrand(r)
    <2> DEFINE new == [st |-> "live", is_default |-> req[r].copy]
    <2>1. /\ req[r].pc = "insert" /\ req[r].op = "create" /\ req[r].brand \in Ids
          /\ UNCHANGED raced
      BY <1>1, <1>4 DEF InsertBrand, HandlerOK
    <2>2. new \in Brand /\ new.st = "live"
      BY <1>1 DEF Brand, Handler
    <2>3. \/ CommitDefault(r, req[r].brand, new)
          \/ CommitWith(r, req[r].brand, new)
      BY <1>4 DEF InsertBrand
    <2> HIDE DEF new
    <2> QED
      BY <1>2, <2>1, <2>2, <2>3, Commits, CommitsDefault
  <1>5. CASE PromoteBrand(r)
    <2> DEFINE b == req[r].brand
               new == [brands[b] EXCEPT !.is_default = TRUE]
    <2>1. req[r].pc = "promote" /\ b \in Ids /\ UNCHANGED raced
      BY <1>1, <1>5 DEF PromoteBrand, HandlerOK
    <2>2. new \in Brand /\ new.st = brands[b].st
      BY <1>1, <2>1 DEF Brand
    <2>3. CommitDefault(r, b, new)
      BY <1>5 DEF PromoteBrand
    <2>4. new.st = "live" => b \in Live
      BY <2>1, <2>2 DEF Live
    <2>5. new.st # "live" => (~raced => Live \ {b} # {})
      BY <2>2 DEF IInv, KeepsBrand, Live
    <2> HIDE DEF new, b
    <2> QED
      BY <1>2, <2>1, <2>2, <2>3, <2>4, <2>5, CommitsDefault
  <1>6. CASE DeleteWrite(r)
    <2> DEFINE b == req[r].brand
               new == [brands[b] EXCEPT !.st = "deleted"]
    <2>1. req[r].pc = "delete" /\ b \in Ids /\ UNCHANGED raced
      BY <1>1, <1>6 DEF DeleteWrite, HandlerOK
    <2>2. new \in Brand /\ new.st = "deleted"
      BY <1>1, <2>1 DEF Brand
    <2>3. CommitWith(r, b, new)
      BY <1>6 DEF DeleteWrite
    <2>4. ~raced => Live \ {b} # {}
      BY <2>1 DEF IInv, LeavesBrand
    <2> HIDE DEF new, b
    <2> QED
      BY <1>2, <2>1, <2>2, <2>3, <2>4, Commits
  <1> QED
    BY <1>3, <1>4, <1>5, <1>6

LEMMA NextInv == IInv /\ [Next]_vars => IInv'
  <1> SUFFICES ASSUME IInv, [Next]_vars PROVE IInv'
    OBVIOUS
  <1>1. CASE UNCHANGED vars
    BY <1>1 DEF vars, IInv, TypeOK, HandlersOK, Alone, Busy, Room, Creating, Slack, Live,
                LeavesBrand, KeepsBrand
  <1>2. CASE Next
    BY <1>2, ArriveStep, ReadStep, WriteStep DEF Next, Step
  <1> QED
    BY <1>1, <1>2

(* The inductive invariant.                                                *)
THEOREM Invariant == Spec => []IInv
  BY InitInv, NextInv, PTL DEF Spec

(* Every variable keeps its type.                                          *)
THEOREM TypeCorrect == Spec => []TypeOK
  <1>1. IInv => TypeOK
    BY DEF IInv
  <1> QED
    BY <1>1, Invariant, PTL

(* However many handlers create brands at once, the workspace goes over    *)
(* its plan by less than their number; and not at all if none overlap.     *)
THEOREM QuotaIsHeld == Spec => []QuotaHeld
  <1>1. IInv => QuotaHeld
    <2> SUFFICES ASSUME IInv PROVE QuotaHeld
      OBVIOUS
    <2>1. Slack \in Int
      BY Finite DEF Slack
    <2> QED
      BY <2>1, Finite, BrandsAssumption DEF IInv, Room, QuotaHeld, Slack
  <1> QED
    BY <1>1, Invariant, PTL

(* One handler at a time, a workspace never loses its last brand.          *)
THEOREM BrandIsKept == Spec => []KeepsBrand
  <1>1. IInv => KeepsBrand
    BY DEF IInv
  <1> QED
    BY <1>1, Invariant, PTL

-----------------------------------------------------------------------------
(* The default brand, as long as one handler runs at a time                *)

Marked == {i \in Ids : brands[i].is_default}

(* At most one row is the default, and it is no deleted one.               *)
OneDefault == Marked \subseteq Live /\ \A i, j \in Marked : i = j

(* What a handler that has been alone so far knows of the table.           *)
Tidy(h) ==
    /\ h.pc # "failed"
    /\ h.op = "none" => h.demoted = {} /\ h.backfilled = {}
    /\ h.op \in {"default", "delete"} => h.brand \in Live
    /\ h.op = "create" => brands[h.brand].st = "free"
    /\ h.op = "delete" => (h.copy <=> h.brand \in Marked)
    /\ h.pc = "delete" => h.brand \notin Marked
    /\ h.pc \in {"look", "repair", "backfill", "count", "delete"} => h.demoted = {} /\ h.backfilled = {}
    /\ h.pc \in {"repair", "backfill"} => Marked = {}
    /\ h.pc = "backfill" => h.rows \subseteq Live
    /\ h.pc \in {"demote", "demote_lock"} => h.demoted = {} /\ (h.op = "create" => h.copy)
    /\ h.backfilled \subseteq Live
    /\ h.pc = "demote_lock" => h.rows = (Marked \cup h.backfilled) \ {h.brand}
    /\ h.pc = "promote" \/ (h.pc = "insert" /\ h.copy) => (Marked \cup h.backfilled) \ h.demoted \subseteq {h.brand}
    /\ h.pc = "insert" /\ ~h.copy => h.demoted = {} /\ h.backfilled = {}

DInv == IInv /\ (~raced => OneDefault /\ \A r \in Requests : Tidy(req[r]))

(* The default brand there was is replaced, if at all, by another one.     *)
Kept == ~raced' /\ (\E i \in Live : brands[i].is_default)
           => \E i \in Ids : brands'[i].st = "live" /\ brands'[i].is_default

LEMMA IdleTidy == Tidy(Idle) /\ Tidy(Idle)'
  BY DEF Tidy, Idle

LEMMA InitTidy == Init => DInv
  <1> SUFFICES ASSUME Init PROVE DInv
    OBVIOUS
  <1>1. IInv
    BY InitInv
  <1>2. OneDefault
    BY DEF Init, OneDefault, Marked, Live
  <1>3. \A r \in Requests : Tidy(req[r])
    BY IdleTidy DEF Init
  <1> QED
    BY <1>1, <1>2, <1>3 DEF DInv

(* A handler moves on and the table stays as it is.                        *)
LEMMA TidyMoves ==
    ASSUME DInv, IInv', NEW r \in Requests, NEW k \in Handler,
           req' = [req EXCEPT ![r] = k], UNCHANGED brands, raced => raced', ~raced' => Tidy(k)
    PROVE  DInv' /\ Kept
  <1>1. Live' = Live /\ Marked' = Marked
    BY DEF Live, Marked
  <1>2. \A h : Tidy(h)' <=> Tidy(h)
    BY <1>1 DEF Tidy
  <1>3. ASSUME ~raced' PROVE OneDefault' /\ \A q \in Requests : Tidy(req[q])'
    <2>1. OneDefault' /\ \A q \in Requests : Tidy(req[q])
      BY <1>1, <1>3 DEF DInv, OneDefault
    <2>2. \A q \in Requests : req'[q] = IF q = r THEN k ELSE req[q]
      BY DEF DInv, IInv, TypeOK
    <2>3. \A q \in Requests : Tidy(req'[q])
      BY <1>3, <2>1, <2>2
    <2>4. \A q \in Requests : Tidy(req[q])'
      BY <1>1, <2>3 DEF Tidy
    <2> QED
      BY <2>1, <2>4
  <1>4. Kept
    BY <1>1 DEF Kept, Marked, Live
  <1> QED
    BY <1>3, <1>4 DEF DInv

(* A commit, of a handler that has been alone, that makes row i the        *)
(* default when no other is left, or leaves the flags alone.               *)
LEMMA TidyCommits ==
    ASSUME DInv, IInv', NEW r \in Requests, NEW i \in Ids, NEW new \in Brand,
           CommitWith(r, i, new), UNCHANGED raced, Busy(r),
           ~raced => \/ /\ new.is_default /\ new.st = "live"
                        /\ (Marked \cup req[r].backfilled) \ req[r].demoted \subseteq {i}
                     \/ /\ req[r].demoted = {} /\ req[r].backfilled = {}
                        /\ i \notin Marked /\ ~new.is_default
    PROVE  DInv' /\ Kept
  <1>0. CASE raced
    BY <1>0 DEF DInv, Kept
  <1>1. CASE ~raced
    <2>1. /\ brands \in [Ids -> Brand] /\ req \in [Requests -> Handler] /\ OneDefault
          /\ req[r] \in Handler /\ req' = [req EXCEPT ![r] = Idle]
          /\ \A q \in Requests : q # r => ~Busy(q) /\ Tidy(req[q])
      BY <1>1 DEF DInv, IInv, TypeOK, Alone, CommitWith, Answer
    <2>2. \A j \in Ids :
            brands'[j] = IF j = i THEN new
                         ELSE IF j \in req[r].demoted THEN [brands[j] EXCEPT !.is_default = FALSE]
                         ELSE IF j \in req[r].backfilled THEN [brands[j] EXCEPT !.is_default = TRUE]
                         ELSE brands[j]
      BY DEF CommitWith
    <2>3. \A j \in Ids : j # i => brands'[j].st = brands[j].st
      BY <2>1, <2>2 DEF Brand
    <2>4. ASSUME NEW j \in Ids, j # i, j \notin (Marked \cup req[r].backfilled) \ req[r].demoted
          PROVE  j \notin Marked'
      <3>1. j \in req[r].demoted \/ (j \notin Marked /\ j \notin req[r].backfilled)
        BY <2>4
      <3> QED
        BY <2>1, <2>2, <2>4, <3>1 DEF Brand, Marked
    <2>5. \A q \in Requests : Tidy(req[q])'
      <3>1. \A q \in Requests : q # r => req'[q].op = "none" /\ req'[q] = req[q] /\ req'[q].pc = "idle"
        BY <2>1 DEF Busy, DInv, IInv, HandlersOK, HandlerOK
      <3>2. \A q \in Requests : q # r => Tidy(req[q])'
        BY <2>1, <3>1 DEF Tidy
      <3>3. Tidy(req[r])'
        BY <2>1, IdleTidy DEF Tidy
      <3> QED
        BY <3>2, <3>3
    <2>6. CASE /\ new.is_default /\ new.st = "live"
               /\ (Marked \cup req[r].backfilled) \ req[r].demoted \subseteq {i}
      <3>1. Marked' = {i} /\ i \in Live'
        BY <2>2, <2>4, <2>6 DEF Marked, Live
      <3>2. OneDefault' /\ Kept
        BY <3>1 DEF OneDefault, Kept, Marked, Live
      <3> QED
        BY <2>5, <3>2 DEF DInv
    <2>7. CASE /\ req[r].demoted = {} /\ req[r].backfilled = {}
               /\ i \notin Marked /\ ~new.is_default
      <3>1. \A j \in Ids : j # i => brands'[j] = brands[j]
        BY <2>2, <2>7
      <3>2. brands'[i] = new
        BY <2>2
      <3>3. Marked' = Marked
        BY <2>7, <3>1, <3>2 DEF Marked
      <3>4. Marked' \subseteq Live'
        BY <2>1, <2>7, <3>1, <3>3 DEF OneDefault, Marked, Live
      <3>5. OneDefault' /\ Kept
        BY <2>1, <3>3, <3>4 DEF OneDefault, Kept, Marked, Live
      <3> QED
        BY <2>5, <3>5 DEF DInv
    <2> QED
      BY <1>1, <2>6, <2>7
  <1> QED
    BY <1>0, <1>1

(* Alone, the unique index holds nothing against what a handler leaves.    *)
LEMMA NoRivals ==
    ASSUME DInv, ~raced, NEW r \in Requests, Busy(r), NEW i \in Ids,
           (Marked \cup req[r].backfilled) \ req[r].demoted \subseteq {i}
    PROVE  Rivals(r, i) = {}
  <1>1. \A q \in Requests \ {r} : req[q].backfilled = {}
    BY DEF DInv, IInv, Alone, Busy, Tidy
  <1> DEFINE others == UNION {req[q].backfilled : q \in Requests \ {r}}
             own == ({j \in Ids : brands[j].is_default} \cup req[r].backfilled) \ req[r].demoted
  <1>2. others = {}
    BY <1>1
  <1>3. own \subseteq {i}
    BY DEF Marked
  <1>4. Rivals(r, i) = (UNION {own, others}) \ {i}
    BY DEF Rivals
  <1> HIDE DEF own, others
  <1> QED
    BY <1>2, <1>3, <1>4

(* What looking up the default brand comes to: the end, or the demotion.   *)
LEMMA TidyContinues ==
    ASSUME DInv, IInv', NEW r \in Requests, Continue(r), UNCHANGED <<brands, raced>>,
           Busy(r), req[r].pc \in {"look", "repair"}
    PROVE  DInv' /\ Kept
  <1>1. req[r] \in Handler /\ HandlerOK(req[r])
    BY DEF DInv, IInv, TypeOK, HandlersOK
  <1>2. CASE Answer(r)
    BY <1>2, IdleOK, IdleTidy, TidyMoves DEF Answer
  <1>3. CASE Goto(r, "demote")
    <2> DEFINE k == [req[r] EXCEPT !.pc = "demote"]
    <2>1. /\ k \in Handler /\ k.op = req[r].op /\ k.pc = "demote" /\ k.brand = req[r].brand
          /\ k.demoted = req[r].demoted /\ k.backfilled = req[r].backfilled
      BY <1>1 DEF Handler, Pcs
    <2>2. req' = [req EXCEPT ![r] = k]
      BY <1>3 DEF Goto
    <2> HIDE DEF k
    <2>3. k.op \in {"resolve", "default"}
      BY <1>1, <2>1 DEF HandlerOK
    <2>4. ASSUME ~raced PROVE Tidy(k)
      <3>1. Tidy(req[r])
        BY <2>4 DEF DInv
      <3> QED
        BY <2>1, <2>3, <3>1 DEF Tidy
    <2> QED
      BY <2>1, <2>2, <2>4, TidyMoves
  <1> QED
    BY <1>2, <1>3 DEF Continue

LEMMA TidyArrives ==
    ASSUME DInv, IInv', NEW r \in Requests, Arrive(r)
    PROVE  DInv' /\ Kept
  <1>1. ASSUME NEW k \in Handler, Start(r, k), ~raced => Tidy(k) PROVE DInv' /\ Kept
    <2>1. /\ req' = [req EXCEPT ![r] = k] /\ UNCHANGED brands /\ (raced => raced')
      BY <1>1 DEF Start
    <2> QED
      BY <1>1, <2>1, TidyMoves
  <1>2. /\ brands \in [Ids -> Brand] /\ 0 \notin Ids
    BY DEF DInv, IInv, TypeOK, Ids
  <1>3. CASE Resolve(r)
    <2> DEFINE k == [Idle EXCEPT !.op = "resolve", !.pc = "look"]
    <2>1. k \in Handler /\ Tidy(k)
      BY DEF Idle, Handler, Pcs, Tidy
    <2> HIDE DEF k
    <2> QED
      BY <1>1, <1>3, <2>1 DEF Resolve, k
  <1>4. ASSUME NEW d \in BOOLEAN, CreateBrand(r, d) PROVE DInv' /\ Kept
    <2> DEFINE e == d \/ Live = {}
    <2>1. PICK i \in Ids :
            /\ Unused(i)
            /\ Start(r, [Idle EXCEPT !.op = "create", !.brand = i, !.copy = e,
                                     !.pc = IF e THEN "demote" ELSE "insert"])
      BY <1>4 DEF CreateBrand
    <2> DEFINE k == [Idle EXCEPT !.op = "create", !.brand = i, !.copy = e,
                                 !.pc = IF e THEN "demote" ELSE "insert"]
    <2>2. e \in BOOLEAN
      OBVIOUS
    <2>3. Start(r, k)
      BY <2>1
    <2> HIDE DEF e
    <2>4. /\ k \in Handler /\ k.op = "create" /\ k.brand = i /\ k.copy = e /\ k.demoted = {}
          /\ k.backfilled = {} /\ k.pc = IF e THEN "demote" ELSE "insert"
      BY <2>2 DEF Idle, Handler, Pcs
    <2> HIDE DEF k
    <2>5. brands[i].st = "free"
      <3>1. i \in i..MaxIds
        BY DEF Ids
      <3> QED
        BY <2>1, <3>1 DEF Unused
    <2>6. Tidy(k)
      BY <2>2, <2>4, <2>5 DEF Tidy
    <2> QED
      BY <1>1, <2>3, <2>4, <2>6
  <1>5. ASSUME NEW b \in Ids, SetBrandDefault(r, b) \/ DeleteBrand(r, b) PROVE DInv' /\ Kept
    <2> DEFINE c == brands[b].is_default
    <2>1. c \in BOOLEAN /\ b \in Live /\ (c <=> b \in Marked)
      BY <1>2, <1>5 DEF Brand, SetBrandDefault, DeleteBrand, Marked
    <2>2. CASE SetBrandDefault(r, b)
      <3> DEFINE k == [Idle EXCEPT !.op = "default", !.pc = "look", !.brand = b, !.copy = c]
      <3>1. Start(r, k)
        BY <2>2 DEF SetBrandDefault
      <3> HIDE DEF c
      <3>2. /\ k \in Handler /\ k.op = "default" /\ k.pc = "look" /\ k.brand = b
            /\ k.demoted = {} /\ k.backfilled = {}
        BY <2>1 DEF Idle, Handler, Pcs
      <3> HIDE DEF k
      <3> QED
        BY <1>1, <2>1, <3>1, <3>2 DEF Tidy
    <2>3. CASE DeleteBrand(r, b)
      <3> DEFINE k == [Idle EXCEPT !.op = "delete", !.pc = "count", !.brand = b, !.copy = c]
      <3>1. Start(r, k)
        BY <2>3 DEF DeleteBrand
      <3> HIDE DEF c
      <3>2. /\ k \in Handler /\ k.op = "delete" /\ k.pc = "count" /\ k.brand = b /\ k.copy = c
            /\ k.demoted = {} /\ k.backfilled = {}
        BY <2>1 DEF Idle, Handler, Pcs
      <3> HIDE DEF k
      <3> QED
        BY <1>1, <2>1, <3>1, <3>2 DEF Tidy
    <2> QED
      BY <1>5, <2>2, <2>3
  <1> QED
    BY <1>3, <1>4, <1>5 DEF Arrive

LEMMA TidyReads ==
    ASSUME DInv, IInv', NEW r \in Requests,
           \/ DefaultForWorkspace(r) \/ SelectOldest(r)
           \/ ResetDefaultFlag(r) \/ DemoteLocked(r) \/ DeleteGuards(r)
           \/ ServerError(r) \/ Abort(r)
    PROVE  DInv' /\ Kept
  <1>1. /\ req[r] \in Handler /\ HandlerOK(req[r]) /\ req \in [Requests -> Handler]
        /\ brands \in [Ids -> Brand] /\ UNCHANGED <<brands, raced>>
    BY DEF DInv, IInv, TypeOK, HandlersOK, DefaultForWorkspace, SelectOldest, ResetDefaultFlag,
           DemoteLocked, DeleteGuards, ServerError, Abort
  <1>2. Busy(r)
    BY <1>1 DEF Busy, HandlerOK, DefaultForWorkspace, SelectOldest, ResetDefaultFlag,
                DemoteLocked, DeleteGuards, ServerError, Abort
  <1>3. CASE Answer(r)
    BY <1>1, <1>3, IdleOK, IdleTidy, TidyMoves DEF Answer
  <1>4. CASE Continue(r) /\ req[r].pc \in {"look", "repair"}
    BY <1>1, <1>2, <1>4, TidyContinues
  <1>5. ASSUME ~raced
        PROVE  /\ Tidy(req[r]) /\ OneDefault
               /\ Defaults(r) = (Marked \cup req[r].backfilled) \ req[r].demoted
    <2>1. Tidy(req[r]) /\ OneDefault
      BY <1>5 DEF DInv
    <2>2. Marked \subseteq Live /\ req[r].backfilled \subseteq Live
      BY <2>1 DEF OneDefault, Tidy
    <2>3. Defaults(r) = (Marked \cup req[r].backfilled) \ req[r].demoted
      BY <2>2 DEF Defaults, Marked, Live
    <2> QED
      BY <2>1, <2>3
  <1>6. CASE DefaultForWorkspace(r) /\ Goto(r, "repair")
    <2> DEFINE k == [req[r] EXCEPT !.pc = "repair"]
    <2>1. /\ k \in Handler /\ k.op = req[r].op /\ k.pc = "repair" /\ k.brand = req[r].brand
          /\ k.copy = req[r].copy /\ k.demoted = req[r].demoted /\ k.backfilled = req[r].backfilled
      BY <1>1 DEF Handler, Pcs
    <2>2. /\ req' = [req EXCEPT ![r] = k] /\ req[r].pc = "look"
      BY <1>6 DEF DefaultForWorkspace, Goto
    <2> HIDE DEF k
    <2>3. ASSUME ~raced PROVE Tidy(k)
      <3>1. Defaults(r) = {}
        <4>1. Defaults(r) # {} => Continue(r)
          BY <1>6 DEF DefaultForWorkspace
        <4>2. Continue(r) => req'[r].pc # "repair"
          BY <1>1 DEF Continue, Answer, Goto, Idle, Handler
        <4> QED
          BY <1>1, <2>1, <2>2, <4>1, <4>2
      <3> QED
        BY <1>5, <2>1, <2>2, <2>3, <3>1 DEF Tidy
    <2> QED
      BY <1>1, <2>1, <2>2, <2>3, TidyMoves
  <1>7. ASSUME SelectOldest(r), NEW i \in Ids, Oldest(i),
               req' = [req EXCEPT ![r].pc = "backfill", ![r].rows = {i}]
        PROVE  DInv' /\ Kept
    <2> DEFINE k == [req[r] EXCEPT !.pc = "backfill", !.rows = {i}]
    <2>1. /\ k \in Handler /\ k.op = req[r].op /\ k.pc = "backfill" /\ k.brand = req[r].brand
          /\ k.copy = req[r].copy /\ k.demoted = req[r].demoted /\ k.backfilled = req[r].backfilled
          /\ k.rows = {i}
      BY <1>1 DEF Handler, Pcs
    <2>2. req' = [req EXCEPT ![r] = k] /\ req[r].pc = "repair" /\ i \in Live
      BY <1>1, <1>7 DEF SelectOldest, Oldest
    <2> HIDE DEF k
    <2>3. ASSUME ~raced PROVE Tidy(k)
      BY <1>5, <2>1, <2>2, <2>3 DEF Tidy
    <2> QED
      BY <1>1, <2>1, <2>2, <2>3, TidyMoves
  <1>8. CASE ResetDefaultFlag(r)
    <2> DEFINE k == [req[r] EXCEPT !.pc = "demote_lock", !.rows = Defaults(r) \ {req[r].brand}]
    <2>0. Defaults(r) \subseteq Ids
      BY DEF Defaults, Live
    <2>1. /\ k \in Handler /\ k.op = req[r].op /\ k.pc = "demote_lock" /\ k.brand = req[r].brand
          /\ k.copy = req[r].copy /\ k.demoted = req[r].demoted /\ k.backfilled = req[r].backfilled
          /\ k.rows = Defaults(r) \ {req[r].brand}
      BY <1>1, <2>0 DEF Handler, Pcs
    <2>2. req' = [req EXCEPT ![r] = k] /\ req[r].pc = "demote"
      BY <1>1, <1>8 DEF ResetDefaultFlag
    <2> HIDE DEF k
    <2>3. ASSUME ~raced PROVE Tidy(k)
      BY <1>1, <1>5, <2>1, <2>2, <2>3 DEF Tidy, HandlerOK
    <2> QED
      BY <1>1, <2>1, <2>2, <2>3, TidyMoves
  <1>9. CASE DemoteLocked(r)
    <2> DEFINE p == IF req[r].op = "create" THEN "insert" ELSE "promote"
               k == [req[r] EXCEPT !.pc = p, !.demoted = req[r].rows \cap Defaults(r), !.rows = {}]
    <2>0. Defaults(r) \subseteq Ids
      BY DEF Defaults, Live
    <2>1. /\ k \in Handler /\ k.op = req[r].op /\ k.brand = req[r].brand /\ k.pc = p
          /\ k.copy = req[r].copy /\ k.backfilled = req[r].backfilled
          /\ k.demoted = req[r].rows \cap Defaults(r)
      BY <1>1, <2>0 DEF Handler, Pcs
    <2>2. req' = [req EXCEPT ![r] = k] /\ req[r].pc = "demote_lock"
      BY <1>1, <1>9 DEF DemoteLocked
    <2> HIDE DEF k
    <2>3. ASSUME ~raced PROVE Tidy(k)
      <3>1. k.demoted = (Marked \cup k.backfilled) \ {k.brand}
        BY <1>5, <2>1, <2>2, <2>3 DEF Tidy
      <3>2. k.pc = "promote" \/ (k.pc = "insert" /\ k.copy)
        BY <1>5, <2>1, <2>2, <2>3 DEF Tidy
      <3>3. k.op \in {"create", "default"}
        BY <1>1, <2>1, <2>2 DEF HandlerOK
      <3> QED
        BY <1>5, <2>1, <2>3, <3>1, <3>2, <3>3 DEF Tidy
    <2> QED
      BY <1>1, <2>1, <2>2, <2>3, TidyMoves
  <1>10. CASE DeleteGuards(r) /\ ~Answer(r)
    <2> DEFINE k == [req[r] EXCEPT !.pc = "delete"]
    <2>1. /\ k \in Handler /\ k.op = req[r].op /\ k.brand = req[r].brand /\ k.pc = "delete"
          /\ k.copy = req[r].copy /\ k.backfilled = req[r].backfilled /\ k.demoted = req[r].demoted
      BY <1>1 DEF Handler, Pcs
    <2>2. req' = [req EXCEPT ![r] = k] /\ req[r].pc = "count" /\ ~req[r].copy
      BY <1>10 DEF DeleteGuards, Goto
    <2> HIDE DEF k
    <2>3. ASSUME ~raced PROVE Tidy(k)
      BY <1>1, <1>5, <2>1, <2>2, <2>3 DEF Tidy, HandlerOK
    <2> QED
      BY <1>1, <2>1, <2>2, <2>3, TidyMoves
  <1>11. CASE DefaultForWorkspace(r)
    BY <1>4, <1>6, <1>11 DEF DefaultForWorkspace
  <1>12. CASE SelectOldest(r)
    <2>1. req[r].pc = "repair"
      BY <1>12 DEF SelectOldest
    <2>2. \/ Continue(r)
          \/ \E i \in Ids : Oldest(i) /\ req' = [req EXCEPT ![r].pc = "backfill", ![r].rows = {i}]
      BY <1>12 DEF SelectOldest
    <2> QED
      BY <1>4, <1>7, <1>12, <2>1, <2>2
  <1> QED
    BY <1>3, <1>8, <1>9, <1>10, <1>11, <1>12 DEF ServerError, Abort

LEMMA TidyWrites ==
    ASSUME DInv, IInv', NEW r \in Requests,
           Backfill(r) \/ InsertBrand(r) \/ PromoteBrand(r) \/ DeleteWrite(r)
    PROVE  DInv' /\ Kept
  <1>1. /\ req[r] \in Handler /\ HandlerOK(req[r]) /\ req \in [Requests -> Handler]
        /\ brands \in [Ids -> Brand] /\ UNCHANGED raced
    BY DEF DInv, IInv, TypeOK, HandlersOK, Backfill, InsertBrand, PromoteBrand, DeleteWrite
  <1>2. Busy(r)
    BY <1>1 DEF Busy, HandlerOK, Backfill, InsertBrand, PromoteBrand, DeleteWrite
  <1>3. ASSUME ~raced PROVE Tidy(req[r]) /\ OneDefault
    BY <1>3 DEF DInv
  (* A row is made the default.                                            *)
  <1>4. ASSUME NEW i \in Ids, NEW new \in Brand, CommitDefault(r, i, new), new.is_default,
               ~raced => /\ new.st = "live"
                         /\ (Marked \cup req[r].backfilled) \ req[r].demoted \subseteq {i}
        PROVE  DInv' /\ Kept
    <2>1. CASE Rivals(r, i) = {}
      BY <1>1, <1>2, <1>4, <2>1, TidyCommits DEF CommitDefault
    <2>2. CASE Rivals(r, i) # {}
      <3> DEFINE k == [Idle EXCEPT !.op = req[r].op, !.pc = "failed"]
      <3>1. k \in Handler
        BY <1>1 DEF Idle, Handler, Pcs
      <3>2. req' = [req EXCEPT ![r] = k] /\ UNCHANGED brands
        BY <1>4, <2>2 DEF CommitDefault
      <3>3. raced
        BY <1>2, <1>4, <2>2, NoRivals
      <3> HIDE DEF k
      <3> QED
        BY <1>1, <3>1, <3>2, <3>3, TidyMoves
    <2> QED
      BY <2>1, <2>2
  <1>5. CASE Backfill(r)
    <2>1. PICK i \in req[r].rows :
            IF req[r].op = "resolve" \/ i = req[r].brand \/ Rivals(r, i) # {}
            THEN CommitDefault(r, i, [brands[i] EXCEPT !.is_default = TRUE])
            ELSE /\ req' = [req EXCEPT ![r].pc = "demote", ![r].backfilled = {i}]
                 /\ UNCHANGED brands
      BY <1>5 DEF Backfill
    <2>2. i \in Ids /\ req[r].pc = "backfill"
      BY <1>1, <1>5 DEF Backfill, Handler
    <2> DEFINE new == [brands[i] EXCEPT !.is_default = TRUE]
    <2>3. new \in Brand /\ new.st = brands[i].st /\ new.is_default
      BY <1>1, <2>2 DEF Brand
    <2>4. ~raced => i \in Live /\ (Marked \cup req[r].backfilled) \ req[r].demoted \subseteq {i}
      BY <1>3, <2>2 DEF Tidy
    <2>5. CASE req[r].op = "resolve" \/ i = req[r].brand \/ Rivals(r, i) # {}
      <3>1. CommitDefault(r, i, new)
        BY <2>1, <2>5
      <3>2. ~raced => new.st = "live"
        BY <2>3, <2>4 DEF Live
      <3> HIDE DEF new
      <3> QED
        BY <1>4, <2>2, <2>3, <2>4, <3>1, <3>2
    <2>6. CASE ~(req[r].op = "resolve" \/ i = req[r].brand \/ Rivals(r, i) # {})
      <3> DEFINE k == [req[r] EXCEPT !.pc = "demote", !.backfilled = {i}]
      <3>1. /\ k \in Handler /\ k.op = req[r].op /\ k.brand = req[r].brand /\ k.pc = "demote"
            /\ k.copy = req[r].copy /\ k.backfilled = {i} /\ k.demoted = req[r].demoted
        BY <1>1, <2>2 DEF Handler, Pcs
      <3>2. req' = [req EXCEPT ![r] = k] /\ UNCHANGED brands
        BY <1>1, <2>1, <2>6
      <3> HIDE DEF k
      <3>3. ASSUME ~raced PROVE Tidy(k)
        <4>1. k.op = "default"
          BY <1>1, <2>2, <2>6, <3>1 DEF HandlerOK
        <4> QED
          BY <1>3, <2>2, <2>4, <3>1, <3>3, <4>1 DEF Tidy
      <3> QED
        BY <1>1, <3>1, <3>2, <3>3, TidyMoves
    <2> QED
      BY <2>5, <2>6
  <1>6. CASE InsertBrand(r)
    <2> DEFINE new == [st |-> "live", is_default |-> req[r].copy]
    <2>1. /\ req[r].pc = "insert" /\ req[r].op = "create" /\ req[r].brand \in Ids
      BY <1>1, <1>6 DEF InsertBrand, HandlerOK
    <2>2. new \in Brand /\ new.st = "live" /\ new.is_default = req[r].copy
      BY <1>1 DEF Brand, Handler
    <2>3. /\ req[r].copy => CommitDefault(r, req[r].brand, new)
          /\ ~req[r].copy => CommitWith(r, req[r].brand, new)
      BY <1>6 DEF InsertBrand
    <2> HIDE DEF new
    <2>4. CASE req[r].copy
      <3>1. ~raced => (Marked \cup req[r].backfilled) \ req[r].demoted \subseteq {req[r].brand}
        BY <1>3, <2>1, <2>4 DEF Tidy
      <3> QED
        BY <1>4, <2>1, <2>2, <2>3, <2>4, <3>1
    <2>5. CASE ~req[r].copy
      <3>1. ~raced => /\ req[r].demoted = {} /\ req[r].backfilled = {}
                      /\ req[r].brand \notin Marked
        BY <1>3, <2>1, <2>5 DEF Tidy, OneDefault, Live
      <3> QED
        BY <1>1, <1>2, <2>1, <2>2, <2>3, <2>5, <3>1, TidyCommits
    <2> QED
      BY <2>4, <2>5
  <1>7. CASE PromoteBrand(r)
    <2> DEFINE b == req[r].brand
               new == [brands[b] EXCEPT !.is_default = TRUE]
    <2>1. req[r].pc = "promote" /\ req[r].op = "default" /\ b \in Ids
      BY <1>1, <1>7 DEF PromoteBrand, HandlerOK
    <2>2. new \in Brand /\ new.st = brands[b].st /\ new.is_default
      BY <1>1, <2>1 DEF Brand
    <2>3. CommitDefault(r, b, new)
      BY <1>7 DEF PromoteBrand
    <2>4. ~raced => /\ new.st = "live"
                    /\ (Marked \cup req[r].backfilled) \ req[r].demoted \subseteq {b}
      BY <1>3, <2>1, <2>2 DEF Tidy, Live
    <2> HIDE DEF new, b
    <2> QED
      BY <1>4, <2>1, <2>2, <2>3, <2>4
  <1>8. CASE DeleteWrite(r)
    <2> DEFINE b == req[r].brand
               new == [brands[b] EXCEPT !.st = "deleted"]
    <2>1. req[r].pc = "delete" /\ b \in Ids
      BY <1>1, <1>8 DEF DeleteWrite, HandlerOK
    <2>2. new \in Brand /\ new.is_default = brands[b].is_default
      BY <1>1, <2>1 DEF Brand
    <2>3. CommitWith(r, b, new)
      BY <1>8 DEF DeleteWrite
    <2>4. ~raced => /\ req[r].demoted = {} /\ req[r].backfilled = {}
                    /\ b \notin Marked /\ ~new.is_default
      <3> SUFFICES ASSUME ~raced
                   PROVE  /\ req[r].demoted = {} /\ req[r].backfilled = {}
                          /\ b \notin Marked /\ ~new.is_default
        OBVIOUS
      <3>1. /\ req[r].demoted = {} /\ req[r].backfilled = {} /\ b \notin Marked
        BY <1>3, <2>1 DEF Tidy
      <3>2. ~brands[b].is_default
        BY <2>1, <3>1 DEF Marked
      <3> QED
        BY <2>2, <3>1, <3>2
    <2> HIDE DEF new, b
    <2> QED
      BY <1>1, <1>2, <2>1, <2>2, <2>3, <2>4, TidyCommits
  <1> QED
    BY <1>5, <1>6, <1>7, <1>8

LEMMA NextTidy == DInv /\ [Next]_vars => DInv' /\ [Kept]_vars
  <1> SUFFICES ASSUME DInv, [Next]_vars PROVE DInv' /\ [Kept]_vars
    OBVIOUS
  <1>1. IInv'
    BY NextInv DEF DInv
  <1>2. CASE UNCHANGED vars
    <2>1. OneDefault /\ (\A r \in Requests : Tidy(req[r])) => OneDefault' /\ (\A r \in Requests : Tidy(req[r])')
      BY <1>2 DEF vars, OneDefault, Tidy, Marked, Live
    <2> QED
      BY <1>1, <1>2, <2>1 DEF vars, DInv
  <1>3. CASE Next
    BY <1>1, <1>3, TidyArrives, TidyReads, TidyWrites DEF Next, Step
  <1> QED
    BY <1>2, <1>3

(* Clearing the old flag before the new one is set is enough: a handler    *)
(* that runs alone never trips the unique index (services/brands.py), so   *)
(* AloneNoConflict, for any number of brands.                              *)
THEOREM AloneIsFine == Spec => []AloneNoConflict
  <1>1. DInv => AloneNoConflict
    BY DEF DInv, Tidy, AloneNoConflict
  <1> QED
    BY <1>1, InitTidy, NextTidy, PTL DEF Spec

(* Demotion, promotion and deletion, one handler at a time, leave a        *)
(* workspace the default brand it had, or another one: KeepsDefault.       *)
THEOREM DefaultIsKept == Spec => KeepsDefault
  BY InitTidy, NextTidy, PTL DEF Spec, KeepsDefault, Kept
(* One handler at a time never meets the deleted default row that makes    *)
(* default_for_workspace's backfill raise (services/brands.py): RepairSafe *)
(* is refuted only by two that overlap.                                    *)
THEOREM RepairIsSafeForOne ==
    ASSUME \A r, q \in Requests : r = q PROVE Spec => []RepairSafe
  <1>1. Init => ~raced
    BY DEF Init
  <1>2. ~raced /\ [Next]_vars => ~raced'
    <2> SUFFICES ASSUME ~raced, [Next]_vars PROVE ~raced'
      OBVIOUS
    <2>1. ASSUME NEW r \in Requests, NEW k, Start(r, k) PROVE ~raced'
      BY <2>1 DEF Start
    <2>2. ASSUME NEW r \in Requests, Arrive(r) PROVE ~raced'
      BY <2>1, <2>2 DEF Arrive, Resolve, CreateBrand, SetBrandDefault, DeleteBrand
    <2>3. ASSUME NEW r \in Requests, Step(r) \/ Abort(r) PROVE ~raced'
      BY <2>3
         DEF Step, DefaultForWorkspace, SelectOldest, Backfill, ResetDefaultFlag, DemoteLocked,
             InsertBrand, PromoteBrand, DeleteGuards, DeleteWrite, ServerError, Abort
    <2> QED
      BY <2>2, <2>3 DEF Next, vars
  <1>3. ~raced /\ AloneNoConflict => RepairSafe
    BY DEF AloneNoConflict, RepairSafe
  <1> QED
    BY <1>1, <1>2, <1>3, AloneIsFine, PTL DEF Spec

=============================================================================
