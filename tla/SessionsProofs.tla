--------------------------- MODULE SessionsProofs ---------------------------
(***************************************************************************)
(* Proofs about Sessions, for any sets of users, requests and reset        *)
(* tokens, any bounds and any choice of endpoints.                         *)
(*                                                                         *)
(* Lineage and ParentRetired are not inductive alone: what a handler       *)
(* carries from one database call to the next has to describe the table    *)
(* it will write to. HandlerOK says what each stage may rely on although   *)
(* other transactions commit in between.                                   *)
(***************************************************************************)
EXTENDS Sessions, FiniteSetTheorems, TLAPS

(* The row the handler inserted is still its own and still uncommitted.    *)
OwnsNewRow(h) ==
    h.pc = "issued" =>
        /\ h.new \in RowIds
        /\ rows[h.new].st = "pending"
        /\ rows[h.new].user = h.user
        /\ rows[h.new].parent = h.parent

(* The row a rotation read is still there, and still the same user's; a    *)
(* handler that checks a second factor rotates nothing.                    *)
ParentKnown(h) ==
    /\ h.pc = "mfa" => h.parent = 0
    /\ h.pc \in {"select_user", "issue", "issued"} /\ h.parent # 0 =>
          /\ Committed(h.parent)
          /\ rows[h.parent].user = h.user

(* The family to wipe is the acting user's; the reset token to consume was *)
(* issued.                                                                 *)
TargetKnown(h) ==
    /\ h.pc = "wipe" =>
          /\ h.family \in RowIds
          /\ Committed(h.family)
          /\ rows[h.family].user = h.user
    /\ h.reset \in Resets => resets[h.reset].st # "unissued"

(* The rows an UPDATE has locked are the acting user's.                    *)
TouchedOwned(h) ==
    \A i \in h.touched : Committed(i) /\ rows[i].user = h.user

HandlerOK(h) ==
    /\ h.pc # "idle" => h.user \in Users
    /\ OwnsNewRow(h)
    /\ ParentKnown(h)
    /\ TargetKnown(h)
    /\ TouchedOwned(h)

HandlersOK == \A r \in Requests : HandlerOK(req[r])

(* No two handlers inserted the same row.                                  *)
NewRowsDistinct ==
    \A r, q \in Requests :
        req[r].pc = "issued" /\ req[q].pc = "issued" /\ req[r].new = req[q].new
            => r = q

RowOwners == \A i \in RowIds : rows[i].st # "free" => rows[i].user \in Users

ResetOwners == \A p \in Resets : resets[p].st # "unissued" => resets[p].user \in Users

IInv ==
    /\ TypeOK
    /\ RowOwners
    /\ ResetOwners
    /\ Lineage
    /\ ParentRetired
    /\ HandlersOK
    /\ NewRowsDistinct

-----------------------------------------------------------------------------
(* Steps that leave refresh_tokens alone                                   *)

LEMMA IdleOK == Idle \in Handler /\ HandlerOK(Idle)
  BY SessionsAssumption DEF Idle, Handler, Pcs, HandlerOK, OwnsNewRow,
     ParentKnown, TargetKnown, TouchedOwned

LEMMA InitInv == Init => IInv
  <1> SUFFICES ASSUME Init PROVE IInv
    OBVIOUS
  <1>1. TypeOK
    BY IdleOK DEF Init, TypeOK, User, FreeRow, RefreshToken, PasswordReset, Claims
  <1>2. RowOwners /\ ResetOwners /\ Lineage /\ ParentRetired
    BY DEF Init, RowOwners, ResetOwners, Lineage, ParentRetired, FreeRow, Committed
  <1>3. HandlersOK /\ NewRowsDistinct
    BY IdleOK DEF Init, HandlersOK, NewRowsDistinct, Idle
  <1> QED
    BY <1>1, <1>2, <1>3 DEF IInv

(* What the tables other than refresh_tokens may become.                   *)
OtherTablesOK ==
    /\ users' \in [Users -> User]
    /\ resets' \in [Resets -> PasswordReset]
    /\ ResetOwners'
    /\ \A p \in Resets : resets[p].st # "unissued" => resets'[p].st # "unissued"
    /\ access' \subseteq Claims
    /\ mfaTokens' \subseteq Claims

LEMMA Unmoved ==
    ASSUME IInv, OtherTablesOK, UNCHANGED <<rows, req>>
    PROVE  IInv'
  <1>1. TypeOK' /\ RowOwners' /\ Lineage' /\ ParentRetired' /\ NewRowsDistinct'
    BY DEF IInv, OtherTablesOK, TypeOK, RowOwners, Lineage, Committed,
       ParentRetired, NewRowsDistinct
  <1>2. HandlersOK'
    BY DEF IInv, HandlersOK, HandlerOK, OwnsNewRow, ParentKnown, TargetKnown,
       TouchedOwned, Committed, OtherTablesOK
  <1> QED
    BY <1>1, <1>2 DEF IInv, OtherTablesOK

(* A handler moves to h without touching refresh_tokens.                   *)
LEMMA Quiet ==
    ASSUME IInv, OtherTablesOK, UNCHANGED rows,
           NEW r \in Requests, NEW h \in Handler, HandlerOK(h), h.pc # "issued",
           req' = [req EXCEPT ![r] = h]
    PROVE  IInv'
  <1>1. TypeOK'
    BY DEF IInv, OtherTablesOK, TypeOK
  <1>2. RowOwners' /\ Lineage' /\ ParentRetired'
    BY DEF IInv, RowOwners, Lineage, ParentRetired, Committed
  <1>3. HandlersOK'
    <2> SUFFICES ASSUME NEW q \in Requests PROVE HandlerOK(req[q])'
      BY DEF HandlersOK
    <2>1. CASE q = r
      <3>1. req'[q] = h
        BY <2>1 DEF IInv, TypeOK
      <3> QED
        BY <3>1 DEF HandlerOK, OwnsNewRow, ParentKnown, TargetKnown,
           TouchedOwned, Committed, OtherTablesOK
    <2>2. CASE q # r
      <3>1. req'[q] = req[q] /\ HandlerOK(req[q])
        BY <2>2 DEF IInv, TypeOK, HandlersOK
      <3> QED
        BY <3>1 DEF HandlerOK, OwnsNewRow, ParentKnown, TargetKnown,
           TouchedOwned, Committed, OtherTablesOK
    <2> QED
      BY <2>1, <2>2
  <1>4. NewRowsDistinct'
    BY DEF IInv, TypeOK, NewRowsDistinct
  <1> QED
    BY <1>1, <1>2, <1>3, <1>4 DEF IInv, OtherTablesOK

-----------------------------------------------------------------------------
(* Steps that write refresh_tokens                                         *)

(* No transaction undoes the commit of another one's row or changes whose  *)
(* it is, and none but its own handler settles a pending row.              *)
CommittedKept ==
    \A i \in RowIds : Committed(i) => Committed(i)' /\ rows'[i].user = rows[i].user

PendingKept(r) ==
    \A i \in RowIds : rows[i].st = "pending" =>
        rows'[i] = rows[i] \/ (req[r].pc = "issued" /\ i = req[r].new)

LEMMA Others ==
    ASSUME IInv, NEW r \in Requests, NEW q \in Requests, q # r,
           req'[q] = req[q], OtherTablesOK, CommittedKept, PendingKept(r)
    PROVE  HandlerOK(req[q])'
  <1>1. HandlerOK(req[q]) /\ req[q] \in Handler
    BY DEF IInv, TypeOK, HandlersOK
  <1>2. OwnsNewRow(req[q])'
    BY <1>1 DEF IInv, NewRowsDistinct, HandlerOK, OwnsNewRow, PendingKept
  <1>3. ParentKnown(req[q])'
    BY <1>1 DEF HandlerOK, ParentKnown, CommittedKept, Handler
  <1>4. TargetKnown(req[q])' /\ TouchedOwned(req[q])'
    BY <1>1 DEF HandlerOK, TargetKnown, TouchedOwned, CommittedKept, Handler, OtherTablesOK
  <1> QED
    BY <1>1, <1>2, <1>3, <1>4 DEF HandlerOK

(* A transaction ends, one way or the other.                               *)
LEMMA Settled ==
    ASSUME IInv, OtherTablesOK, NEW r \in Requests,
           req' = [req EXCEPT ![r] = Idle],
           rows' \in [RowIds -> RefreshToken],
           RowOwners', Lineage', ParentRetired', CommittedKept, PendingKept(r)
    PROVE  IInv'
  <1>1. TypeOK'
    BY IdleOK DEF IInv, OtherTablesOK, TypeOK
  <1>2. HandlersOK'
    <2> SUFFICES ASSUME NEW q \in Requests PROVE HandlerOK(req[q])'
      BY DEF HandlersOK
    <2>1. CASE q = r
      <3>1. req'[q] = Idle
        BY <2>1 DEF IInv, TypeOK
      <3> QED
        BY <3>1, SessionsAssumption DEF HandlerOK, OwnsNewRow, ParentKnown,
           TargetKnown, TouchedOwned, Idle
    <2>2. CASE q # r
      <3>1. req'[q] = req[q]
        BY <2>2 DEF IInv, TypeOK
      <3> QED
        BY <3>1, <2>2, Others
    <2> QED
      BY <2>1, <2>2
  <1>3. NewRowsDistinct'
    BY DEF IInv, TypeOK, NewRowsDistinct, Idle
  <1> QED
    BY <1>1, <1>2, <1>3 DEF IInv, OtherTablesOK

LEMMA PersistStep ==
    ASSUME IInv, NEW r \in Requests, Persist(r) PROVE IInv'
  <1>1. PICK i \in RowIds :
          /\ rows[i].st = "free"
          /\ rows' = [rows EXCEPT ![i] =
               [FreeRow EXCEPT
                  !.st = "pending", !.user = req[r].user, !.gen = req[r].gen,
                  !.parent = req[r].parent,
                  !.family = IF req[r].parent = 0 THEN i
                                                  ELSE rows[req[r].parent].family]]
          /\ req' = [req EXCEPT ![r].pc = "issued", ![r].new = i]
    BY DEF Persist
  <1>2. /\ req[r].pc = "issue" /\ req[r] \in Handler /\ HandlerOK(req[r])
        /\ UNCHANGED <<users, resets, access, mfaTokens>>
    BY DEF Persist, IInv, TypeOK, HandlersOK
  <1>3. /\ req[r].user \in Users
        /\ req[r].parent # 0 =>
             /\ req[r].parent \in RowIds
             /\ Committed(req[r].parent)
             /\ rows[req[r].parent].user = req[r].user
    BY <1>2 DEF HandlerOK, ParentKnown, Handler
  <1>4. rows \in [RowIds -> RefreshToken] /\ req \in [Requests -> Handler]
    BY DEF IInv, TypeOK
  <1>5. \A j \in RowIds : j # i => rows'[j] = rows[j]
    BY <1>1, <1>4
  <1>6. /\ rows'[i].st = "pending" /\ rows'[i].user = req[r].user
        /\ rows'[i].parent = req[r].parent /\ rows'[i].replaced_by = 0
        /\ rows'[i].family = IF req[r].parent = 0 THEN i
                                                  ELSE rows[req[r].parent].family
        /\ rows'[i] \in RefreshToken
    BY <1>1, <1>2, <1>3, <1>4 DEF FreeRow, RefreshToken, Handler
  <1>7. /\ req'[r].pc = "issued" /\ req'[r].new = i /\ req'[r] \in Handler
        /\ req'[r].user = req[r].user /\ req'[r].parent = req[r].parent
        /\ req'[r].touched = req[r].touched /\ req'[r].reset = req[r].reset
        /\ \A q \in Requests : q # r => req'[q] = req[q]
    BY <1>1, <1>2, <1>4 DEF Handler, Pcs
  <1>8. TypeOK'
    <2>1. rows' \in [RowIds -> RefreshToken]
      BY <1>1, <1>4, <1>5, <1>6
    <2>2. req' \in [Requests -> Handler]
      BY <1>1, <1>4, <1>7
    <2> QED
      BY <1>2, <2>1, <2>2 DEF IInv, TypeOK
  <1>9. RowOwners' /\ ResetOwners'
    BY <1>2, <1>3, <1>5, <1>6 DEF IInv, RowOwners, ResetOwners
  <1>10. Lineage'
    <2> SUFFICES ASSUME NEW j \in RowIds, rows'[j].st # "free"
                 PROVE  LET root == rows'[rows'[j].family] IN
                        /\ rows'[j].family \in RowIds
                        /\ rows'[j].family # j => Committed(rows[j].family)'
                        /\ root.user = rows'[j].user
                        /\ root.family = rows'[j].family
                        /\ root.parent = 0
                        /\ rows'[j].parent = 0 <=> rows'[j].family = j
                        /\ rows'[j].parent # 0 =>
                              /\ Committed(rows[j].parent)'
                              /\ rows'[rows'[j].parent].user = rows'[j].user
                              /\ rows'[rows'[j].parent].family = rows'[j].family
                        /\ rows'[j].replaced_by # 0 =>
                              /\ Committed(rows[j].replaced_by)'
                              /\ rows'[rows'[j].replaced_by].parent = j
      BY DEF Lineage, Committed
    <2>1. CASE j # i
      BY <2>1, <1>1, <1>4, <1>5 DEF IInv, Lineage, Committed, RefreshToken
    <2>2. CASE j = i /\ req[r].parent = 0
      BY <2>2, <1>6 DEF Committed
    <2>3. CASE j = i /\ req[r].parent # 0
      BY <2>3, <1>1, <1>3, <1>4, <1>5, <1>6 DEF IInv, Lineage, Committed, RefreshToken
    <2> QED
      BY <2>1, <2>2, <2>3
  <1>11. ParentRetired'
    BY <1>1, <1>4, <1>5, <1>6 DEF IInv, Lineage, ParentRetired, Committed, RefreshToken
  <1>12. HandlersOK'
    <2>1. CommittedKept /\ PendingKept(r) /\ OtherTablesOK
      BY <1>1, <1>2, <1>5, <1>9
         DEF CommittedKept, PendingKept, Committed, OtherTablesOK, IInv, TypeOK
    <2>2. HandlerOK(req[r])'
      BY <1>2, <1>3, <1>5, <1>6, <1>7, <2>1
         DEF HandlerOK, OwnsNewRow, ParentKnown, TargetKnown, TouchedOwned,
             CommittedKept, Handler
    <2>3. ASSUME NEW q \in Requests, q # r PROVE HandlerOK(req[q])'
      BY <1>7, <2>1, <2>3, Others
    <2> QED
      BY <2>2, <2>3 DEF HandlersOK
  <1>13. NewRowsDistinct'
    <2>1. \A q \in Requests : req[q].pc = "issued" => req[q].new # i
      BY <1>1 DEF IInv, HandlersOK, HandlerOK, OwnsNewRow
    <2>2. NewRowsDistinct
      BY DEF IInv
    <2> QED
      BY <1>7, <2>1, <2>2 DEF NewRowsDistinct
  <1> QED
    BY <1>8, <1>9, <1>10, <1>11, <1>12, <1>13 DEF IInv

LEMMA LoginCommitStep ==
    ASSUME IInv, NEW r \in Requests, LoginCommit(r) PROVE IInv'
  <1> DEFINE n == req[r].new
  <1>1. /\ req[r].pc = "issued" /\ req[r].parent = 0 /\ req[r] \in Handler
        /\ rows' = [rows EXCEPT ![n].st = "live"]
        /\ access' = access \cup {<<req[r].user, req[r].tv>>}
        /\ req' = [req EXCEPT ![r] = Idle]
        /\ UNCHANGED <<users, resets, mfaTokens>>
    BY DEF LoginCommit, IInv, TypeOK
  <1>2. /\ n \in RowIds /\ rows[n].st = "pending" /\ rows[n].parent = 0
        /\ req[r].user \in Users
    BY <1>1 DEF IInv, HandlersOK, HandlerOK, OwnsNewRow
  <1>3. rows \in [RowIds -> RefreshToken]
    BY DEF IInv, TypeOK
  <1>4. \A i \in RowIds : i # n => rows'[i] = rows[i]
    BY <1>1, <1>3
  <1>5. /\ rows'[n].st = "live" /\ rows'[n].user = rows[n].user
        /\ rows'[n].family = rows[n].family /\ rows'[n].parent = rows[n].parent
        /\ rows'[n].replaced_by = rows[n].replaced_by /\ rows'[n] \in RefreshToken
    BY <1>1, <1>2, <1>3 DEF RefreshToken
  <1>6. rows' \in [RowIds -> RefreshToken]
    BY <1>1, <1>3, <1>4, <1>5
  <1>7. OtherTablesOK
    BY <1>1, <1>2 DEF OtherTablesOK, IInv, TypeOK, ResetOwners, Claims, Handler
  <1>8. RowOwners'
    BY <1>2, <1>4, <1>5 DEF IInv, RowOwners
  <1>9. Lineage'
    BY <1>2, <1>3, <1>4, <1>5 DEF IInv, Lineage, Committed, RefreshToken
  <1>10. ParentRetired'
    BY <1>2, <1>3, <1>4, <1>5 DEF IInv, ParentRetired, Committed, RefreshToken
  <1>11. CommittedKept /\ PendingKept(r)
    BY <1>1, <1>2, <1>4, <1>5 DEF CommittedKept, PendingKept, Committed
  <1> HIDE DEF n
  <1> QED
    BY <1>1, <1>6, <1>7, <1>8, <1>9, <1>10, <1>11, Settled

LEMMA RotateCommitStep ==
    ASSUME IInv, NEW r \in Requests, RotateCommit(r) PROVE IInv'
  <1> DEFINE n == req[r].new
             p == req[r].parent
  <1>1. /\ req[r].pc = "issued" /\ p # 0 /\ req[r] \in Handler
        /\ rows' = [rows EXCEPT ![n].st = "live", ![p].st = "revoked",
                                ![p].replaced_by = n]
        /\ access' = access \cup {<<req[r].user, req[r].tv>>}
        /\ req' = [req EXCEPT ![r] = Idle]
        /\ UNCHANGED <<users, resets, mfaTokens>>
    BY DEF RotateCommit, IInv, TypeOK
  <1>2. /\ n \in RowIds /\ rows[n].st = "pending" /\ rows[n].parent = p
        /\ p \in RowIds /\ Committed(p) /\ n # p
        /\ req[r].user \in Users
    BY <1>1 DEF IInv, HandlersOK, HandlerOK, OwnsNewRow, ParentKnown, Handler, Committed
  <1>3. rows \in [RowIds -> RefreshToken]
    BY DEF IInv, TypeOK
  <1>4. \A i \in RowIds : i # n /\ i # p => rows'[i] = rows[i]
    BY <1>1, <1>3
  <1>5. /\ rows'[n].st = "live" /\ rows'[n].user = rows[n].user
        /\ rows'[n].family = rows[n].family /\ rows'[n].parent = rows[n].parent
        /\ rows'[n].replaced_by = rows[n].replaced_by /\ rows'[n] \in RefreshToken
    BY <1>1, <1>2, <1>3 DEF RefreshToken
  <1>6. /\ rows'[p].st = "revoked" /\ rows'[p].user = rows[p].user
        /\ rows'[p].family = rows[p].family /\ rows'[p].parent = rows[p].parent
        /\ rows'[p].replaced_by = n /\ rows'[p] \in RefreshToken
    BY <1>1, <1>2, <1>3 DEF RefreshToken
  <1>7. rows' \in [RowIds -> RefreshToken]
    BY <1>1, <1>3, <1>4, <1>5, <1>6
  <1>8. OtherTablesOK
    BY <1>1, <1>2 DEF OtherTablesOK, IInv, TypeOK, ResetOwners, Claims, Handler
  <1>9. RowOwners'
    BY <1>2, <1>4, <1>5, <1>6 DEF IInv, RowOwners, Committed
  <1>10. CommittedKept /\ PendingKept(r)
    BY <1>1, <1>2, <1>4, <1>5, <1>6 DEF CommittedKept, PendingKept, Committed
  <1>11. \A i \in RowIds : /\ rows'[i].st = "free" <=> rows[i].st = "free"
                           /\ rows'[i].user = rows[i].user
                           /\ rows'[i].family = rows[i].family
                           /\ rows'[i].parent = rows[i].parent
    BY <1>2, <1>4, <1>5, <1>6 DEF Committed
  <1>12. Lineage'
    <2> SUFFICES ASSUME NEW j \in RowIds, rows'[j].st # "free"
                 PROVE  LET root == rows'[rows'[j].family] IN
                        /\ rows'[j].family \in RowIds
                        /\ rows'[j].family # j => Committed(rows[j].family)'
                        /\ root.user = rows'[j].user
                        /\ root.family = rows'[j].family
                        /\ root.parent = 0
                        /\ rows'[j].parent = 0 <=> rows'[j].family = j
                        /\ rows'[j].parent # 0 =>
                              /\ Committed(rows[j].parent)'
                              /\ rows'[rows'[j].parent].user = rows'[j].user
                              /\ rows'[rows'[j].parent].family = rows'[j].family
                        /\ rows'[j].replaced_by # 0 =>
                              /\ Committed(rows[j].replaced_by)'
                              /\ rows'[rows'[j].replaced_by].parent = j
      BY DEF Lineage, Committed
    <2>1. /\ rows'[j].family \in RowIds
          /\ rows'[j].family # j => Committed(rows[j].family)'
          /\ rows'[rows'[j].family].user = rows'[j].user
          /\ rows'[rows'[j].family].family = rows'[j].family
          /\ rows'[rows'[j].family].parent = 0
          /\ rows'[j].parent = 0 <=> rows'[j].family = j
      BY <1>3, <1>10, <1>11 DEF IInv, Lineage, CommittedKept, Committed
    <2>2. rows'[j].parent # 0 =>
              /\ Committed(rows[j].parent)'
              /\ rows'[rows'[j].parent].user = rows'[j].user
              /\ rows'[rows'[j].parent].family = rows'[j].family
      BY <1>3, <1>10, <1>11 DEF IInv, Lineage, CommittedKept, Committed, RefreshToken
    <2>3. rows'[j].replaced_by # 0 =>
              /\ Committed(rows[j].replaced_by)'
              /\ rows'[rows'[j].replaced_by].parent = j
      <3>1. CASE j = p
        BY <3>1, <1>2, <1>5, <1>6 DEF Committed
      <3>2. CASE j # p
        <4>1. rows'[j].replaced_by = rows[j].replaced_by
          BY <3>2, <1>4, <1>5
        <4> QED
          BY <4>1, <1>3, <1>10, <1>11
             DEF IInv, Lineage, CommittedKept, Committed, RefreshToken
      <3> QED
        BY <3>1, <3>2
    <2> QED
      BY <2>1, <2>2, <2>3
  <1>13. ParentRetired'
    BY <1>2, <1>3, <1>4, <1>5, <1>6 DEF IInv, Lineage, ParentRetired, Committed, RefreshToken
  <1> HIDE DEF n, p
  <1> QED
    BY <1>1, <1>7, <1>8, <1>9, <1>10, <1>12, <1>13, Settled

(* The handlers that end by revoking the rows their UPDATE locked.         *)
LEMMA Revoked ==
    ASSUME IInv, OtherTablesOK, NEW r \in Requests,
           req[r].pc # "issued",
           rows' = Revoke(req[r].touched),
           req' = [req EXCEPT ![r] = Idle]
    PROVE  IInv'
  <1> DEFINE S == req[r].touched
  <1>1. S \subseteq RowIds /\ \A i \in S : Committed(i)
    BY DEF IInv, TypeOK, HandlersOK, HandlerOK, TouchedOwned, Handler
  <1>2. rows \in [RowIds -> RefreshToken]
    BY DEF IInv, TypeOK
  <1>3. \A i \in RowIds : i \notin S => rows'[i] = rows[i]
    BY DEF Revoke
  <1>4. \A i \in S :
          /\ rows'[i].st = "revoked" /\ rows'[i].user = rows[i].user
          /\ rows'[i].family = rows[i].family /\ rows'[i].parent = rows[i].parent
          /\ rows'[i].replaced_by = rows[i].replaced_by /\ rows'[i] \in RefreshToken
    BY <1>1, <1>2 DEF Revoke, RefreshToken
  <1> HIDE DEF S
  <1>5. rows' \in [RowIds -> RefreshToken]
    BY <1>2, <1>3, <1>4 DEF Revoke
  <1>6. \A i \in RowIds :
          /\ Committed(i)' <=> Committed(i)
          /\ rows'[i].st = "free" <=> rows[i].st = "free"
          /\ rows[i].st = "revoked" => rows'[i].st = "revoked"
          /\ rows'[i].user = rows[i].user
          /\ rows'[i].family = rows[i].family
          /\ rows'[i].parent = rows[i].parent
          /\ rows'[i].replaced_by = rows[i].replaced_by
    BY <1>1, <1>3, <1>4 DEF Committed
  <1>7. RowOwners'
    BY <1>6 DEF IInv, RowOwners
  <1>8. Lineage'
    BY <1>2, <1>6 DEF IInv, Lineage, RefreshToken
  <1>9. ParentRetired'
    BY <1>2, <1>6 DEF IInv, ParentRetired, RefreshToken
  <1>10. CommittedKept /\ PendingKept(r)
    BY <1>1, <1>3, <1>6 DEF CommittedKept, PendingKept, Committed
  <1> QED
    BY <1>5, <1>7, <1>8, <1>9, <1>10, Settled

LEMMA AbortStep ==
    ASSUME IInv, NEW r \in Requests, Abort(r) PROVE IInv'
  <1> DEFINE n == req[r].new
  <1>1. /\ req' = [req EXCEPT ![r] = Idle]
        /\ UNCHANGED <<users, resets, access, mfaTokens>>
    BY DEF Abort
  <1>2. OtherTablesOK
    BY <1>1 DEF OtherTablesOK, IInv, TypeOK, ResetOwners
  <1>3. CASE req[r].pc # "issued"
    BY <1>1, <1>2, <1>3, Quiet, IdleOK DEF Abort, Idle
  <1>4. CASE req[r].pc = "issued"
    <2>1. /\ rows' = [rows EXCEPT ![n] = FreeRow]
          /\ n \in RowIds /\ rows[n].st = "pending"
      BY <1>4 DEF Abort, IInv, HandlersOK, HandlerOK, OwnsNewRow
    <2>2. rows \in [RowIds -> RefreshToken] /\ FreeRow \in RefreshToken
      BY DEF IInv, TypeOK, FreeRow, RefreshToken
    <2>3. \A i \in RowIds : i # n => rows'[i] = rows[i]
      BY <2>1, <2>2
    <2>4. rows'[n].st = "free"
      BY <2>1, <2>2 DEF FreeRow
    <2>5. rows' \in [RowIds -> RefreshToken]
      BY <2>1, <2>2
    <2>6. RowOwners'
      BY <2>3, <2>4 DEF IInv, RowOwners
    <2>7. Lineage'
      BY <2>1, <2>2, <2>3, <2>4 DEF IInv, Lineage, Committed, RefreshToken
    <2>8. ParentRetired'
      BY <2>1, <2>2, <2>3, <2>4 DEF IInv, Lineage, ParentRetired, Committed, RefreshToken
    <2>9. CommittedKept /\ PendingKept(r)
      BY <1>4, <2>1, <2>3 DEF CommittedKept, PendingKept, Committed
    <2> QED
      BY <1>1, <1>2, <2>5, <2>6, <2>7, <2>8, <2>9, Settled
  <1> QED
    BY <1>3, <1>4

LEMMA ExpireRowStep ==
    ASSUME IInv, NEW i \in RowIds, ExpireRow(i) PROVE IInv'
  <1>1. /\ rows' = [rows EXCEPT ![i].expired = TRUE]
        /\ UNCHANGED <<users, resets, access, mfaTokens, req>>
    BY DEF ExpireRow
  <1>2. rows \in [RowIds -> RefreshToken]
    BY DEF IInv, TypeOK
  <1>3. \A j \in RowIds :
          /\ rows'[j].st = rows[j].st /\ rows'[j].user = rows[j].user
          /\ rows'[j].family = rows[j].family /\ rows'[j].parent = rows[j].parent
          /\ rows'[j].replaced_by = rows[j].replaced_by /\ rows'[j] \in RefreshToken
    BY <1>1, <1>2 DEF RefreshToken
  <1>4. TypeOK'
    BY <1>1, <1>3 DEF IInv, TypeOK
  <1>5. RowOwners' /\ ResetOwners' /\ Lineage' /\ ParentRetired' /\ NewRowsDistinct'
    BY <1>1, <1>2, <1>3 DEF IInv, RowOwners, ResetOwners, Lineage, Committed,
       ParentRetired, NewRowsDistinct, RefreshToken
  <1>6. HandlersOK'
    BY <1>1, <1>3 DEF IInv, TypeOK, HandlersOK, HandlerOK, OwnsNewRow, ParentKnown,
       TargetKnown, TouchedOwned, Committed, Handler
  <1> QED
    BY <1>4, <1>5, <1>6 DEF IInv

-----------------------------------------------------------------------------
(* Steps that only move a handler on                                       *)

(* Each of them sets the handler to h: its fields are well typed, and what *)
(* they describe has just been read from the tables.                       *)
LEMMA ArriveStep ==
    ASSUME IInv, NEW r \in Requests, Arrive(r) PROVE IInv'
  <1> USE SessionsAssumption
  <1>1. /\ users \in [Users -> User] /\ rows \in [RowIds -> RefreshToken]
        /\ resets \in [Resets -> PasswordReset]
        /\ access \subseteq Users \X Nat /\ mfaTokens \subseteq Users \X Nat
        /\ RowOwners /\ ResetOwners /\ Lineage
    BY DEF IInv, TypeOK, Claims
  <1>2. UNCHANGED <<users, rows, resets, access, mfaTokens>> => OtherTablesOK
    BY <1>1 DEF OtherTablesOK, ResetOwners, Claims
  <1>3. Idle \in Handler
    BY IdleOK
  <1>4. ASSUME NEW u \in Users, LoginPassword(r, u) PROVE IInv'
    <2> DEFINE h == [Idle EXCEPT !.pc = "issue", !.user = u,
                                 !.tv = users[u].tv, !.gen = users[u].tv]
    <2>1. h \in Handler /\ HandlerOK(h) /\ h.pc # "issued"
      BY <1>1 DEF Idle, User, Handler, Pcs, HandlerOK, OwnsNewRow, ParentKnown,
                  TargetKnown, TouchedOwned
    <2> HIDE DEF h
    <2> QED
      BY <1>2, <1>4, <2>1, Quiet DEF LoginPassword, h
  <1>5. ASSUME NEW i \in RowIds, RefreshSelect(r, i) PROVE IInv'
    <2> DEFINE h == [Idle EXCEPT !.pc = "select_user", !.user = rows[i].user,
                                 !.parent = i, !.gen = rows[i].gen]
    <2>1. h \in Handler /\ HandlerOK(h) /\ h.pc # "issued"
      BY <1>1, <1>5 DEF RefreshSelect, Idle, RefreshToken, RowOwners, Committed, Handler,
         Pcs, HandlerOK, OwnsNewRow, ParentKnown, TargetKnown, TouchedOwned
    <2> HIDE DEF h
    <2> QED
      BY <1>2, <1>5, <2>1, Quiet DEF RefreshSelect, h
  <1>6. ASSUME NEW i \in RowIds, Committed(i),
               StartWipe(r, rows[i].user, rows[i].family),
               UNCHANGED <<users, rows, resets, access, mfaTokens>>
        PROVE IInv'
    <2> DEFINE h == [Idle EXCEPT !.pc = "wipe", !.user = rows[i].user,
                                 !.family = rows[i].family]
    <2>1. /\ rows[i].user \in Users /\ rows[i].family \in RowIds
          /\ Committed(rows[i].family) /\ rows[rows[i].family].user = rows[i].user
      BY <1>1, <1>6 DEF Committed, RowOwners, Lineage
    <2>2. h \in Handler /\ HandlerOK(h) /\ h.pc # "issued"
      BY <2>1 DEF Idle, Handler, Pcs, HandlerOK, OwnsNewRow, ParentKnown,
                  TargetKnown, TouchedOwned
    <2> HIDE DEF h
    <2> QED
      BY <1>2, <1>6, <2>2, Quiet DEF StartWipe, h
  <1>7. ASSUME NEW i \in RowIds, Replay(r, i) \/ Logout(r, i) PROVE IInv'
    BY <1>6, <1>7 DEF Replay, Logout, Committed
  <1>8. ASSUME NEW c \in access, NEW i \in RowIds, NEW p \in RowIds \cup {0},
               RevokeSession(r, c[1], c[2], i, p)
        PROVE IInv'
    BY <1>6, <1>8 DEF RevokeSession
  <1>9. ASSUME NEW c \in mfaTokens, LoginMfa(r, c[1], c[2]) PROVE IInv'
    <2> DEFINE h == [Idle EXCEPT !.pc = "mfa", !.user = c[1], !.gen = c[2]]
    <2>1. h \in Handler /\ HandlerOK(h) /\ h.pc # "issued"
      BY <1>1 DEF Idle, Handler, Pcs, HandlerOK, OwnsNewRow, ParentKnown,
                  TargetKnown, TouchedOwned
    <2> HIDE DEF h
    <2> QED
      BY <1>2, <1>9, <2>1, Quiet DEF LoginMfa, h
  <1>10. ASSUME NEW c \in access, ChangePassword(r, c[1], c[2]) PROVE IInv'
    <2> DEFINE h == [Idle EXCEPT !.pc = "revoke_all", !.user = c[1],
                                 !.tv = users[c[1]].tv]
    <2>1. h \in Handler /\ HandlerOK(h) /\ h.pc # "issued"
      BY <1>1 DEF Idle, User, Handler, Pcs, HandlerOK, OwnsNewRow, ParentKnown,
                  TargetKnown, TouchedOwned
    <2> HIDE DEF h
    <2> QED
      BY <1>2, <1>10, <2>1, Quiet DEF ChangePassword, h
  <1>11. ASSUME NEW c \in access, NEW s \in {"enroll", "disable_check"},
                req' = [req EXCEPT ![r] = [Idle EXCEPT !.pc = s, !.user = c[1]]],
                UNCHANGED <<users, rows, resets, access, mfaTokens>>
         PROVE IInv'
    <2> DEFINE h == [Idle EXCEPT !.pc = s, !.user = c[1]]
    <2>1. h \in Handler /\ HandlerOK(h) /\ h.pc # "issued"
      BY <1>1 DEF Idle, Handler, Pcs, HandlerOK, OwnsNewRow, ParentKnown,
                  TargetKnown, TouchedOwned
    <2> HIDE DEF h
    <2> QED
      BY <1>2, <1>11, <2>1, Quiet DEF h
  <1>12. ASSUME NEW p \in Resets, ConsumeReset(r, p) PROVE IInv'
    <2> DEFINE h == [Idle EXCEPT !.pc = "select_user",
                                 !.user = resets[p].user, !.reset = p]
    <2>1. h \in Handler /\ HandlerOK(h) /\ h.pc # "issued"
      BY <1>1, <1>12 DEF ConsumeReset, Idle, ResetOwners, PasswordReset, Handler,
         Pcs, HandlerOK, OwnsNewRow, ParentKnown, TargetKnown, TouchedOwned
    <2> HIDE DEF h
    <2> QED
      BY <1>2, <1>12, <2>1, Quiet DEF ConsumeReset, h
  <1> QED
    BY <1>4, <1>5, <1>7, <1>8, <1>9, <1>10, <1>11, <1>12
       DEF Arrive, EnrollMfa, DisableMfa

(* A handler goes on from where it was: only the fields named change.      *)
LEMMA StepStep ==
    ASSUME IInv, NEW r \in Requests, Step(r) PROVE IInv'
  <1> USE SessionsAssumption
  <1> DEFINE k == req[r]
  <1>1. /\ users \in [Users -> User] /\ rows \in [RowIds -> RefreshToken]
        /\ resets \in [Resets -> PasswordReset] /\ ResetOwners
        /\ access \subseteq Claims /\ mfaTokens \subseteq Claims
        /\ req \in [Requests -> Handler]
        /\ k \in Handler /\ HandlerOK(k)
        /\ k.pc # "idle" => k.user \in Users
    BY DEF IInv, TypeOK, HandlersOK, HandlerOK
  <1>2. UNCHANGED <<users, rows, resets, access, mfaTokens>> => OtherTablesOK
    BY <1>1 DEF OtherTablesOK, ResetOwners
  <1>3. CASE LoginMfaVerified(r) \/ DisableVerified(r)
    <2>1. PICK s \in {"issue", "disable", "disabled_already"} :
            /\ s = "issue" => k.pc = "mfa"
            /\ s # "issue" => k.pc = "disable_check"
            /\ req' = [req EXCEPT ![r].pc = s, ![r].tv = users[k.user].tv]
            /\ UNCHANGED <<users, rows, resets, access, mfaTokens>>
      BY <1>3 DEF LoginMfaVerified, DisableVerified
    <2> DEFINE h == [k EXCEPT !.pc = s, !.tv = users[k.user].tv]
    <2>2. h \in Handler /\ h.pc # "issued"
      BY <1>1, <2>1 DEF User, Handler, Pcs
    <2>4. HandlerOK(h)
      BY <1>1, <2>1, <2>2 DEF HandlerOK, OwnsNewRow, ParentKnown,
         TargetKnown, TouchedOwned, Handler
    <2>5. req' = [req EXCEPT ![r] = h]
      BY <1>1, <2>1 DEF Handler
    <2> HIDE DEF h
    <2> QED
      BY <1>2, <2>1, <2>2, <2>4, <2>5, Quiet
  <1>4. CASE RefreshUser(r) \/ ResetUser(r)
    <2>1. PICK s \in {"issue", "revoke_all"} :
            /\ k.pc = "select_user"
            /\ req' = [req EXCEPT ![r] =
                 IF users[k.user].status = "active"
                 THEN [k EXCEPT !.pc = s, !.tv = users[k.user].tv] ELSE Idle]
            /\ UNCHANGED <<users, rows, resets, access, mfaTokens>>
      BY <1>1, <1>4 DEF RefreshUser, ResetUser
    <2> DEFINE h == [k EXCEPT !.pc = s, !.tv = users[k.user].tv]
    <2>2. h \in Handler /\ h.pc # "issued" /\ HandlerOK(h)
      BY <1>1, <2>1 DEF User, HandlerOK, OwnsNewRow, ParentKnown, TargetKnown,
         TouchedOwned, Handler, Pcs
    <2> HIDE DEF h
    <2>3. CASE users[k.user].status = "active"
      BY <1>2, <2>1, <2>2, <2>3, Quiet DEF h
    <2>4. CASE users[k.user].status # "active"
      BY <1>2, <2>1, <2>4, IdleOK, Quiet DEF Idle
    <2> QED
      BY <2>3, <2>4
  <1>5. CASE RevokeFamily(r)
    <2> DEFINE h == [k EXCEPT !.pc = "revoked", !.touched = LiveIn(k.family)]
    <2>1. \A i \in LiveIn(k.family) : Committed(i) /\ rows[i].user = k.user
      BY <1>1, <1>5 DEF RevokeFamily, HandlerOK, TargetKnown, IInv, Lineage,
         LiveIn, Committed
    <2>2. h \in Handler /\ h.pc # "issued" /\ HandlerOK(h)
      BY <1>1, <1>5, <2>1 DEF RevokeFamily, LiveIn, HandlerOK, OwnsNewRow, ParentKnown,
         TargetKnown, TouchedOwned, Handler, Pcs
    <2>3. req' = [req EXCEPT ![r] = h] /\ UNCHANGED rows
      BY <1>1, <1>5 DEF RevokeFamily, Handler
    <2> HIDE DEF h
    <2> QED
      BY <1>2, <1>5, <2>2, <2>3, Quiet DEF RevokeFamily
  <1>6. CASE RevokeAll(r)
    <2> DEFINE s == IF k.pc = "late" THEN "revoked" ELSE "bump"
               h == [k EXCEPT !.pc = s, !.touched = LiveOf(k.user)]
    <2>1. h \in Handler /\ h.pc # "issued" /\ HandlerOK(h)
      BY <1>1, <1>6 DEF RevokeAll, LiveOf, Committed, HandlerOK, OwnsNewRow, ParentKnown,
         TargetKnown, TouchedOwned, Handler, Pcs
    <2>2. req' = [req EXCEPT ![r] = h] /\ UNCHANGED rows
      BY <1>1, <1>6 DEF RevokeAll, Handler
    <2> HIDE DEF h
    <2> QED
      BY <1>2, <1>6, <2>1, <2>2, Quiet DEF RevokeAll
  <1>7. CASE EnrollCommit(r)
    <2>1. OtherTablesOK
      BY <1>1, <1>7 DEF EnrollCommit, OtherTablesOK, ResetOwners, User
    <2> QED
      BY <1>7, <2>1, IdleOK, Quiet DEF EnrollCommit, Idle
  <1>8. CASE DisableCommit(r)
    <2> DEFINE h == [k EXCEPT !.pc = "late"]
    <2> DEFINE m == users[k.user].mfa /\ k.pc # "disable"
               v == [users[k.user] EXCEPT !.tv = k.tv + 1, !.mfa = m]
    <2>4. m \in BOOLEAN
      OBVIOUS
    <2>5. users' = [users EXCEPT ![k.user] = v]
      BY <1>1, <1>8 DEF DisableCommit, User
    <2> HIDE DEF m
    <2>6. v \in User
      <3>1. k.user \in Users /\ k.tv + 1 \in Nat
        BY <1>1, <1>8 DEF DisableCommit, Handler
      <3>2. users[k.user] \in [status : {"active", "blocked"}, tv : Nat, mfa : BOOLEAN]
        BY <1>1, <3>1 DEF User
      <3> QED
        BY <2>4, <3>1, <3>2, Zenon DEF User
    <2>1. OtherTablesOK
      BY <1>1, <1>8, <2>5, <2>6 DEF DisableCommit, OtherTablesOK, ResetOwners
    <2>2. h \in Handler /\ h.pc # "issued" /\ HandlerOK(h)
      BY <1>1, <1>8 DEF DisableCommit, HandlerOK, OwnsNewRow, ParentKnown,
         TargetKnown, TouchedOwned, Handler, Pcs
    <2>3. req' = [req EXCEPT ![r] = h] /\ UNCHANGED rows
      BY <1>1, <1>8 DEF DisableCommit, Handler
    <2> HIDE DEF h
    <2> QED
      BY <2>1, <2>2, <2>3, Quiet
  <1>9. CASE RevokeCommit(r)
    BY <1>2, <1>9, <1>1, Revoked DEF RevokeCommit, OtherTablesOK, ResetOwners
  <1>10. CASE BumpCommit(r)
    <2>1. users' \in [Users -> User]
      BY <1>1, <1>10 DEF BumpCommit, User, Handler
    <2>2. /\ resets' \in [Resets -> PasswordReset] /\ ResetOwners'
          /\ \A p \in Resets : resets[p].st # "unissued" => resets'[p].st # "unissued"
      <3>1. CASE k.reset = NoReset
        BY <1>1, <1>10, <3>1 DEF BumpCommit, ResetOwners
      <3>2. CASE k.reset # NoReset
        <4>1. resets' = [resets EXCEPT ![k.reset].st = "consumed"] /\ k.reset \in Resets
          BY <1>1, <1>10, <3>2 DEF BumpCommit, Handler
        <4>2. resets[k.reset].st # "unissued"
          BY <1>1, <4>1 DEF HandlerOK, TargetKnown
        <4> QED
          BY <1>1, <4>1, <4>2 DEF PasswordReset, ResetOwners
      <3> QED
        BY <3>1, <3>2
    <2>3. OtherTablesOK
      BY <1>1, <1>10, <2>1, <2>2 DEF BumpCommit, OtherTablesOK
    <2> QED
      BY <1>10, <2>3, Revoked DEF BumpCommit
  <1> QED
    BY <1>3, <1>4, <1>5, <1>6, <1>7, <1>8, <1>9, <1>10,
       PersistStep, LoginCommitStep, RotateCommitStep DEF Step

LEMMA EnvironmentStep ==
    ASSUME IInv, Environment PROVE IInv'
  <1>1. /\ users \in [Users -> User] /\ resets \in [Resets -> PasswordReset]
        /\ access \subseteq Claims /\ mfaTokens \subseteq Claims /\ ResetOwners
    BY DEF IInv, TypeOK
  <1>2. ASSUME NEW u \in Users, LoginChallenge(u) PROVE IInv'
    <2>1. OtherTablesOK
      BY <1>1, <1>2 DEF LoginChallenge, OtherTablesOK, ResetOwners, Claims, User
    <2> QED
      BY <1>2, <2>1, Unmoved DEF LoginChallenge
  <1>3. ASSUME NEW u \in Users, BlockUser(u) PROVE IInv'
    <2>1. OtherTablesOK
      BY <1>1, <1>3 DEF BlockUser, OtherTablesOK, ResetOwners, User
    <2> QED
      BY <1>3, <2>1, Unmoved DEF BlockUser
  <1>4. ASSUME NEW p \in Resets, NEW u \in Users, RequestReset(p, u) PROVE IInv'
    <2>1. OtherTablesOK
      BY <1>1, <1>4 DEF RequestReset, OtherTablesOK, ResetOwners, PasswordReset
    <2> QED
      BY <1>4, <2>1, Unmoved DEF RequestReset
  <1>6. ASSUME NEW p \in Resets, ExpireReset(p) PROVE IInv'
    <2>1. OtherTablesOK
      BY <1>1, <1>6 DEF ExpireReset, OtherTablesOK, ResetOwners, PasswordReset
    <2> QED
      BY <1>6, <2>1, Unmoved DEF ExpireReset
  <1>5. CASE ExpireToken
    <2>1. OtherTablesOK
      BY <1>1, <1>5 DEF ExpireToken, OtherTablesOK, ResetOwners
    <2> QED
      BY <1>5, <2>1, Unmoved DEF ExpireToken
  <1> QED
    BY <1>2, <1>3, <1>4, <1>5, <1>6, ExpireRowStep DEF Environment

LEMMA NextInv == IInv /\ [Next]_vars => IInv'
  <1> SUFFICES ASSUME IInv, [Next]_vars PROVE IInv'
    OBVIOUS
  <1>1. CASE UNCHANGED vars
    BY <1>1, Unmoved DEF vars, OtherTablesOK, IInv, TypeOK, ResetOwners
  <1>2. CASE Next
    BY <1>2, ArriveStep, StepStep, AbortStep, EnvironmentStep DEF Next
  <1> QED
    BY <1>1, <1>2

(* The inductive invariant holds in every state a run of the handlers      *)
(* reaches.                                                                *)
THEOREM Invariant == Spec => []IInv
  BY InitInv, NextInv, PTL DEF Spec

-----------------------------------------------------------------------------
(* The results                                                             *)

(* Tables, tokens and handlers keep their shape.                           *)
THEOREM TypeCorrect == Spec => []TypeOK
  <1>1. IInv => TypeOK
    BY DEF IInv
  <1> QED
    BY <1>1, Invariant, PTL

(* rotate_refresh and _persist keep every family one user's tree.          *)
THEOREM LineageHolds == Spec => []Lineage
  <1>1. IInv => Lineage
    BY DEF IInv
  <1> QED
    BY <1>1, Invariant, PTL

(* The ancestors of a committed refresh token are revoked, however         *)
(* rotations, wipes and rollbacks interleave.                              *)
THEOREM ParentsRetired == Spec => []ParentRetired
  <1>1. IInv => ParentRetired
    BY DEF IInv
  <1> QED
    BY <1>1, Invariant, PTL

(* What one step does to the rows, stated once for the two theorems below. *)
LEMMA RowsStep ==
    ASSUME IInv, Next, NEW i \in RowIds, rows'[i] # rows[i]
    PROVE  \/ rows[i].st \in {"free", "pending"}
           \/ rows'[i].st = rows[i].st
           \/ /\ rows'[i].st = "revoked"
              /\ \E r \in Requests : req[r].user = rows[i].user /\ req'[r] # req[r]
  <1>1. rows \in [RowIds -> RefreshToken] /\ req \in [Requests -> Handler]
    BY DEF IInv, TypeOK
  <1>2. ASSUME NEW r \in Requests, RotateCommit(r)
        PROVE \/ rows[i].st = "pending"
              \/ /\ rows'[i].st = "revoked"
                 /\ req[r].user = rows[i].user /\ req'[r] # req[r]
    <2>1. /\ OwnsNewRow(req[r]) /\ ParentKnown(req[r]) /\ req[r].pc = "issued"
          /\ req[r].parent # 0 /\ req'[r].pc = "idle"
          /\ rows' = [rows EXCEPT ![req[r].new].st = "live",
                                  ![req[r].parent].st = "revoked",
                                  ![req[r].parent].replaced_by = req[r].new]
      BY <1>1, <1>2 DEF RotateCommit, IInv, HandlersOK, HandlerOK, Idle
    <2>2. CASE i = req[r].new
      BY <2>1, <2>2 DEF OwnsNewRow
    <2>3. CASE i # req[r].new
      <3>1. i = req[r].parent
        BY <1>1, <2>1, <2>3
      <3> QED
        BY <1>1, <2>1, <2>3, <3>1 DEF ParentKnown, RefreshToken
    <2> QED
      BY <2>2, <2>3
  <1>3. ASSUME NEW r \in Requests, RevokeCommit(r) \/ BumpCommit(r)
        PROVE /\ rows'[i].st = "revoked"
              /\ req[r].user = rows[i].user /\ req'[r] # req[r]
    <2>1. /\ TouchedOwned(req[r]) /\ req[r].pc # "idle" /\ req'[r].pc = "idle"
          /\ rows' = Revoke(req[r].touched)
      BY <1>1, <1>3 DEF RevokeCommit, BumpCommit, IInv, HandlersOK, HandlerOK, Idle
    <2> QED
      BY <1>1, <2>1 DEF Revoke, TouchedOwned, RefreshToken
  <1>4. ASSUME NEW r \in Requests, Persist(r) PROVE rows[i].st = "free"
    BY <1>1, <1>4 DEF Persist
  <1>5. ASSUME NEW r \in Requests, LoginCommit(r) \/ Abort(r)
        PROVE rows[i].st = "pending"
    <2>1. OwnsNewRow(req[r])
      BY DEF IInv, HandlersOK, HandlerOK
    <2> QED
      BY <1>1, <1>5, <2>1 DEF LoginCommit, Abort, OwnsNewRow
  <1>6. ASSUME NEW j \in RowIds, ExpireRow(j) PROVE rows'[i].st = rows[i].st
    BY <1>1, <1>6 DEF ExpireRow, RefreshToken
  <1>7. ASSUME NEW r \in Requests, Arrive(r) PROVE FALSE
    BY <1>7 DEF Arrive, LoginPassword, RefreshSelect, Replay, Logout, LoginMfa,
       ChangePassword, EnrollMfa, DisableMfa, RevokeSession, ConsumeReset
  <1>8. CASE Environment
    BY <1>6, <1>8 DEF Environment, LoginChallenge, BlockUser, RequestReset,
       ExpireReset, ExpireToken
  <1>9. ASSUME NEW r \in Requests, Step(r)
        PROVE RotateCommit(r) \/ RevokeCommit(r) \/ BumpCommit(r) \/ Persist(r)
              \/ LoginCommit(r)
    BY <1>9 DEF Step, LoginMfaVerified, RefreshUser, RevokeFamily, ResetUser, RevokeAll,
       EnrollCommit, DisableVerified, DisableCommit
  <1> QED
    BY <1>2, <1>3, <1>4, <1>5, <1>7, <1>8, <1>9 DEF Next

(* No write of any handler, however old the copy it writes from, brings a  *)
(* revoked refresh token back.                                             *)
THEOREM RevocationFinal == Spec => RevokedIsFinal
  <1>1. IInv /\ [Next]_vars =>
          [\A i \in RowIds : rows[i].st = "revoked" => rows'[i].st = "revoked"]_vars
    BY RowsStep DEF vars
  <1> QED
    BY <1>1, Invariant, PTL DEF Spec, RevokedIsFinal

(* A refresh token in use is revoked only by a request of its own user.    *)
THEOREM OnlyOwnerRevokes == Spec => OwnerRevokes
  <1>1. IInv /\ [Next]_vars =>
          [\A i \in RowIds :
             rows[i].st = "live" /\ rows'[i].st # "live" =>
               \E r \in Requests : req[r].user = rows[i].user /\ req'[r] # req[r]]_vars
    BY RowsStep DEF vars
  <1> QED
    BY <1>1, Invariant, PTL DEF Spec, OwnerRevokes

-----------------------------------------------------------------------------
(* One handler at a time                                                   *)

(* Requests do not overlap, and the endpoint that commits twice is closed. *)
Serial == (\A r, q \in Requests : r = q) /\ "mfa_disable" \notin Handlers

(* On its way to a new refresh token, from a sign-in or a live token.      *)
Opening(h) == h.pc \in {"select_user", "issue", "issued"} /\ h.reset = NoReset

(* What the only handler carries is still true of the tables.              *)
Sole(h) ==
    /\ h.pc \notin {"disable_check", "disable", "disabled_already", "late"}
    /\ h.pc \in {"mfa", "issue", "issued"} => h.reset = NoReset
    /\ h.pc = "mfa" \/ Opening(h) => h.gen = users[h.user].tv
    /\ Opening(h) /\ h.parent # 0 => rows[h.parent].st = "live"
    /\ h.pc \in {"issue", "issued", "revoke_all", "bump"} => h.tv = users[h.user].tv
    /\ h.pc = "issued" => rows[h.new].gen = h.gen
    /\ h.pc = "bump" => h.touched = LiveOf(h.user)
    /\ h.pc = "revoked" => h.touched \subseteq LiveOf(h.user)
    /\ h.pc \in {"select_user", "revoke_all", "bump"} /\ h.reset # NoReset
         => resets[h.reset].st \in {"open", "expired"}

OneLive ==
    \A i, j \in RowIds :
        rows[i].st = "live" /\ rows[j].st = "live" /\ rows[i].family = rows[j].family => i = j

SoleInv == IInv /\ NoSilentRestore /\ OneLive /\ \A r \in Requests : Sole(req[r])

LEMMA IdleSole == Sole(Idle) /\ Sole(Idle)'
  BY DEF Sole, Opening, Idle

LEMMA InitSole == Init => SoleInv
  BY InitInv, IdleSole DEF Init, SoleInv, NoSilentRestore, OneLive, FreeRow

LEMMA SoleKnown ==
    ASSUME SoleInv, NEW r \in Requests
    PROVE  /\ users \in [Users -> User] /\ rows \in [RowIds -> RefreshToken]
           /\ resets \in [Resets -> PasswordReset] /\ access \subseteq Claims
           /\ req \in [Requests -> Handler] /\ req[r] \in Handler
           /\ HandlerOK(req[r]) /\ Sole(req[r])
           /\ RowOwners /\ ResetOwners /\ Lineage /\ NoSilentRestore /\ OneLive
  BY DEF SoleInv, IInv, TypeOK, HandlersOK

(* Nothing changes that a handler relies on, or that the abstract          *)
(* specification sees.                                                     *)
SameTables ==
    /\ \A i \in RowIds : /\ rows'[i].st = rows[i].st /\ rows'[i].user = rows[i].user
                         /\ rows'[i].family = rows[i].family /\ rows'[i].parent = rows[i].parent
                         /\ rows'[i].gen = rows[i].gen
    /\ \A u \in Users : users'[u].tv = users[u].tv
    /\ \A p \in Resets : resets[p].st \in {"open", "expired"} => resets'[p].st \in {"open", "expired"}

Closed == {i \in RowIds : rows[i].st = "revoked"}
Children == {j \in RowIds : Committed(j) /\ rows[j].parent # 0}
Renewed == {<<rows[i].parent, i>> : i \in Children}

LEMMA SameAuthority ==
    ASSUME SameTables
    PROVE  /\ \A u \in Users : users'[u].tv = users[u].tv /\ LiveOf(u)' = LiveOf(u)
           /\ Closed' = Closed /\ Renewed' = Renewed
  <1>1. \A u \in Users : users'[u].tv = users[u].tv /\ LiveOf(u)' = LiveOf(u)
    BY DEF SameTables, LiveOf
  <1>2. Closed' = Closed /\ Children' = Children
    BY DEF SameTables, Closed, Children, Committed
  <1>3. Renewed' = Renewed
    <2>1. \A i \in Children : rows'[i].parent = rows[i].parent
      BY DEF SameTables, Children
    <2> QED
      BY <1>2, <2>1 DEF Renewed
  <1> QED
    BY <1>1, <1>2, <1>3

LEMMA AuthorityStill ==
    ASSUME UNCHANGED access, UNCHANGED Closed, UNCHANGED Renewed,
           \A u \in Users : users'[u].tv = users[u].tv /\ LiveOf(u)' = LiveOf(u)
    PROVE  UNCHANGED Authority!authority
  BY DEF Authority!authority, Closed, Renewed, Children

LEMMA SoleKept ==
    ASSUME IInv, SameTables, NEW h \in Handler, HandlerOK(h), Sole(h)
    PROVE  Sole(h)'
  <1>1. /\ h.pc # "idle" => h.user \in Users
        /\ h.pc = "issued" => h.new \in RowIds
        /\ h.parent # 0 => h.parent \in RowIds
        /\ h.reset # NoReset => h.reset \in Resets
        /\ h.touched \subseteq RowIds
    BY DEF HandlerOK, OwnsNewRow, Handler
  <1>2. h.pc # "idle" => LiveOf(h.user)' = LiveOf(h.user) /\ users'[h.user].tv = users[h.user].tv
    BY <1>1, SameAuthority
  <1> QED
    BY <1>1, <1>2 DEF Sole, Opening, SameTables

(* The only handler moves to h, or stays; the tables stay as they are.     *)
LEMMA SoleMoves ==
    ASSUME Serial, SoleInv, IInv', SameTables, UNCHANGED access,
           \/ UNCHANGED req
           \/ \E r \in Requests, h \in Handler :
                req' = [req EXCEPT ![r] = h] /\ HandlerOK(h) /\ Sole(h)
    PROVE  SoleInv' /\ UNCHANGED Authority!authority
  <1>1. UNCHANGED Authority!authority
    BY SameAuthority, AuthorityStill
  <1>2. NoSilentRestore' /\ OneLive'
    BY DEF SoleInv, IInv, RowOwners, SameTables, NoSilentRestore, OneLive
  <1>3. ASSUME NEW q \in Requests PROVE Sole(req[q])'
    <2>1. CASE UNCHANGED req
      <3>1. req[q] \in Handler /\ HandlerOK(req[q]) /\ Sole(req[q])
        BY DEF SoleInv, IInv, TypeOK, HandlersOK
      <3> DEFINE h == req[q]
      <3>2. req'[q] = h
        BY <2>1
      <3> HIDE DEF h
      <3>3. \A k \in Handler : HandlerOK(k) /\ Sole(k) => Sole(k)'
        BY SoleKept DEF SoleInv
      <3> QED
        BY <2>1, <3>1, <3>3 DEF Sole, Opening
    <2>2. ASSUME NEW r \in Requests, NEW h \in Handler,
                 req' = [req EXCEPT ![r] = h], HandlerOK(h), Sole(h)
          PROVE  Sole(req[q])'
      <3>1. req'[q] = h
        BY <2>2 DEF Serial, SoleInv, IInv, TypeOK
      <3>2. Sole(h)'
        BY <2>2, SoleKept DEF SoleInv
      <3> QED
        BY <3>1, <3>2 DEF Sole, Opening
    <2> QED
      BY <2>1, <2>2
  <1> QED
    BY <1>1, <1>2, <1>3 DEF SoleInv

(* Steps that only read: the record that they leave.                       *)
LEMMA SoleArrives ==
    ASSUME Serial, SoleInv, IInv', NEW r \in Requests, Arrive(r)
    PROVE  SoleInv' /\ UNCHANGED Authority!authority
  <1> USE SessionsAssumption
  <1>1. UNCHANGED <<users, rows, resets, access, mfaTokens>>
    BY DEF Arrive, LoginPassword, RefreshSelect, Replay, Logout, LoginMfa,
       ChangePassword, EnrollMfa, DisableMfa, RevokeSession, ConsumeReset
  <1>2. SameTables
    BY <1>1 DEF SameTables
  <1>3. PICK h : req' = [req EXCEPT ![r] = h] /\ Sole(h)
    <2>1. ASSUME NEW u \in Users, LoginPassword(r, u) PROVE \E h : req' = [req EXCEPT ![r] = h] /\ Sole(h)
      <3> DEFINE h == [Idle EXCEPT !.pc = "issue", !.user = u, !.tv = users[u].tv, !.gen = users[u].tv]
      <3>1. Sole(h)
        BY DEF Sole, Opening, Idle
      <3> QED
        BY <2>1, <3>1 DEF LoginPassword
    <2>2. ASSUME NEW i \in RowIds, RefreshSelect(r, i) PROVE \E h : req' = [req EXCEPT ![r] = h] /\ Sole(h)
      <3> DEFINE h == [Idle EXCEPT !.pc = "select_user", !.user = rows[i].user,
                                   !.parent = i, !.gen = rows[i].gen]
      <3>1. rows[i].st = "live" /\ rows[i].gen = users[rows[i].user].tv
        BY <2>2 DEF RefreshSelect, SoleInv, NoSilentRestore
      <3>2. Sole(h)
        BY <3>1 DEF Sole, Opening, Idle
      <3> QED
        BY <2>2, <3>2 DEF RefreshSelect
    <2>3. ASSUME NEW u, NEW f, StartWipe(r, u, f) PROVE \E h : req' = [req EXCEPT ![r] = h] /\ Sole(h)
      <3> DEFINE h == [Idle EXCEPT !.pc = "wipe", !.user = u, !.family = f]
      <3>1. Sole(h)
        BY DEF Sole, Opening, Idle
      <3> QED
        BY <2>3, <3>1 DEF StartWipe
    <2>4. ASSUME NEW c \in mfaTokens, LoginMfa(r, c[1], c[2])
          PROVE  \E h : req' = [req EXCEPT ![r] = h] /\ Sole(h)
      <3> DEFINE h == [Idle EXCEPT !.pc = "mfa", !.user = c[1], !.gen = c[2]]
      <3>1. Sole(h)
        BY <2>4 DEF Sole, Opening, Idle, LoginMfa
      <3> QED
        BY <2>4, <3>1 DEF LoginMfa
    <2>5. ASSUME NEW c \in access, ChangePassword(r, c[1], c[2])
          PROVE  \E h : req' = [req EXCEPT ![r] = h] /\ Sole(h)
      <3> DEFINE h == [Idle EXCEPT !.pc = "revoke_all", !.user = c[1], !.tv = users[c[1]].tv]
      <3>1. Sole(h)
        BY DEF Sole, Opening, Idle
      <3> QED
        BY <2>5, <3>1 DEF ChangePassword
    <2>6. ASSUME NEW c \in access, EnrollMfa(r, c[1], c[2])
          PROVE  \E h : req' = [req EXCEPT ![r] = h] /\ Sole(h)
      <3> DEFINE h == [Idle EXCEPT !.pc = "enroll", !.user = c[1]]
      <3>1. Sole(h)
        BY DEF Sole, Opening, Idle
      <3> QED
        BY <2>6, <3>1 DEF EnrollMfa
    <2>7. ASSUME NEW p \in Resets, ConsumeReset(r, p)
          PROVE  \E h : req' = [req EXCEPT ![r] = h] /\ Sole(h)
      <3> DEFINE h == [Idle EXCEPT !.pc = "select_user", !.user = resets[p].user, !.reset = p]
      <3>1. Sole(h)
        BY <2>7 DEF Sole, Opening, Idle, ConsumeReset
      <3> QED
        BY <2>7, <3>1 DEF ConsumeReset
    <2>8. ~\E c \in access : DisableMfa(r, c[1], c[2])
      BY DEF Serial, DisableMfa, Enabled
    <2>9. ASSUME \/ \E i \in RowIds : Replay(r, i) \/ Logout(r, i)
                 \/ \E c \in access, i \in RowIds, p \in RowIds \cup {0} : RevokeSession(r, c[1], c[2], i, p)
          PROVE  \E u, f : StartWipe(r, u, f)
      BY <2>9 DEF Replay, Logout, RevokeSession
    <2> QED
      BY <2>1, <2>2, <2>3, <2>4, <2>5, <2>6, <2>7, <2>8, <2>9 DEF Arrive
  <1>4. h \in Handler /\ HandlerOK(h)
    <2>1. req'[r] = h /\ req'[r] \in Handler /\ HandlerOK(req[r])'
      BY <1>3 DEF SoleInv, IInv, TypeOK, HandlersOK
    <2>2. HandlerOK(req'[r])
      BY <1>1, <2>1 DEF HandlerOK, OwnsNewRow, ParentKnown, TargetKnown, TouchedOwned, Committed
    <2> QED
      BY <2>1, <2>2
  <1> QED
    BY <1>1, <1>2, <1>3, <1>4, SoleMoves

(* A step that only reads and remembers.                                   *)
LEMMA SoleReads ==
    ASSUME Serial, SoleInv, IInv', NEW r \in Requests,
           NEW h, req' = [req EXCEPT ![r] = h], Sole(h),
           UNCHANGED <<users, rows, resets, access, mfaTokens>>
    PROVE  SoleInv' /\ UNCHANGED Authority!authority
  <1>1. SameTables
    BY DEF SameTables
  <1>2. h \in Handler /\ HandlerOK(h)
    <2>1. req'[r] = h /\ req'[r] \in Handler /\ HandlerOK(req[r])'
      BY DEF SoleInv, IInv, TypeOK, HandlersOK
    <2>2. HandlerOK(req'[r])
      BY <2>1 DEF HandlerOK, OwnsNewRow, ParentKnown, TargetKnown, TouchedOwned, Committed
    <2> QED
      BY <2>1, <2>2
  <1> QED
    BY <1>1, <1>2, SoleMoves

LEMMA SoleSteps ==
    ASSUME Serial, SoleInv, IInv', NEW r \in Requests,
           \/ LoginMfaVerified(r) \/ RefreshUser(r) \/ ResetUser(r)
           \/ RevokeFamily(r) \/ RevokeAll(r) \/ EnrollCommit(r)
           \/ DisableVerified(r) \/ DisableCommit(r)
    PROVE  SoleInv' /\ UNCHANGED Authority!authority
  <1>1. /\ req[r] \in Handler /\ HandlerOK(req[r]) /\ Sole(req[r])
        /\ req \in [Requests -> Handler] /\ users \in [Users -> User]
    BY SoleKnown
  <1>2. CASE LoginMfaVerified(r)
    <2> DEFINE h == [req[r] EXCEPT !.pc = "issue", !.tv = users[req[r].user].tv]
    <2>1. Sole(h)
      BY <1>1, <1>2 DEF LoginMfaVerified, Sole, Opening, Handler, HandlerOK, ParentKnown
    <2>2. req' = [req EXCEPT ![r] = h]
      BY <1>1, <1>2 DEF LoginMfaVerified, Handler
    <2> HIDE DEF h
    <2> QED
      BY <1>2, <2>1, <2>2, SoleReads DEF LoginMfaVerified
  <1>3. CASE RefreshUser(r)
    <2> DEFINE h == IF users[req[r].user].status = "active"
                    THEN [req[r] EXCEPT !.pc = "issue", !.tv = users[req[r].user].tv] ELSE Idle
    <2>1. Sole(h)
      BY <1>1, <1>3, IdleSole DEF RefreshUser, Sole, Opening, Handler
    <2>2. req' = [req EXCEPT ![r] = h]
      BY <1>1, <1>3 DEF RefreshUser
    <2> HIDE DEF h
    <2> QED
      BY <1>3, <2>1, <2>2, SoleReads DEF RefreshUser
  <1>4. CASE ResetUser(r)
    <2> DEFINE h == IF users[req[r].user].status = "active"
                    THEN [req[r] EXCEPT !.pc = "revoke_all", !.tv = users[req[r].user].tv] ELSE Idle
    <2>1. Sole(h)
      BY <1>1, <1>4, IdleSole DEF ResetUser, Sole, Opening, Handler
    <2>2. req' = [req EXCEPT ![r] = h]
      BY <1>1, <1>4 DEF ResetUser
    <2> HIDE DEF h
    <2> QED
      BY <1>4, <2>1, <2>2, SoleReads DEF ResetUser
  <1>5. CASE RevokeFamily(r)
    <2> DEFINE h == [req[r] EXCEPT !.pc = "revoked", !.touched = LiveIn(req[r].family)]
    <2>1. LiveIn(req[r].family) \subseteq LiveOf(req[r].user)
      BY <1>1, <1>5, SoleKnown DEF RevokeFamily, HandlerOK, TargetKnown, Lineage, LiveIn, LiveOf
    <2>2. Sole(h)
      BY <1>1, <1>5, <2>1 DEF RevokeFamily, Sole, Opening, Handler
    <2>3. req' = [req EXCEPT ![r] = h]
      BY <1>1, <1>5 DEF RevokeFamily, Handler
    <2> HIDE DEF h
    <2> QED
      BY <1>5, <2>2, <2>3, SoleReads DEF RevokeFamily
  <1>6. CASE RevokeAll(r)
    <2> DEFINE h == [req[r] EXCEPT !.pc = "bump", !.touched = LiveOf(req[r].user)]
    <2>1. req[r].pc = "revoke_all"
      BY <1>1, <1>6 DEF RevokeAll, Sole
    <2>2. Sole(h)
      BY <1>1, <2>1 DEF Sole, Opening, Handler, LiveOf
    <2>3. req' = [req EXCEPT ![r] = h]
      BY <1>1, <1>6, <2>1 DEF RevokeAll, Handler
    <2> HIDE DEF h
    <2> QED
      BY <1>6, <2>2, <2>3, SoleReads DEF RevokeAll
  <1>7. CASE EnrollCommit(r)
    <2>1. SameTables
      BY <1>1, <1>7 DEF EnrollCommit, SameTables, User
    <2> QED
      BY <1>7, <2>1, IdleOK, IdleSole, SoleMoves DEF EnrollCommit
  <1>8. ~(DisableVerified(r) \/ DisableCommit(r))
    BY <1>1 DEF DisableVerified, DisableCommit, Sole
  <1> QED
    BY <1>2, <1>3, <1>4, <1>5, <1>6, <1>7, <1>8
(* A row is inserted or rolled back: no other transaction has seen it.     *)
LEMMA Unseen ==
    ASSUME SoleInv, NEW i \in RowIds, \A j \in RowIds : j # i => rows'[j] = rows[j],
           ~Committed(i), ~Committed(i)', UNCHANGED <<users, access>>
    PROVE  UNCHANGED Authority!authority /\ NoSilentRestore' /\ OneLive'
  <1>1. \A u \in Users : LiveOf(u)' = LiveOf(u)
    BY DEF LiveOf, Committed
  <1>2. Closed' = Closed /\ Children' = Children
    BY DEF Closed, Children, Committed
  <1>3. \A j \in Children : rows'[j].parent = rows[j].parent
    BY DEF Children
  <1>4. Renewed' = Renewed
    BY <1>2, <1>3 DEF Renewed
  <1>5. NoSilentRestore' /\ OneLive'
    BY DEF SoleInv, NoSilentRestore, OneLive, Committed
  <1> QED
    BY <1>1, <1>2, <1>4, <1>5, AuthorityStill

LEMMA SolePersists ==
    ASSUME Serial, SoleInv, IInv', NEW r \in Requests, Persist(r)
    PROVE  SoleInv' /\ UNCHANGED Authority!authority
  <1>1. /\ req[r] \in Handler /\ HandlerOK(req[r]) /\ Sole(req[r])
        /\ req \in [Requests -> Handler] /\ rows \in [RowIds -> RefreshToken]
    BY SoleKnown
  <1>2. PICK i \in RowIds :
          /\ rows[i].st = "free"
          /\ rows' = [rows EXCEPT ![i] =
               [FreeRow EXCEPT
                  !.st = "pending", !.user = req[r].user, !.gen = req[r].gen,
                  !.parent = req[r].parent,
                  !.family = IF req[r].parent = 0 THEN i
                                                  ELSE rows[req[r].parent].family]]
          /\ req' = [req EXCEPT ![r].pc = "issued", ![r].new = i]
    BY DEF Persist
  <1>3. UNCHANGED <<users, resets, access, mfaTokens>> /\ req[r].pc = "issue"
    BY DEF Persist
  <1>4. /\ \A j \in RowIds : j # i => rows'[j] = rows[j]
        /\ rows'[i].st = "pending" /\ rows'[i].gen = req[r].gen
    BY <1>1, <1>2 DEF FreeRow
  <1>5. UNCHANGED Authority!authority /\ NoSilentRestore' /\ OneLive'
    BY <1>2, <1>3, <1>4, Unseen DEF Committed
  <1>6. Sole(req[r])'
    <2>1. /\ req'[r].pc = "issued" /\ req'[r].new = i
          /\ req'[r].user = req[r].user /\ req'[r].parent = req[r].parent
          /\ req'[r].gen = req[r].gen /\ req'[r].tv = req[r].tv /\ req'[r].reset = req[r].reset
      BY <1>1, <1>2 DEF Handler
    <2>2. req[r].parent # 0 => rows'[req[r].parent].st = "live"
      BY <1>1, <1>2, <1>3, <1>4 DEF Sole, Opening, Handler
    <2> QED
      BY <1>1, <1>3, <1>4, <2>1, <2>2 DEF Sole, Opening
  <1>7. \A q \in Requests : q = r
    BY DEF Serial
  <1> QED
    BY <1>5, <1>6, <1>7 DEF SoleInv

LEMMA SoleAborts ==
    ASSUME Serial, SoleInv, IInv', NEW r \in Requests, Abort(r)
    PROVE  SoleInv' /\ UNCHANGED Authority!authority
  <1>1. /\ req[r] \in Handler /\ HandlerOK(req[r])
        /\ req \in [Requests -> Handler] /\ rows \in [RowIds -> RefreshToken]
    BY SoleKnown
  <1>2. req' = [req EXCEPT ![r] = Idle] /\ UNCHANGED <<users, resets, access, mfaTokens>>
    BY DEF Abort
  <1>3. CASE req[r].pc # "issued"
    BY <1>2, <1>3, IdleSole, SoleReads DEF Abort
  <1>4. CASE req[r].pc = "issued"
    <2> DEFINE n == req[r].new
    <2>1. n \in RowIds /\ rows[n].st = "pending" /\ rows' = [rows EXCEPT ![n] = FreeRow]
      BY <1>1, <1>4 DEF Abort, HandlerOK, OwnsNewRow
    <2>2. rows'[n].st = "free" /\ \A j \in RowIds : j # n => rows'[j] = rows[j]
      BY <1>1, <2>1 DEF FreeRow
    <2> HIDE DEF n
    <2>3. UNCHANGED Authority!authority /\ NoSilentRestore' /\ OneLive'
      BY <1>2, <2>1, <2>2, Unseen DEF Committed
    <2>4. \A q \in Requests : req'[q] = Idle
      BY <1>1, <1>2 DEF Serial
    <2>5. \A q \in Requests : Sole(req[q])'
      BY <2>4, IdleSole DEF Sole, Opening
    <2> QED
      BY <2>3, <2>5 DEF SoleInv
  <1> QED
    BY <1>3, <1>4

(* A transaction commits: its handler is done.                             *)
LEMMA SoleEnds ==
    ASSUME Serial, SoleInv, IInv', NEW r \in Requests,
           req' = [req EXCEPT ![r] = Idle], NoSilentRestore', OneLive'
    PROVE  SoleInv'
  <1>1. \A q \in Requests : req'[q] = Idle
    BY DEF Serial, SoleInv, IInv, TypeOK
  <1>2. \A q \in Requests : Sole(req[q])'
    BY <1>1, IdleSole DEF Sole, Opening
  <1> QED
    BY <1>2 DEF SoleInv

LEMMA SoleRevokes ==
    ASSUME Serial, SoleInv, IInv', NEW r \in Requests, RevokeCommit(r)
    PROVE  SoleInv' /\ \E u \in Users : Authority!Close(u)
  <1>0. PICK u \in Users, S \in SUBSET RowIds : u = req[r].user /\ S = req[r].touched
    BY SoleKnown DEF RevokeCommit, HandlerOK, Handler
  <1>1. S \subseteq LiveOf(u) /\ rows \in [RowIds -> RefreshToken]
    BY <1>0, SoleKnown DEF RevokeCommit, Sole
  <1>2. /\ rows' = Revoke(S) /\ req' = [req EXCEPT ![r] = Idle]
        /\ UNCHANGED <<users, access>>
    BY <1>0 DEF RevokeCommit
  <1>3. \A i \in RowIds : /\ i \in S => rows'[i].st = "revoked"
                          /\ i \notin S => rows'[i].st = rows[i].st
                          /\ rows'[i].user = rows[i].user /\ rows'[i].family = rows[i].family
                          /\ rows'[i].parent = rows[i].parent /\ rows'[i].gen = rows[i].gen
    BY <1>1, <1>2 DEF Revoke, RefreshToken
  <1>4. NoSilentRestore' /\ OneLive'
    <2>1. \A i \in RowIds : rows'[i].st = "live" => rows[i].st = "live"
      BY <1>3
    <2> QED
      BY <1>2, <1>3, <2>1 DEF SoleInv, NoSilentRestore, OneLive
  <1>5. /\ LiveOf(u)' = LiveOf(u) \ S
        /\ \A v \in Users : v # u => LiveOf(v)' = LiveOf(v)
    BY <1>1, <1>3 DEF LiveOf
  <1>6. Closed' = Closed \cup S /\ Children' = Children
    BY <1>1, <1>3 DEF Closed, Children, Committed, LiveOf
  <1>7. Renewed' = Renewed
    <2>1. \A i \in Children : rows'[i].parent = rows[i].parent
      BY <1>3 DEF Children
    <2> QED
      BY <1>6, <2>1 DEF Renewed
  <1>8. Authority!Close(u)
    <2> DEFINE live == [v \in Users |-> LiveOf(v)]
    <2>1. S \in SUBSET live[u] /\ live' = [live EXCEPT ![u] = @ \ S]
      BY <1>1, <1>5
    <2>2. UNCHANGED <<[v \in Users |-> users[v].tv], Renewed, access>>
      BY <1>2, <1>7
    <2>3. \E T \in SUBSET live[u] :
            /\ live' = [live EXCEPT ![u] = @ \ T]
            /\ Closed' = Closed \cup T
            /\ UNCHANGED <<[v \in Users |-> users[v].tv], Renewed, access>>
      BY <1>6, <2>1, <2>2
    <2> QED
      BY <2>3 DEF Authority!Close, Closed, Renewed, Children
  <1> QED
    BY <1>1, <1>2, <1>4, <1>8, SoleEnds

LEMMA SoleBumps ==
    ASSUME Serial, SoleInv, IInv', NEW r \in Requests, BumpCommit(r)
    PROVE  SoleInv' /\ \E u \in Users : Authority!SignOutEverywhere(u)
  <1>0. PICK u \in Users, S \in SUBSET RowIds : u = req[r].user /\ S = LiveOf(u)
    BY SoleKnown DEF BumpCommit, HandlerOK, LiveOf
  <1>1. /\ req[r].touched = S /\ req[r].tv = users[u].tv
        /\ rows \in [RowIds -> RefreshToken] /\ users \in [Users -> User]
    BY <1>0, SoleKnown DEF BumpCommit, Sole
  <1>2. /\ rows' = Revoke(S) /\ req' = [req EXCEPT ![r] = Idle] /\ UNCHANGED access
        /\ users' = [users EXCEPT ![u].tv = users[u].tv + 1]
    BY <1>0, <1>1 DEF BumpCommit
  <1>3. \A i \in RowIds : /\ i \in S => rows'[i].st = "revoked"
                          /\ i \notin S => rows'[i].st = rows[i].st
                          /\ rows'[i].user = rows[i].user /\ rows'[i].family = rows[i].family
                          /\ rows'[i].parent = rows[i].parent /\ rows'[i].gen = rows[i].gen
    BY <1>1, <1>2 DEF Revoke, RefreshToken
  <1>4. /\ users'[u].tv = users[u].tv + 1
        /\ \A v \in Users : v # u => users'[v] = users[v]
    BY <1>1, <1>2 DEF User
  <1>5. NoSilentRestore' /\ OneLive'
    <2>1. \A i \in RowIds : rows'[i].st = "live" => rows[i].st = "live" /\ rows[i].user # u
      BY <1>0, <1>3 DEF LiveOf
    <2>2. \A i \in RowIds : rows[i].st = "live" => rows[i].user \in Users
      BY SoleKnown DEF RowOwners
    <2> QED
      BY <1>3, <1>4, <2>1, <2>2 DEF SoleInv, NoSilentRestore, OneLive
  <1>6. /\ LiveOf(u)' = {}
        /\ \A v \in Users : v # u => LiveOf(v)' = LiveOf(v)
    BY <1>0, <1>3 DEF LiveOf
  <1>7. Closed' = Closed \cup LiveOf(u) /\ Children' = Children
    BY <1>0, <1>3 DEF Closed, Children, Committed, LiveOf
  <1>8. Renewed' = Renewed
    <2>1. \A i \in Children : rows'[i].parent = rows[i].parent
      BY <1>3 DEF Children
    <2> QED
      BY <1>7, <2>1 DEF Renewed
  <1>9. Authority!SignOutEverywhere(u)
    BY <1>1, <1>2, <1>4, <1>6, <1>7, <1>8
       DEF Authority!SignOutEverywhere, Closed, Renewed, Children
  <1> QED
    BY <1>1, <1>2, <1>5, <1>9, SoleEnds
(* What the commit of a new refresh token starts from.                     *)
LEMMA SoleIssued ==
    ASSUME SoleInv, NEW r \in Requests, req[r].pc = "issued"
    PROVE  \E u \in Users, n \in RowIds, p \in RowIds \cup {0} :
             /\ u = req[r].user /\ n = req[r].new /\ p = req[r].parent
             /\ rows[n].st = "pending" /\ rows[n].user = u /\ rows[n].parent = p
             /\ rows[n].gen = users[u].tv /\ req[r].tv = users[u].tv
             /\ n \notin Closed /\ \A v \in Users : n \notin LiveOf(v)
             /\ p = 0 => rows[n].family = n
             /\ p # 0 => /\ p \in LiveOf(u) /\ p # n
                         /\ rows[n].family = rows[p].family
  <1>1. /\ req[r].user \in Users /\ req[r].new \in RowIds
        /\ req[r].parent \in RowIds \cup {0}
        /\ rows[req[r].new].st = "pending" /\ rows[req[r].new].user = req[r].user
        /\ rows[req[r].new].parent = req[r].parent
        /\ rows[req[r].new].gen = users[req[r].user].tv
        /\ req[r].tv = users[req[r].user].tv
    BY SoleKnown DEF HandlerOK, OwnsNewRow, Sole, Opening, Handler
  <1>2. req[r].parent # 0 => rows[req[r].parent].st = "live"
                             /\ rows[req[r].parent].user = req[r].user
    BY SoleKnown DEF HandlerOK, ParentKnown, Sole, Opening
  <1>3. /\ req[r].parent = 0 => rows[req[r].new].family = req[r].new
        /\ req[r].parent # 0 => rows[req[r].new].family = rows[req[r].parent].family
    BY <1>1, SoleKnown DEF Lineage
  <1> QED
    BY <1>1, <1>2, <1>3 DEF Closed, LiveOf

LEMMA SoleOpens ==
    ASSUME Serial, SoleInv, IInv', NEW r \in Requests, LoginCommit(r)
    PROVE  SoleInv' /\ \E u \in Users : Authority!Open(u)
  <1>1. PICK u \in Users, n \in RowIds :
          /\ u = req[r].user /\ n = req[r].new
          /\ rows[n].st = "pending" /\ rows[n].user = u /\ rows[n].parent = 0
          /\ rows[n].gen = users[u].tv /\ req[r].tv = users[u].tv
          /\ n \notin Closed /\ \A v \in Users : n \notin LiveOf(v)
          /\ rows[n].family = n
    BY SoleIssued DEF LoginCommit
  <1>2. /\ rows' = [rows EXCEPT ![n].st = "live"]
        /\ access' = access \cup {<<u, users[u].tv>>}
        /\ req' = [req EXCEPT ![r] = Idle] /\ UNCHANGED users
    BY <1>1 DEF LoginCommit
  <1>3. rows \in [RowIds -> RefreshToken]
    BY SoleKnown
  <1>4. \A i \in RowIds : i # n => rows'[i] = rows[i]
    BY <1>2, <1>3
  <1>5. /\ rows'[n].st = "live" /\ rows'[n].user = u /\ rows'[n].family = n
        /\ rows'[n].parent = 0 /\ rows'[n].gen = users[u].tv
    BY <1>1, <1>2, <1>3 DEF RefreshToken
  <1>6. NoSilentRestore'
    BY <1>2, <1>4, <1>5 DEF SoleInv, NoSilentRestore
  <1>7. OneLive'
    <2>1. \A j \in RowIds : rows[j].st = "live" => rows[j].family # n
      BY <1>1, SoleKnown DEF Lineage, Committed
    <2> QED
      BY <1>4, <1>5, <2>1 DEF SoleInv, OneLive
  <1>8. /\ LiveOf(u)' = LiveOf(u) \cup {n}
        /\ \A v \in Users : v # u => LiveOf(v)' = LiveOf(v)
    <2>1. \A v \in Users, i \in RowIds : i \in LiveOf(v)' <=> i \in LiveOf(v) \/ (i = n /\ v = u)
      BY <1>1, <1>4, <1>5 DEF LiveOf
    <2>2. \A v \in Users : LiveOf(v) \subseteq RowIds /\ LiveOf(v)' \subseteq RowIds
      BY DEF LiveOf
    <2> QED
      BY <2>1, <2>2
  <1>9. Closed' = Closed /\ Children' = Children
    BY <1>1, <1>4, <1>5 DEF Closed, Children, Committed
  <1>10. Renewed' = Renewed
    <2>1. \A i \in Children : rows'[i].parent = rows[i].parent
      BY <1>1, <1>4 DEF Children
    <2> QED
      BY <1>9, <2>1 DEF Renewed
  <1>11. Authority!Open(u)
    <2> DEFINE live == [v \in Users |-> LiveOf(v)]
               version == [v \in Users |-> users[v].tv]
    <2>1. live' = [live EXCEPT ![u] = @ \cup {n}]
      BY <1>8
    <2>2. access' = access \cup {<<u, version[u]>>}
      BY <1>2
    <2>3. version' = version
      BY <1>2
    <2>4. n \in RowIds \ ((UNION {live[v] : v \in Users}) \cup Closed)
      BY <1>1
    <2>5. \E t \in RowIds \ ((UNION {live[v] : v \in Users}) \cup Closed) :
            /\ live' = [live EXCEPT ![u] = @ \cup {t}]
            /\ access' = access \cup {<<u, version[u]>>}
            /\ UNCHANGED <<version, Closed, Renewed>>
      BY <1>9, <1>10, <2>1, <2>2, <2>3, <2>4
    <2> QED
      BY <2>5 DEF Authority!Open, Authority!Fresh, Authority!InUse, Closed, Renewed, Children
  <1> QED
    BY <1>2, <1>6, <1>7, <1>11, SoleEnds

LEMMA SoleRotates ==
    ASSUME Serial, SoleInv, IInv', NEW r \in Requests, RotateCommit(r)
    PROVE  SoleInv' /\ \E u \in Users : Authority!Renew(u)
  <1>1. PICK u \in Users, n \in RowIds, p \in RowIds :
          /\ u = req[r].user /\ n = req[r].new /\ p = req[r].parent
          /\ p # 0 /\ rows[n].st = "pending" /\ rows[n].user = u /\ rows[n].parent = p
          /\ rows[n].gen = users[u].tv /\ req[r].tv = users[u].tv
          /\ n \notin Closed /\ \A v \in Users : n \notin LiveOf(v)
          /\ p \in LiveOf(u) /\ p # n /\ rows[n].family = rows[p].family
    BY SoleIssued DEF RotateCommit
  <1>2. /\ rows' = [rows EXCEPT ![n].st = "live", ![p].st = "revoked",
                                ![p].replaced_by = n]
        /\ access' = access \cup {<<u, users[u].tv>>}
        /\ req' = [req EXCEPT ![r] = Idle] /\ UNCHANGED users
    BY <1>1 DEF RotateCommit
  <1>3. rows \in [RowIds -> RefreshToken] /\ rows[p].st = "live" /\ rows[p].user = u
    BY <1>1, SoleKnown DEF LiveOf
  <1>4. \A i \in RowIds : i # n /\ i # p => rows'[i] = rows[i]
    BY <1>2, <1>3
  <1>5. /\ rows'[n].st = "live" /\ rows'[n].user = u /\ rows'[n].family = rows[p].family
        /\ rows'[n].parent = p /\ rows'[n].gen = users[u].tv
    BY <1>1, <1>2, <1>3 DEF RefreshToken
  <1>6. rows'[p].st = "revoked" /\ rows'[p].parent = rows[p].parent
    BY <1>1, <1>2, <1>3 DEF RefreshToken
  <1>7. NoSilentRestore'
    BY <1>2, <1>4, <1>5, <1>6 DEF SoleInv, NoSilentRestore
  <1>8. OneLive'
    <2>1. \A j \in RowIds : rows[j].st = "live" /\ rows[j].family = rows[p].family => j = p
      BY <1>3 DEF SoleInv, OneLive
    <2> QED
      BY <1>4, <1>5, <1>6, <2>1 DEF SoleInv, OneLive
  <1>9. /\ LiveOf(u)' = (LiveOf(u) \ {p}) \cup {n}
        /\ \A v \in Users : v # u => LiveOf(v)' = LiveOf(v)
    BY <1>1, <1>3, <1>4, <1>5, <1>6 DEF LiveOf
  <1>10. Closed' = Closed \cup {p} /\ Children' = Children \cup {n}
    BY <1>1, <1>3, <1>4, <1>5, <1>6 DEF Closed, Children, Committed
  <1>11. Renewed' = Renewed \cup {<<p, n>>}
    <2>1. \A i \in Children : rows'[i].parent = rows[i].parent
      BY <1>1, <1>4, <1>6 DEF Children, Committed
    <2> QED
      BY <1>5, <1>10, <2>1 DEF Renewed
  <1>12. Authority!Renew(u)
    <2> DEFINE live == [v \in Users |-> LiveOf(v)]
               version == [v \in Users |-> users[v].tv]
    <2>1. live' = [live EXCEPT ![u] = (@ \ {p}) \cup {n}] /\ p \in live[u]
      BY <1>1, <1>9
    <2>2. access' = access \cup {<<u, version[u]>>}
      BY <1>2
    <2>3. version' = version
      BY <1>2
    <2>4. n \in RowIds \ ((UNION {live[v] : v \in Users}) \cup Closed)
      BY <1>1
    <2>5. \E old \in live[u], t \in RowIds \ ((UNION {live[v] : v \in Users}) \cup Closed) :
            /\ live' = [live EXCEPT ![u] = (@ \ {old}) \cup {t}]
            /\ Closed' = Closed \cup {old}
            /\ Renewed' = Renewed \cup {<<old, t>>}
            /\ access' = access \cup {<<u, version[u]>>}
            /\ UNCHANGED version
      BY <1>10, <1>11, <2>1, <2>2, <2>3, <2>4
    <2> QED
      BY <2>5 DEF Authority!Renew, Authority!Fresh, Authority!InUse, Closed, Renewed, Children
  <1> QED
    BY <1>2, <1>7, <1>8, <1>12, SoleEnds

(* Expiry, blocking and the steps of clients.                              *)
LEMMA SoleEnvironment ==
    ASSUME Serial, SoleInv, IInv', Environment
    PROVE  SoleInv' /\ (Authority!Lapse \/ UNCHANGED Authority!authority)
  <1>1. UNCHANGED req
    BY DEF Environment, LoginChallenge, BlockUser, RequestReset, ExpireRow, ExpireReset, ExpireToken
  <1>2. /\ users \in [Users -> User] /\ rows \in [RowIds -> RefreshToken]
        /\ resets \in [Resets -> PasswordReset]
    BY DEF SoleInv, IInv, TypeOK
  <1>3. SameTables
    <2>1. CASE \E u \in Users : LoginChallenge(u) \/ BlockUser(u)
      BY <1>2, <2>1 DEF LoginChallenge, BlockUser, SameTables, User
    <2>2. CASE \E p \in Resets, u \in Users : RequestReset(p, u)
      BY <1>2, <2>2 DEF RequestReset, SameTables
    <2>3. CASE \E i \in RowIds : ExpireRow(i)
      BY <1>2, <2>3 DEF ExpireRow, SameTables, RefreshToken
    <2>4. CASE \E p \in Resets : ExpireReset(p)
      BY <1>2, <2>4 DEF ExpireReset, SameTables, PasswordReset
    <2>5. CASE ExpireToken
      BY <2>5 DEF ExpireToken, SameTables
    <2> QED
      BY <2>1, <2>2, <2>3, <2>4, <2>5 DEF Environment
  <1>4. CASE UNCHANGED access
    BY <1>1, <1>3, <1>4, SoleMoves
  <1>5. CASE \E c \in access : access' = access \ {c} /\ UNCHANGED <<users, rows, resets>>
    <2>1. Authority!Lapse
      BY <1>5, <1>3, SameAuthority DEF Authority!Lapse, Closed, Renewed, Children
    <2>2. NoSilentRestore' /\ OneLive'
      BY <1>5 DEF SoleInv, NoSilentRestore, OneLive
    <2>3. \A r \in Requests : Sole(req[r])'
      BY <1>1, <1>5 DEF SoleInv, Sole, Opening, LiveOf
    <2> QED
      BY <2>1, <2>2, <2>3 DEF SoleInv
  <1> QED
    BY <1>4, <1>5 DEF Environment, LoginChallenge, BlockUser, RequestReset, ExpireRow, ExpireReset, ExpireToken

LEMMA SoleNext ==
    ASSUME Serial, SoleInv, [Next]_vars
    PROVE  SoleInv' /\ [Authority!Next]_(Authority!authority)
  <1>1. IInv'
    BY NextInv DEF SoleInv
  <1>2. CASE UNCHANGED vars
    <2>1. SameTables
      BY <1>2 DEF vars, SameTables
    <2> QED
      BY <1>1, <1>2, <2>1, SoleMoves DEF vars
  <1>3. ASSUME NEW r \in Requests, Step(r)
        PROVE  SoleInv' /\ [Authority!Next]_(Authority!authority)
    BY <1>1, <1>3, SoleSteps, SolePersists, SoleOpens, SoleRotates, SoleRevokes, SoleBumps
       DEF Step, Authority!Next
  <1>4. ASSUME NEW r \in Requests, Arrive(r) \/ Abort(r)
        PROVE  SoleInv' /\ UNCHANGED Authority!authority
    BY <1>1, <1>4, SoleArrives, SoleAborts
  <1>5. CASE Environment
    BY <1>1, <1>5, SoleEnvironment DEF Authority!Next
  <1> QED
    BY <1>2, <1>3, <1>4, <1>5 DEF Next

LEMMA SoleAlways ==
    ASSUME Serial PROVE Spec => []SoleInv
  <1>1. SoleInv /\ [Next]_vars => SoleInv'
    BY SoleNext
  <1> QED
    BY <1>1, InitSole, PTL DEF Spec

(* Requests that do not overlap: no refresh token outlives the "sign out   *)
(* everywhere" of a password change or a reset.                            *)
THEOREM NothingRestored ==
    ASSUME Serial PROVE Spec => []NoSilentRestore
  <1>1. SoleInv => NoSilentRestore
    BY DEF SoleInv
  <1> QED
    BY <1>1, SoleAlways, PTL

(* Requests that do not overlap leave a family one token in use, whatever  *)
(* chain of rotations and replays led to it.                               *)
THEOREM OneTokenPerFamily ==
    ASSUME Serial PROVE Spec => []OneLivePerFamily
  <1>1. SoleInv => OneLivePerFamily
    <2> SUFFICES ASSUME SoleInv, NEW f \in RowIds PROVE Cardinality(LiveIn(f)) <= 1
      BY DEF OneLivePerFamily
    <2>1. \A i, j \in LiveIn(f) : i = j
      BY DEF SoleInv, OneLive, LiveIn
    <2>2. CASE LiveIn(f) = {}
      BY <2>2, FS_EmptySet
    <2>3. CASE LiveIn(f) # {}
      <3>1. PICK i \in LiveIn(f) : LiveIn(f) = {i}
        BY <2>1, <2>3
      <3>2. Cardinality(LiveIn(f)) = 1
        BY <3>1, FS_Singleton
      <3> QED
        BY <3>2
    <2> QED
      BY <2>2, <2>3
  <1> QED
    BY <1>1, SoleAlways, PTL

(* Requests that do not overlap implement SessionAuthority: every commit   *)
(* opens, renews or closes tokens, or signs a user out everywhere, in one  *)
(* step, and nothing else changes what a client can use.                   *)
THEOREM AuthorityImplemented ==
    ASSUME Serial PROVE Spec => ImplementsAuthority
  <1>1. Init => Authority!Init
    BY DEF Init, Authority!Init, FreeRow, LiveOf, Committed
  <1>2. SoleInv /\ [Next]_vars => [Authority!Next]_(Authority!authority)
    BY SoleNext
  <1> QED
    BY <1>1, <1>2, SoleAlways, PTL DEF Spec, ImplementsAuthority, Authority!Spec

(* Requests that do not overlap: no password-reset token changes the       *)
(* password of an account twice.                                           *)
THEOREM ResetsOnce ==
    ASSUME Serial PROVE Spec => ResetOneShot
  <1>1. SoleInv => \A r \in Requests : req[r].pc = "bump" /\ req[r].reset # NoReset
                                         => resets[req[r].reset].st # "consumed"
    BY DEF SoleInv, Sole
  <1>2. SoleInv /\ [Next]_vars =>
          [\A r \in Requests :
             req[r].pc = "bump" /\ req[r].reset # NoReset /\ users' # users
             /\ req'[r].pc = "idle" => resets[req[r].reset].st # "consumed"]_vars
    BY <1>1
  <1> QED
    BY <1>2, SoleAlways, PTL DEF Spec, ResetOneShot
(* Requests that do not overlap: a version once left does not come back,   *)
(* so an access token that a password change or a reset made invalid stays *)
(* so. Two bumps have to overlap for it to fail.                           *)
THEOREM VersionsOnlyGrow ==
    ASSUME Serial PROVE Spec => VersionNeverReturns
  <1> DEFINE version == [u \in Users |-> users[u].tv]
  <1>1. SoleInv /\ [Next]_vars => \A u \in Users : users'[u].tv >= users[u].tv
    <2> SUFFICES ASSUME SoleInv, [Next]_vars, NEW u \in Users
                 PROVE  users'[u].tv >= users[u].tv
      OBVIOUS
    <2>1. [Authority!Next]_(Authority!authority)
      BY SoleNext
    <2>2. version' = version \/ \E v \in Users : version' = [version EXCEPT ![v] = @ + 1]
      BY <2>1 DEF Authority!Next, Authority!authority, Authority!Open, Authority!Renew,
         Authority!Close, Authority!SignOutEverywhere, Authority!Lapse
    <2>3. version[u] = users[u].tv /\ version'[u] = users'[u].tv
      OBVIOUS
    <2>4. version[u] \in Nat
      BY DEF SoleInv, IInv, TypeOK, User
    <2>5. version \in [Users -> Nat]
      BY DEF SoleInv, IInv, TypeOK, User
    <2> HIDE DEF version
    <2> QED
      BY <2>2, <2>3, <2>4, <2>5
  <1>2. SoleInv /\ [Next]_vars => [\A u \in Users : users'[u].tv >= users[u].tv]_vars
    BY <1>1
  <1> QED
    BY <1>2, SoleAlways, PTL DEF Spec, VersionNeverReturns

=============================================================================
