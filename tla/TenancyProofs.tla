---------------------------- MODULE TenancyProofs ---------------------------
(***************************************************************************)
(* Proofs about Tenancy, as part of SharedRows, for any number of          *)
(* requests, users and connections.                                        *)
(*                                                                         *)
(* A connection belongs to one request from its first statement to the end *)
(* of the transaction, and one that belongs to nobody is unpinned. Rows of *)
(* an account are committed together, and only the membership ever goes.   *)
(***************************************************************************)
EXTENDS SharedRows, TLAPS

(* The composition, seen through the variables of Tenancy.                 *)
LEMMA TenancyPart == RowSpec => Ten!Spec
  <1>1. RowInit => Ten!Init
    BY DEF RowInit
  <1>2. [RowNext]_rowVars => [Ten!Next]_(Ten!vars)
    BY DEF RowNext, rowVars, Ten!vars, vars, memVars, lockVars, mfaVars, mailVars, runVars, botVars,
           keyVars, tenVars
  <1> QED
    BY <1>1, <1>2, PTL DEF RowSpec, Ten!Spec

-----------------------------------------------------------------------------
Instance == MaxVisits \in Nat /\ Ten!NoConn \notin Conns

Rest == {"workspace", "member", "brand"}

Known(u) == "user" \in accounts[u]

(* What a request's record says at each point of its code. Where the       *)
(* policies do not bind, a request that has committed does not go back to  *)
(* the statements that make a workspace.                                   *)
RequestOK(q, known) ==
    /\ q.pc = "idle" => q.conn = Ten!NoConn
    /\ "user" \in q.new => q.op = "register"
    /\ q.pc = "lookup" => q.new = {} /\ ~q.kept
    /\ q.pc = "insert" => q.op = "register" /\ ~q.kept
    /\ q.pc = "claim" => q.op = "signin"
    /\ q.pc \in {"cache", "members", "fill", "reread"} => q.op = "use"
    /\ q.pc = "tenant" => q.op # "register"
    /\ q.pc \in {"enter", "rest"} => "workspace" \in q.new
    /\ q.pc = "forget" \/ (q.pc = "commit" /\ q.op = "register") => Rest \subseteq q.new
    /\ q.pc = "audit" => q.op = "register" /\ q.new = {} /\ q.kept
    /\ q.pc \in {"enter", "rest", "forget"} => q.op # "use"
    /\ q.op = "register" /\ ~q.kept
         => q.pc \in {"idle", "lookup", "insert"} \/ "user" \in q.new
    /\ q.op = "use" /\ q.pc # "idle" => known
    /\ q.op = "signin" /\ q.pc \notin {"idle", "lookup"} => known
    /\ q.kept /\ q.pc # "idle" => known
    /\ q.kept /\ ~enforced => q.pc \in {"idle", "audit", "find", "reread"} /\ q.answer # "error"
    /\ q.kept /\ ~enforced /\ q.pc = "find" => q.op = "register"
    /\ q.pc # "idle" => q.answer = "none"
    /\ q.answer # "unauthenticated"

RequestsOK == \A r \in Requests : RequestOK(entries[r], Known(entries[r].user))

ConnsOwned ==
    /\ \A r, q \in Requests : entries[r].conn # Ten!NoConn /\ entries[r].conn = entries[q].conn => r = q
    /\ \A c \in Conns : (\A r \in Requests : entries[r].conn # c) => guc[c] = Ten!Unpinned

SignedKnown == \A u \in signed : Known(u)

IInv ==
    /\ Ten!TypeOK
    /\ RequestsOK
    /\ ConnsOwned
    /\ SignedKnown
    /\ Ten!WholeAccounts
    /\ Ten!OwnIdentity

LEMMA Promised == IInv => Ten!AccountsHold
  BY DEF IInv, RequestsOK, RequestOK, Ten!AccountsHold, Ten!OwnersAdmitted

LEMMA FreshOK ==
    ASSUME NEW op \in {"register", "signin", "use"}, NEW u \in Users,
           op = "use" => Known(u)
    PROVE  Ten!Fresh(op, u) \in Ten!Request /\ RequestOK(Ten!Fresh(op, u), Known(u))
  <1>1. {} \in SUBSET Ten!Tables
    OBVIOUS
  <1>2. Ten!Fresh(op, u) \in Ten!Request
    BY <1>1 DEF Ten!Fresh, Ten!Request
  <1>3. RequestOK(Ten!Fresh(op, u), Known(u))
    BY DEF Ten!Fresh, RequestOK
  <1> QED
    BY <1>2, <1>3

LEMMA InitInv == Instance /\ Ten!Init => IInv
  <1> SUFFICES ASSUME Instance, Ten!Init PROVE IInv
    OBVIOUS
  <1>1. PICK u \in Users : entries = [r \in Requests |-> [Ten!Fresh("use", u) EXCEPT !.pc = "idle"]]
    BY DEF Ten!Init
  <1> DEFINE k == [Ten!Fresh("use", u) EXCEPT !.pc = "idle"]
  <1>2. /\ k \in Ten!Request /\ k.conn = Ten!NoConn /\ \A known \in BOOLEAN : RequestOK(k, known)
    <2>1. {} \in SUBSET Ten!Tables
      OBVIOUS
    <2>2. k \in Ten!Request
      BY <2>1 DEF Ten!Fresh, Ten!Request
    <2> QED
      BY <2>2 DEF Ten!Fresh, RequestOK
  <1> HIDE DEF k
  <1>3. entries = [r \in Requests |-> k]
    BY <1>1 DEF k
  <1>4. RequestsOK /\ entries \in [Requests -> Ten!Request]
    <2>1. \A r \in Requests : entries[r] = k
      BY <1>3
    <2>2. \A r \in Requests : Known(entries[r].user) \in BOOLEAN
      BY DEF Known
    <2>3. entries \in [Requests -> Ten!Request]
      BY <1>2, <1>3
    <2> QED
      BY <1>2, <2>1, <2>2, <2>3 DEF RequestsOK
  <1>5. \A v \in Users : accounts[v] \in {{}, Ten!Tables}
    BY DEF Ten!Init
  <1>6. accounts \in [Users -> SUBSET Ten!Tables] /\ signed \subseteq Users /\ left \subseteq Users
    BY DEF Ten!Init
  <1>7. Ten!Unpinned \in Ten!Guc
    BY DEF Ten!Unpinned, Ten!Guc
  <1>8. Ten!TypeOK
    BY <1>4, <1>6, <1>7 DEF Ten!Init, Ten!TypeOK, Instance
  <1>9. ConnsOwned /\ Ten!OwnIdentity
    BY <1>2, <1>3 DEF Ten!Init, ConnsOwned, Ten!OwnIdentity
  <1>10. SignedKnown /\ Ten!WholeAccounts
    BY <1>5 DEF Ten!Init, SignedKnown, Ten!WholeAccounts, Known, Ten!Tables
  <1> QED
    BY <1>4, <1>8, <1>9, <1>10 DEF IInv

-----------------------------------------------------------------------------
(* The steps of a request that has a connection. A request moves on.       *)
LEMMA MovesOn ==
    ASSUME IInv, NEW r \in Requests, NEW k \in Ten!Request, RequestOK(k, Known(k.user)),
           k.user = entries[r].user, k.conn = entries[r].conn,
           entries' = [entries EXCEPT ![r] = k],
           listed' \in [Users -> {"absent", "empty", "member"}],
           UNCHANGED <<enforced, accounts, left, signed, guc, visits>>
    PROVE  IInv'
  <1>1. /\ entries' \in [Requests -> Ten!Request]
        /\ \A q \in Requests : entries'[q] = IF q = r THEN k ELSE entries[q]
    BY DEF IInv, Ten!TypeOK
  <1>2. Ten!TypeOK'
    BY <1>1 DEF IInv, Ten!TypeOK
  <1>3. RequestsOK'
    BY <1>1 DEF IInv, RequestsOK, RequestOK, Known
  <1>4. \A q \in Requests : entries'[q].conn = entries[q].conn /\ entries'[q].user = entries[q].user
    BY <1>1
  <1>5. ConnsOwned' /\ Ten!OwnIdentity'
    BY <1>4 DEF IInv, ConnsOwned, Ten!OwnIdentity
  <1>6. SignedKnown' /\ Ten!WholeAccounts'
    BY DEF IInv, SignedKnown, Ten!WholeAccounts, Known
  <1> QED
    BY <1>2, <1>3, <1>5, <1>6 DEF IInv

(* The transaction ends and its connection goes back unpinned; rows may    *)
(* have been committed.                                                    *)
LEMMA LetsGo ==
    ASSUME IInv, NEW r \in Requests, NEW k \in Ten!Request, RequestOK(k, "user" \in accounts'[k.user]),
           k.user = entries[r].user, k.conn = Ten!NoConn,
           entries' = [entries EXCEPT ![r] = k], guc' = Ten!Released(r),
           accounts' \in [Users -> SUBSET Ten!Tables], Ten!WholeAccounts',
           \A u \in Users : Known(u) => Known(u)',
           signed' \subseteq Users, \A u \in signed' : Known(u)',
           listed' \in [Users -> {"absent", "empty", "member"}],
           UNCHANGED <<enforced, left, visits>>
    PROVE  IInv'
  <1>1. /\ entries' \in [Requests -> Ten!Request]
        /\ \A q \in Requests : entries'[q] = IF q = r THEN k ELSE entries[q]
    BY DEF IInv, Ten!TypeOK
  <1>2. Ten!Unpinned \in Ten!Guc
    BY DEF Ten!Unpinned, Ten!Guc
  <1>3. guc' \in [Conns -> Ten!Guc]
    BY <1>2 DEF IInv, Ten!TypeOK, Ten!Released
  <1>4. Ten!TypeOK'
    BY <1>1, <1>3 DEF IInv, Ten!TypeOK
  <1>5. RequestsOK'
    <2> SUFFICES ASSUME NEW q \in Requests
                 PROVE  RequestOK(entries[q], Known(entries[q].user))'
      BY DEF RequestsOK
    <2>1. CASE q = r
      <3>1. entries'[q] = k
        BY <1>1, <2>1
      <3> QED
        BY <3>1 DEF RequestOK, Known
    <2>2. CASE q # r
      <3>1. entries'[q] = entries[q] /\ entries[q].user \in Users /\ RequestOK(entries[q], Known(entries[q].user))
        BY <1>1, <2>2 DEF IInv, Ten!TypeOK, RequestsOK, Ten!Request
      <3>2. Known(entries[q].user) => Known(entries[q].user)'
        BY <1>1, <2>2, <3>1 DEF Known
      <3> QED
        BY <3>1, <3>2 DEF RequestOK, Known
    <2> QED
      BY <2>1, <2>2
  <1>6. \A c \in Conns : guc'[c] = IF c = entries[r].conn THEN Ten!Unpinned ELSE guc[c]
    BY DEF Ten!Released
  <1>7. ConnsOwned'
    BY <1>1, <1>6 DEF IInv, ConnsOwned
  <1>8. Ten!OwnIdentity'
    <2> SUFFICES ASSUME NEW q \in Requests, q # r, entries[q].conn # Ten!NoConn
                 PROVE  guc'[entries[q].conn] = guc[entries[q].conn]
      BY <1>1 DEF IInv, Ten!OwnIdentity
    <2>1. entries[q].conn # entries[r].conn /\ entries[q].conn \in Conns
      BY DEF IInv, ConnsOwned, Ten!TypeOK, Ten!Request
    <2> QED
      BY <1>6, <2>1
  <1>9. SignedKnown'
    BY DEF SignedKnown
  <1> QED
    BY <1>4, <1>5, <1>7, <1>8, <1>9 DEF IInv

LEMMA Ends ==
    ASSUME IInv, NEW r \in Requests, entries[r].pc # "idle",
           NEW a \in {"none", "ok", "taken", "refused", "error"}, Ten!Answer(r, a),
           a = "error" => enforced \/ ~entries[r].kept,
           listed' \in [Users -> {"absent", "empty", "member"}],
           UNCHANGED <<enforced, accounts, left, signed, visits>>
    PROVE  IInv'
  <1> DEFINE k == [entries[r] EXCEPT !.pc = "idle", !.conn = Ten!NoConn, !.new = {}, !.answer = a]
  <1>1. entries[r] \in Ten!Request /\ {} \in SUBSET Ten!Tables
    BY DEF IInv, Ten!TypeOK
  <1>2. /\ k \in Ten!Request /\ k.user = entries[r].user /\ k.conn = Ten!NoConn /\ k.pc = "idle"
        /\ k.new = {} /\ k.answer = a /\ k.kept = entries[r].kept
    BY <1>1 DEF Ten!Request
  <1>3. entries' = [entries EXCEPT ![r] = k] /\ guc' = Ten!Released(r)
    BY DEF Ten!Answer
  <1> HIDE DEF k
  <1>4. RequestOK(k, "user" \in accounts'[k.user])
    BY <1>2 DEF RequestOK
  <1>5. /\ accounts' \in [Users -> SUBSET Ten!Tables] /\ Ten!WholeAccounts'
        /\ signed' \subseteq Users /\ \A u \in Users : Known(u) => Known(u)'
        /\ \A u \in signed' : Known(u)'
    BY DEF IInv, Ten!TypeOK, Ten!WholeAccounts, SignedKnown, Known
  <1> QED
    BY <1>2, <1>3, <1>4, <1>5, LetsGo

(* A Goto, as a new record.                                                *)
LEMMA GotoIs ==
    ASSUME IInv, NEW r \in Requests, NEW next, Ten!Goto(r, next)
    PROVE  \E k : /\ entries' = [entries EXCEPT ![r] = k]
                  /\ next \in {"idle", "lookup", "insert", "claim", "find", "create", "workspace",
                             "enter", "rest", "forget", "cache", "members", "fill", "tenant",
                             "commit", "audit", "reread"} => k \in Ten!Request
                  /\ k.pc = next /\ k.op = entries[r].op /\ k.user = entries[r].user
                  /\ k.conn = entries[r].conn /\ k.new = entries[r].new /\ k.found = entries[r].found
                  /\ k.kept = entries[r].kept /\ k.answer = entries[r].answer
  <1> DEFINE k == [entries[r] EXCEPT !.pc = next]
  <1>1. entries[r] \in Ten!Request
    BY DEF IInv, Ten!TypeOK
  <1>2. entries' = [entries EXCEPT ![r] = k]
    BY DEF Ten!Goto
  <1>3. /\ k.pc = next /\ k.op = entries[r].op /\ k.user = entries[r].user
        /\ k.conn = entries[r].conn /\ k.new = entries[r].new /\ k.found = entries[r].found
        /\ k.kept = entries[r].kept /\ k.answer = entries[r].answer
    BY <1>1 DEF Ten!Request
  <1>4. next \in {"idle", "lookup", "insert", "claim", "find", "create", "workspace",
                "enter", "rest", "forget", "cache", "members", "fill", "tenant",
                "commit", "audit", "reread"} => k \in Ten!Request
    BY <1>1 DEF Ten!Request
  <1> HIDE DEF k
  <1> QED
    BY <1>2, <1>3, <1>4

(* A request goes on to pc with what it has.                               *)
LEMMA GoesTo ==
    ASSUME IInv, NEW r \in Requests,
           NEW next \in {"insert", "claim", "find", "create", "workspace",
                       "rest", "cache", "members", "fill", "tenant", "commit"},
           Ten!Goto(r, next), entries[r].pc # "idle",
           next = "insert" => entries[r].op = "register" /\ ~entries[r].kept,
           next = "claim" => entries[r].op = "signin" /\ Known(entries[r].user),
           next \in {"cache", "members", "fill"} => entries[r].op = "use",
           next = "tenant" => entries[r].op # "register",
           next = "rest" => entries[r].pc = "enter",
           next = "commit" /\ entries[r].op = "register" => entries[r].pc = "forget",
           next \notin {"insert", "claim", "cache"} => entries[r].pc \notin {"lookup", "insert"},
           entries[r].kept => enforced,
           listed' \in [Users -> {"absent", "empty", "member"}],
           UNCHANGED <<enforced, accounts, left, signed, guc, visits>>
    PROVE  IInv'
  <1>1. PICK k : /\ entries' = [entries EXCEPT ![r] = k] /\ k \in Ten!Request
                 /\ k.pc = next /\ k.op = entries[r].op /\ k.user = entries[r].user
                 /\ k.conn = entries[r].conn /\ k.new = entries[r].new
                 /\ k.kept = entries[r].kept /\ k.answer = entries[r].answer
    BY GotoIs
  <1>2. RequestOK(entries[r], Known(entries[r].user))
    BY DEF IInv, RequestsOK
  <1>3. RequestOK(k, Known(k.user))
    BY <1>1, <1>2 DEF RequestOK
  <1> QED
    BY <1>1, <1>3, MovesOn

(* What holds of every request.                                            *)
LEMMA Of ==
    ASSUME IInv, NEW r \in Requests
    PROVE  /\ entries[r] \in Ten!Request /\ RequestOK(entries[r], Known(entries[r].user))
           /\ entries[r].user \in Users /\ entries[r].new \in SUBSET Ten!Tables
           /\ entries[r].op \in {"register", "signin", "use"} /\ entries[r].kept \in BOOLEAN
           /\ listed \in [Users -> {"absent", "empty", "member"}]
           /\ Known(entries[r].user) => "workspace" \in accounts[entries[r].user]
           /\ Known(entries[r].user) => "brand" \in accounts[entries[r].user]
  <1>1. entries[r] \in Ten!Request /\ RequestOK(entries[r], Known(entries[r].user)) /\ entries[r].user \in Users
    BY DEF IInv, Ten!TypeOK, RequestsOK, Ten!Request
  <1> QED
    BY <1>1 DEF IInv, Ten!TypeOK, Ten!Request, Ten!WholeAccounts, Known

LEMMA StartInv ==
    ASSUME IInv, Instance, NEW r \in Requests, NEW op \in {"register", "signin", "use"},
           NEW u \in Users, Ten!Start(r, op, u)
    PROVE  IInv'
  <1> DEFINE k == Ten!Fresh(op, u)
  <1>1. k \in Ten!Request /\ RequestOK(k, Known(u)) /\ k.conn = Ten!NoConn
    BY FreshOK DEF Ten!Start, IInv, SignedKnown, Ten!Fresh
  <1>2. /\ entries[r].conn = Ten!NoConn /\ entries' = [entries EXCEPT ![r] = k] /\ visits' \in 0..MaxVisits
        /\ k.user = u /\ UNCHANGED <<enforced, accounts, left, signed, listed, guc>>
    BY Of DEF Ten!Start, RequestOK, IInv, Ten!TypeOK, Instance, Ten!Fresh
  <1> HIDE DEF k
  <1>3. /\ entries' \in [Requests -> Ten!Request]
        /\ \A q \in Requests : entries'[q] = IF q = r THEN k ELSE entries[q]
    BY <1>1, <1>2 DEF IInv, Ten!TypeOK
  <1>4. Ten!TypeOK'
    BY <1>2, <1>3 DEF IInv, Ten!TypeOK
  <1>5. RequestsOK'
    BY <1>1, <1>2, <1>3 DEF IInv, RequestsOK, RequestOK, Known
  <1>6. \A q \in Requests : entries'[q].conn = entries[q].conn
    BY <1>1, <1>2, <1>3
  <1>7. ConnsOwned'
    BY <1>2, <1>6 DEF IInv, ConnsOwned
  <1>8. Ten!OwnIdentity'
    BY <1>1, <1>2, <1>3 DEF IInv, Ten!OwnIdentity
  <1>9. SignedKnown' /\ Ten!WholeAccounts'
    BY <1>2 DEF IInv, SignedKnown, Ten!WholeAccounts, Known
  <1> QED
    BY <1>4, <1>5, <1>7, <1>8, <1>9 DEF IInv

(* A free connection is unpinned when it is taken.                         *)
LEMMA CheckoutInv ==
    ASSUME IInv, Instance, NEW r \in Requests, Ten!Checkout(r)
    PROVE  IInv'
  <1>1. PICK c \in Conns \ {entries[q].conn : q \in Requests} : entries' = [entries EXCEPT ![r].conn = c]
    BY DEF Ten!Checkout
  <1> DEFINE k == [entries[r] EXCEPT !.conn = c]
  <1>2. /\ k \in Ten!Request /\ k.conn = c /\ k.user = entries[r].user /\ k.pc = entries[r].pc
        /\ k.op = entries[r].op /\ k.new = entries[r].new /\ k.kept = entries[r].kept
        /\ k.answer = entries[r].answer
    BY Of DEF Ten!Request
  <1>3. /\ entries' = [entries EXCEPT ![r] = k] /\ entries[r].pc # "idle"
        /\ UNCHANGED <<enforced, accounts, left, signed, listed, guc, visits>>
    BY <1>1 DEF Ten!Checkout
  <1> HIDE DEF k
  <1>4. /\ entries' \in [Requests -> Ten!Request]
        /\ \A q \in Requests : entries'[q] = IF q = r THEN k ELSE entries[q]
    BY <1>2, <1>3 DEF IInv, Ten!TypeOK
  <1>5. Ten!TypeOK'
    BY <1>3, <1>4 DEF IInv, Ten!TypeOK
  <1>6. RequestsOK'
    <2>1. RequestOK(k, Known(k.user))
      BY <1>2, <1>3, Of DEF RequestOK
    <2> QED
      BY <1>3, <1>4, <2>1 DEF IInv, RequestsOK, RequestOK, Known
  <1>7. guc[c] = Ten!Unpinned /\ \A q \in Requests : entries[q].conn # c
    BY DEF IInv, ConnsOwned
  <1>8. ConnsOwned'
    BY <1>2, <1>3, <1>4, <1>7 DEF IInv, ConnsOwned, Ten!Checkout, Instance
  <1>9. Ten!OwnIdentity'
    BY <1>2, <1>3, <1>4, <1>7 DEF IInv, Ten!OwnIdentity, Ten!Unpinned
  <1>10. SignedKnown' /\ Ten!WholeAccounts'
    BY <1>3 DEF IInv, SignedKnown, Ten!WholeAccounts, Known
  <1> QED
    BY <1>5, <1>6, <1>8, <1>9, <1>10 DEF IInv

-----------------------------------------------------------------------------
(* Statements that only read.                                              *)
LEMMA LookupInv ==
    ASSUME IInv, NEW r \in Requests, Ten!Lookup(r)
    PROVE  IInv'
  <1>1. /\ entries[r].pc = "lookup" /\ listed' \in [Users -> {"absent", "empty", "member"}]
        /\ UNCHANGED <<enforced, accounts, left, signed, visits>>
    BY Of DEF Ten!Lookup, Ten!Ready
  <1>2. entries[r].new = {} /\ ~entries[r].kept
    BY <1>1, Of DEF RequestOK
  <1>3. Ten!Sees(r, "user") => Known(entries[r].user)
    BY <1>2 DEF Ten!Sees, Known
  <1>4. ASSUME NEW a \in {"taken", "refused"}, Ten!Answer(r, a) PROVE IInv'
    BY <1>1, <1>4, Ends
  <1>5. ASSUME entries[r].op = "register", Ten!Goto(r, "insert"), UNCHANGED guc PROVE IInv'
    BY <1>1, <1>2, <1>5, GoesTo
  <1>6. ASSUME entries[r].op = "signin", Ten!Sees(r, "user"), Ten!Goto(r, "claim"), UNCHANGED guc PROVE IInv'
    BY <1>1, <1>2, <1>3, <1>6, GoesTo
  <1>7. ASSUME entries[r].op = "use", Ten!Goto(r, "cache"), UNCHANGED guc PROVE IInv'
    BY <1>1, <1>2, <1>7, GoesTo
  <1> QED
    BY <1>4, <1>5, <1>6, <1>7 DEF Ten!Lookup

LEMMA FindInv ==
    ASSUME IInv, NEW r \in Requests, Ten!Find(r)
    PROVE  IInv'
  <1>1. /\ entries[r].pc = "find" /\ listed' \in [Users -> {"absent", "empty", "member"}]
        /\ UNCHANGED <<enforced, accounts, left, signed, visits>>
    BY Of DEF Ten!Find, Ten!Ready
  <1>2. ASSUME ~Ten!Sees(r, "workspace"), Ten!Goto(r, "create"), UNCHANGED guc PROVE IInv'
    <2>1. entries[r].kept => enforced
      BY <1>1, <1>2, Of DEF RequestOK, Ten!Sees
    <2> QED
      BY <1>1, <1>2, <2>1, GoesTo
  <1>3. ASSUME entries[r].op = "register", Ten!Answer(r, "ok") PROVE IInv'
    BY <1>1, <1>3, Ends
  <1>4. ASSUME entries[r].op # "register", Ten!Goto(r, "tenant"), UNCHANGED guc PROVE IInv'
    <2>1. entries[r].kept => enforced
      BY <1>1, <1>4, Of DEF RequestOK
    <2> QED
      BY <1>1, <1>4, <2>1, GoesTo
  <1> QED
    BY <1>2, <1>3, <1>4 DEF Ten!Find

(* The cached memberships, the table and the cache again.                  *)
LEMMA AdmitInv ==
    ASSUME IInv, NEW r \in Requests, Ten!Cached(r) \/ Ten!LoadMembers(r) \/ Ten!Fill(r)
    PROVE  IInv'
  <1>1. /\ entries[r].pc \in {"cache", "members", "fill"} /\ entries[r].op = "use"
        /\ entries[r].kept => enforced
    BY Of DEF Ten!Cached, Ten!LoadMembers, Ten!Fill, Ten!Ready, RequestOK
  <1>2. ASSUME NEW next \in {"tenant", "find", "members"}, Ten!Goto(r, next),
               listed' \in [Users -> {"absent", "empty", "member"}],
               UNCHANGED <<enforced, accounts, left, signed, guc, visits>>
        PROVE  IInv'
    BY <1>1, <1>2, GoesTo
  <1>3. Ten!Cached(r) => IInv'
    BY <1>2, Of DEF Ten!Cached
  <1>4. ASSUME Ten!LoadMembers(r) PROVE IInv'
    <2> DEFINE k == [entries[r] EXCEPT !.pc = "fill", !.found = Ten!Sees(r, "member")]
    <2>1. Ten!Sees(r, "member") \in BOOLEAN
      BY DEF Ten!Sees
    <2>2. /\ k \in Ten!Request /\ k.pc = "fill" /\ k.user = entries[r].user /\ k.conn = entries[r].conn
          /\ k.op = entries[r].op /\ k.new = entries[r].new /\ k.kept = entries[r].kept
          /\ k.answer = entries[r].answer
      BY <2>1, Of DEF Ten!Request
    <2>3. /\ entries' = [entries EXCEPT ![r] = k]
          /\ UNCHANGED <<enforced, accounts, left, signed, listed, guc, visits>>
      BY <1>4 DEF Ten!LoadMembers
    <2> HIDE DEF k
    <2> HIDE DEF k
    <2>4. RequestOK(k, Known(k.user))
      BY <1>1, <2>2, Of DEF RequestOK
    <2> QED
      BY <2>2, <2>3, <2>4, MovesOn, Of
  <1>5. ASSUME Ten!Fill(r) PROVE IInv'
    <2>1. listed' \in [Users -> {"absent", "empty", "member"}]
      BY <1>5, Of DEF Ten!Fill
    <2> QED
      BY <1>2, <1>5, <2>1 DEF Ten!Fill
  <1> QED
    BY <1>3, <1>4, <1>5

LEMMA ReplyInv ==
    ASSUME IInv, NEW r \in Requests, Ten!Reread(r) \/ Ten!Abort(r)
    PROVE  IInv'
  <1>1. ASSUME Ten!Reread(r) PROVE IInv'
    <2>1. entries[r].pc = "reread" /\ listed' \in [Users -> {"absent", "empty", "member"}]
      BY <1>1, Of DEF Ten!Reread, Ten!Ready
    <2>2. Known(entries[r].user)
      BY <2>1, Of DEF RequestOK
    <2>3. ~enforced => Ten!Sees(r, "brand")
      BY <2>2, Of DEF Ten!Sees
    <2> QED
      BY <1>1, <2>1, <2>3, Ends DEF Ten!Reread
  <1>2. ASSUME Ten!Abort(r) PROVE IInv'
    BY <1>2, Ends, Of DEF Ten!Abort
  <1> QED
    BY <1>1, <1>2

-----------------------------------------------------------------------------
(* Statements that write or pin.                                           *)

(* set_rls_context: the request's own identity on its own connection.      *)
LEMMA PinInv ==
    ASSUME IInv, Instance, NEW r \in Requests, Ten!PinUser(r) \/ Ten!PinTenant(r)
    PROVE  IInv'
  <1> DEFINE u == entries[r].user
             c == entries[r].conn
             next == CASE entries[r].pc = "claim" -> "find"
                     [] entries[r].pc = "create" -> "workspace"
                     [] entries[r].pc = "enter" -> "rest"
                     [] entries[r].pc = "tenant" -> "commit"
  <1>1. PICK g \in Ten!Guc : /\ guc' = [guc EXCEPT ![c] = g]
                         /\ g.user \in {Ten!Nobody, u} /\ g.tenant \in {Ten!Nobody, u}
    <2>1. /\ [user |-> u, tenant |-> Ten!Nobody] \in Ten!Guc /\ [user |-> u, tenant |-> u] \in Ten!Guc
      BY Of DEF Ten!Guc
    <2> QED
      BY <2>1 DEF Ten!PinUser, Ten!PinTenant
  <1>2. /\ entries[r].pc \in {"claim", "create", "enter", "tenant"} /\ c # Ten!NoConn
        /\ Ten!Goto(r, next) /\ UNCHANGED <<enforced, accounts, left, signed, listed, visits>>
    BY DEF Ten!PinUser, Ten!PinTenant, Ten!Ready
  <1>3. PICK k : /\ entries' = [entries EXCEPT ![r] = k]
                 /\ next \in {"find", "workspace", "rest", "commit"} => k \in Ten!Request
                 /\ k.pc = next /\ k.op = entries[r].op /\ k.user = u
                 /\ k.conn = c /\ k.new = entries[r].new
                 /\ k.kept = entries[r].kept /\ k.answer = entries[r].answer
    BY <1>2, GotoIs
  <1>4. /\ next \in {"find", "workspace", "rest", "commit"}
        /\ next = "find" => entries[r].pc = "claim"
        /\ next = "workspace" => entries[r].pc = "create"
        /\ next = "rest" => entries[r].pc = "enter"
        /\ next = "commit" => entries[r].pc = "tenant"
    BY <1>2
  <1> HIDE DEF next
  <1>5. RequestOK(k, Known(k.user))
    BY <1>2, <1>3, <1>4, Of DEF RequestOK
  <1>6. /\ entries' \in [Requests -> Ten!Request]
        /\ \A q \in Requests : entries'[q] = IF q = r THEN k ELSE entries[q]
    BY <1>3, <1>4 DEF IInv, Ten!TypeOK
  <1>7. Ten!TypeOK'
    <2>1. guc' \in [Conns -> Ten!Guc]
      BY <1>1 DEF IInv, Ten!TypeOK
    <2> QED
      BY <1>2, <1>6, <2>1 DEF IInv, Ten!TypeOK
  <1>8. RequestsOK'
    BY <1>2, <1>5, <1>6 DEF IInv, RequestsOK, RequestOK, Known
  <1>9. /\ \A q \in Requests : entries'[q].conn = entries[q].conn /\ entries'[q].user = entries[q].user
        /\ \A d \in Conns : guc'[d] = IF d = c THEN g ELSE guc[d]
    BY <1>1, <1>3, <1>6 DEF IInv, Ten!TypeOK
  <1>10. ConnsOwned'
    BY <1>9 DEF IInv, ConnsOwned
  <1>11. Ten!OwnIdentity'
    <2> SUFFICES ASSUME NEW q \in Requests, entries[q].conn # Ten!NoConn
                 PROVE  /\ guc'[entries[q].conn].user \in {Ten!Nobody, entries[q].user}
                        /\ guc'[entries[q].conn].tenant \in {Ten!Nobody, entries[q].user}
      BY <1>9 DEF Ten!OwnIdentity
    <2>1. entries[q].conn \in Conns
      BY Of DEF Ten!Request
    <2>2. CASE q = r
      BY <1>1, <1>9, <2>1, <2>2
    <2>3. CASE q # r
      BY <1>9, <2>1, <2>3 DEF IInv, ConnsOwned, Ten!OwnIdentity
    <2> QED
      BY <2>2, <2>3
  <1>12. SignedKnown' /\ Ten!WholeAccounts'
    BY <1>2 DEF IInv, SignedKnown, Ten!WholeAccounts, Known
  <1> QED
    BY <1>7, <1>8, <1>10, <1>11, <1>12 DEF IInv

(* The rows of an account before the commit.                               *)
LEMMA InsertUserInv ==
    ASSUME IInv, NEW r \in Requests, Ten!InsertUser(r)
    PROVE  IInv'
  <1>1. entries[r].pc = "insert" /\ entries[r].op = "register" /\ ~entries[r].kept
    BY Of DEF Ten!InsertUser, Ten!Ready, RequestOK
  <1>2. CASE "user" \in accounts[entries[r].user]
    BY <1>1, <1>2, Ends, Of DEF Ten!InsertUser
  <1>3. CASE "user" \notin accounts[entries[r].user]
    <2>1. {"user"} \in SUBSET Ten!Tables
      BY DEF Ten!Tables
    <2> DEFINE k == [entries[r] EXCEPT !.pc = "find", !.new = {"user"}]
    <2>2. /\ k \in Ten!Request /\ k.pc = "find" /\ k.user = entries[r].user /\ k.conn = entries[r].conn
          /\ k.op = entries[r].op /\ k.new = {"user"} /\ k.kept = entries[r].kept
          /\ k.answer = entries[r].answer
      BY <2>1, Of DEF Ten!Request
    <2>3. /\ entries' = [entries EXCEPT ![r] = k]
          /\ UNCHANGED <<enforced, accounts, left, signed, listed, guc, visits>>
      BY <1>3, <2>2 DEF Ten!InsertUser
    <2> HIDE DEF k
    <2>4. RequestOK(k, Known(k.user))
      BY <1>1, <2>2, Of DEF RequestOK
    <2> QED
      BY <2>2, <2>3, <2>4, MovesOn, Of
  <1> QED
    BY <1>2, <1>3

LEMMA InsertWorkspaceInv ==
    ASSUME IInv, NEW r \in Requests, Ten!InsertWorkspace(r)
    PROVE  IInv'
  <1>1. entries[r].pc = "workspace" /\ (~enforced => ~entries[r].kept)
    BY Of DEF Ten!InsertWorkspace, Ten!Ready, RequestOK
  <1>2. CASE "workspace" \in accounts[entries[r].user]
    BY <1>1, <1>2, Ends, Of DEF Ten!InsertWorkspace
  <1>3. CASE "workspace" \notin accounts[entries[r].user]
    <2> DEFINE new == entries[r].new \cup {"workspace"}
    <2>1. /\ new \in SUBSET Ten!Tables /\ ("user" \in new <=> "user" \in entries[r].new)
          /\ "workspace" \in new
      BY Of DEF Ten!Tables
    <2>2. /\ entries' = [entries EXCEPT ![r] = [entries[r] EXCEPT !.pc = "enter", !.new = new]]
          /\ UNCHANGED <<enforced, accounts, left, signed, listed, guc, visits>>
      BY <1>3 DEF Ten!InsertWorkspace
    <2> HIDE DEF new
    <2> DEFINE k == [entries[r] EXCEPT !.pc = "enter", !.new = new]
    <2>3. /\ k \in Ten!Request /\ k.pc = "enter" /\ k.user = entries[r].user /\ k.conn = entries[r].conn
          /\ k.op = entries[r].op /\ k.new = new /\ k.kept = entries[r].kept
          /\ k.answer = entries[r].answer
      BY <2>1, Of DEF Ten!Request
    <2>4. ~Known(entries[r].user)
      BY <1>3, Of
    <2>5. entries' = [entries EXCEPT ![r] = k]
      BY <2>2
    <2> HIDE DEF k
    <2>6. RequestOK(k, Known(k.user))
      BY <1>1, <2>1, <2>3, <2>4, Of DEF RequestOK
    <2> QED
      BY <2>2, <2>3, <2>5, <2>6, MovesOn, Of
  <1> QED
    BY <1>2, <1>3

LEMMA InsertRestInv ==
    ASSUME IInv, NEW r \in Requests, Ten!InsertRest(r)
    PROVE  IInv'
  <1> DEFINE new == entries[r].new \cup {"member", "brand"}
  <1>1. /\ entries[r].pc = "rest"
        /\ entries' = [entries EXCEPT ![r] = [entries[r] EXCEPT !.pc = "forget", !.new = new]]
        /\ UNCHANGED <<enforced, accounts, left, signed, listed, guc, visits>>
    BY DEF Ten!InsertRest, Ten!Ready
  <1>2. /\ new \in SUBSET Ten!Tables /\ ("user" \in new <=> "user" \in entries[r].new)
        /\ "workspace" \in entries[r].new => Rest \subseteq new
    BY Of DEF Ten!Tables, Rest
  <1> HIDE DEF new
  <1> DEFINE k == [entries[r] EXCEPT !.pc = "forget", !.new = new]
  <1>3. /\ k \in Ten!Request /\ k.pc = "forget" /\ k.user = entries[r].user /\ k.conn = entries[r].conn
        /\ k.op = entries[r].op /\ k.new = new /\ k.kept = entries[r].kept
        /\ k.answer = entries[r].answer
    BY <1>2, Of DEF Ten!Request
  <1>4. entries' = [entries EXCEPT ![r] = k]
    BY <1>1
  <1> HIDE DEF k
  <1>5. RequestOK(k, Known(k.user))
    BY <1>1, <1>2, <1>3, Of DEF RequestOK
  <1> QED
    BY <1>1, <1>3, <1>4, <1>5, MovesOn, Of

LEMMA ForgetInv ==
    ASSUME IInv, NEW r \in Requests, Ten!Forget(r)
    PROVE  IInv'
  <1>1. /\ entries[r].pc = "forget" /\ UNCHANGED <<enforced, accounts, left, signed, visits>>
    BY DEF Ten!Forget, Ten!Ready
  <1>2. listed' \in [Users -> {"absent", "empty", "member"}]
    BY Of DEF Ten!Forget
  <1>3. entries[r].op \in {"register", "signin"} /\ (entries[r].kept => enforced)
    BY <1>1, Of DEF RequestOK
  <1>4. CASE entries[r].op = "register"
    <2>1. Ten!Goto(r, "commit") /\ UNCHANGED guc
      BY <1>4 DEF Ten!Forget
    <2> QED
      BY <1>1, <1>2, <1>3, <2>1, GoesTo
  <1>5. CASE entries[r].op = "signin"
    <2>1. Ten!Goto(r, "tenant") /\ UNCHANGED guc
      BY <1>5 DEF Ten!Forget
    <2> QED
      BY <1>1, <1>2, <1>3, <1>5, <2>1, GoesTo
  <1> QED
    BY <1>3, <1>4, <1>5

-----------------------------------------------------------------------------
(* A commit keeps accounts whole: a user row comes with its companions.    *)
LEMMA CommitInv ==
    ASSUME IInv, NEW r \in Requests, Ten!Commit(r)
    PROVE  IInv'
  <1> DEFINE q == entries[r]
             to == [q EXCEPT !.conn = Ten!NoConn, !.new = {}, !.kept = TRUE]
  <1>1. /\ q.pc \in {"commit", "audit"} /\ q.conn # Ten!NoConn
        /\ accounts' = [accounts EXCEPT ![q.user] = @ \cup q.new]
        /\ signed' = IF q.op = "signin" THEN signed \cup {q.user} ELSE signed
        /\ guc' = Ten!Released(r)
        /\ UNCHANGED <<enforced, left, listed, visits>>
    BY DEF Ten!Commit, Ten!Ready
  <1>2. /\ q \in Ten!Request /\ q.user \in Users /\ RequestOK(q, Known(q.user))
        /\ accounts \in [Users -> SUBSET Ten!Tables] /\ q.new \in SUBSET Ten!Tables
    BY Of DEF IInv, Ten!TypeOK
  <1>3. /\ \A u \in Users : accounts'[u] = IF u = q.user THEN accounts[u] \cup q.new ELSE accounts[u]
        /\ accounts' \in [Users -> SUBSET Ten!Tables]
        /\ \A u \in Users : Known(u) => Known(u)'
    BY <1>1, <1>2 DEF Known
  <1>4. "user" \in q.new => Rest \subseteq q.new
    BY <1>1, <1>2 DEF RequestOK
  <1>5. Ten!WholeAccounts'
    BY <1>1, <1>2, <1>3, <1>4 DEF IInv, Ten!WholeAccounts, Rest
  <1>6. signed' \subseteq Users /\ \A u \in signed' : Known(u)'
    <2>1. q.op = "signin" => Known(q.user)
      BY <1>1, <1>2 DEF RequestOK
    <2> QED
      BY <1>1, <1>2, <1>3, <2>1 DEF IInv, Ten!TypeOK, SignedKnown
  <1>7. q.op \in {"register", "use"} => "user" \in accounts'[q.user]
    <2>1. q.op = "use" => Known(q.user)
      BY <1>1, <1>2 DEF RequestOK
    <2>2. q.op = "register" => Known(q.user) \/ "user" \in q.new
      BY <1>1, <1>2 DEF RequestOK
    <2> QED
      BY <1>2, <1>3, <2>1, <2>2 DEF Known
  <1>8. listed' \in [Users -> {"absent", "empty", "member"}]
    BY <1>1, Of
  <1>9. {} \in SUBSET Ten!Tables
    OBVIOUS
  <1>10. CASE q.op = "register" /\ entries' = [entries EXCEPT ![r] = [to EXCEPT
                                   !.pc = IF q.pc = "commit" THEN "audit" ELSE "find"]]
    <2> DEFINE k == [to EXCEPT !.pc = IF q.pc = "commit" THEN "audit" ELSE "find"]
    <2>1. /\ k \in Ten!Request /\ k.pc \in {"audit", "find"} /\ k.user = q.user /\ k.conn = Ten!NoConn
          /\ k.op = q.op /\ k.new = {} /\ k.kept = TRUE /\ k.answer = q.answer
      BY <1>2, <1>9 DEF Ten!Request
    <2>2. entries' = [entries EXCEPT ![r] = k]
      BY <1>10
    <2> HIDE DEF k
    <2>3. RequestOK(k, "user" \in accounts'[k.user])
      BY <1>1, <1>2, <1>7, <1>10, <2>1 DEF RequestOK
    <2> QED
      BY <1>1, <1>3, <1>5, <1>6, <1>8, <2>1, <2>2, <2>3, LetsGo
  <1>11. CASE q.op # "register" /\ entries' = [entries EXCEPT ![r] = [to EXCEPT !.pc = "idle", !.answer = "ok"]]
    <2> DEFINE k == [to EXCEPT !.pc = "idle", !.answer = "ok"]
    <2>1. /\ k \in Ten!Request /\ k.pc = "idle" /\ k.user = q.user /\ k.conn = Ten!NoConn
          /\ k.op = q.op /\ k.new = {} /\ k.kept = TRUE /\ k.answer = "ok"
      BY <1>2, <1>9 DEF Ten!Request
    <2>2. entries' = [entries EXCEPT ![r] = k]
      BY <1>11
    <2> HIDE DEF k
    <2>3. RequestOK(k, "user" \in accounts'[k.user])
      BY <1>11, <2>1 DEF RequestOK
    <2> QED
      BY <1>1, <1>3, <1>5, <1>6, <1>8, <2>1, <2>2, <2>3, LetsGo
  <1>12. CASE q.op = "use" /\ entries' = [entries EXCEPT ![r] = [to EXCEPT !.pc = "reread"]]
    <2> DEFINE k == [to EXCEPT !.pc = "reread"]
    <2>1. /\ k \in Ten!Request /\ k.pc = "reread" /\ k.user = q.user /\ k.conn = Ten!NoConn
          /\ k.op = q.op /\ k.new = {} /\ k.kept = TRUE /\ k.answer = q.answer
      BY <1>2, <1>9 DEF Ten!Request
    <2>2. entries' = [entries EXCEPT ![r] = k]
      BY <1>12
    <2> HIDE DEF k
    <2>3. RequestOK(k, "user" \in accounts'[k.user])
      BY <1>1, <1>2, <1>7, <1>12, <2>1 DEF RequestOK
    <2> QED
      BY <1>1, <1>3, <1>5, <1>6, <1>8, <2>1, <2>2, <2>3, LetsGo
  <1> QED
    BY <1>10, <1>11, <1>12 DEF Ten!Commit

(* A membership goes, or a cache entry.                                    *)
LEMMA RemoveInv ==
    ASSUME IInv, NEW u \in Users, Ten!Remove(u) \/ Ten!Expire(u)
    PROVE  IInv'
  <1>1. UNCHANGED <<enforced, signed, guc, entries, visits>>
    BY DEF Ten!Remove, Ten!Expire
  <1>2. listed' \in [Users -> {"absent", "empty", "member"}]
    BY DEF Ten!Remove, Ten!Expire, IInv, Ten!TypeOK
  <1>3. /\ accounts' \in [Users -> SUBSET Ten!Tables] /\ left' \subseteq Users
        /\ \A v \in Users : Known(v)' <=> Known(v)
    BY DEF Ten!Remove, Ten!Expire, IInv, Ten!TypeOK, Known
  <1>4. Ten!TypeOK'
    BY <1>1, <1>2, <1>3 DEF IInv, Ten!TypeOK
  <1>5. RequestsOK'
    <2> SUFFICES ASSUME NEW r \in Requests PROVE RequestOK(entries[r], Known(entries[r].user))'
      BY DEF RequestsOK
    <2>1. Known(entries[r].user)' <=> Known(entries[r].user)
      BY <1>1, <1>3, Of DEF Known
    <2> QED
      BY <1>1, <2>1, Of DEF RequestOK
  <1>6. ConnsOwned' /\ Ten!OwnIdentity'
    BY <1>1 DEF IInv, ConnsOwned, Ten!OwnIdentity
  <1>7. SignedKnown'
    BY <1>1, <1>3 DEF IInv, Ten!TypeOK, SignedKnown
  <1>8. Ten!WholeAccounts'
    BY DEF Ten!Remove, Ten!Expire, IInv, Ten!TypeOK, Ten!WholeAccounts
  <1> QED
    BY <1>4, <1>5, <1>6, <1>7, <1>8 DEF IInv

LEMMA NextInv == Instance /\ IInv /\ [Ten!Next]_(Ten!vars) => IInv'
  <1> SUFFICES ASSUME Instance, IInv, [Ten!Next]_(Ten!vars) PROVE IInv'
    OBVIOUS
  <1>1. CASE UNCHANGED Ten!vars
    BY <1>1 DEF Ten!vars, IInv, Ten!TypeOK, RequestsOK, RequestOK, ConnsOwned, SignedKnown,
                Ten!WholeAccounts, Ten!OwnIdentity, Known
  <1>2. ASSUME NEW r \in Requests, NEW op \in {"register", "signin", "use"}, NEW u \in Users,
               Ten!Start(r, op, u)
        PROVE  IInv'
    BY <1>2, StartInv
  <1>3. ASSUME NEW u \in Users, Ten!Remove(u) \/ Ten!Expire(u) PROVE IInv'
    BY <1>3, RemoveInv
  <1> QED
    BY <1>1, <1>2, <1>3, CheckoutInv, LookupInv, InsertUserInv, PinInv, FindInv,
       InsertWorkspaceInv, InsertRestInv, ForgetInv, AdmitInv, CommitInv, ReplyInv
    DEF Ten!Next

(* However sign-ups, sign-ins and requests overlap and fail: an account    *)
(* has its workspace, default brand and membership, no statement runs      *)
(* under another request's identity, an owner is never turned away, and    *)
(* where the policies do not bind no committed sign-up ends in an error    *)
(* (services/auth.py, services/workspaces.py, api/deps.py, db/rls.py).     *)
THEOREM AccountsAreSound ==
    RowSpec => []AccountsHold
  <1>1. Instance
    BY SharedRowsAssumption DEF Instance, Ten!NoConn
  <1>2. Ten!Init => IInv
    BY <1>1, InitInv
  <1>3. IInv /\ [Ten!Next]_(Ten!vars) => IInv'
    BY <1>1, NextInv
  <1> QED
    BY <1>2, <1>3, Promised, TenancyPart, PTL DEF Ten!Spec, AccountsHold

=============================================================================
