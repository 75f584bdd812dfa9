---------------------------- MODULE ChannelsProofs ----------------------------
(***************************************************************************)
(* Proofs about Channels, for any number of requests and brands.           *)
(*                                                                         *)
(* Every request that may make a binding live holds the registry row while *)
(* it decides, every writer holds the binding's row until its commit, and  *)
(* a request whose User has expired writes nothing.                        *)
(***************************************************************************)
EXTENDS Channels, TLAPS

Connecting(q) == Making(q.op)

(* What a request's record says of it at each point of its code.           *)
RequestOK(q) ==
    /\ q.pc \in {"probe", "registry", "touch", "register", "select", "bind", "reconnect"}
         => Connecting(q)
    /\ q.pc \in {"load", "verify", "write"} => ~Connecting(q)
    /\ q.pc \in {"select", "bind", "reconnect", "commit"} /\ Connecting(q)
         => q.expired \/ q.registry # "none"
    /\ q.registry # "none" \/ q.expired
         => q.pc \in {"select", "bind", "reconnect", "commit"} /\ Connecting(q)
    /\ q.pc \in {"probe", "registry", "touch", "register", "select", "bind",
                 "load", "verify", "write"} => q.copy.st = "none"
    /\ q.pc = "reconnect" => q.copy.st = "detached"
    /\ q.pc = "commit" => q.copy.st # "live"

RequestsOK == \A r \in Requests : RequestOK(req[r])

(* One request at a time holds the registry row, and one the binding's.    *)
RegistryHeld ==
    /\ \A r, q \in Requests : req[r].registry # "none" /\ req[q].registry # "none" => r = q
    /\ \A r \in Requests : req[r].registry = "inserted" => ~registered
    /\ \A r \in Requests : req[r].registry = "updated" \/ req[r].pc = "touch" => registered

BindingHeld ==
    \A r, q \in Requests :
        req[r].pc = "commit" /\ req[q].pc = "commit" /\ req[r].brand = req[q].brand => r = q

(* What a request read of the binding is still so when it writes.          *)
CopyOK(q, b) ==
    /\ q.pc \in {"reconnect", "commit"} /\ q.copy.st = "detached" /\ ~q.expired
         => b.st = "detached" /\ b.role = q.copy.role
    /\ q.pc = "commit" /\ Connecting(q) /\ q.copy.st = "none" => b.st = "none"
    /\ q.pc \in {"verify", "write"} \/ (q.pc = "commit" /\ ~Connecting(q)) => b.st # "none"

CopiesOK == \A r \in Requests : CopyOK(req[r], binding[req[r].brand])

(* A request knows whether the channel was live since it began.            *)
SeenOK(q, b) ==
    /\ q.pc # "idle" /\ b.st = "live" => q.seen
    /\ q.pc = "bind" => b.st = "none" \/ q.seen

Witnessed == \A r \in Requests : SeenOK(req[r], binding[req[r].brand])

IInv ==
    /\ TypeOK
    /\ RequestsOK
    /\ RegistryHeld
    /\ BindingHeld
    /\ CopiesOK
    /\ Witnessed
    /\ ConflictIsEarned
    /\ OwnedHasRights

LEMMA FreshOK ==
    ASSUME NEW op \in Ops, NEW b \in Brands
    PROVE  Fresh(op, b) \in Request /\ RequestOK(Fresh(op, b))
  BY DEF Fresh, Request, RequestOK, Ops, Answers, Binding, NoBinding, Connecting, Making

LEMMA InitInv == Init => IInv
  <1> SUFFICES ASSUME Init PROVE IInv
    OBVIOUS
  <1>1. PICK b \in Brands : req = [r \in Requests |-> Fresh("connect", b)]
    BY DEF Init
  <1>2. "connect" \in Ops
    BY DEF Ops
  <1>3. TypeOK /\ RequestsOK
    <2>1. Fresh("connect", b) \in Request /\ RequestOK(Fresh("connect", b))
      BY <1>2, FreshOK
    <2>2. NoBinding \in Binding
      BY DEF NoBinding, Binding
    <2>3. binding \in [Brands -> Binding]
      BY <2>2 DEF Init
    <2>4. req \in [Requests -> Request] /\ \A r \in Requests : RequestOK(req[r])
      BY <1>1, <2>1
    <2>5. registered \in BOOLEAN
      BY DEF Init
    <2>6. calls \in 0..MaxCalls
      BY ChannelsAssumption DEF Init
    <2> QED
      BY <2>3, <2>4, <2>5, <2>6 DEF TypeOK, RequestsOK
  <1> QED
    BY <1>1, <1>3
    DEF Init, IInv, RegistryHeld, BindingHeld, CopiesOK, CopyOK, Witnessed, SeenOK,
        ConflictIsEarned, OwnedHasRights, Fresh, NoBinding

-----------------------------------------------------------------------------
(* A request moves on, or answers, and the tables stay as they are.        *)
LEMMA MovesOn ==
    ASSUME IInv, NEW r \in Requests, NEW k \in Request,
           RequestOK(k),
           k.registry \in {"none", req[r].registry}
             \/ \A q \in Others(r) : req[q].registry = "none",
           k.registry = "inserted" => ~registered,
           k.registry = "updated" \/ k.pc = "touch" => registered,
           k.pc = "commit" => BindingFree(r) /\ k.brand = req[r].brand,
           CopyOK(k, binding[k.brand]), SeenOK(k, binding[k.brand]),
           k.answer = "connected" => k.seen,
           req' = [req EXCEPT ![r] = k], calls' \in 0..MaxCalls,
           UNCHANGED <<registered, binding>>
    PROVE  IInv'
  <1>1. req' \in [Requests -> Request] /\ \A q \in Requests : req'[q] = IF q = r THEN k ELSE req[q]
    BY DEF IInv, TypeOK
  <1>2. TypeOK' /\ RequestsOK'
    BY <1>1 DEF IInv, TypeOK, RequestsOK
  <1>3. RegistryHeld'
    BY <1>1 DEF IInv, RegistryHeld, Others
  <1>4. BindingHeld'
    BY <1>1 DEF IInv, BindingHeld, BindingFree, Others
  <1>5. CopiesOK' /\ Witnessed'
    BY <1>1 DEF IInv, CopiesOK, Witnessed
  <1>6. ConflictIsEarned' /\ OwnedHasRights'
    BY <1>1 DEF IInv, ConflictIsEarned, OwnedHasRights
  <1> QED
    BY <1>2, <1>3, <1>4, <1>5, <1>6 DEF IInv

(* The end of a request that has not committed.                            *)
LEMMA Ends ==
    ASSUME IInv, NEW r \in Requests, NEW a \in Answers, Answer(r, a),
           a = "connected" => req[r].seen, UNCHANGED <<registered, binding, calls>>
    PROVE  IInv'
  <1> DEFINE k == [req[r] EXCEPT !.pc = "idle", !.registry = "none", !.expired = FALSE, !.answer = a]
  <1>1. req[r] \in Request
    BY DEF IInv, TypeOK
  <1>2. /\ k \in Request /\ k.brand = req[r].brand /\ k.registry = "none" /\ k.pc = "idle"
        /\ k.seen = req[r].seen /\ k.answer = a /\ ~k.expired
    BY <1>1 DEF Request
  <1>3. req' = [req EXCEPT ![r] = k]
    BY DEF Answer
  <1>4. RequestOK(k) /\ CopyOK(k, binding[k.brand]) /\ SeenOK(k, binding[k.brand])
    BY <1>2 DEF RequestOK, CopyOK, SeenOK
  <1>5. calls' \in 0..MaxCalls
    BY DEF IInv, TypeOK
  <1> HIDE DEF k
  <1> QED
    BY <1>2, <1>3, <1>4, <1>5, MovesOn

(* A request goes on without touching the registry row.                    *)
LEMMA GoesOn ==
    ASSUME IInv, NEW r \in Requests, NEW k \in Request,
           k.brand = req[r].brand, k.registry = req[r].registry,
           k.seen = req[r].seen, k.answer = req[r].answer,
           RequestOK(k), CopyOK(k, binding[req[r].brand]), SeenOK(k, binding[req[r].brand]),
           k.pc # "touch", k.pc = "commit" => BindingFree(r),
           req' = [req EXCEPT ![r] = k], UNCHANGED <<registered, binding, calls>>
    PROVE  IInv'
  <1>1. /\ k.registry = "inserted" => ~registered
        /\ k.registry = "updated" => registered
        /\ k.answer = "connected" => k.seen
    BY DEF IInv, RegistryHeld, ConflictIsEarned
  <1>2. calls' \in 0..MaxCalls
    BY DEF IInv, TypeOK
  <1> QED
    BY <1>1, <1>2, MovesOn

LEMMA StartInv ==
    ASSUME IInv, NEW r \in Requests, NEW op \in Ops, NEW b \in Brands, Start(r, op, b)
    PROVE  IInv'
  <1> DEFINE k == [Fresh(op, b) EXCEPT
                    !.pc = IF Making(op) THEN "probe" ELSE "load",
                    !.seen = binding[b].st = "live"]
  <1>1. k \in Request /\ RequestOK(k) /\ k.registry = "none" /\ k.brand = b
    BY DEF Fresh, Request, RequestOK, Ops, Answers, Binding, NoBinding, Connecting, Making
  <1>2. CopyOK(k, binding[k.brand]) /\ SeenOK(k, binding[k.brand])
    BY DEF CopyOK, SeenOK, Fresh
  <1>3. req' = [req EXCEPT ![r] = k] /\ k.answer = "none" /\ k.pc \in {"probe", "load"}
    BY DEF Start, Fresh, Making
  <1>4. calls' \in 0..MaxCalls /\ UNCHANGED <<registered, binding>>
    BY ChannelsAssumption DEF Start, IInv, TypeOK
  <1> HIDE DEF k
  <1> QED
    BY <1>1, <1>2, <1>3, <1>4, MovesOn

(* POST .../channels and .../competitors up to the registry row.           *)
LEMMA RegistryInv ==
    ASSUME IInv, NEW r \in Requests,
           SelectRegistry(r) \/ TouchRegistry(r) \/ Register(r)
    PROVE  IInv'
  <1>1. /\ req[r] \in Request /\ RequestOK(req[r])
        /\ SeenOK(req[r], binding[req[r].brand]) /\ CopyOK(req[r], binding[req[r].brand])
        /\ calls \in 0..MaxCalls /\ registered \in BOOLEAN
        /\ \A q \in Requests : req[q].registry \in {"none", "inserted", "updated"}
    BY DEF IInv, TypeOK, RequestsOK, Witnessed, CopiesOK, Request
  <1>2. ASSUME SelectRegistry(r) PROVE IInv'
    <2> DEFINE k == [req[r] EXCEPT !.pc = IF registered THEN "touch" ELSE "register"]
    <2>1. /\ k \in Request /\ RequestOK(k) /\ k.registry = "none"
          /\ CopyOK(k, binding[k.brand]) /\ SeenOK(k, binding[k.brand])
          /\ k.pc = "touch" => registered
      BY <1>1, <1>2 DEF SelectRegistry, Request, RequestOK, CopyOK, SeenOK, Connecting, Making
    <2>2. k.answer = "connected" => k.seen
      BY <1>1 DEF IInv, ConflictIsEarned, Request
    <2>3. req' = [req EXCEPT ![r] = k] /\ k.pc # "commit"
      BY <1>2 DEF SelectRegistry, Goto
    <2> HIDE DEF k
    <2> QED
      BY <1>1, <1>2, <2>1, <2>2, <2>3, MovesOn DEF SelectRegistry
  <1>3. ASSUME TouchRegistry(r) PROVE IInv'
    <2> DEFINE k == [req[r] EXCEPT !.pc = "select", !.registry = "updated"]
    <2>1. /\ k \in Request /\ RequestOK(k) /\ k.registry = "updated" /\ k.pc = "select"
          /\ CopyOK(k, binding[k.brand]) /\ SeenOK(k, binding[k.brand])
      BY <1>1, <1>3 DEF TouchRegistry, Request, RequestOK, CopyOK, SeenOK, Connecting, Making
    <2>2. k.answer = "connected" => k.seen
      BY <1>1 DEF IInv, ConflictIsEarned, Request
    <2>3. registered /\ \A q \in Others(r) : req[q].registry = "none"
      BY <1>1, <1>3 DEF TouchRegistry, RegistryFree, IInv, RegistryHeld, Others
    <2>4. req' = [req EXCEPT ![r] = k]
      BY <1>3 DEF TouchRegistry
    <2> HIDE DEF k
    <2> QED
      BY <1>1, <1>3, <2>1, <2>2, <2>3, <2>4, MovesOn DEF TouchRegistry
  <1>4. ASSUME Register(r) PROVE IInv'
    <2> DEFINE k == IF registered THEN [req[r] EXCEPT !.pc = "select", !.expired = TRUE]
                    ELSE [req[r] EXCEPT !.pc = "select", !.registry = "inserted"]
    <2>1. /\ k \in Request /\ RequestOK(k) /\ k.pc = "select"
          /\ k.registry = IF registered THEN "none" ELSE "inserted"
          /\ CopyOK(k, binding[k.brand]) /\ SeenOK(k, binding[k.brand])
      BY <1>1, <1>4 DEF Register, Request, RequestOK, CopyOK, SeenOK, Connecting, Making
    <2>2. k.answer = "connected" => k.seen
      BY <1>1 DEF IInv, ConflictIsEarned, Request
    <2>3. ~registered => \A q \in Others(r) : req[q].registry = "none"
      BY <1>1, <1>4 DEF Register, RegistryFree, IInv, RegistryHeld, Others
    <2>4. req' = [req EXCEPT ![r] = k]
      BY <1>4 DEF Register
    <2> HIDE DEF k
    <2> QED
      BY <1>1, <1>4, <2>1, <2>2, <2>3, <2>4, MovesOn DEF Register
  <1> QED
    BY <1>2, <1>3, <1>4

(* ... and from there to the row of the binding.                           *)
LEMMA BindingInv ==
    ASSUME IInv, NEW r \in Requests,
           SelectBinding(r) \/ Reconnect(r) \/ InsertBinding(r)
    PROVE  IInv'
  <1> DEFINE b == binding[req[r].brand]
  <1>1. /\ req[r] \in Request /\ RequestOK(req[r]) /\ b \in Binding
        /\ SeenOK(req[r], b) /\ CopyOK(req[r], b)
    BY DEF IInv, TypeOK, RequestsOK, Witnessed, CopiesOK, Request
  <1> HIDE DEF b
  <1>2. ASSUME SelectBinding(r) PROVE IInv'
    <2>0. UNCHANGED <<registered, binding, calls>>
      BY <1>2 DEF SelectBinding
    <2>1. CASE b.st = "live"
      <3>1. Answer(r, "connected") /\ req[r].seen
        BY <1>1, <1>2, <2>1 DEF SelectBinding, SeenOK, b
      <3> QED
        BY <1>2, <3>1, Ends DEF SelectBinding, Answers
    <2>2. CASE b.st = "detached"
      <3> DEFINE k == [req[r] EXCEPT !.pc = "reconnect", !.copy = b]
      <3>1. /\ k \in Request /\ RequestOK(k) /\ CopyOK(k, b) /\ SeenOK(k, b)
            /\ k.brand = req[r].brand /\ k.registry = req[r].registry
            /\ k.seen = req[r].seen /\ k.answer = req[r].answer /\ k.pc = "reconnect"
        BY <1>1, <1>2, <2>2 DEF SelectBinding, Request, RequestOK, CopyOK, SeenOK, Connecting, Making
      <3>2. req' = [req EXCEPT ![r] = k] /\ req[r].pc # "idle"
        BY <1>2, <2>2 DEF SelectBinding, b
      <3> HIDE DEF k
      <3> QED
        BY <1>1, <2>0, <3>1, <3>2, GoesOn DEF b
    <2>3. CASE b.st = "none"
      <3> DEFINE k == [req[r] EXCEPT !.pc = "bind"]
      <3>1. /\ k \in Request /\ RequestOK(k) /\ CopyOK(k, b) /\ SeenOK(k, b)
            /\ k.brand = req[r].brand /\ k.registry = req[r].registry
            /\ k.seen = req[r].seen /\ k.answer = req[r].answer /\ k.pc = "bind"
        BY <1>1, <1>2, <2>3 DEF SelectBinding, Request, RequestOK, CopyOK, SeenOK, Connecting, Making
      <3>2. req' = [req EXCEPT ![r] = k] /\ req[r].pc # "idle"
        BY <1>1, <1>2, <2>3 DEF SelectBinding, Goto, Request, b
      <3> HIDE DEF k
      <3> QED
        BY <1>1, <2>0, <3>1, <3>2, GoesOn DEF b
    <2> QED
      BY <1>1, <2>1, <2>2, <2>3 DEF Binding
  <1>3. ASSUME Reconnect(r) \/ InsertBinding(r), Goto(r, "commit"), BindingFree(r),
               req[r].pc = "bind" => b.st = "none"
        PROVE  IInv'
    <2> DEFINE k == [req[r] EXCEPT !.pc = "commit"]
    <2>1. /\ k \in Request /\ RequestOK(k) /\ CopyOK(k, b) /\ SeenOK(k, b)
          /\ k.brand = req[r].brand /\ k.registry = req[r].registry
          /\ k.seen = req[r].seen /\ k.answer = req[r].answer /\ k.pc = "commit"
      BY <1>1, <1>3 DEF Reconnect, InsertBinding, Request, RequestOK, CopyOK, SeenOK, Connecting, Making
    <2>2. req' = [req EXCEPT ![r] = k] /\ req[r].pc # "idle"
      BY <1>1, <1>3 DEF Reconnect, InsertBinding, Goto, Request
    <2> HIDE DEF k
    <2> QED
      BY <1>1, <1>3, <2>1, <2>2, GoesOn DEF Reconnect, InsertBinding, b
  <1>4. ASSUME InsertBinding(r), b.st # "none" PROVE IInv'
    <2>1. Answer(r, "connected") /\ req[r].seen
      BY <1>1, <1>4 DEF InsertBinding, SeenOK, b
    <2> QED
      BY <1>4, <2>1, Ends DEF InsertBinding, Answers
  <1>5. InsertBinding(r) => BindingFree(r) /\ (b.st = "none" => Goto(r, "commit"))
    BY DEF InsertBinding, b
  <1>6. Reconnect(r) => BindingFree(r) /\ Goto(r, "commit") /\ req[r].pc # "bind"
    BY DEF Reconnect
  <1> QED
    BY <1>2, <1>3, <1>4, <1>5, <1>6

(* The other requests write a binding they have found live.                *)
LEMMA WriterInv ==
    ASSUME IInv, NEW r \in Requests, LoadBinding(r) \/ WriteBinding(r)
    PROVE  IInv'
  <1> DEFINE b == binding[req[r].brand]
  <1>1. /\ req[r] \in Request /\ RequestOK(req[r]) /\ b \in Binding
        /\ SeenOK(req[r], b) /\ CopyOK(req[r], b)
    BY DEF IInv, TypeOK, RequestsOK, Witnessed, CopiesOK, Request
  <1> HIDE DEF b
  <1>2. ASSUME NEW pc \in {"verify", "write", "commit"},
               req[r].pc \in {"load", "write"}, Goto(r, pc), pc = "commit" => BindingFree(r),
               b.st # "none", UNCHANGED <<registered, binding, calls>>
        PROVE  IInv'
    <2> DEFINE k == [req[r] EXCEPT !.pc = pc]
    <2>1. /\ k \in Request /\ RequestOK(k) /\ CopyOK(k, b) /\ SeenOK(k, b)
          /\ k.brand = req[r].brand /\ k.registry = req[r].registry
          /\ k.seen = req[r].seen /\ k.answer = req[r].answer /\ k.pc = pc
      BY <1>1, <1>2 DEF Request, RequestOK, CopyOK, SeenOK, Connecting, Making
    <2>2. req' = [req EXCEPT ![r] = k] /\ req[r].pc # "idle"
      BY <1>1, <1>2 DEF Goto, Request
    <2> HIDE DEF k
    <2> QED
      BY <1>1, <1>2, <2>1, <2>2, GoesOn DEF b
  <1>3. ASSUME LoadBinding(r) PROVE IInv'
    <2>1. \/ \E a \in {"missing", "detached"} : Answer(r, a)
          \/ b.st # "none" /\ \E pc \in {"verify", "write"} : Goto(r, pc)
      BY <1>3 DEF LoadBinding, b
    <2> QED
      BY <1>2, <1>3, <2>1, Ends DEF LoadBinding, Answers
  <1>4. WriteBinding(r) => IInv'
    BY <1>1, <1>2 DEF WriteBinding, CopyOK
  <1> QED
    BY <1>3, <1>4

(* Telegram answers.                                                       *)
LEMMA TelegramInv ==
    ASSUME IInv, NEW r \in Requests, Probe(r) \/ Verify(r)
    PROVE  IInv'
  <1> DEFINE b == binding[req[r].brand]
  <1>1. /\ req[r] \in Request /\ RequestOK(req[r])
        /\ SeenOK(req[r], b) /\ CopyOK(req[r], b)
    BY DEF IInv, TypeOK, RequestsOK, Witnessed, CopiesOK
  <1>2. ASSUME Answer(r, "refused") PROVE IInv'
    BY <1>2, Ends DEF Probe, Verify, Answers
  <1>3. ASSUME NEW pc \in {"registry", "write"}, Goto(r, pc),
               req[r].pc = IF pc = "registry" THEN "probe" ELSE "verify"
        PROVE  IInv'
    <2> DEFINE k == [req[r] EXCEPT !.pc = pc]
    <2>1. /\ k \in Request /\ RequestOK(k) /\ CopyOK(k, b) /\ SeenOK(k, b)
          /\ k.brand = req[r].brand /\ k.registry = req[r].registry
          /\ k.seen = req[r].seen /\ k.answer = req[r].answer /\ k.pc = pc
      BY <1>1, <1>3 DEF Request, RequestOK, CopyOK, SeenOK, Connecting, Making
    <2>2. req' = [req EXCEPT ![r] = k] /\ req[r].pc # "idle"
      BY <1>1, <1>3 DEF Goto, Request
    <2> HIDE DEF k
    <2> QED
      BY <1>1, <1>3, <2>1, <2>2, GoesOn DEF Probe, Verify, b
  <1> QED
    BY <1>2, <1>3 DEF Probe, Verify

-----------------------------------------------------------------------------
(* What a commit makes of the binding.                                     *)
LEMMA RowIs ==
    ASSUME IInv, NEW r \in Requests, req[r].pc = "commit", ~req[r].expired
    PROVE  LET b == binding[req[r].brand] IN
           /\ Row(r) \in Binding
           /\ Row(r).st # "none"
           /\ b.st = "live" /\ Row(r).st = "live" => Row(r).role = b.role
           /\ Row(r).role = "owned" => Row(r).rights
           /\ ~Connecting(req[r]) => Row(r).role = b.role /\ (Row(r).st = "live" => b.st = "live")
           /\ b.st = "none" => Row(r).st = "live"
  <1> DEFINE b == binding[req[r].brand]
  <1>1. /\ req[r] \in Request /\ RequestOK(req[r]) /\ b \in Binding /\ CopyOK(req[r], b)
        /\ b.st # "none" /\ b.role = "owned" => b.rights
    BY DEF IInv, TypeOK, RequestsOK, CopiesOK, Request, OwnedHasRights
  <1>2. req[r].op \in Ops /\ req[r].copy \in Binding
    BY <1>1 DEF Request
  <1> HIDE DEF b
  <1>3. CASE req[r].op \in {"detach", "drop"}
    <2>1. Row(r) = [b EXCEPT !.st = "detached"]
      BY <1>1, <1>2, <1>3 DEF Row, Making, b
    <2>2. b.st # "none"
      BY <1>1, <1>3 DEF CopyOK, Connecting, Making
    <2> QED
      BY <1>1, <1>3, <2>1, <2>2 DEF Binding, Connecting, Making, b
  <1>4. CASE req[r].op = "verify"
    <2>1. Row(r) = [b EXCEPT !.rights = TRUE]
      BY <1>1, <1>2, <1>4 DEF Row, Making, b
    <2>2. b.st # "none"
      BY <1>1, <1>4 DEF CopyOK, Connecting, Making
    <2> QED
      BY <1>1, <1>4, <2>1, <2>2 DEF Binding, Connecting, Making, b
  <1>5. CASE Connecting(req[r]) /\ req[r].copy.st = "none"
    <2>1. Row(r) = Created(req[r].op)
      BY <1>5 DEF Row, Connecting, Making
    <2>2. b.st = "none"
      BY <1>1, <1>5 DEF CopyOK
    <2>3. CASE req[r].op = "connect"
      <3>1. Row(r) = [st |-> "live", role |-> "owned", rights |-> TRUE]
        BY <2>1, <2>3 DEF Created
      <3> QED
        BY <1>5, <2>2, <3>1 DEF Binding, b
    <2>4. CASE req[r].op = "compete"
      <3>1. Row(r) = [st |-> "live", role |-> "competitor", rights |-> FALSE]
        BY <2>1, <2>4 DEF Created
      <3> QED
        BY <1>5, <2>2, <3>1 DEF Binding, b
    <2> QED
      BY <1>5, <2>3, <2>4 DEF Connecting, Making
  <1>6. CASE req[r].op = "connect" /\ req[r].copy.st # "none"
    <2>1. /\ Row(r) = [b EXCEPT !.st = "live", !.rights = TRUE]
          /\ b.st = "detached"
      BY <1>1, <1>2, <1>6 DEF Row, CopyOK, RequestOK, Binding, b
    <2> QED
      BY <1>1, <1>6, <2>1 DEF Binding, Connecting, Making, b
  <1>7. CASE req[r].op = "compete" /\ req[r].copy.st # "none"
    <2>1. b.st = "detached" /\ b.role = req[r].copy.role
      BY <1>1, <1>2, <1>7 DEF CopyOK, RequestOK, Binding
    <2>2. /\ Row(r).st = "live" /\ Row(r).role = "competitor"
          /\ Row(r) \in Binding
      BY <1>1, <1>2, <1>7, <2>1 DEF Row, Binding, b
    <2> QED
      BY <1>1, <1>7, <2>1, <2>2 DEF Binding, Connecting, Making, b
  <1> QED
    BY <1>2, <1>3, <1>4, <1>5, <1>6, <1>7 DEF Ops, Connecting, Making

LEMMA CommitInv ==
    ASSUME IInv, NEW r \in Requests, Commit(r)
    PROVE  IInv'
  <1>1. CASE req[r].expired
    BY <1>1, Ends DEF Commit, Answers
  <1>2. CASE ~req[r].expired
    <2> DEFINE B == req[r].brand
               row == Row(r)
               kr == [req[r] EXCEPT !.pc = "idle", !.registry = "none", !.answer = "ok"]
               kq(q) == [req[q] EXCEPT !.seen = @ \/ row.st = "live"]
    <2>1. /\ req[r].pc = "commit"
          /\ registered' = (registered \/ req[r].registry = "inserted")
          /\ binding' = [binding EXCEPT ![B] = row]
          /\ req' = [q \in Requests |-> IF q = r THEN kr
                       ELSE IF req[q].brand = B /\ req[q].pc # "idle" THEN kq(q) ELSE req[q]]
          /\ calls' = calls
      BY <1>2 DEF Commit
    <2>2. /\ row \in Binding /\ row.st # "none"
          /\ row.role = "owned" => row.rights
          /\ ~Connecting(req[r]) => row.role = binding[B].role
                                      /\ (row.st = "live" => binding[B].st = "live")
          /\ binding[B].st = "none" => row.st = "live"
      BY <1>2, <2>1, RowIs
    <2>3. \A q \in Requests : req[q] \in Request /\ RequestOK(req[q])
      BY DEF IInv, TypeOK, RequestsOK
    <2>4. /\ kr \in Request /\ RequestOK(kr) /\ kr.pc = "idle" /\ kr.registry = "none"
          /\ kr.answer = "ok" /\ kr.brand = B
      BY <1>2, <2>3 DEF Request, RequestOK, Answers
    <2>5. ASSUME NEW q \in Requests, q # r
          PROVE  /\ req'[q] \in Request /\ RequestOK(req'[q])
                 /\ req'[q].pc = req[q].pc /\ req'[q].registry = req[q].registry
                 /\ req'[q].brand = req[q].brand /\ req'[q].answer = req[q].answer
                 /\ req'[q].op = req[q].op /\ req'[q].copy = req[q].copy
                 /\ req'[q].expired = req[q].expired
                 /\ req[q].seen => req'[q].seen
                 /\ req[q].brand = B /\ req[q].pc # "idle" /\ row.st = "live" => req'[q].seen
      <3> HIDE DEF kr, row
      <3>1. CASE req[q].brand = B /\ req[q].pc # "idle"
        <4>1. req'[q] = kq(q)
          BY <2>1, <2>5, <3>1
        <4>2. /\ req'[q] = [req[q] EXCEPT !.seen = req[q].seen \/ row.st = "live"]
              /\ (req[q].seen \/ row.st = "live") \in BOOLEAN
          BY <4>1
        <4> HIDE DEF kq
        <4>3. /\ req'[q] \in Request
              /\ req'[q].pc = req[q].pc /\ req'[q].registry = req[q].registry
              /\ req'[q].brand = req[q].brand /\ req'[q].answer = req[q].answer
              /\ req'[q].op = req[q].op /\ req'[q].copy = req[q].copy
              /\ req'[q].expired = req[q].expired
              /\ req'[q].seen = (req[q].seen \/ row.st = "live")
          BY <2>3, <4>2 DEF Request
        <4> QED
          BY <2>3, <4>3 DEF RequestOK, Connecting, Making
      <3>2. CASE ~(req[q].brand = B /\ req[q].pc # "idle")
        BY <2>1, <2>3, <2>5, <3>2
      <3> QED
        BY <3>1, <3>2
    <2>6. req'[r] = kr
      BY <2>1
    <2>7. B \in Brands /\ binding \in [Brands -> Binding]
      BY <2>3 DEF Request, IInv, TypeOK
    <2> HIDE DEF kr, row, kq
    <2>8. TypeOK' /\ RequestsOK'
      BY <2>1, <2>2, <2>4, <2>5, <2>6, <2>7 DEF IInv, TypeOK, RequestsOK
    <2>9. RegistryHeld' /\ BindingHeld'
      <3>1. \A q \in Requests : /\ req'[q].registry \in {"none", req[q].registry}
                                /\ req'[q].pc \in {"idle", req[q].pc}
                                /\ req'[q].brand = req[q].brand
        BY <2>4, <2>5, <2>6
      <3>2. \A q \in Requests : req'[q].registry # "none" => q # r
        BY <2>4, <2>6
      <3>3. registered \in BOOLEAN
        BY DEF IInv, TypeOK
      <3>4. BindingHeld'
        BY <3>1 DEF IInv, BindingHeld
      <3>5. \A q \in Requests : req'[q].registry = "inserted" => ~registered'
        BY <2>1, <3>1, <3>2 DEF IInv, RegistryHeld
      <3>6. \A q \in Requests : req'[q].registry = "updated" \/ req'[q].pc = "touch" => registered'
        BY <2>1, <3>1 DEF IInv, RegistryHeld
      <3> QED
        BY <3>1, <3>4, <3>5, <3>6 DEF IInv, RegistryHeld
    <2>10. CopiesOK'
      <3> SUFFICES ASSUME NEW q \in Requests PROVE CopyOK(req'[q], binding'[req'[q].brand])
        BY DEF CopiesOK
      <3>1. CASE q = r
        BY <2>4, <2>6, <3>1 DEF CopyOK
      <3>2. CASE q # r /\ req[q].brand # B
        BY <2>1, <2>3, <2>5, <2>7, <3>2 DEF CopyOK, Connecting, Making, IInv, CopiesOK, Request
      <3>3. CASE q # r /\ req[q].brand = B
        <4>1. req[q].pc # "commit"
          BY <2>1, <3>3 DEF IInv, BindingHeld
        <4>2. req[q].pc = "reconnect" /\ ~req[q].expired => ~Connecting(req[r])
          BY <1>2, <2>1, <2>3, <3>3 DEF IInv, RegistryHeld, RequestOK
        <4>3. CopyOK(req[q], binding[B]) /\ RequestOK(req[q])
          BY <2>3, <3>3 DEF IInv, CopiesOK
        <4>4. binding'[B] = row /\ req'[q].brand = B
          BY <2>1, <2>5, <2>7, <3>3
        <4> QED
          BY <2>2, <2>5, <2>7, <3>3, <4>1, <4>2, <4>3, <4>4 DEF CopyOK, Connecting, Making, Binding
      <3> QED
        BY <3>1, <3>2, <3>3
    <2>11. Witnessed'
      <3> SUFFICES ASSUME NEW q \in Requests PROVE SeenOK(req'[q], binding'[req'[q].brand])
        BY DEF Witnessed
      <3>1. CASE q = r
        BY <2>4, <2>6, <3>1 DEF SeenOK
      <3>2. CASE q # r /\ req[q].brand # B
        BY <2>1, <2>3, <2>5, <2>7, <3>2 DEF SeenOK, IInv, Witnessed, Request
      <3>3. CASE q # r /\ req[q].brand = B
        BY <2>1, <2>2, <2>5, <2>7, <3>3 DEF SeenOK, IInv, Witnessed
      <3> QED
        BY <3>1, <3>2, <3>3
    <2>12. ConflictIsEarned'
      BY <2>4, <2>5, <2>6 DEF IInv, ConflictIsEarned
    <2>13. OwnedHasRights'
      BY <2>1, <2>2, <2>7 DEF IInv, OwnedHasRights
    <2> QED
      BY <2>8, <2>9, <2>10, <2>11, <2>12, <2>13 DEF IInv
  <1> QED
    BY <1>1, <1>2

LEMMA NextInv == IInv /\ [Next]_vars => IInv'
  <1> SUFFICES ASSUME IInv, [Next]_vars PROVE IInv'
    OBVIOUS
  <1>1. CASE UNCHANGED vars
    BY <1>1 DEF vars, IInv, TypeOK, RequestsOK, RegistryHeld, BindingHeld, CopiesOK,
                Witnessed, ConflictIsEarned, OwnedHasRights
  <1>2. ASSUME NEW r \in Requests, NEW op \in Ops, NEW b \in Brands, Start(r, op, b)
        PROVE  IInv'
    BY <1>2, StartInv
  <1>3. ASSUME NEW r \in Requests, Abort(r) PROVE IInv'
    BY <1>3, Ends DEF Abort, Answers
  <1> QED
    BY <1>1, <1>2, <1>3, RegistryInv, BindingInv, WriterInv, TelegramInv, CommitInv DEF Next

(* Every reachable state is type correct.                                  *)
THEOREM TypeCorrect == Spec => []TypeOK
  <1>1. IInv => TypeOK
    BY DEF IInv
  <1> QED
    BY <1>1, InitInv, NextInv, PTL DEF Spec

(* "Already connected" is only said when it is or was so, and a channel    *)
(* that counts as the brand's own has its rights recorded, however the     *)
(* requests of services/channels.py and competitors.py interleave.         *)
THEOREM BindingsAreSound == Spec => []BindingsSound
  <1>1. IInv => BindingsSound
    BY DEF IInv, BindingsSound
  <1> QED
    BY <1>1, InitInv, NextInv, PTL DEF Spec

(* No step turns a connected channel from the brand's own into a           *)
(* competitor, or back.                                                    *)
THEOREM RolesStable == Spec => LiveRoleStable
  <1>1. ASSUME IInv, [Next]_vars, NEW b \in Brands,
               binding[b].st = "live", binding'[b].st = "live"
        PROVE  binding'[b].role = binding[b].role
    <2>1. ASSUME NEW r \in Requests, Commit(r) PROVE binding'[b].role = binding[b].role
      <3>1. CASE req[r].expired
        BY <2>1, <3>1 DEF Commit
      <3>2. CASE ~req[r].expired
        <4>1. binding' = [binding EXCEPT ![req[r].brand] = Row(r)]
          BY <2>1, <3>2 DEF Commit
        <4>2. /\ binding[req[r].brand].st = "live" /\ Row(r).st = "live"
                   => Row(r).role = binding[req[r].brand].role
          BY <1>1, <2>1, <3>2, RowIs DEF Commit
        <4> QED
          BY <1>1, <4>1, <4>2 DEF IInv, TypeOK
      <3> QED
        BY <3>1, <3>2
    <2>2. ASSUME ~\E r \in Requests : Commit(r) PROVE UNCHANGED binding
      BY <1>1, <2>2 DEF Next, vars, Start, Probe, SelectRegistry, TouchRegistry, Register,
                        SelectBinding, Reconnect, InsertBinding, LoadBinding, Verify,
                        WriteBinding, Abort
    <2> QED
      BY <2>1, <2>2
  <1>2. IInv /\ [Next]_vars =>
          [\A b \in Brands : binding[b].st = "live" /\ binding'[b].st = "live"
                               => binding'[b].role = binding[b].role]_vars
    BY <1>1
  <1> QED
    BY <1>2, InitInv, NextInv, PTL DEF Spec, LiveRoleStable

=============================================================================
