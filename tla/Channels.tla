------------------------------ MODULE Channels ------------------------------
(***************************************************************************)
(* One Telegram channel: its row in the global registry (channels) and its *)
(* bindings to brands (workspace_channels), as written by                  *)
(* services/channels.py and services/competitors.py behind their routes.   *)
(*                                                                         *)
(* A request is one READ COMMITTED transaction cut at its statements.      *)
(* Nothing locks on purpose: what serialises the requests is the UPDATE of *)
(* the registry row, which is held until the commit, the row lock of the   *)
(* binding, and the two unique keys.                                       *)
(***************************************************************************)
EXTENDS Naturals

CONSTANTS
    Requests,       \* slots for requests in flight
    Brands,         \* brands, of one workspace or of several
    MaxCalls        \* bound: requests

ASSUME ChannelsAssumption == MaxCalls \in Nat

VARIABLES
    registered,     \* the registry row is committed
    binding,        \* committed workspace_channels row of each brand
    req,            \* the requests
    calls

vars == <<registered, binding, req, calls>>

(* st: no row, disconnected_at NULL or not. rights: bot_admin_rights # {}. *)
Binding == [st : {"none", "live", "detached"}, role : {"owned", "competitor"},
            rights : BOOLEAN]

NoBinding == [st |-> "none", role |-> "owned", rights |-> FALSE]

Ops == {"connect", "compete", "detach", "drop", "verify"}
Making(op) == op \in {"connect", "compete"}    \* makes a binding, or revives one

(* 502, 403 and 422 are one answer: Telegram refused.                      *)
Answers == {"none", "ok", "refused", "missing", "connected", "detached", "error"}

(* registry: what the request did to the registry row and has not          *)
(* committed. expired: a rollback has expired the User the session loaded. *)
(* copy: the binding as loaded. seen: history, the binding was live at     *)
(* some time since the request began.                                      *)
Request == [op : Ops, brand : Brands, copy : Binding,
            pc : {"idle", "probe", "registry", "touch", "register", "select", "load",
                  "bind", "reconnect", "verify", "write", "commit"},
            registry : {"none", "inserted", "updated"},
            expired : BOOLEAN, seen : BOOLEAN,
            answer : Answers]

Fresh(op, b) == [op |-> op, brand |-> b, copy |-> NoBinding, pc |-> "idle",
                 registry |-> "none", expired |-> FALSE, seen |-> FALSE, answer |-> "none"]

Init ==
    /\ registered = FALSE
    /\ binding = [b \in Brands |-> NoBinding]
    /\ \E b \in Brands : req = [r \in Requests |-> Fresh("connect", b)]
    /\ calls = 0

Goto(r, pc) == req' = [req EXCEPT ![r].pc = pc]

(* The end of a request that has not committed: a rollback.                *)
Answer(r, answer) == req' = [req EXCEPT ![r].pc = "idle", ![r].registry = "none",
                                        ![r].expired = FALSE, ![r].answer = answer]

Others(r) == Requests \ {r}

RegistryFree(r, how) == \A q \in Others(r) : req[q].registry \notin how

(* No other request has an uncommitted write to the brand's binding.       *)
BindingFree(r) == \A q \in Others(r) : ~(req[q].pc = "commit" /\ req[q].brand = req[r].brand)

Start(r, op, b) ==
    /\ req[r].pc = "idle" /\ calls < MaxCalls
    /\ calls' = calls + 1
    /\ req' = [req EXCEPT ![r] =
                 [Fresh(op, b) EXCEPT
                    !.pc = IF Making(op) THEN "probe" ELSE "load",
                    !.seen = binding[b].st = "live"]]
    /\ UNCHANGED <<registered, binding>>

-----------------------------------------------------------------------------
(* POST .../channels (connect) and POST .../competitors (compete)          *)

(* Telegram knows the channel, and it is public or the bot its admin.      *)
Probe(r) ==
    /\ req[r].pc = "probe"
    /\ Goto(r, "registry") \/ Answer(r, "refused")
    /\ UNCHANGED <<registered, binding, calls>>

(* _upsert_registry's SELECT.                                              *)
SelectRegistry(r) ==
    /\ req[r].pc = "registry"
    /\ Goto(r, IF registered THEN "touch" ELSE "register")
    /\ UNCHANGED <<registered, binding, calls>>

(* Fault: the row is only read, or written if it differs.                  *)
TouchRegistryUnlocked(r) ==
    /\ req[r].pc = "touch"
    /\ Goto(r, "select")
    /\ UNCHANGED <<registered, binding, calls>>

(* The UPDATE: last_seen_at always changes.                                *)
TouchRegistry(r) ==
    /\ req[r].pc = "touch"
    /\ RegistryFree(r, {"updated"})
    /\ req' = [req EXCEPT ![r].pc = "select", ![r].registry = "updated"]
    /\ UNCHANGED <<registered, binding, calls>>

(* The INSERT waits for another one; if that commits, IntegrityError: a    *)
(* rollback of the whole transaction, and the winner's row.                *)
Register(r) ==
    /\ req[r].pc = "register"
    /\ RegistryFree(r, {"inserted"})
    /\ req' = IF registered THEN [req EXCEPT ![r].pc = "select", ![r].expired = TRUE]
              ELSE [req EXCEPT ![r].pc = "select", ![r].registry = "inserted"]
    /\ UNCHANGED <<registered, binding, calls>>

SelectBinding(r) ==
    /\ req[r].pc = "select"
    /\ LET b == binding[req[r].brand] IN
        CASE b.st = "live"     -> Answer(r, "connected")
          [] b.st = "detached" -> req' = [req EXCEPT ![r].pc = "reconnect", ![r].copy = b]
          [] b.st = "none"     -> Goto(r, "bind")
    /\ UNCHANGED <<registered, binding, calls>>

Reconnect(r) ==
    /\ req[r].pc = "reconnect"
    /\ BindingFree(r)
    /\ Goto(r, "commit")
    /\ UNCHANGED <<registered, binding, calls>>

(* The INSERT waits for another one; if that commits, a 409.               *)
InsertBinding(r) ==
    /\ req[r].pc = "bind"
    /\ BindingFree(r)
    /\ IF binding[req[r].brand].st # "none" THEN Answer(r, "connected") ELSE Goto(r, "commit")
    /\ UNCHANGED <<registered, binding, calls>>

-----------------------------------------------------------------------------
(* DELETE .../channels/{id} (detach, of either role), DELETE               *)
(* .../competitors/{id} (drop), POST .../channels/{id}/verify              *)

LoadBinding(r) ==
    /\ req[r].pc = "load"
    /\ LET b == binding[req[r].brand] IN
        IF b.st = "none" \/ (req[r].op = "drop" /\ b.role # "competitor")
        THEN Answer(r, "missing")
        ELSE IF b.st = "detached" THEN Answer(r, "detached")
        ELSE Goto(r, IF req[r].op = "verify" THEN "verify" ELSE "write")
    /\ UNCHANGED <<registered, binding, calls>>

(* The bot is still an admin, or Telegram refuses.                         *)
Verify(r) ==
    /\ req[r].pc = "verify"
    /\ Goto(r, "write") \/ Answer(r, "refused")
    /\ UNCHANGED <<registered, binding, calls>>

WriteBinding(r) ==
    /\ req[r].pc = "write"
    /\ BindingFree(r)
    /\ Goto(r, "commit")
    /\ UNCHANGED <<registered, binding, calls>>

-----------------------------------------------------------------------------

Created(op) == [st |-> "live", role |-> IF op = "compete" THEN "competitor" ELSE "owned",
                rights |-> op = "connect"]

(* Fault: a reconnect makes the channel the brand's own and keeps the      *)
(* rights the row had.                                                     *)
RowKeepsRights(r) ==
    LET b == binding[req[r].brand]  op == req[r].op  copy == req[r].copy IN
    CASE op \in {"detach", "drop"} -> [b EXCEPT !.st = "detached"]
      [] op = "verify" -> [b EXCEPT !.rights = TRUE]
      [] Making(op) /\ copy.st = "none" -> Created(op)
      [] op = "connect" /\ copy.st # "none" -> [b EXCEPT !.st = "live", !.role = "owned"]
      [] op = "compete" /\ copy.st # "none" ->
           [st |-> "live", role |-> "competitor", rights |-> FALSE]

(* Only columns that differ from the loaded copy are written.              *)
Row(r) ==
    LET b == binding[req[r].brand]  op == req[r].op  copy == req[r].copy IN
    CASE op \in {"detach", "drop"} -> [b EXCEPT !.st = "detached"]
      [] op = "verify" -> [b EXCEPT !.rights = TRUE]
      [] Making(op) /\ copy.st = "none" -> Created(op)
      [] op = "connect" /\ copy.st # "none" -> [b EXCEPT !.st = "live", !.rights = TRUE]
      [] op = "compete" /\ copy.st # "none" ->
           [st |-> "live",
            role |-> IF copy.role = "owned" THEN "competitor" ELSE b.role,
            rights |-> b.rights /\ ~copy.rights]

(* The audit row reads user.id: on an expired User that is a MissingGreenlet*)
(* error, a 500, and nothing is kept.                                      *)
Commit(r) ==
    /\ req[r].pc = "commit"
    /\ IF req[r].expired
       THEN Answer(r, "error") /\ UNCHANGED <<registered, binding>>
       ELSE LET b == req[r].brand  row == Row(r) IN
            /\ registered' = (registered \/ req[r].registry = "inserted")
            /\ binding' = [binding EXCEPT ![b] = row]
            /\ req' = [q \in Requests |->
                         IF q = r THEN [req[r] EXCEPT !.pc = "idle", !.registry = "none",
                                                      !.answer = "ok"]
                         ELSE IF req[q].brand = b /\ req[q].pc # "idle"
                         THEN [req[q] EXCEPT !.seen = @ \/ row.st = "live"]
                         ELSE req[q]]
    /\ UNCHANGED calls

(* A statement fails or the process stops.                                 *)
Abort(r) ==
    /\ req[r].pc # "idle"
    /\ Answer(r, "none")
    /\ UNCHANGED <<registered, binding, calls>>

Next == \E r \in Requests :
    \/ \E op \in Ops, b \in Brands : Start(r, op, b)
    \/ Probe(r) \/ SelectRegistry(r) \/ TouchRegistry(r) \/ Register(r)
    \/ SelectBinding(r) \/ Reconnect(r) \/ InsertBinding(r)
    \/ LoadBinding(r) \/ Verify(r) \/ WriteBinding(r) \/ Commit(r) \/ Abort(r)

Spec == Init /\ [][Next]_vars

-----------------------------------------------------------------------------
(* Types.                                                                  *)
TypeOK ==
    /\ registered \in BOOLEAN /\ binding \in [Brands -> Binding]
    /\ req \in [Requests -> Request] /\ calls \in 0..MaxCalls

(* A channel never turns from the brand's own into a competitor, or back,  *)
(* while it is connected: a reconnect that read `detached' still finds it  *)
(* so, because every connect holds the registry row while it decides.      *)
LiveRoleStable ==
    [][\A b \in Brands :
         binding[b].st = "live" /\ binding'[b].st = "live" => binding'[b].role = binding[b].role]_vars

(* "Already connected" is said only to a request during which the channel  *)
(* was connected to that brand, whichever of the unique keys said so.      *)
ConflictIsEarned == \A r \in Requests : req[r].answer = "connected" => req[r].seen

(* A channel that counts as the brand's own has had its rights recorded,   *)
(* through every sequence of detaching, dropping and reconnecting.         *)
OwnedHasRights ==
    \A b \in Brands : binding[b].st # "none" /\ binding[b].role = "owned" => binding[b].rights

BindingsSound == ConflictIsEarned /\ OwnedHasRights

=============================================================================
