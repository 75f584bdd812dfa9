------------------------------- MODULE Brands -------------------------------
(***************************************************************************)
(* The brands of one workspace, and the handlers that create, promote,     *)
(* delete and resolve them: services/brands.py as routes/brands.py and the *)
(* sign-in and active-brand dependencies call it.                          *)
(*                                                                         *)
(* Each handler is one READ COMMITTED transaction, cut at its statements.  *)
(* An ORM object keeps the columns it was loaded with. What a handler has  *)
(* written and not committed is in its record in `req'; its last UPDATE or *)
(* INSERT is one step with the commit that follows. Names, languages and   *)
(* timezones (and with them update_brand) are left out.                    *)
(***************************************************************************)
EXTENDS Naturals, FiniteSets

CONSTANTS
    Requests,       \* slots for handlers in flight
    MaxBrands,      \* limits.max_brands of the workspace's plan
    MaxIds,         \* bound: brands rows ever inserted
    Repaired        \* is_default of the first brand; FALSE: made before the column

ASSUME BrandsAssumption ==
    /\ IsFiniteSet(Requests)
    /\ MaxBrands \in Nat \ {0}
    /\ MaxIds \in Nat \ {0}
    /\ Repaired \subseteq BOOLEAN

Ids == 1..MaxIds

VARIABLES
    brands,     \* the brands table; ids in the order of created_at
    req,        \* the handlers in flight
    raced       \* history: two handlers have been in flight at once

vars == <<brands, req, raced>>

Brand == [st : {"free", "live", "deleted"}, is_default : BOOLEAN]

Pcs == {"idle", "look", "repair", "backfill", "demote", "demote_lock",
        "insert", "promote", "count", "delete", "failed"}

(* copy: is_default as the handler's Brand object has it. rows: the rows   *)
(* the statement under way is about. demoted, backfilled: uncommitted.     *)
Handler ==
    [op : {"none", "create", "default", "delete", "resolve"}, pc : Pcs,
     brand : Ids \cup {0}, copy : BOOLEAN, rows : SUBSET Ids,
     demoted : SUBSET Ids, backfilled : SUBSET Ids]

Idle == [op |-> "none", pc |-> "idle", brand |-> 0, copy |-> FALSE,
         rows |-> {}, demoted |-> {}, backfilled |-> {}]

Live == {i \in Ids : brands[i].st = "live"}

(* The default brand a transaction sees, with its own writes.              *)
Defaults(r) == {i \in Live \ req[r].demoted :
                  brands[i].is_default \/ i \in req[r].backfilled}

Locked(r) == req[r].demoted \cup req[r].backfilled

Unlocked(r, S) == \A q \in Requests \ {r} : S \cap Locked(q) = {}

(* What ux_brands_workspace_default holds against i for r: it indexes the  *)
(* deleted rows too, and an entry that another transaction made and undid  *)
(* until that transaction ends.                                            *)
Rivals(r, i) ==
    (UNION {({j \in Ids : brands[j].is_default} \cup req[r].backfilled) \ req[r].demoted,
            UNION {req[q].backfilled : q \in Requests \ {r}}}) \ {i}

(* A rival that another transaction is changing is waited for.             *)
IndexSettled(r, i) == Unlocked(r, Rivals(r, i))

Init ==
    /\ \E d \in Repaired :
         brands = [i \in Ids |-> IF i = 1 THEN [st |-> "live", is_default |-> d]
                                 ELSE [st |-> "free", is_default |-> FALSE]]
    /\ req = [r \in Requests |-> Idle]
    /\ raced = FALSE

Start(r, handler) ==
    /\ req[r].pc = "idle"
    /\ req' = [req EXCEPT ![r] = handler]
    /\ raced' = (raced \/ \E q \in Requests \ {r} : req[q].pc # "idle")
    /\ UNCHANGED brands

Goto(r, pc) == req' = [req EXCEPT ![r].pc = pc]
Answer(r) == req' = [req EXCEPT ![r] = Idle]

(* The commit: r's demotions and backfill, and `new' in place of row i.    *)
CommitWith(r, i, new) ==
    /\ brands' = [j \in Ids |->
         IF j = i THEN new
         ELSE IF j \in req[r].demoted THEN [brands[j] EXCEPT !.is_default = FALSE]
         ELSE IF j \in req[r].backfilled THEN [brands[j] EXCEPT !.is_default = TRUE]
         ELSE brands[j]]
    /\ Answer(r)

(* The statement makes row i default: the commit, or an IntegrityError and *)
(* a rollback.                                                             *)
CommitDefault(r, i, new) ==
    /\ IndexSettled(r, i)
    /\ IF Rivals(r, i) = {} THEN CommitWith(r, i, new)
       ELSE /\ req' = [req EXCEPT ![r] = [Idle EXCEPT !.op = req[r].op, !.pc = "failed"]]
            /\ UNCHANGED brands

-----------------------------------------------------------------------------
(* default_for_workspace: sign-in, get_active_brand, set_brand_default     *)

Resolve(r) == Start(r, [Idle EXCEPT !.op = "resolve", !.pc = "look"])

(* What set_default does once the route has looked up the default.         *)
Continue(r) ==
    IF req[r].op = "resolve" \/ req[r].copy THEN Answer(r) ELSE Goto(r, "demote")

(* The first SELECT: the default brand, if there is one.                   *)
DefaultForWorkspace(r) ==
    /\ req[r].pc = "look"
    /\ IF Defaults(r) # {} THEN Continue(r) ELSE Goto(r, "repair")
    /\ UNCHANGED <<brands, raced>>

Oldest(i) == i \in Live /\ \A j \in Live : i <= j

(* Fault: a workspace without a brand is not expected.                     *)
SelectOldestAlways(r) ==
    /\ req[r].pc = "repair"
    /\ \E i \in Ids \cup {0} :
        /\ Oldest(i) \/ (Live = {} /\ i = 0)
        /\ IF i # 0 /\ (IF i = req[r].brand THEN req[r].copy ELSE brands[i].is_default)
           THEN Continue(r)
           ELSE req' = [req EXCEPT ![r].pc = "backfill", ![r].rows = {i}]
    /\ UNCHANGED <<brands, raced>>

(* The second SELECT: the oldest brand, if there is one. An assignment     *)
(* that changes nothing in the loaded object writes nothing.               *)
SelectOldest(r) ==
    /\ req[r].pc = "repair"
    /\ \/ Live = {} /\ Continue(r)
       \/ \E i \in Ids :
            /\ Oldest(i)
            /\ IF IF i = req[r].brand THEN req[r].copy ELSE brands[i].is_default
               THEN Continue(r)
               ELSE req' = [req EXCEPT ![r].pc = "backfill", ![r].rows = {i}]
    /\ UNCHANGED <<brands, raced>>

(* UPDATE ... SET is_default WHERE id: a sign-in commits it next, and so   *)
(* does set_default when that is the brand to promote.                     *)
Backfill(r) ==
    /\ req[r].pc = "backfill"
    /\ Unlocked(r, req[r].rows)
    /\ \E i \in req[r].rows :
         IF req[r].op = "resolve" \/ i = req[r].brand \/ Rivals(r, i) # {}
         THEN CommitDefault(r, i, [brands[i] EXCEPT !.is_default = TRUE])
         ELSE /\ req' = [req EXCEPT ![r].pc = "demote", ![r].backfilled = {i}]
              /\ UNCHANGED brands
    /\ UNCHANGED raced

-----------------------------------------------------------------------------
(* POST /v1/brands                                                         *)

(* No row with id i or after it has been inserted, or soon will be.        *)
Unused(i) == \A j \in i..MaxIds : /\ brands[j].st = "free"
                                  /\ \A q \in Requests : req[q].brand # j

(* Fault: the quota may be exceeded by one.                                *)
CreateBrandOneMore(r, is_default) ==
    /\ Cardinality(Live) <= MaxBrands
    /\ \E i \in Ids :
        /\ Unused(i)
        /\ i = 1 \/ ~Unused(i - 1)
        /\ LET effective == is_default \/ Live = {} IN
           Start(r, [Idle EXCEPT !.op = "create", !.brand = i, !.copy = effective,
                                 !.pc = IF effective THEN "demote" ELSE "insert"])

(* The quota gate. The first brand is the default whatever was asked.      *)
CreateBrand(r, is_default) ==
    /\ Cardinality(Live) < MaxBrands
    /\ \E i \in Ids :
        /\ Unused(i)
        /\ i = 1 \/ ~Unused(i - 1)
        /\ LET effective == is_default \/ Live = {} IN
           Start(r, [Idle EXCEPT !.op = "create", !.brand = i, !.copy = effective,
                                 !.pc = IF effective THEN "demote" ELSE "insert"])

(* Fault: except_brand_id is the one brand that is demoted.                *)
ResetDefaultFlagOfBrand(r) ==
    /\ req[r].pc = "demote"
    /\ req' = [req EXCEPT ![r].pc = "demote_lock",
                          ![r].rows = Defaults(r) \cap {req[r].brand}]
    /\ UNCHANGED <<brands, raced>>

(* _reset_default_flag: the rows the UPDATE's snapshot has ...             *)
ResetDefaultFlag(r) ==
    /\ req[r].pc = "demote"
    /\ req' = [req EXCEPT ![r].pc = "demote_lock",
                          ![r].rows = Defaults(r) \ {req[r].brand}]
    /\ UNCHANGED <<brands, raced>>

(* ... which it locks, and looks at again when it had to wait.             *)
DemoteLocked(r) ==
    /\ req[r].pc = "demote_lock"
    /\ Unlocked(r, req[r].rows)
    /\ req' = [req EXCEPT
         ![r].pc = IF req[r].op = "create" THEN "insert" ELSE "promote",
         ![r].demoted = req[r].rows \cap Defaults(r),
         ![r].rows = {}]
    /\ UNCHANGED <<brands, raced>>

InsertBrand(r) ==
    /\ req[r].pc = "insert"
    /\ LET new == [st |-> "live", is_default |-> req[r].copy] IN
       IF req[r].copy THEN CommitDefault(r, req[r].brand, new)
                      ELSE CommitWith(r, req[r].brand, new)
    /\ UNCHANGED raced

-----------------------------------------------------------------------------
(* POST /v1/brands/{id}/default                                            *)

(* get_in_workspace. The route looks the previous default up next.         *)
SetBrandDefault(r, b) ==
    /\ b \in Live
    /\ Start(r, [Idle EXCEPT !.op = "default", !.pc = "look", !.brand = b,
                             !.copy = brands[b].is_default])

(* UPDATE ... SET is_default WHERE id: deleted_at is not looked at again.  *)
PromoteBrand(r) ==
    /\ req[r].pc = "promote"
    /\ Unlocked(r, {req[r].brand})
    /\ CommitDefault(r, req[r].brand, [brands[req[r].brand] EXCEPT !.is_default = TRUE])
    /\ UNCHANGED raced

-----------------------------------------------------------------------------
(* DELETE /v1/brands/{id}                                                  *)

DeleteBrand(r, b) ==
    /\ b \in Live
    /\ Start(r, [Idle EXCEPT !.op = "delete", !.pc = "count", !.brand = b,
                             !.copy = brands[b].is_default])

(* Fault: the last brand is let go.                                        *)
DeleteGuardsLast(r) ==
    /\ req[r].pc = "count"
    /\ IF Cardinality(Live) < 1 \/ req[r].copy THEN Answer(r) ELSE Goto(r, "delete")
    /\ UNCHANGED <<brands, raced>>

(* Fault: the default brand is let go.                                     *)
DeleteGuardsDefault(r) ==
    /\ req[r].pc = "count"
    /\ IF Cardinality(Live) <= 1 THEN Answer(r) ELSE Goto(r, "delete")
    /\ UNCHANGED <<brands, raced>>

(* Fault: the refusal of the last brand is never sent.                     *)
DeleteGuardsUnanswered(r) ==
    /\ req[r].pc = "count"
    /\ Cardinality(Live) > 1
    /\ IF req[r].copy THEN Answer(r) ELSE Goto(r, "delete")
    /\ UNCHANGED <<brands, raced>>

(* The last brand and the default brand are refused.                       *)
DeleteGuards(r) ==
    /\ req[r].pc = "count"
    /\ IF Cardinality(Live) <= 1 \/ req[r].copy THEN Answer(r) ELSE Goto(r, "delete")
    /\ UNCHANGED <<brands, raced>>

DeleteWrite(r) ==
    /\ req[r].pc = "delete"
    /\ Unlocked(r, {req[r].brand})
    /\ CommitWith(r, req[r].brand, [brands[req[r].brand] EXCEPT !.st = "deleted"])
    /\ UNCHANGED raced

-----------------------------------------------------------------------------
(* A handler raised: 500. The transaction has been rolled back.            *)
ServerError(r) ==
    /\ req[r].pc = "failed"
    /\ Answer(r)
    /\ UNCHANGED <<brands, raced>>

(* The process dies, the route does not commit (a GET that only needed the *)
(* active brand), or the database breaks a deadlock: a rollback.           *)
Abort(r) ==
    /\ req[r].pc \notin {"idle", "failed"}
    /\ Answer(r)
    /\ UNCHANGED <<brands, raced>>

Arrive(r) ==
    \/ Resolve(r)
    \/ \E d \in BOOLEAN : CreateBrand(r, d)
    \/ \E b \in Ids : SetBrandDefault(r, b) \/ DeleteBrand(r, b)

Step(r) ==
    \/ DefaultForWorkspace(r) \/ SelectOldest(r) \/ Backfill(r)
    \/ ResetDefaultFlag(r) \/ DemoteLocked(r) \/ InsertBrand(r) \/ PromoteBrand(r)
    \/ DeleteGuards(r) \/ DeleteWrite(r) \/ ServerError(r)

Next == \E r \in Requests : Arrive(r) \/ Step(r) \/ Abort(r)

Spec == Init /\ [][Next]_vars

(* As in Sessions: row locks are granted in queue order, but a newcomer    *)
(* may come first.                                                         *)
Fairness == \A r \in Requests : SF_vars(Step(r))

FairSpec == Spec /\ Fairness

-----------------------------------------------------------------------------
(* Properties                                                              *)

TypeOK ==
    /\ brands \in [Ids -> Brand]
    /\ req \in [Requests -> Handler]
    /\ raced \in BOOLEAN

(* create_brand's quota gate: exact while handlers do not overlap. When    *)
(* they do, each counts before the others insert, and the workspace goes   *)
(* over by at most one brand for every other handler in flight.            *)
QuotaHeld ==
    Cardinality(Live) <= MaxBrands + (IF raced THEN Cardinality(Requests) - 1 ELSE 0)

(* delete_brand's guards: with one handler at a time the workspace keeps a *)
(* brand, and with it something for channels and posts to hang off.        *)
KeepsBrand == ~raced => Live # {}

(* Demotion, promotion and deletion together, one handler at a time, never *)
(* leave a workspace without the default brand it had.                     *)
KeepsDefault ==
    [][~raced' /\ (\E i \in Live : brands[i].is_default)
          => \E i \in Ids : brands'[i].st = "live" /\ brands'[i].is_default]_vars

(* Clearing the old flag before the new one is set is enough: a handler    *)
(* that runs alone never trips ux_brands_workspace_default.                *)
AloneNoConflict == ~raced => \A r \in Requests : req[r].pc # "failed"

(* Handlers that wait for each other's rows or index entries all finish.   *)
HandlersFinish == \A r \in Requests : req[r].pc # "idle" ~> req[r].pc = "idle"

(* default_for_workspace's backfill is a safe write: resolving the default *)
(* brand, on which every sign-in depends, does not fail.                   *)
RepairSafe == \A r \in Requests : ~(req[r].op = "resolve" /\ req[r].pc = "failed")

=============================================================================
