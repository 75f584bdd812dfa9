------------------------------ MODULE Tenancy ------------------------------
(***************************************************************************)
(* Accounts and the identity a database session acts under: sign-up        *)
(* (services/auth.py, services/workspaces.py), sign-in and the admission   *)
(* of an authenticated request (api/deps.py) over a pool of connections    *)
(* whose transactions are pinned with SET LOCAL (db/rls.py).               *)
(*                                                                         *)
(* A request is cut at its statements and at its Redis commands. Every     *)
(* user has at most one workspace, which is named by its owner.            *)
(***************************************************************************)
EXTENDS Naturals

CONSTANTS
    Requests,       \* slots for requests in flight
    Users,          \* users, each of one e-mail address
    Conns,          \* connections of the pool
    MaxCalls        \* bound: requests

VARIABLES
    enforced,   \* the policies bind the role the backend connects as
    rows,       \* the committed rows of each user
    left,       \* users whose membership row was deleted
    signed,     \* users who hold an access token
    entry,      \* the cached memberships of each user
    guc,        \* the settings app.current_* of each connection
    req, calls

vars == <<enforced, rows, left, signed, entry, guc, req, calls>>

Tables == {"user", "workspace", "member", "brand"}

Nobody == "nobody"
NoConn == "none"

Guc == [user : Users \cup {Nobody}, tenant : Users \cup {Nobody}]
Unpinned == [user |-> Nobody, tenant |-> Nobody]

(* new: rows inserted and not committed. kept: the request has committed.  *)
Request == [op : {"register", "signin", "use"}, user : Users,
            pc : {"idle", "lookup", "insert", "claim", "find", "create", "workspace", "enter",
                  "rest", "forget", "cache", "members", "fill", "tenant", "commit", "audit",
                  "reread"},
            conn : Conns \cup {NoConn}, new : SUBSET Tables, found : BOOLEAN, kept : BOOLEAN,
            answer : {"none", "ok", "taken", "refused", "unauthenticated", "error"}]

Fresh(op, u) == [op |-> op, user |-> u, pc |-> "lookup", conn |-> NoConn, new |-> {},
                 found |-> FALSE, kept |-> FALSE, answer |-> "none"]

Init ==
    /\ enforced \in BOOLEAN
    /\ rows \in [Users -> {{}, Tables}]
    /\ left = {} /\ signed = {u \in Users : rows[u] # {}}
    /\ entry = [u \in Users |-> "absent"]
    /\ guc = [c \in Conns |-> Unpinned]
    /\ \E u \in Users : req = [r \in Requests |-> [Fresh("use", u) EXCEPT !.pc = "idle"]]
    /\ calls = 0

(* Fault: SET without LOCAL outlives the transaction.                      *)
ReleasedPinned(r) == guc

(* The end of a transaction: SET LOCAL ends with it.                       *)
Released(r) == [c \in Conns |-> IF c = req[r].conn THEN Unpinned ELSE guc[c]]

Goto(r, pc) == req' = [req EXCEPT ![r].pc = pc]

(* The end of a request; what it has not committed is rolled back.         *)
Answer(r, answer) ==
    /\ req' = [req EXCEPT ![r].pc = "idle", ![r].conn = NoConn, ![r].new = {},
                          ![r].answer = answer]
    /\ guc' = Released(r)

Ready(r, pcs) == req[r].pc \in pcs /\ req[r].conn # NoConn

Held(r, t) == \E q \in Requests \ {r} : req[q].user = req[r].user /\ t \in req[q].new

(* The policies: a workspace and a membership are seen by their user or in *)
(* their tenant, a brand in its tenant only; users have no policy.         *)
Sees(r, t) ==
    LET u == req[r].user  g == guc[req[r].conn] IN
    /\ t \in rows[u] \cup req[r].new
    /\ enforced => CASE t = "user"                   -> TRUE
                     [] t \in {"workspace", "member"} -> u \in {g.user, g.tenant}
                     [] t = "brand"                  -> u = g.tenant

Start(r, op, u) ==
    /\ req[r].pc = "idle" /\ calls < MaxCalls
    /\ op = "use" => u \in signed
    /\ calls' = calls + 1
    /\ req' = [req EXCEPT ![r] = Fresh(op, u)]
    /\ UNCHANGED <<enforced, rows, left, signed, entry, guc>>

(* The first statement of a transaction takes a connection of the pool.    *)
Checkout(r) ==
    /\ req[r].pc # "idle" /\ req[r].conn = NoConn
    /\ \E c \in Conns \ {req[q].conn : q \in Requests} : req' = [req EXCEPT ![r].conn = c]
    /\ UNCHANGED <<enforced, rows, left, signed, entry, guc, calls>>

(* The User: by e-mail for a sign-up (409 if found) and a sign-in, by the  *)
(* token's subject otherwise.                                              *)
Lookup(r) ==
    LET known == Sees(r, "user")  op == req[r].op IN
    /\ Ready(r, {"lookup"})
    /\ \/ op = "register" /\ known /\ Answer(r, "taken")
       \/ op = "register" /\ ~known /\ Goto(r, "insert") /\ UNCHANGED guc
       \/ op = "signin" /\ ~known /\ Answer(r, "refused")
       \/ op = "signin" /\ known /\ Goto(r, "claim") /\ UNCHANGED guc
       \/ op = "use" /\ Goto(r, "cache") /\ UNCHANGED guc
    /\ UNCHANGED <<enforced, rows, left, signed, entry, calls>>

(* The INSERT waits for another one of that e-mail; if it commits, a 500.  *)
InsertUser(r) ==
    /\ Ready(r, {"insert"}) /\ ~Held(r, "user")
    /\ IF "user" \in rows[req[r].user] THEN Answer(r, "error")
       ELSE /\ req' = [req EXCEPT ![r].pc = "find", ![r].new = {"user"}]
            /\ UNCHANGED guc
    /\ UNCHANGED <<enforced, rows, left, signed, entry, calls>>

-----------------------------------------------------------------------------
(* current_for_user, ensure_default                                        *)

(* set_rls_context with no tenant, and with the workspace as the tenant.   *)
PinUser(r) ==
    LET u == req[r].user IN
    /\ Ready(r, {"claim", "create"})
    /\ guc' = [guc EXCEPT ![req[r].conn] = [user |-> u, tenant |-> Nobody]]
    /\ Goto(r, IF req[r].pc = "claim" THEN "find" ELSE "workspace")
    /\ UNCHANGED <<enforced, rows, left, signed, entry, calls>>

PinTenant(r) ==
    LET u == req[r].user IN
    /\ Ready(r, {"enter", "tenant"})
    /\ guc' = [guc EXCEPT ![req[r].conn] = [user |-> u, tenant |-> u]]
    /\ Goto(r, IF req[r].pc = "enter" THEN "rest" ELSE "commit")
    /\ UNCHANGED <<enforced, rows, left, signed, entry, calls>>

(* _get_default. A sign-up asks again after its commits, for the event.    *)
Find(r) ==
    /\ Ready(r, {"find"})
    /\ IF ~Sees(r, "workspace") THEN Goto(r, "create") /\ UNCHANGED guc
       ELSE IF req[r].op = "register" THEN Answer(r, "ok")
       ELSE Goto(r, "tenant") /\ UNCHANGED guc
    /\ UNCHANGED <<enforced, rows, left, signed, entry, calls>>

(* If the workspace exists, seen or not: IntegrityError and a rollback,    *)
(* after which user.id of the expired User cannot be loaded: a 500.        *)
InsertWorkspace(r) ==
    /\ Ready(r, {"workspace"}) /\ ~Held(r, "workspace")
    /\ IF "workspace" \in rows[req[r].user] THEN Answer(r, "error")
       ELSE /\ req' = [req EXCEPT ![r].pc = "enter", ![r].new = @ \cup {"workspace"}]
            /\ UNCHANGED guc
    /\ UNCHANGED <<enforced, rows, left, signed, entry, calls>>

InsertRest(r) ==
    /\ Ready(r, {"rest"})
    /\ req' = [req EXCEPT ![r].pc = "forget", ![r].new = @ \cup {"member", "brand"}]
    /\ UNCHANGED <<enforced, rows, left, signed, entry, guc, calls>>

(* memberships_cache.invalidate, best effort, before the commit. A         *)
(* workspace made just now is not the one that an access token names.      *)
Forget(r) ==
    /\ Ready(r, {"forget"})
    /\ \/ entry' = [entry EXCEPT ![req[r].user] = "absent"]
       \/ UNCHANGED entry
    /\ CASE req[r].op = "register" -> Goto(r, "commit") /\ UNCHANGED guc
         [] req[r].op = "signin"   -> Goto(r, "tenant") /\ UNCHANGED guc
         [] req[r].op = "use"      -> Answer(r, "unauthenticated")
    /\ UNCHANGED <<enforced, rows, left, signed, calls>>

-----------------------------------------------------------------------------
(* get_current_user: the memberships, and the owner of record              *)

(* The GET; if Redis fails it counts as a miss.                            *)
Cached(r) ==
    LET e == entry[req[r].user] IN
    /\ Ready(r, {"cache"})
    /\ \/ e = "member" /\ Goto(r, "tenant")
       \/ e = "empty" /\ Goto(r, "find")
       \/ Goto(r, "members")
    /\ UNCHANGED <<enforced, rows, left, signed, entry, guc, calls>>

LoadMembers(r) ==
    /\ Ready(r, {"members"})
    /\ req' = [req EXCEPT ![r].pc = "fill", ![r].found = Sees(r, "member")]
    /\ UNCHANGED <<enforced, rows, left, signed, entry, guc, calls>>

(* The SET, best effort. A list without the claimed workspace is not the   *)
(* last word: an owner is admitted without a membership.                   *)
Fill(r) ==
    LET list == IF req[r].found THEN "member" ELSE "empty" IN
    /\ Ready(r, {"fill"})
    /\ \/ entry' = [entry EXCEPT ![req[r].user] = list]
       \/ UNCHANGED entry
    /\ Goto(r, IF req[r].found THEN "tenant" ELSE "find")
    /\ UNCHANGED <<enforced, rows, left, signed, guc, calls>>

-----------------------------------------------------------------------------

(* A sign-up commits twice, the account and then its audit event; some     *)
(* handlers go on to read a row of the tenant after their commit.          *)
Commit(r) ==
    LET q == req[r] IN
    /\ Ready(r, {"commit", "audit"})
    /\ rows' = [rows EXCEPT ![q.user] = @ \cup q.new]
    /\ signed' = IF q.op = "signin" THEN signed \cup {q.user} ELSE signed
    /\ guc' = Released(r)
    /\ LET committed == [q EXCEPT !.conn = NoConn, !.new = {}, !.kept = TRUE] IN
       \/ /\ q.op = "register"
          /\ req' = [req EXCEPT ![r] = [committed EXCEPT
                                          !.pc = IF q.pc = "commit" THEN "audit" ELSE "find"]]
       \/ q.op # "register" /\ req' = [req EXCEPT ![r] = [committed EXCEPT !.pc = "idle", !.answer = "ok"]]
       \/ q.op = "use" /\ req' = [req EXCEPT ![r] = [committed EXCEPT !.pc = "reread"]]
    /\ UNCHANGED <<enforced, left, entry, calls>>

(* The refresh of a row in a new transaction, which nothing has pinned.    *)
Reread(r) ==
    /\ Ready(r, {"reread"})
    /\ Answer(r, IF Sees(r, "brand") THEN "ok" ELSE "error")
    /\ UNCHANGED <<enforced, rows, left, signed, entry, calls>>

(* A statement fails, or the process stops.                                *)
Abort(r) ==
    /\ req[r].pc # "idle"
    /\ Answer(r, "none")
    /\ UNCHANGED <<enforced, rows, left, signed, entry, calls>>

(* memberships.remove of the owner's own row.                              *)
Remove(u) ==
    /\ "member" \in rows[u]
    /\ rows' = [rows EXCEPT ![u] = @ \ {"member"}]
    /\ left' = left \cup {u}
    /\ entry' = [entry EXCEPT ![u] = "absent"]
    /\ UNCHANGED <<enforced, signed, guc, req, calls>>

Expire(u) ==
    /\ entry[u] # "absent"
    /\ entry' = [entry EXCEPT ![u] = "absent"]
    /\ UNCHANGED <<enforced, rows, left, signed, guc, req, calls>>

Next ==
    \/ \E r \in Requests :
        \/ \E op \in {"register", "signin", "use"}, u \in Users : Start(r, op, u)
        \/ Checkout(r) \/ Lookup(r) \/ InsertUser(r) \/ PinUser(r) \/ PinTenant(r)
        \/ Find(r) \/ InsertWorkspace(r) \/ InsertRest(r) \/ Forget(r)
        \/ Cached(r) \/ LoadMembers(r) \/ Fill(r) \/ Commit(r) \/ Reread(r) \/ Abort(r)
    \/ \E u \in Users : Remove(u) \/ Expire(u)

Spec == Init /\ [][Next]_vars

-----------------------------------------------------------------------------
(* Types.                                                                  *)
TypeOK ==
    /\ enforced \in BOOLEAN /\ rows \in [Users -> SUBSET Tables]
    /\ left \subseteq Users /\ signed \subseteq Users
    /\ entry \in [Users -> {"absent", "empty", "member"}]
    /\ guc \in [Conns -> Guc] /\ req \in [Requests -> Request] /\ calls \in 0..MaxCalls

(* services/auth.py: "a successful sign-up always produces a workspace the *)
(* rest of the app can scope to": no crash and no rival request leaves an  *)
(* account without its workspace, its default brand and its membership.    *)
WholeAccounts ==
    \A u \in Users : "user" \in rows[u] =>
        {"workspace", "brand"} \subseteq rows[u] /\ ("member" \in rows[u] \/ u \in left)

(* No statement runs under what another request set on its connection.     *)
OwnIdentity ==
    \A r \in Requests : req[r].conn # NoConn =>
        /\ guc[req[r].conn].user \in {Nobody, req[r].user}
        /\ guc[req[r].conn].tenant \in {Nobody, req[r].user}

(* api/deps.py: "Owner-of-record is always considered a member", whatever  *)
(* the cache and the membership table say; and where the policies do not   *)
(* bind, no sign-up that has created an account ends in a server error.    *)
OwnersAdmitted ==
    \A r \in Requests :
        /\ req[r].answer # "unauthenticated"
        /\ ~enforced => ~(req[r].kept /\ req[r].answer = "error")

AccountsHold == WholeAccounts /\ OwnIdentity /\ OwnersAdmitted

=============================================================================
