------------------------------ MODULE Sessions ------------------------------
(***************************************************************************)
(* Sign-in sessions of the backend: refresh-token rows, token versions,    *)
(* access and MFA tokens, and the HTTP handlers that read and write them.  *)
(*                                                                         *)
(* A handler is one READ COMMITTED transaction (two for /mfa/disable), cut *)
(* where it awaits the database: every SELECT sees what is committed then, *)
(* an ORM attribute read earlier keeps its value, an UPDATE locks the rows *)
(* it changes until the commit, and an INSERT is invisible until then.     *)
(* Requests is the set of handlers that can be in flight at once.          *)
(***************************************************************************)
EXTENDS Naturals, FiniteSets

CONSTANTS
    Users, NoUser,       \* users.id, and the absent user
    Requests,            \* slots for handlers in flight
    Resets, NoReset,     \* password-reset tokens
    MaxRows,             \* bound: refresh_tokens rows ever inserted
    MaxVersion,          \* bound: token_version at which no more bump starts
    Handlers             \* the endpoints this instance exposes

ASSUME SessionsAssumption ==
    /\ NoUser \notin Users
    /\ NoReset \notin Resets
    /\ MaxRows \in Nat
    /\ MaxVersion \in Nat

RowIds == 1..MaxRows

VARIABLES
    users,      \* status, token_version and 2FA enrolment of each user
    rows,       \* the refresh_tokens table
    resets,     \* the password_resets table
    access,     \* access tokens at clients: <<user, tv claim>>
    mfaTokens,  \* mfa tokens at clients: <<user, tv claim>>
    req         \* the handlers in flight

vars == <<users, rows, resets, access, mfaTokens, req>>

Claims == Users \X Nat

-----------------------------------------------------------------------------
(* The tables. A row is pending from its INSERT to the commit, live while  *)
(* revoked_at is NULL. `gen' is history, not a column: the token_version   *)
(* under which the credentials that opened the family were checked.        *)

RefreshToken ==
    [st : {"free", "pending", "live", "revoked"}, user : Users \cup {NoUser},
     family : RowIds \cup {0}, parent : RowIds \cup {0},
     replaced_by : RowIds \cup {0}, expired : BOOLEAN, gen : Nat]

FreeRow ==
    [st |-> "free", user |-> NoUser, family |-> 0, parent |-> 0,
     replaced_by |-> 0, expired |-> FALSE, gen |-> 0]

User == [status : {"active", "blocked"}, tv : Nat, mfa : BOOLEAN]

PasswordReset ==
    [st : {"unissued", "open", "expired", "consumed"}, user : Users \cup {NoUser}]

Pcs == {"idle", "select_user", "issue", "issued", "wipe", "revoke_all",
        "bump", "late", "revoked", "mfa", "disable_check", "disable",
        "disabled_already", "enroll"}

Handler ==
    [pc : Pcs, user : Users \cup {NoUser}, parent : RowIds \cup {0},
     new : RowIds \cup {0}, family : RowIds \cup {0}, touched : SUBSET RowIds,
     reset : Resets \cup {NoReset}, tv : Nat, gen : Nat]

Idle ==
    [pc |-> "idle", user |-> NoUser, parent |-> 0, new |-> 0, family |-> 0,
     touched |-> {}, reset |-> NoReset, tv |-> 0, gen |-> 0]

Committed(i) == rows[i].st \in {"live", "revoked"}
LiveOf(u) == {i \in RowIds : rows[i].st = "live" /\ rows[i].user = u}
LiveIn(f) == {i \in RowIds : rows[i].st = "live" /\ rows[i].family = f}

(* No other transaction holds the lock of a row in S.                      *)
Unlocked(r, S) == \A q \in Requests \ {r} : S \cap req[q].touched = {}

(* What an UPDATE ... SET revoked_at of the rows S leaves.                 *)
Revoke(S) == [i \in RowIds |-> IF i \in S THEN [rows[i] EXCEPT !.st = "revoked"]
                                          ELSE rows[i]]

(* deps.get_current_user: the token's tv claim equals the stored version.  *)
Authenticated(u, v) ==
    /\ <<u, v>> \in access
    /\ users[u].status = "active"
    /\ users[u].tv = v

Enabled(h, r) == h \in Handlers /\ req[r].pc = "idle"

(* Bound: a handler that will insert starts only if a row is left for it.  *)
RoomForRow ==
    Cardinality({i \in RowIds : rows[i].st = "free"})
        > Cardinality({q \in Requests : req[q].pc \in {"select_user", "issue", "mfa"}})

(* Bound: no bump starts at MaxVersion.                                    *)
RoomForBump(u) == users[u].tv < MaxVersion

Init ==
    /\ users = [u \in Users |-> [status |-> "active", tv |-> 0, mfa |-> FALSE]]
    /\ rows = [i \in RowIds |-> FreeRow]
    /\ resets = [p \in Resets |-> [st |-> "unissued", user |-> NoUser]]
    /\ access = {}
    /\ mfaTokens = {}
    /\ req = [r \in Requests |-> Idle]

-----------------------------------------------------------------------------
(* Sign-in                                                                 *)

(* POST /login without 2FA: the password matched.                          *)
LoginPassword(r, u) ==
    /\ Enabled("login", r)
    /\ RoomForRow
    /\ users[u].status = "active"
    /\ ~users[u].mfa
    /\ req' = [req EXCEPT ![r] = [Idle EXCEPT !.pc = "issue", !.user = u,
                                    !.tv = users[u].tv, !.gen = users[u].tv]]
    /\ UNCHANGED <<users, rows, resets, access, mfaTokens>>

(* POST /login with 2FA: only an mfa token is handed out.                  *)
LoginChallenge(u) ==
    /\ "login_mfa" \in Handlers
    /\ users[u].status = "active"
    /\ users[u].mfa
    /\ mfaTokens' = mfaTokens \cup {<<u, users[u].tv>>}
    /\ UNCHANGED <<users, rows, resets, access, req>>

(* POST /login/mfa: the token's tv is checked against the user read now... *)
LoginMfa(r, u, v) ==
    /\ Enabled("login_mfa", r)
    /\ RoomForRow
    /\ <<u, v>> \in mfaTokens
    /\ users[u].status = "active"
    /\ users[u].tv = v
    /\ users[u].mfa
    /\ req' = [req EXCEPT ![r] = [Idle EXCEPT !.pc = "mfa", !.user = u, !.gen = v]]
    /\ UNCHANGED <<users, rows, resets, access, mfaTokens>>

(* ... and totp.verify commits and refreshes it: the session is minted at  *)
(* whatever version it has by then.                                        *)
LoginMfaVerified(r) ==
    /\ req[r].pc = "mfa"
    /\ req' = [req EXCEPT ![r].pc = "issue", ![r].tv = users[req[r].user].tv]
    /\ UNCHANGED <<users, rows, resets, access, mfaTokens>>

(* Fault: a rotation opens a family of its own.                            *)
PersistOwnFamily(r) ==
    /\ req[r].pc = "issue"
    /\ \E i \in RowIds :
        /\ rows[i].st = "free"
        /\ rows' = [rows EXCEPT ![i] =
             [FreeRow EXCEPT !.st = "pending", !.user = req[r].user,
                             !.gen = req[r].gen, !.parent = req[r].parent,
                             !.family = i]]
        /\ req' = [req EXCEPT ![r].pc = "issued", ![r].new = i]
    /\ UNCHANGED <<users, resets, access, mfaTokens>>

(* _persist: the INSERT is flushed, not committed.                         *)
Persist(r) ==
    /\ req[r].pc = "issue"
    /\ \E i \in RowIds :
        /\ rows[i].st = "free"
        /\ \A j \in RowIds : rows[j].st = "free" => i <= j
        /\ rows' = [rows EXCEPT ![i] =
             [FreeRow EXCEPT
                !.st = "pending", !.user = req[r].user, !.gen = req[r].gen,
                !.parent = req[r].parent,
                !.family = IF req[r].parent = 0 THEN i
                                                ELSE rows[req[r].parent].family]]
        /\ req' = [req EXCEPT ![r].pc = "issued", ![r].new = i]
    /\ UNCHANGED <<users, resets, access, mfaTokens>>

(* Fault: the access token is minted without its tv claim.                 *)
LoginCommitNoClaim(r) ==
    /\ req[r].pc = "issued"
    /\ req[r].parent = 0
    /\ rows' = [rows EXCEPT ![req[r].new].st = "live"]
    /\ access' = access \cup {<<req[r].user>>}
    /\ req' = [req EXCEPT ![r] = Idle]
    /\ UNCHANGED <<users, resets, mfaTokens>>

(* The commit of a sign-in. The access token carries the version read.     *)
LoginCommit(r) ==
    /\ req[r].pc = "issued"
    /\ req[r].parent = 0
    /\ rows' = [rows EXCEPT ![req[r].new].st = "live"]
    /\ access' = access \cup {<<req[r].user, req[r].tv>>}
    /\ req' = [req EXCEPT ![r] = Idle]
    /\ UNCHANGED <<users, resets, mfaTokens>>

-----------------------------------------------------------------------------
(* POST /refresh                                                           *)

(* Fault: revoked_at is not looked at.                                     *)
RefreshSelectAny(r, i) ==
    /\ Enabled("refresh", r)
    /\ RoomForRow
    /\ Committed(i)
    /\ ~rows[i].expired
    /\ req' = [req EXCEPT ![r] =
         [Idle EXCEPT !.pc = "select_user", !.user = rows[i].user,
                      !.parent = i, !.gen = rows[i].gen]]
    /\ UNCHANGED <<users, rows, resets, access, mfaTokens>>

(* rotate_refresh, first SELECT: the presented token is live.              *)
RefreshSelect(r, i) ==
    /\ Enabled("refresh", r)
    /\ RoomForRow
    /\ rows[i].st = "live"
    /\ ~rows[i].expired
    /\ req' = [req EXCEPT ![r] =
         [Idle EXCEPT !.pc = "select_user", !.user = rows[i].user,
                      !.parent = i, !.gen = rows[i].gen]]
    /\ UNCHANGED <<users, rows, resets, access, mfaTokens>>

(* Second SELECT: the owner, whose token_version the access token gets.    *)
RefreshUser(r) ==
    /\ req[r].pc = "select_user"
    /\ req[r].reset = NoReset
    /\ req' = [req EXCEPT ![r] =
         IF users[req[r].user].status = "active"
         THEN [@ EXCEPT !.pc = "issue", !.tv = users[req[r].user].tv]
         ELSE Idle]
    /\ UNCHANGED <<users, rows, resets, access, mfaTokens>>

(* Fault: the parent gets replaced_by but not revoked_at.                  *)
RotateCommitKeepParent(r) ==
    /\ req[r].pc = "issued"
    /\ req[r].parent # 0
    /\ Unlocked(r, {req[r].parent})
    /\ rows' = [rows EXCEPT ![req[r].new].st = "live",
                            ![req[r].parent].replaced_by = req[r].new]
    /\ access' = access \cup {<<req[r].user, req[r].tv>>}
    /\ req' = [req EXCEPT ![r] = Idle]
    /\ UNCHANGED <<users, resets, mfaTokens>>

(* Fault: the ORM writes the whole parent row back as it was read, live.   *)
RotateCommitStale(r) ==
    /\ req[r].pc = "issued"
    /\ req[r].parent # 0
    /\ Unlocked(r, {req[r].parent})
    /\ rows' = [rows EXCEPT ![req[r].new].st = "live",
                            ![req[r].parent].st = "live",
                            ![req[r].parent].replaced_by = req[r].new]
    /\ access' = access \cup {<<req[r].user, req[r].tv>>}
    /\ req' = [req EXCEPT ![r] = Idle]
    /\ UNCHANGED <<users, resets, mfaTokens>>

(* The commit flushes UPDATE ... WHERE id = parent: it waits for the row's *)
(* lock and looks at nothing but the id.                                   *)
RotateCommit(r) ==
    /\ req[r].pc = "issued"
    /\ req[r].parent # 0
    /\ Unlocked(r, {req[r].parent})
    /\ rows' = [rows EXCEPT ![req[r].new].st = "live",
                            ![req[r].parent].st = "revoked",
                            ![req[r].parent].replaced_by = req[r].new]
    /\ access' = access \cup {<<req[r].user, req[r].tv>>}
    /\ req' = [req EXCEPT ![r] = Idle]
    /\ UNCHANGED <<users, resets, mfaTokens>>

-----------------------------------------------------------------------------
(* Revoking one family: replay, POST /logout, DELETE /sessions/{id}        *)

StartWipe(r, u, f) ==
    req' = [req EXCEPT ![r] = [Idle EXCEPT !.pc = "wipe", !.user = u, !.family = f]]

(* rotate_refresh: the presented token's row is already revoked.           *)
Replay(r, i) ==
    /\ Enabled("refresh", r)
    /\ rows[i].st = "revoked"
    /\ StartWipe(r, rows[i].user, rows[i].family)
    /\ UNCHANGED <<users, rows, resets, access, mfaTokens>>

Logout(r, i) ==
    /\ Enabled("logout", r)
    /\ Committed(i)
    /\ StartWipe(r, rows[i].user, rows[i].family)
    /\ UNCHANGED <<users, rows, resets, access, mfaTokens>>

(* Fault: the family is looked up by id alone.                             *)
RevokeSessionAnyOwner(r, u, v, i, p) ==
    /\ Enabled("revoke_session", r)
    /\ Authenticated(u, v)
    /\ Committed(i)
    /\ p \notin LiveIn(rows[i].family)
    /\ StartWipe(r, u, rows[i].family)
    /\ UNCHANGED <<users, rows, resets, access, mfaTokens>>

(* The family must be the caller's; p is the refresh cookie, if any, and   *)
(* while it is a live token of the family the answer is 409.               *)
RevokeSession(r, u, v, i, p) ==
    /\ Enabled("revoke_session", r)
    /\ Authenticated(u, v)
    /\ Committed(i)
    /\ rows[i].user = u
    /\ p \notin LiveIn(rows[i].family)
    /\ StartWipe(r, u, rows[i].family)
    /\ UNCHANGED <<users, rows, resets, access, mfaTokens>>

(* Fault: the wipe of a family that is already revoked is not answered.    *)
RevokeFamilyUnanswered(r) ==
    /\ req[r].pc = "wipe"
    /\ LiveIn(req[r].family) # {}
    /\ Unlocked(r, LiveIn(req[r].family))
    /\ req' = [req EXCEPT ![r].pc = "revoked",
                          ![r].touched = LiveIn(req[r].family)]
    /\ UNCHANGED <<users, rows, resets, access, mfaTokens>>

(* _revoke_family's UPDATE: the live rows it sees, locked until the commit *)
RevokeFamily(r) ==
    /\ req[r].pc = "wipe"
    /\ Unlocked(r, LiveIn(req[r].family))
    /\ req' = [req EXCEPT ![r].pc = "revoked",
                          ![r].touched = LiveIn(req[r].family)]
    /\ UNCHANGED <<users, rows, resets, access, mfaTokens>>

RevokeCommit(r) ==
    /\ req[r].pc = "revoked"
    /\ rows' = Revoke(req[r].touched)
    /\ req' = [req EXCEPT ![r] = Idle]
    /\ UNCHANGED <<users, resets, access, mfaTokens>>

-----------------------------------------------------------------------------
(* Revoking everything: POST /change-password, password reset              *)

(* The version is read here, by get_current_user, and incremented at the   *)
(* commit from this value.                                                 *)
ChangePassword(r, u, v) ==
    /\ Enabled("change_password", r)
    /\ RoomForBump(u)
    /\ Authenticated(u, v)
    /\ req' = [req EXCEPT ![r] = [Idle EXCEPT !.pc = "revoke_all", !.user = u,
                                    !.tv = users[u].tv]]
    /\ UNCHANGED <<users, rows, resets, access, mfaTokens>>

(* request_reset stores a new one-shot token.                              *)
RequestReset(p, u) ==
    /\ "reset_password" \in Handlers
    /\ resets[p].st = "unissued"
    /\ users[u].status = "active"
    /\ resets' = [resets EXCEPT ![p] = [st |-> "open", user |-> u]]
    /\ UNCHANGED <<users, rows, access, mfaTokens, req>>

(* Fault: consumed_at is not looked at.                                    *)
ConsumeResetAgain(r, p) ==
    /\ Enabled("reset_password", r)
    /\ resets[p].st # "unissued"
    /\ RoomForBump(resets[p].user)
    /\ req' = [req EXCEPT ![r] = [Idle EXCEPT !.pc = "select_user",
                                    !.user = resets[p].user, !.reset = p]]
    /\ UNCHANGED <<users, rows, resets, access, mfaTokens>>

(* consume_reset: the token's row is read and not yet consumed ...         *)
ConsumeReset(r, p) ==
    /\ Enabled("reset_password", r)
    /\ resets[p].st = "open"
    /\ RoomForBump(resets[p].user)
    /\ req' = [req EXCEPT ![r] = [Idle EXCEPT !.pc = "select_user",
                                    !.user = resets[p].user, !.reset = p]]
    /\ UNCHANGED <<users, rows, resets, access, mfaTokens>>

(* ... then the user's.                                                    *)
ResetUser(r) ==
    /\ req[r].pc = "select_user"
    /\ req[r].reset # NoReset
    /\ req' = [req EXCEPT ![r] =
         IF users[req[r].user].status = "active"
         THEN [@ EXCEPT !.pc = "revoke_all", !.tv = users[req[r].user].tv]
         ELSE Idle]
    /\ UNCHANGED <<users, rows, resets, access, mfaTokens>>

(* revoke_all_for_user: an UPDATE of the user's live rows. /mfa/disable    *)
(* runs it in a transaction of its own, after the version was committed.   *)
RevokeAll(r) ==
    /\ req[r].pc \in {"revoke_all", "late"}
    /\ Unlocked(r, LiveOf(req[r].user))
    /\ req' = [req EXCEPT ![r].pc = IF @ = "late" THEN "revoked" ELSE "bump",
                          ![r].touched = LiveOf(req[r].user)]
    /\ UNCHANGED <<users, rows, resets, access, mfaTokens>>

(* Fault: the version moves on and the families stay.                      *)
BumpCommitVersionOnly(r) ==
    /\ req[r].pc = "bump"
    /\ users' = [users EXCEPT ![req[r].user].tv = req[r].tv + 1]
    /\ resets' = IF req[r].reset = NoReset THEN resets
                 ELSE [resets EXCEPT ![req[r].reset].st = "consumed"]
    /\ req' = [req EXCEPT ![r] = Idle]
    /\ UNCHANGED <<rows, access, mfaTokens>>

(* bump_token_version, committed: token_version is the value read plus one *)
BumpCommit(r) ==
    /\ req[r].pc = "bump"
    /\ users' = [users EXCEPT ![req[r].user].tv = req[r].tv + 1]
    /\ rows' = Revoke(req[r].touched)
    /\ resets' = IF req[r].reset = NoReset THEN resets
                 ELSE [resets EXCEPT ![req[r].reset].st = "consumed"]
    /\ req' = [req EXCEPT ![r] = Idle]
    /\ UNCHANGED <<access, mfaTokens>>

-----------------------------------------------------------------------------
(* 2FA enrolment                                                           *)

EnrollMfa(r, u, v) ==
    /\ Enabled("login_mfa", r)
    /\ Authenticated(u, v)
    /\ ~users[u].mfa
    /\ req' = [req EXCEPT ![r] = [Idle EXCEPT !.pc = "enroll", !.user = u]]
    /\ UNCHANGED <<users, rows, resets, access, mfaTokens>>

EnrollCommit(r) ==
    /\ req[r].pc = "enroll"
    /\ users' = [users EXCEPT ![req[r].user].mfa = TRUE]
    /\ req' = [req EXCEPT ![r] = Idle]
    /\ UNCHANGED <<rows, resets, access, mfaTokens>>

(* POST /mfa/disable: enrolled, and the password matched ...               *)
DisableMfa(r, u, v) ==
    /\ Enabled("mfa_disable", r)
    /\ RoomForBump(u)
    /\ Authenticated(u, v)
    /\ users[u].mfa
    /\ req' = [req EXCEPT ![r] = [Idle EXCEPT !.pc = "disable_check", !.user = u]]
    /\ UNCHANGED <<users, rows, resets, access, mfaTokens>>

(* ... the code matched: totp.verify commits and refreshes the user ...    *)
DisableVerified(r) ==
    /\ req[r].pc = "disable_check"
    /\ req' = [req EXCEPT
         ![r].pc = IF users[req[r].user].mfa THEN "disable" ELSE "disabled_already",
         ![r].tv = users[req[r].user].tv]
    /\ UNCHANGED <<users, rows, resets, access, mfaTokens>>

(* ... and totp.disable commits alone; the families are revoked later. A   *)
(* column that already was NULL in the copy read is not written.           *)
DisableCommit(r) ==
    /\ req[r].pc \in {"disable", "disabled_already"}
    /\ users' = [users EXCEPT ![req[r].user].tv = req[r].tv + 1,
                              ![req[r].user].mfa = @ /\ req[r].pc # "disable"]
    /\ req' = [req EXCEPT ![r].pc = "late"]
    /\ UNCHANGED <<rows, resets, access, mfaTokens>>

-----------------------------------------------------------------------------
(* The environment                                                         *)

(* A handler raises, or its process dies: get_db rolls the open            *)
(* transaction back. What it committed before stays.                       *)
Abort(r) ==
    /\ "abort" \in Handlers
    /\ req[r].pc # "idle"
    /\ rows' = IF req[r].pc = "issued" THEN [rows EXCEPT ![req[r].new] = FreeRow]
                                       ELSE rows
    /\ req' = [req EXCEPT ![r] = Idle]
    /\ UNCHANGED <<users, resets, access, mfaTokens>>

(* Time passes: a refresh, reset, access or mfa token expires. A request   *)
(* that presents an expired one is refused, which changes nothing.         *)
ExpireRow(i) ==
    /\ "row_expiry" \in Handlers
    /\ rows[i].st = "live"
    /\ ~rows[i].expired
    /\ rows' = [rows EXCEPT ![i].expired = TRUE]
    /\ UNCHANGED <<users, resets, access, mfaTokens, req>>

ExpireReset(p) ==
    /\ "reset_password" \in Handlers
    /\ resets[p].st = "open"
    /\ resets' = [resets EXCEPT ![p].st = "expired"]
    /\ UNCHANGED <<users, rows, access, mfaTokens, req>>

ExpireToken ==
    /\ "token_expiry" \in Handlers
    /\ \/ \E c \in access : access' = access \ {c} /\ UNCHANGED mfaTokens
       \/ \E c \in mfaTokens : mfaTokens' = mfaTokens \ {c} /\ UNCHANGED access
    /\ UNCHANGED <<users, rows, resets, req>>

(* An operator blocks the account.                                         *)
BlockUser(u) ==
    /\ "block" \in Handlers
    /\ users[u].status = "active"
    /\ users' = [users EXCEPT ![u].status = "blocked"]
    /\ UNCHANGED <<rows, resets, access, mfaTokens, req>>

-----------------------------------------------------------------------------
(* A handler that has started and has neither raised nor died              *)
Step(r) ==
    \/ LoginMfaVerified(r) \/ Persist(r) \/ LoginCommit(r)
    \/ RefreshUser(r) \/ RotateCommit(r)
    \/ RevokeFamily(r) \/ RevokeCommit(r)
    \/ ResetUser(r) \/ RevokeAll(r) \/ BumpCommit(r)
    \/ EnrollCommit(r) \/ DisableVerified(r) \/ DisableCommit(r)

(* A request arrives                                                       *)
Arrive(r) ==
    \/ \E u \in Users : LoginPassword(r, u)
    \/ \E i \in RowIds : RefreshSelect(r, i) \/ Replay(r, i) \/ Logout(r, i)
    \/ \E c \in mfaTokens : LoginMfa(r, c[1], c[2])
    \/ \E c \in access :
          \/ ChangePassword(r, c[1], c[2])
          \/ EnrollMfa(r, c[1], c[2]) \/ DisableMfa(r, c[1], c[2])
          \/ \E i \in RowIds, p \in RowIds \cup {0} : RevokeSession(r, c[1], c[2], i, p)
    \/ \E p \in Resets : ConsumeReset(r, p)

Environment ==
    \/ \E u \in Users : LoginChallenge(u) \/ BlockUser(u)
    \/ \E p \in Resets, u \in Users : RequestReset(p, u)
    \/ \E i \in RowIds : ExpireRow(i)
    \/ \E p \in Resets : ExpireReset(p)
    \/ ExpireToken

Next ==
    \/ \E r \in Requests : Arrive(r) \/ Step(r) \/ Abort(r)
    \/ Environment

Spec == Init /\ [][Next]_vars

(* The event loop resumes a handler whose await is done, and the database  *)
(* grants a row lock in queue order: a handler that can go on again and    *)
(* again does, though a newcomer may take the lock in between.             *)
Fairness == \A r \in Requests : SF_vars(Step(r))

FairSpec == Spec /\ Fairness

-----------------------------------------------------------------------------
(* Properties                                                              *)

TypeOK ==
    /\ users \in [Users -> User]
    /\ rows \in [RowIds -> RefreshToken]
    /\ resets \in [Resets -> PasswordReset]
    /\ access \subseteq Claims
    /\ mfaTokens \subseteq Claims
    /\ req \in [Requests -> Handler]

(* A family is one user's tree: every row hangs, inside its family and for *)
(* its family's user, on a committed row, up to the row the sign-in made;  *)
(* and replaced_by names a committed child of the row that carries it.     *)
(* Hazard: rotations of one token race, abort, or race a wipe.             *)
Lineage ==
    \A i \in RowIds : rows[i].st # "free" =>
        LET root == rows[rows[i].family] IN
        /\ rows[i].family \in RowIds
        /\ rows[i].family # i => Committed(rows[i].family)
        /\ root.user = rows[i].user
        /\ root.family = rows[i].family
        /\ root.parent = 0
        /\ rows[i].parent = 0 <=> rows[i].family = i
        /\ rows[i].parent # 0 =>
              /\ Committed(rows[i].parent)
              /\ rows[rows[i].parent].user = rows[i].user
              /\ rows[rows[i].parent].family = rows[i].family
        /\ rows[i].replaced_by # 0 =>
              /\ Committed(rows[i].replaced_by)
              /\ rows[rows[i].replaced_by].parent = i

(* A token that was rotated is dead: no committed row's parent is live, so *)
(* presenting an ancestor of any session in use is seen as a replay.       *)
ParentRetired ==
    \A i \in RowIds : Committed(i) /\ rows[i].parent # 0
                         => rows[rows[i].parent].st = "revoked"

(* A revoked row stays revoked, whatever stale copy of it a slower         *)
(* transaction still writes.                                               *)
RevokedIsFinal ==
    [][\A i \in RowIds : rows[i].st = "revoked" => rows'[i].st = "revoked"]_vars

(* Only a request acting for a row's own user revokes it.                  *)
OwnerRevokes ==
    [][\A i \in RowIds :
          rows[i].st = "live" /\ rows'[i].st # "live" =>
             \E r \in Requests : req[r].user = rows[i].user /\ req'[r] # req[r]]_vars

(* Handlers that wait for each other's row locks all finish.               *)
HandlersFinish == \A r \in Requests : req[r].pc # "idle" ~> req[r].pc = "idle"

(* Every live refresh token descends from credentials checked under the    *)
(* version in force: no session outlives a "sign out everywhere".          *)
NoSilentRestore ==
    \A i \in RowIds : rows[i].st = "live" => rows[i].gen = users[rows[i].user].tv

(* A family has one token in use at a time.                                *)
OneLivePerFamily == \A f \in RowIds : Cardinality(LiveIn(f)) <= 1

(* An access token that a version bump has invalidated is never valid      *)
(* again: a version once left does not come back.                          *)
VersionNeverReturns ==
    [][\A u \in Users : users'[u].tv >= users[u].tv]_vars

(* The tables as SessionAuthority sees them: uncommitted rows do not exist. *)
Authority == INSTANCE SessionAuthority WITH
    Tokens  <- RowIds,
    version <- [u \in Users |-> users[u].tv],
    live    <- [u \in Users |-> LiveOf(u)],
    closed  <- {i \in RowIds : rows[i].st = "revoked"},
    renewed <- {<<rows[i].parent, i>> : i \in {j \in RowIds : Committed(j) /\ rows[j].parent # 0}},
    grants  <- access

(* Handlers run one at a time implement SessionAuthority.                  *)
ImplementsAuthority == Authority!Spec

(* A password-reset token changes the password at most once.               *)
ResetOneShot ==
    [][\A r \in Requests :
          req[r].pc = "bump" /\ req[r].reset # NoReset /\ users' # users
          /\ req'[r].pc = "idle" => resets[req[r].reset].st # "consumed"]_vars

=============================================================================
