----------------------------- MODULE MCSessions -----------------------------
(* Instances of Sessions for TLC: the endpoints each run exposes.          *)
EXTENDS Sessions

CONSTANTS u1, u2, r1, r2, p1

OneUser == {u1}
TwoUsers == {u1, u2}
OneRequest == {r1}
TwoRequests == {r1, r2}
NoResets == {}
OneReset == {p1}

(* Concurrent handlers of one user, with 2FA and failures in between.      *)
ConcurrentHandlers == {"login", "login_mfa", "refresh",
                       "change_password", "mfa_disable", "abort", "block",
                       "token_expiry"}

(* Every handler that waits for a lock, and those that hold one.           *)
LockingHandlers == {"login", "refresh", "logout", "change_password",
                    "mfa_disable", "login_mfa", "block", "row_expiry"}

(* One handler at a time, over two users; /mfa/disable commits twice, so   *)
(* it is no single step even then.                                         *)
SerialHandlers == {"login", "refresh", "logout", "revoke_session",
                   "login_mfa", "change_password", "reset_password", "abort"}

BumpHandlers == {"login", "refresh", "change_password"}
=============================================================================
