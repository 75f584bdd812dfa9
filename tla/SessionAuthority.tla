-------------------------- MODULE SessionAuthority --------------------------
(***************************************************************************)
(* What the session layer promises its callers, without rows, families or  *)
(* transactions: a user holds a set of refresh tokens in use and a         *)
(* version. Tokens are opened, renewed one for one, closed for good, and   *)
(* "sign out everywhere" closes all of a user's tokens and moves the       *)
(* version on in one step. An access grant is made only at the version in  *)
(* force, and only together with opening or renewing a token.              *)
(***************************************************************************)
EXTENDS Naturals

CONSTANTS Users, Tokens

VARIABLES
    version,    \* the version in force, by user
    live,       \* refresh tokens in use, by user
    closed,     \* refresh tokens used up or revoked: never in use again
    renewed,    \* history: <<token, the token it was exchanged for>>
    grants      \* unexpired access grants: <<user, version>>

authority == <<version, live, closed, renewed, grants>>

InUse == UNION {live[u] : u \in Users}
Fresh == Tokens \ (InUse \cup closed)

Init ==
    /\ version = [u \in Users |-> 0]
    /\ live = [u \in Users |-> {}]
    /\ closed = {}
    /\ renewed = {}
    /\ grants = {}

(* Credentials were checked.                                               *)
Open(u) ==
    \E t \in Fresh :
        /\ live' = [live EXCEPT ![u] = @ \cup {t}]
        /\ grants' = grants \cup {<<u, version[u]>>}
        /\ UNCHANGED <<version, closed, renewed>>

(* A token in use is exchanged for a new one, exactly once.                *)
Renew(u) ==
    \E old \in live[u], t \in Fresh :
        /\ live' = [live EXCEPT ![u] = (@ \ {old}) \cup {t}]
        /\ closed' = closed \cup {old}
        /\ renewed' = renewed \cup {<<old, t>>}
        /\ grants' = grants \cup {<<u, version[u]>>}
        /\ UNCHANGED version

Close(u) ==
    \E S \in SUBSET live[u] :
        /\ live' = [live EXCEPT ![u] = @ \ S]
        /\ closed' = closed \cup S
        /\ UNCHANGED <<version, renewed, grants>>

SignOutEverywhere(u) ==
    /\ version' = [version EXCEPT ![u] = @ + 1]
    /\ live' = [live EXCEPT ![u] = {}]
    /\ closed' = closed \cup live[u]
    /\ UNCHANGED <<renewed, grants>>

Lapse ==
    /\ \E g \in grants : grants' = grants \ {g}
    /\ UNCHANGED <<version, live, closed, renewed>>

Next ==
    \/ \E u \in Users : Open(u) \/ Renew(u) \/ Close(u) \/ SignOutEverywhere(u)
    \/ Lapse

Spec == Init /\ [][Next]_authority
=============================================================================
