------------------------------ MODULE Lockout ------------------------------
(***************************************************************************)
(* The two attempt counters of services/auth.py, each a Redis key of one   *)
(* caller: failed passwords of an address, which set a lock ("login"), and *)
(* failed codes of one mfa_token, which are the limit themselves ("mfa").  *)
(* A request is cut at its Redis commands.                                 *)
(***************************************************************************)
EXTENDS Naturals, FiniteSets

CONSTANTS
    Requests,       \* slots for requests in flight
    Threshold,      \* login_lock_threshold, mfa_login_rate_limit_attempts
    MaxCalls        \* bound: attempts

VARIABLES
    kind,
    fails,      \* the counter; 0: no key
    ttl,        \* the counter has a TTL
    locked,     \* the lock key, which always has one
    pc, got,    \* per request; got: what its INCR returned
    calls,
    wrong,      \* history: wrong attempts since the counter was last gone
    odd         \* history: a request stopped between its commands, Redis
                \* failed one, or an EXPIRE came after the lock

vars == <<kind, fails, ttl, locked, pc, got, calls, wrong, odd>>

Init ==
    /\ kind \in {"login", "mfa"}
    /\ fails = 0 /\ ttl = FALSE /\ locked = FALSE
    /\ pc = [r \in Requests |-> "idle"] /\ got = [r \in Requests |-> 0]
    /\ calls = 0 /\ wrong = 0 /\ odd = FALSE

Goto(r, at) == pc' = [pc EXCEPT ![r] = at]

(* is_login_locked: the TTL of the lock. mfa_login_attempts_left: the GET. *)
Blocked == IF kind = "login" THEN locked ELSE fails >= Threshold

(* If Redis fails the attempt is let through.                              *)
Check(r) ==
    /\ pc[r] = "idle" /\ calls < MaxCalls
    /\ calls' = calls + 1
    /\ \/ ~Blocked /\ Goto(r, "verify") /\ UNCHANGED odd
       \/ Blocked /\ UNCHANGED <<pc, odd>>
       \/ Blocked /\ Goto(r, "verify") /\ odd' = TRUE
    /\ UNCHANGED <<kind, fails, ttl, locked, got, wrong>>

(* verify_password, totp.verify                                            *)
Verify(r) ==
    /\ pc[r] = "verify"
    /\ \/ Goto(r, "reset") /\ UNCHANGED wrong
       \/ Goto(r, "incr") /\ wrong' = wrong + 1
    /\ UNCHANGED <<kind, fails, ttl, locked, got, calls, odd>>

(* Past the EXPIRE, if the INCR returned count.                            *)
After(count) == IF kind = "login" /\ count >= Threshold THEN "lock" ELSE "idle"

(* Fault: the first INCR is taken to return 0.                             *)
IncrFromZero(r) ==
    /\ pc[r] = "incr"
    /\ fails' = fails + 1 /\ got' = [got EXCEPT ![r] = fails']
    /\ Goto(r, IF fails = 2 THEN "expire" ELSE After(fails'))
    /\ UNCHANGED <<kind, ttl, locked, calls, wrong, odd>>

(* record_login_failure, record_mfa_login_failure: INCR ...                *)
Incr(r) ==
    /\ pc[r] = "incr"
    /\ fails' = fails + 1 /\ got' = [got EXCEPT ![r] = fails']
    /\ Goto(r, IF fails' = 1 THEN "expire" ELSE After(fails'))
    /\ UNCHANGED <<kind, ttl, locked, calls, wrong, odd>>

(* ... EXPIRE, which does nothing to a key that is gone ...                *)
Expire(r) ==
    /\ pc[r] = "expire"
    /\ ttl' = (fails > 0)
    /\ odd' = (odd \/ locked)
    /\ Goto(r, After(got[r]))
    /\ UNCHANGED <<kind, fails, locked, got, calls, wrong>>

(* ... SET of the lock.                                                    *)
Lock(r) ==
    /\ pc[r] = "lock"
    /\ locked' = TRUE
    /\ Goto(r, "idle")
    /\ UNCHANGED <<kind, fails, ttl, got, calls, wrong, odd>>

(* reset_login_lock, clear_mfa_login_attempts: one DEL.                    *)
Reset(r) ==
    /\ pc[r] = "reset"
    /\ fails' = 0 /\ ttl' = FALSE /\ locked' = FALSE /\ wrong' = 0
    /\ Goto(r, "idle")
    /\ UNCHANGED <<kind, got, calls, odd>>

(* A command fails, which ends the sequence, or the worker stops.          *)
Stop(r) ==
    /\ pc[r] # "idle"
    /\ Goto(r, "idle")
    /\ odd' = TRUE
    /\ UNCHANGED <<kind, fails, ttl, locked, got, calls, wrong>>

WindowEnds ==
    /\ fails > 0 /\ ttl
    /\ fails' = 0 /\ ttl' = FALSE /\ wrong' = 0
    /\ UNCHANGED <<kind, locked, pc, got, calls, odd>>

(* login_lock_duration_seconds is no shorter than the window, so the lock  *)
(* outlives the counter it was set for, if that has a TTL and had it first.*)
LockEnds ==
    /\ locked /\ (fails = 0 \/ odd)
    /\ locked' = FALSE
    /\ UNCHANGED <<kind, fails, ttl, pc, got, calls, wrong, odd>>

Next ==
    \/ \E r \in Requests : \/ Check(r) \/ Verify(r) \/ Incr(r) \/ Expire(r)
                           \/ Lock(r) \/ Reset(r) \/ Stop(r)
    \/ WindowEnds \/ LockEnds

Spec == Init /\ [][Next]_vars

-----------------------------------------------------------------------------

(* A counter without a TTL is about to get one.                            *)
WindowCloses == fails > 0 /\ ~ttl => \E r \in Requests : pc[r] = "expire"

(* The attempts of a window exceed the threshold by those in flight only.  *)
WindowBounds == wrong <= Threshold + Cardinality(Requests) - 1

(* However the commands of concurrent attempts, successes and expiries     *)
(* interleave, the counter dies with its window, and the window holds the  *)
(* attempts to the threshold and those in flight when it was reached.      *)
AttemptsCounted == odd \/ (WindowCloses /\ WindowBounds)

=============================================================================
