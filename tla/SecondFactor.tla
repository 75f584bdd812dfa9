---------------------------- MODULE SecondFactor ----------------------------
(***************************************************************************)
(* One user's enrolment in 2FA and list of recovery codes, which live in   *)
(* columns of the users row, as written by services/totp.py behind         *)
(* routes/auth.py. A handler works on the copy of the row it loaded and    *)
(* writes only the columns it set; the UPDATE is part of the commit.       *)
(***************************************************************************)
EXTENDS Naturals

CONSTANTS
    Requests,       \* slots for handlers in flight
    MaxLists,       \* bound: lists of codes
    MaxCalls        \* bound: handlers

(* The i-th code of the list-th list, of two.                              *)
Code == [list : 1..MaxLists, i : 1..2]
NoCode == [list |-> 0, i |-> 0]
CodesOf(list) == [list : {list}, i : 1..2]

VARIABLES
    enrolled,   \* totp_enrolled_at and totp_secret_enc are set
    codes,      \* totp_recovery_hashes
    pending,    \* a secret waits in Redis
    req,
    lists,      \* lists of codes made
    calls,
    accepted,   \* history: the codes that were accepted
    twice,      \* history: one of them a second time
    lost        \* history: a handler wrote the list though list or enrolment
                \* had changed since it loaded them

vars == <<enrolled, codes, pending, req, lists, calls, accepted, twice, lost>>

Ops == {"start", "confirm", "login", "disable", "regenerate"}

(* on, list: the loaded copy. code: the recovery code given, NoCode for a  *)
(* TOTP code.                                                              *)
Request == [op : Ops, code : Code \cup {NoCode}, on : BOOLEAN, list : SUBSET Code,
            pc : {"idle", "load", "verify", "enrol", "spend", "step_up", "refresh", "apply"}]

Idle == [op |-> "start", code |-> NoCode, on |-> FALSE, list |-> {}, pc |-> "idle"]

Init ==
    /\ enrolled = FALSE /\ codes = {} /\ pending = FALSE
    /\ req = [r \in Requests |-> Idle]
    /\ lists = 0 /\ calls = 0
    /\ accepted = {} /\ twice = FALSE /\ lost = FALSE

Goto(r, pc) == req' = [req EXCEPT ![r].pc = pc]
End(r) == req' = [req EXCEPT ![r] = Idle]

(* The commit of a new list; expired on the way, the copy is loaded anew.  *)
Write(r, list) ==
    /\ codes' = list
    /\ lost' = (lost \/ req[r].list # codes \/ req[r].on # enrolled)

Begin(r, op, code) ==
    /\ req[r].pc = "idle" /\ calls < MaxCalls
    /\ calls' = calls + 1
    /\ op \in {"start", "confirm"} => code = NoCode
    /\ code # NoCode => code.list <= lists
    /\ req' = [req EXCEPT ![r] = [Idle EXCEPT !.op = op, !.code = code, !.pc = "load"]]
    /\ UNCHANGED <<enrolled, codes, pending, lists, accepted, twice, lost>>

(* get_current_user, or db.get in login_mfa; then the enrolment guards.    *)
Load(r) ==
    /\ req[r].pc = "load"
    /\ IF enrolled = (req[r].op \in {"start", "confirm"}) THEN End(r)
       ELSE req' = [req EXCEPT ![r].on = enrolled, ![r].list = codes, ![r].pc = "verify"]
    /\ UNCHANGED <<enrolled, codes, pending, lists, calls, accepted, twice, lost>>

(* start_enrollment: the SET, best effort.                                 *)
StartEnrollment(r) ==
    /\ req[r].pc = "verify" /\ req[r].op = "start"
    /\ pending' = TRUE \/ UNCHANGED pending
    /\ End(r)
    /\ UNCHANGED <<enrolled, codes, lists, calls, accepted, twice, lost>>

PendingExpires ==
    /\ pending
    /\ pending' = FALSE
    /\ UNCHANGED <<enrolled, codes, req, lists, calls, accepted, twice, lost>>

(* confirm_enrollment: the secret and a right code.                        *)
PeekEnrollment(r) ==
    /\ req[r].pc = "verify" /\ req[r].op = "confirm"
    /\ \/ pending /\ Goto(r, "enrol")
       \/ End(r)
    /\ UNCHANGED <<enrolled, codes, pending, lists, calls, accepted, twice, lost>>

(* The commit, then the DEL of the secret, best effort.                    *)
ConfirmEnrollment(r) ==
    /\ req[r].pc = "enrol" /\ lists < MaxLists
    /\ lists' = lists + 1
    /\ enrolled' = TRUE
    /\ Write(r, CodesOf(lists'))
    /\ pending' = FALSE \/ UNCHANGED pending
    /\ End(r)
    /\ UNCHANGED <<calls, accepted, twice>>

(* verify: a TOTP code, or one of the list that was loaded.                *)
Verify(r) ==
    /\ req[r].pc = "verify" /\ req[r].op \notin {"start", "confirm"}
    /\ \/ req[r].code = NoCode /\ Goto(r, "step_up")
       \/ req[r].code \in req[r].list /\ Goto(r, "spend")
       \/ req[r].code \notin req[r].list /\ End(r)
    /\ UNCHANGED <<enrolled, codes, pending, lists, calls, accepted, twice, lost>>

(* Fault: the matched code stays in the list.                              *)
SpendCodeKept(r) ==
    /\ req[r].pc = "spend"
    /\ Write(r, req[r].list)
    /\ accepted' = accepted \cup {req[r].code}
    /\ twice' = (twice \/ req[r].code \in accepted)
    /\ Goto(r, "refresh")
    /\ UNCHANGED <<enrolled, pending, lists, calls>>

(* The shortened list is written.                                          *)
SpendCode(r) ==
    /\ req[r].pc = "spend"
    /\ Write(r, req[r].list \ {req[r].code})
    /\ accepted' = accepted \cup {req[r].code}
    /\ twice' = (twice \/ req[r].code \in accepted)
    /\ Goto(r, "refresh")
    /\ UNCHANGED <<enrolled, pending, lists, calls>>

(* Only totp_last_step_up_at is written.                                   *)
StepUp(r) ==
    /\ req[r].pc = "step_up"
    /\ Goto(r, "refresh")
    /\ UNCHANGED <<enrolled, codes, pending, lists, calls, accepted, twice, lost>>

(* After verify's commit the row is read again; a sign-in is done.         *)
Refresh(r) ==
    /\ req[r].pc = "refresh"
    /\ IF req[r].op = "login" THEN End(r)
       ELSE req' = [req EXCEPT ![r].on = enrolled, ![r].list = codes, ![r].pc = "apply"]
    /\ UNCHANGED <<enrolled, codes, pending, lists, calls, accepted, twice, lost>>

(* Columns that are NULL in the copy are not written.                      *)
Disable(r) ==
    /\ req[r].pc = "apply" /\ req[r].op = "disable"
    /\ enrolled' = (enrolled /\ ~req[r].on)
    /\ IF req[r].on \/ req[r].list # {} THEN Write(r, {}) ELSE UNCHANGED <<codes, lost>>
    /\ End(r)
    /\ UNCHANGED <<pending, lists, calls, accepted, twice>>

(* regenerate_recovery_codes looks at the enrolment again.                 *)
Regenerate(r) ==
    /\ req[r].pc = "apply" /\ req[r].op = "regenerate" /\ lists < MaxLists
    /\ IF ~req[r].on THEN UNCHANGED <<codes, lists, lost>>
       ELSE lists' = lists + 1 /\ Write(r, CodesOf(lists'))
    /\ End(r)
    /\ UNCHANGED <<enrolled, pending, calls, accepted, twice>>

(* A statement fails or the process stops, before a commit or between two. *)
Abort(r) ==
    /\ req[r].pc # "idle"
    /\ End(r)
    /\ UNCHANGED <<enrolled, codes, pending, lists, calls, accepted, twice, lost>>

Next ==
    \/ \E r \in Requests :
        \/ \E op \in Ops, code \in Code \cup {NoCode} : Begin(r, op, code)
        \/ Load(r) \/ StartEnrollment(r) \/ PeekEnrollment(r) \/ ConfirmEnrollment(r)
        \/ Verify(r) \/ SpendCode(r) \/ StepUp(r) \/ Refresh(r) \/ Disable(r)
        \/ Regenerate(r) \/ Abort(r)
    \/ PendingExpires

Spec == Init /\ [][Next]_vars

-----------------------------------------------------------------------------

(* A recovery code is one-shot, and the list holds codes of the newest     *)
(* list only, none of them spent and none without an enrolment, unless a   *)
(* handler wrote the list over another one's change of it or of the        *)
(* enrolment: a list that is spent looks the same before and after a       *)
(* disable.                                                                *)
CodesOneShot ==
    \/ lost
    \/ /\ ~twice
       /\ codes \subseteq CodesOf(lists) \ accepted
       /\ codes # {} => enrolled

=============================================================================
