----------------------------- MODULE EmailCodes -----------------------------
(***************************************************************************)
(* The verification codes of one user and one purpose                      *)
(* (services/email_verifications.py) and what a confirmed code does:       *)
(* email_verified_at for a sign-up (routes/email_verifications.py), the    *)
(* new address for a change (routes/auth.py). A request is cut at its      *)
(* queries and commits.                                                    *)
(***************************************************************************)
EXTENDS Naturals, FiniteSets

CONSTANTS
    Requests,       \* slots for requests in flight
    MaxAttempts,    \* email_verification_max_attempts
    MaxRows,        \* bound: rows of email_verifications
    MaxCalls        \* bound: requests

Rows == 1..MaxRows      \* in the order of created_at; each has its code

VARIABLES
    purpose,
    row,        \* email_verifications, and whether the code has been mailed
    address,    \* row that the user's verified address comes from, 0: none
    req,
    calls,
    wrong,      \* history: wrong codes compared with each row
    uncounted,  \* history: those of them whose commit failed
    raced       \* history: operations of which two have overlapped

vars == <<purpose, row, address, req, calls, wrong, uncounted, raced>>

(* age: in the cooldown, after it, past expires_at.                        *)
Row == [st : {"none", "active", "consumed"}, age : {"young", "ripe", "expired"},
        attempts : 0..MaxAttempts, sent : BOOLEAN]
NoRow == [st |-> "none", age |-> "young", attempts |-> 0, sent |-> FALSE]

Answers == {"none", "ok", "cooldown", "missing", "expired", "invalid", "too_many", "verified", "exists"}

(* given: the row whose code the user types, 0 for a wrong one. at, copy:  *)
(* the row as loaded. newest: history, the newest row at that time.        *)
Request == [op : {"issue", "confirm"}, given : 0..MaxRows, at : 0..MaxRows, copy : Row,
            newest : 0..MaxRows, pc : {"idle", "user", "load", "insert", "mail", "compare", "count",
                            "swap"},
            answer : Answers]

Idle(answer) == [op |-> "issue", given |-> 0, at |-> 0, copy |-> NoRow, newest |-> 0,
                 pc |-> "idle", answer |-> answer]

Init ==
    /\ purpose \in {"signup", "change"}
    /\ row = [i \in Rows |-> NoRow]
    /\ address = 0
    /\ req = [r \in Requests |-> Idle("none")]
    /\ calls = 0
    /\ wrong = [i \in Rows |-> 0] /\ uncounted = [i \in Rows |-> 0]
    /\ raced = {}

Last(S) == IF S = {} THEN 0 ELSE CHOOSE i \in S : \A j \in S : j <= i
Issued == {i \in Rows : row[i].st # "none"}
Active == {i \in Rows : row[i].st = "active"}

Goto(r, pc) == req' = [req EXCEPT ![r].pc = pc]
Answer(r, answer) == req' = [req EXCEPT ![r] = Idle(answer)]

Begin(r, op, given) ==
    /\ req[r].pc = "idle" /\ calls < MaxCalls
    /\ calls' = calls + 1
    /\ op = "issue" => given = 0
    /\ given # 0 => row[given].sent
    /\ req' = [req EXCEPT ![r] = [Idle("none") EXCEPT !.op = op, !.given = given, !.pc = "user"]]
    /\ UNCHANGED <<purpose, row, address, wrong, uncounted, raced>>

Past(r, op) == req[r].op = op /\ req[r].pc \in {"insert", "compare", "count"}

(* A new code is refused while the one in force is young.                  *)
Cooling(i) == i # 0 /\ row[i].age = "young"

(* get_current_user; a verified user is past the sign-up code.             *)
LoadUser(r) ==
    /\ req[r].pc = "user"
    /\ IF purpose = "signup" /\ address # 0 THEN Answer(r, "verified") ELSE Goto(r, "load")
    /\ UNCHANGED <<purpose, row, address, calls, wrong, uncounted, raced>>

(* _get_active_verification, and the answers it decides; an expired row is *)
(* consumed when a code is given.                                          *)
Load(r) ==
    LET i == Last(Active)
        loaded == [req[r] EXCEPT !.at = i, !.copy = IF i = 0 THEN NoRow ELSE row[i],
                                 !.newest = Last(Issued)]
    IN
    /\ req[r].pc = "load"
    /\ IF req[r].op = "issue"
       THEN /\ IF Cooling(i) THEN Answer(r, "cooldown")
               ELSE req' = [req EXCEPT ![r] = [loaded EXCEPT !.pc = "insert"]]
            /\ UNCHANGED row
       ELSE /\ IF i = 0 THEN Answer(r, "missing") /\ UNCHANGED row
               ELSE IF row[i].age = "expired"
               THEN Answer(r, "expired") /\ row' = [row EXCEPT ![i].st = "consumed"]
               ELSE req' = [req EXCEPT ![r] = [loaded EXCEPT !.pc = "compare"]] /\ UNCHANGED row
    /\ raced' = raced \cup {op \in {req[r].op} : \E q \in Requests : Past(q, op)}
    /\ UNCHANGED <<purpose, address, calls, wrong, uncounted>>

(* request_verification's commit: the loaded row is consumed, a new one is *)
(* made.                                                                   *)
InsertCode(r) ==
    LET i == Cardinality(Issued) + 1 IN
    /\ req[r].pc = "insert" /\ i \in Rows
    /\ row' = [j \in Rows |-> IF j = i THEN [NoRow EXCEPT !.st = "active"]
                              ELSE IF j = req[r].at THEN [row[j] EXCEPT !.st = "consumed"]
                              ELSE row[j]]
    /\ req' = [req EXCEPT ![r].pc = "mail", ![r].at = i]
    /\ UNCHANGED <<purpose, address, calls, wrong, uncounted, raced>>

(* The mail goes out after the commit; if that fails the row stays.        *)
SendCode(r) ==
    /\ req[r].pc = "mail"
    /\ row' = [row EXCEPT ![req[r].at].sent = TRUE]
    /\ Answer(r, "ok")
    /\ UNCHANGED <<purpose, address, calls, wrong, uncounted, raced>>

(* confirm_verification compares: the code is a wrong one.                 *)
WrongCode(r) ==
    /\ req[r].pc = "compare" /\ req[r].given # req[r].at
    /\ wrong' = [wrong EXCEPT ![req[r].at] = @ + 1]
    /\ Goto(r, "count")
    /\ UNCHANGED <<purpose, row, address, calls, uncounted, raced>>

(* Fault: the row dies one attempt late.                                   *)
CountAttemptLate(r) ==
    LET i == req[r].at  n == req[r].copy.attempts + 1 IN
    /\ req[r].pc = "count"
    /\ IF n > MaxAttempts
       THEN row' = [row EXCEPT ![i].attempts = n, ![i].st = "consumed"] /\ Answer(r, "too_many")
       ELSE row' = [row EXCEPT ![i].attempts = n] /\ Answer(r, "invalid")
    /\ UNCHANGED <<purpose, address, calls, wrong, uncounted, raced>>

(* The commit that writes the counter of the copy back, plus one.          *)
CountAttempt(r) ==
    LET i == req[r].at  n == req[r].copy.attempts + 1 IN
    /\ req[r].pc = "count"
    /\ IF n >= MaxAttempts
       THEN row' = [row EXCEPT ![i].attempts = n, ![i].st = "consumed"] /\ Answer(r, "too_many")
       ELSE row' = [row EXCEPT ![i].attempts = n] /\ Answer(r, "invalid")
    /\ UNCHANGED <<purpose, address, calls, wrong, uncounted, raced>>

(* The right code: committed before the caller uses it.                    *)
RightCode(r) ==
    LET i == req[r].at IN
    /\ req[r].pc = "compare" /\ req[r].given = i
    /\ row' = [row EXCEPT ![i].st = "consumed"]
    /\ Goto(r, "swap")
    /\ UNCHANGED <<purpose, address, calls, wrong, uncounted, raced>>

(* The second commit: the user's verified address is that of the row.      *)
Settle(r) ==
    /\ req[r].pc = "swap"
    /\ address' = req[r].at
    /\ Answer(r, "ok")
    /\ UNCHANGED <<purpose, row, calls, wrong, uncounted, raced>>

VerifyEmail(r) == purpose = "signup" /\ Settle(r)

ChangeEmail(r) == purpose = "change" /\ Settle(r)

(* change_email_confirm finds the new address taken by now: the code is    *)
(* consumed all the same.                                                  *)
EmailExists(r) ==
    /\ purpose = "change" /\ req[r].pc = "swap"
    /\ Answer(r, "exists")
    /\ UNCHANGED <<purpose, row, address, calls, wrong, uncounted, raced>>

(* A statement, a commit or the mail fails, or the process stops. After a  *)
(* comparison it leaves the counter as it was.                             *)
Abort(r) ==
    /\ req[r].pc # "idle"
    /\ Answer(r, "none")
    /\ uncounted' = IF req[r].pc = "count" THEN [uncounted EXCEPT ![req[r].at] = @ + 1]
                    ELSE uncounted
    /\ UNCHANGED <<purpose, row, address, calls, wrong, raced>>

Ages(i) ==
    /\ row[i].st = "active" /\ row[i].age # "expired"
    /\ row' = [row EXCEPT ![i].age = IF @ = "young" THEN "ripe" ELSE "expired"]
    /\ UNCHANGED <<purpose, address, req, calls, wrong, uncounted, raced>>

Next ==
    \/ \E r \in Requests :
        \/ \E op \in {"issue", "confirm"}, given \in 0..MaxRows : Begin(r, op, given)
        \/ LoadUser(r) \/ Load(r) \/ InsertCode(r) \/ SendCode(r) \/ WrongCode(r)
        \/ CountAttempt(r) \/ RightCode(r) \/ VerifyEmail(r) \/ ChangeEmail(r) \/ EmailExists(r)
        \/ Abort(r)
    \/ \E i \in Rows : Ages(i)

Spec == Init /\ [][Next]_vars

-----------------------------------------------------------------------------

(* The code that is accepted is the newest one made when it was compared:  *)
(* a superseded code never comes back, by expiry, failed mail or cooldown, *)
(* unless two requests for a code overlapped.                              *)
SupersededStaysDead ==
    "issue" \in raced \/ \A r \in Requests : req[r].pc = "swap" => req[r].at = req[r].newest

(* A row is compared with as many wrong codes as the limit allows, and     *)
(* with one more for each comparison whose commit failed, whichever        *)
(* requests bring them, unless two confirmations overlap: those write the  *)
(* counter back from stale copies.                                         *)
GuessesBounded ==
    "confirm" \in raced \/ \A i \in Rows : wrong[i] <= MaxAttempts + uncounted[i]

(* Both promises on a code: its row dies with its successor and with its   *)
(* attempts.                                                               *)
CodesHold == SupersededStaysDead /\ GuessesBounded

=============================================================================
