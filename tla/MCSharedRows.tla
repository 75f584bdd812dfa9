---------------------------- MODULE MCSharedRows ----------------------------
(* Two requests over each row. A brand's memory: a row is made and two     *)
(* requests act on it. Attempts: a window of two, reached and refilled     *)
(* after it. Recovery and e-mail codes: a list or code, and the one that   *)
(* replaces it. Agent runs: two, of two calls, and two executions of the   *)
(* fold. User-bots: two sessions, two callers, one probe. Idempotency: a   *)
(* request and three retries. Accounts: two users, two connections.        *)
EXTENDS SharedRows, TLC

CONSTANTS r1, r2, b1, i1, i2, u1

(* The operation an idle slot last had is of no consequence.               *)
MCInit ==
    /\ req = [r \in Requests |-> Fresh("connect", b1)]
    /\ entries = [r \in Requests |-> [Ten!Fresh("use", u1) EXCEPT !.pc = "idle"]]
    /\ RowInit

MCSpec == MCInit /\ [][RowNext]_rowVars

(* No part tells the two requests apart, nor the two runs, sessions or     *)
(* connections, and nothing checked here is a liveness property.           *)
Symmetry == Permutations({r1, r2}) \cup Permutations({i1, i2})

=============================================================================
