------------------------------ MODULE MCBrands ------------------------------
(* Instances of Brands for TLC.                                            *)
EXTENDS Brands

CONSTANTS r1, r2

TwoRequests == {r1, r2}

(* Workspaces bootstrapped with a default brand, and those before it.      *)
NewAndLegacy == BOOLEAN
NewOnly == {TRUE}
=============================================================================
