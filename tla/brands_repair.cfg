\* A workspace bootstrapped by this code: a deletion and a promotion of one
\* brand at once, and a sign-in afterwards.
SPECIFICATION Spec
CONSTANTS
 r1 = r1
 r2 = r2
 Requests <- TwoRequests
 MaxBrands = 2
 MaxIds = 2
 Repaired <- NewOnly
INVARIANT RepairSafe
