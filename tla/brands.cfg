\* Two handlers at once in one workspace, any of which may be cut short.
\* Bound: four brands ever created, a plan of two.
SPECIFICATION FairSpec
CONSTANTS
 r1 = r1
 r2 = r2
 Requests <- TwoRequests
 MaxBrands = 2
 MaxIds = 4
 Repaired <- NewAndLegacy
INVARIANTS TypeOK QuotaHeld KeepsBrand AloneNoConflict
PROPERTIES KeepsDefault HandlersFinish
