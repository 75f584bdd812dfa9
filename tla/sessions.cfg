\* Two handlers of one user in flight at once, any of which may fail.
\* A blocked user with no row leaves nothing to do.
SPECIFICATION Spec
CONSTANTS
 u1 = u1
 u2 = u2
 r1 = r1
 r2 = r2
 p1 = p1
 NoUser = NoUser
 NoReset = NoReset
 Users <- OneUser
 Requests <- TwoRequests
 Resets <- NoResets
 MaxRows = 3
 MaxVersion = 1
 Handlers <- ConcurrentHandlers
INVARIANTS TypeOK Lineage ParentRetired
PROPERTIES RevokedIsFinal
CHECK_DEADLOCK FALSE
