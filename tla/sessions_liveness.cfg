\* Two handlers of one user that wait for each other's row locks.
\* A blocked user with no row leaves nothing to do.
SPECIFICATION FairSpec
CONSTANTS
 u1 = u1
 u2 = u2
 r1 = r1
 r2 = r2
 p1 = p1
 NoUser = NoUser
 NoReset = NoReset
 Users <- OneUser
 Requests <- TwoRequests
 Resets <- NoResets
 MaxRows = 2
 MaxVersion = 1
 Handlers <- LockingHandlers
PROPERTY HandlersFinish
CHECK_DEADLOCK FALSE
