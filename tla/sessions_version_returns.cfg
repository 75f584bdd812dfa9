\* Two handlers at once: a version bump and another bump begun before it.
SPECIFICATION Spec
CONSTANTS
 u1 = u1
 u2 = u2
 r1 = r1
 r2 = r2
 p1 = p1
 NoUser = NoUser
 NoReset = NoReset
 Users <- OneUser
 Requests <- TwoRequests
 Resets <- NoResets
 MaxRows = 3
 MaxVersion = 2
 Handlers <- BumpHandlers
PROPERTY VersionNeverReturns
