\* One handler at a time, two users: the promise of SessionAuthority.
SPECIFICATION Spec
CONSTANTS
 u1 = u1
 u2 = u2
 r1 = r1
 r2 = r2
 p1 = p1
 NoUser = NoUser
 NoReset = NoReset
 Users <- TwoUsers
 Requests <- OneRequest
 Resets <- OneReset
 MaxRows = 3
 MaxVersion = 2
 Handlers <- SerialHandlers
INVARIANTS NoSilentRestore OneLivePerFamily
PROPERTIES ImplementsAuthority OwnerRevokes ResetOneShot
