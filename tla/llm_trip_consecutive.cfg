\* One call after the other, in one process.
SPECIFICATION Spec
CONSTANTS
 c1 = c1
 c2 = c2
 Calls <- OneCall
 FailThreshold = 2
 ResetSeconds = 1
 Ttl = 4
 MaxAttempts = 2
 MaxFailures = 4
PROPERTY TripConsecutive
