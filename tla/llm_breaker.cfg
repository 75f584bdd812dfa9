\* Two calls at once. The clock always ticks, so nothing deadlocks.
SPECIFICATION FairSpec
CONSTANTS
 c1 = c1
 c2 = c2
 Calls <- TwoCalls
 FailThreshold = 2
 ResetSeconds = 1
 Ttl = 4
 MaxAttempts = 2
 MaxFailures = 4
INVARIANTS TypeOK TripEarned
PROPERTIES CallsFinish BreakerRecovers
