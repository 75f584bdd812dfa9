\* Two calls at once: one of them trips the breaker under the other.
SPECIFICATION Spec
CONSTANTS
 c1 = c1
 c2 = c2
 Calls <- TwoCalls
 FailThreshold = 2
 ResetSeconds = 1
 Ttl = 4
 MaxAttempts = 2
 MaxFailures = 4
PROPERTY OpenHolds
