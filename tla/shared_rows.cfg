\* Connections of a channel, a brand's memory, attempt counters, recovery
\* codes, e-mail codes, agent runs, user-bot sessions,
\* idempotency keys and accounts.
CONSTANTS
    r1 = r1
    r2 = r2
    b1 = b1
    i1 = i1
    i2 = i2
    u1 = u1
    Requests = {r1, r2}
    Brands = {b1, b2}
    MaxCalls = 4
    MaxEdits = 3
    MaxMatch = 1
    Threshold = 2
    MaxTries = 6
    MaxLists = 2
    MaxMfaCalls = 4
    MaxAttempts = 2
    MaxCodes = 2
    MaxMailCalls = 4
    Runs = {i1, i2}
    MaxLlmCalls = 2
    Sessions = {i1, i2}
    Probes = {p1}
    MaxUses = 2
    MaxSent = 4
    Users = {u1, u2}
    Conns = {i1, i2}
    MaxVisits = 3
SPECIFICATION MCSpec
SYMMETRY Symmetry
INVARIANTS
    BindingsSound
    MemoryHolds
    AttemptsCounted
    CodesOneShot
    CodesHold
    TokensConserved
    RetryReplays
    AccountsHold
PROPERTIES
    LiveRoleStable
    EditReplacesNamed
    BanIsFinal
CHECK_DEADLOCK FALSE
