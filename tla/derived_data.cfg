\* Webhook deliveries and a backfill over the posts of one channel; the
\* workers that embed a post; the cache of one membership; the sockets
\* of one user.
CONSTANTS
    Hooks = {h1, h2}
    Messages <- TwoMessages
    MaxRev <- OneEdit
    MaxRuns = 1
    MaxFaults = 1
    Workers = {w1, w2}
    MAX_RETRIES = 1
    MaxText = 3
    MaxTasks = 3
    Readers = {r1, r2}
    Writers = {w1}
    Roles = {"viewer", "admin"}
    MaxWrites = 2
    Sockets = {w1, w2}
    Pool = 1
    MaxEvents = 2
SPECIFICATION FairDataSpec
INVARIANTS
    AckedStored
    NewestWhenOrdered
    BackfillComplete
    OneRowAlone
    FreshUnlessRaced
PROPERTIES
    EventuallyCurrent
    NoOldVector
    ChangeTakesHold
    StreamLetsGo
CHECK_DEADLOCK FALSE
