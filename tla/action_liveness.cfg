SPECIFICATION RecoveringSpec
CONSTANTS
    Action = {a1, a2}
    Unknown = {a2}
    NoAction = NoAction
    Worker = {w1}
    Malformed = {2}
    MaxVersion = 2
    MaxDeliveries = 1
    MaxTime = 0
PROPERTIES QueueServed ConfigCatchesUp
\* The agent comes to its end after shutdown.
CHECK_DEADLOCK FALSE
