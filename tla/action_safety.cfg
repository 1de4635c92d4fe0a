SPECIFICATION Spec
CONSTANTS
    Action = {a1, a2}
    Unknown = {}
    NoAction = NoAction
    Worker = {w1, w2}
    Malformed = {}
    MaxVersion = 2
    MaxDeliveries = 1
    MaxTime = 1
SYMMETRY Symmetric
INVARIANTS IInv ActionsSeeTheirConfig StaleWorkNotRun
\* The agent comes to its end after shutdown.
CHECK_DEADLOCK FALSE
