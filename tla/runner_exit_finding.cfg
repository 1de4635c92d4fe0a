SPECIFICATION Spec
CONSTANTS
    Heartbeat = heartbeat
    Checker = checker
    NetBox = netbox
    NetBoxConfigured = FALSE
    Worker = {w1}
INVARIANT CleanExitMeansSignal
\* The process ends.
CHECK_DEADLOCK FALSE
