SPECIFICATION HangingSpec
CONSTANTS
    Heartbeat = heartbeat
    Checker = checker
    NetBox = netbox
    NetBoxConfigured = TRUE
    Worker = {w1}
INVARIANTS IInv ExitCodeRight
PROPERTIES AreAgentThreads ShutdownDecides AgentStops
\* The process ends.
CHECK_DEADLOCK FALSE
