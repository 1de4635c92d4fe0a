SPECIFICATION FairSpec
CONSTANTS
    Report = {r1, r2}
    Submitter = {worker}
    Main = main
    NoReport = NoReport
    Skew = 0
    MaxTime = 0
    MaxCount = 1
    MaxFaults = 2
PROPERTIES ShutdownEnds OwedAttempt RestartDrains NeverGivesUp
\* The instance may come to rest: every report used and every fault spent.
CHECK_DEADLOCK FALSE
