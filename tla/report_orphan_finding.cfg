SPECIFICATION Spec
CONSTANTS
    Report = {r1, r2}
    Submitter = {worker}
    Main = main
    NoReport = NoReport
    Skew = 1
    MaxTime = 1
    MaxCount = 2
    MaxFaults = 2
INVARIANT OrphansAreForeign
\* The instance may come to rest: every report used and every fault spent.
CHECK_DEADLOCK FALSE
