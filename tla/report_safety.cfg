SPECIFICATION Spec
CONSTANTS
    Report = {r1, r2}
    Submitter = {checker, worker}
    Main = main
    NoReport = NoReport
    Skew = 0
    MaxTime = 1
    MaxCount = 2
    MaxFaults = 2
SYMMETRY Symmetric
INVARIANTS IInv NoReportLost PersistedAndCountedFirst SoleOwner SkewWindow
PROPERTIES ImplementsPromise ReplayKeepsOrder
\* The instance may come to rest: every report used and every fault spent.
CHECK_DEADLOCK FALSE
