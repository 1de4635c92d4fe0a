SPECIFICATION FairSpec
CONSTANTS
    Host = {h1, h2, h3}
    MaxParallel = 2
    MaxEdits = 1
INVARIANTS IInv DrainBounded StartupFirst
PROPERTIES ReportComplete CycleIsReported
\* The thread ends after shutdown.
CHECK_DEADLOCK FALSE
