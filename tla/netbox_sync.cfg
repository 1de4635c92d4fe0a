SPECIFICATION FairSpec
CONSTANTS
    Scheduler = scheduler
    Worker = {w1}
    MaxInventory = 1
    MaxTime = 1
INVARIANTS IInv ListsAreSound
PROPERTIES GateAfterAttempt AloneInOrder AreAgentThreads GateOpens ShutdownQuiets
\* The agent may come to its end.
CHECK_DEADLOCK FALSE
