SPECIFICATION FairSpec
CONSTANTS
    MaxTokens = 3
    MaxFaults = 3
INVARIANTS IdentityKept
PROPERTY ComesUp
\* Tokens and faults may be used up.
CHECK_DEADLOCK FALSE
