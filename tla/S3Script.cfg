CONSTANTS
    NumRetries = 6
    FileLen = 2
    Statuses <- MCStatuses
    LocatedStatuses <- MCLocatedStatuses
SPECIFICATION FairSpec
INVARIANTS
    TypeOK
    ExitZeroIsDone
    NeverPartial
    SomethingToRaise
PROPERTY CallSpec
\* the process ends
CHECK_DEADLOCK FALSE
PROPERTY Terminates
