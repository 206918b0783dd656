\* Losses, duplicates and reordering of a file longer than a buffer. The system stops when the file is read.
SPECIFICATION Spec
CONSTANTS
    SEQNUM = 8
    MAXMESSAGE = 3
    FileLength = 4
    MayDuplicate = TRUE
INVARIANTS
    TypeOK
    InOrderAfterFirst
    FreedOnlyWhenArrived
    FilledCountsSlots
    OutstandingIsRecorded
    FlowControl
    WindowNeverCloses
    AckLoopEnds
    IInv
PROPERTIES
    WindowEdgeNeverRetracts
CHECK_DEADLOCK FALSE
