\* MAXMESSAGE does not divide SEQNUM, as 10 does not divide 256: past the first lap.
SPECIFICATION Spec
CONSTANTS
    SEQNUM = 4
    MAXMESSAGE = 3
    FileLength = 4
    MayDuplicate = FALSE
INVARIANTS
    LapInv
    OutstandingIsRecorded
    ClosedWindowIsRemembered
CHECK_DEADLOCK FALSE
