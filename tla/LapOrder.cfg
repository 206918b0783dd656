\* Messages out of order after the first lap of the sequence numbers.
SPECIFICATION Spec
CONSTANTS
    SEQNUM = 5
    MAXMESSAGE = 2
    FileLength = 7
    MayDuplicate = FALSE
INVARIANTS
    InOrderAfterFirst
CHECK_DEADLOCK FALSE
