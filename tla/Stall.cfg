\* A connection that stops although every thread, and the network, is fair.
SPECIFICATION FullyFairSpec
CONSTANTS
    SEQNUM = 4
    MAXMESSAGE = 2
    FileLength = 3
    MayDuplicate = FALSE
PROPERTIES
    AcceptedIsDelivered
CHECK_DEADLOCK FALSE
