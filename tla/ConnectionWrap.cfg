\* Sequence numbers that wrap, MAXMESSAGE dividing SEQNUM; retransmission gets everything through.
SPECIFICATION FairSpec
CONSTANTS
    SEQNUM = 4
    MAXMESSAGE = 2
    FileLength = 4
    MayDuplicate = TRUE
INVARIANTS
    IInv
PROPERTIES
    ImplementsStream
    TransmittedIsDelivered
CHECK_DEADLOCK FALSE
