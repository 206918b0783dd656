\* Three clients, two of them patient, for two positions.  The game may stop: nobody has to type.
SPECIFICATION FairSpec
CONSTANTS
    Clients = {p1, p2, q1}
    Patient = {p1, p2}
    MAX_CLIENTS = 2
    Numbers <- MCNumbers
    Fin = Fin
    Nothing = Nothing
    MaxRound = 2
    MaxUnread = 2
INVARIANTS
    NumbersAreOfTheirRound
    LargestIsAnnounced
    IInv
PROPERTIES
    RoundsEnd
CHECK_DEADLOCK FALSE
