\* Two entries, two processes that may die anywhere, and three descriptors; the
\* loops of main and the collector are fair, and so is the signal handler, which
\* main runs.
SPECIFICATION FairSpec
CONSTANTS
    MAXSOCKETS = 2
    Processes = {p1, p2}
    Addresses = {a1}
    FdLimit = 3
    Signalled = {"main"}
    LoopsWait = TRUE
INVARIANTS
    TypeOK
    DescriptorsAreOwn
PROPERTIES
    DeadOwnersAreCollected
CHECK_DEADLOCK FALSE
