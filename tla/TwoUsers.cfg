\* Two processes get the same entry.
SPECIFICATION Spec
CONSTANTS
    MAXSOCKETS = 2
    Processes = {p1, p2}
    Addresses = {a1}
    FdLimit = 3
    Signalled = {"main", "other"}
    LoopsWait = FALSE
INVARIANTS
    EntriesHaveOneUser
SYMMETRY Symmetry
CHECK_DEADLOCK FALSE
