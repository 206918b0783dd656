\* Two tasks, and two process numbers that are used again and again.
SPECIFICATION FairSpec
CONSTANTS
    num_tasks = 2
    Pids = {p1, p2}
    TIMEOUT_ATTEMPTS = 2
INVARIANTS
    HoldersOwnTheirTasks
    IInv
PROPERTIES
    ResultsAreForTheirTask
    ImplementsBoard
    LostTasksComeBack
