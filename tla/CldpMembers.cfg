\* One server, the constants of the code, and threads and packets up to three seconds late.
SPECIFICATION FairSpec
CONSTANTS
    Servers = {a1}
    INTERVAL = 5
    SERVER_TIMEOUT = 20
    TIMEOUT_CHECK_INTERVAL = 5
    Late = 3
INVARIANTS
    IInv
    DeadServersAreGone
PROPERTIES
    SteadyServersStay
    ImplementsDetector
    DeadServersLeave
