\* Two servers; packets that outlive a round, and transaction ids that wrap.
SPECIFICATION Spec
CONSTANTS
    Servers = {a1, a2}
    Tids = 2
    Lifetime = 1
INVARIANTS
    IInv
    AnswersAreOfThisRound
