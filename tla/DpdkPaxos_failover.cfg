\* Primary and backup, failover and failback, one coordinator restart.
SPECIFICATION Spec
CONSTANTS
    NumAcceptors = 1
    Request = {r1, r2}
    Empty = Empty
    Garbage = Garbage
    NoValue = NoValue
    MaxInst = 3
    MaxRestarts = 1
    Learner = {l0}
    FirstLearner = l0
    NB_VALUE_BUFFER = 1
    WithBackup = TRUE
SYMMETRY Symmetry
INVARIANT
    IInv
    RequestPlacedOnce
CHECK_DEADLOCK FALSE
