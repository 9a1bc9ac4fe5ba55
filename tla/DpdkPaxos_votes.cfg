\* Two acceptors; primary and backup compete for one instance.
SPECIFICATION Spec
CONSTANTS
    NumAcceptors = 2
    Request = {r1, r2}
    Empty = Empty
    Garbage = Garbage
    NoValue = NoValue
    MaxInst = 1
    MaxRestarts = 0
    Learner = {l0}
    FirstLearner = l0
    NB_VALUE_BUFFER = 1
    WithBackup = TRUE
SYMMETRY Symmetry
INVARIANT
    DeliveryHasQuorum
    PromiseBinds
CHECK_DEADLOCK FALSE
