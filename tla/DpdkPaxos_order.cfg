\* A coordinator, three acceptors, two learners; no backup.
SPECIFICATION Spec
CONSTANTS
    NumAcceptors = 3
    Request = {r1, r2}
    Empty = Empty
    Garbage = Garbage
    NoValue = NoValue
    MaxInst = 2
    MaxRestarts = 0
    Learner = {l0, l1}
    FirstLearner = l0
    NB_VALUE_BUFFER = 1
    WithBackup = FALSE
PROPERTY
    ImplementsTotalOrder
CHECK_DEADLOCK FALSE
