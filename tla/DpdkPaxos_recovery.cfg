\* Recovery of an instance in which a value was chosen.
SPECIFICATION Spec
CONSTANTS
    NumAcceptors = 3
    Request = {r1, r2}
    Empty = Empty
    Garbage = Garbage
    NoValue = NoValue
    MaxInst = 1
    MaxRestarts = 0
    Learner = {l0}
    FirstLearner = l0
    NB_VALUE_BUFFER = 1
    WithBackup = TRUE
SYMMETRY Symmetry
INVARIANT
    RecoveryKeepsDecision
CHECK_DEADLOCK FALSE
