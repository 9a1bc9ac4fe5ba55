SPECIFICATION Spec
CONSTANTS
    Acceptors = {s2}
    num_acceptors = 1
    Crashed = {}
    Learners = {h2, h3}
    Commands <- AnyCommand
    Count = 3
    INSTANCE_COUNT = 3
    MaxRestarts = 1
    MAX_REQ_ID = 2
    MaxSubmits = 3
    NoAcceptor = NoAcceptor
    Empty = Empty
    Keys = {k1}
    Values = {v1}
    NoValue = NoValue
    Keyless = Keyless
    Truncated = Truncated
    NoRequest = NoRequest
    Waiting = Waiting
    k1 = k1
    v1 = v1
CHECK_DEADLOCK FALSE
SYMMETRY Symmetry
INVARIANTS
    ReplicasAgree
    TypeOK
    SInv
    DatabaseIsPrefix
PROPERTY DecisionsAreFinal
