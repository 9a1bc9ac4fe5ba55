SPECIFICATION RecoverySpec
CONSTANTS
    Acceptors = {s2, s3, s4}
    num_acceptors = 3
    Crashed = {s4, h3}
    Learners = {h2, h3}
    Commands <- OnePut
    Count = 0
    INSTANCE_COUNT = 3
    MaxRestarts = 0
    MAX_REQ_ID = 2
    MaxSubmits = 2
    NoAcceptor = NoAcceptor
    Empty = Empty
    Keys = {k1}
    Values = {v1}
    NoValue = NoValue
    Keyless = Keyless
    Truncated = Truncated
    NoRequest = NoRequest
    Waiting = Waiting
    k1 = k1
    v1 = v1
CHECK_DEADLOCK FALSE
PROPERTIES
    HolesAreFilled
    RequestsAreAnswered
