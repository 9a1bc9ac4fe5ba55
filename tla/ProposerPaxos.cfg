\* Two acceptors, a window of one instance that slides over two, two clients'
\* packets, one packet lost, late or repeated, another program's phase 1 in
\* instance 1.  When both packets are accepted nothing is left to do.
SPECIFICATION Spec
CONSTANTS
    NumAcceptors = 2
    Request = {r1, r2}
    Empty = Empty
    Garbage = Garbage
    NoValue = NoValue
    MaxInst = 2
    BURST_SIZE = 1
    OtherBallot = 14
    OtherInst = {1}
    MaxFaults = 1
INVARIANTS
    IInv
    AcceptAfterPromises
    RequestsConserved
    ClosedByVotes
    WindowSlides
PROPERTY
    RequestsAreAccepted
CHECK_DEADLOCK FALSE
