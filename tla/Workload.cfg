\* Windows of three packets, eight packets, two of which may be lost.  A run
\* that has lost its window stops, and so does one at its last packet.
SPECIFICATION Spec
CONSTANTS
    BURST_SIZE = 3
    outstanding = 3
    MaxInst = 8
    MaxFaults = 2
INVARIANTS
    IInv
    WindowConserved
    LagBelowWindow
    NeverReportedTwice
PROPERTY
    LoadGoesOn
CHECK_DEADLOCK FALSE
