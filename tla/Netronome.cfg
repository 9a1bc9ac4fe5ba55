\* Two threads, two instances, two rounds.
SPECIFICATION Spec
CONSTANTS
    Thread = {t1, t2}
    Value = {v1, v2}
    Zero = Zero
    MAX_INST = 2
    InstanceNumbers = 2
    MaxRound = 2
    MaxPackets = 4
SYMMETRY Symmetry
INVARIANTS
    IInv
    SerialPromises
    SerialRegisters
    NoOrphanRounds
CHECK_DEADLOCK FALSE
