\* Registers for one instance, a leader of p4-16 that numbers two, three rounds, two
\* packets of the later ones.
SPECIFICATION Spec
CONSTANTS
    Acc0 = Acc0
    Acc1 = Acc1
    Acc2 = Acc2
    NoAcc = NoAcc
    Value = {v1}
    Zero = Zero
    INSTANCE_COUNT = 1
    WideInstances = 2
    MaxRound = 2
    MaxInjected = 2
SYMMETRY Symmetry
INVARIANTS
    IInv
    PromisesBind
    HistoryIsOneRound
    ForwardNeedsMajority
    MajorityIsForwarded
