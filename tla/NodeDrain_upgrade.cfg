SPECIFICATION FairSpec
CONSTANTS
    Pods = {p1, p2}
    Managed = {p1}
    DrainAll = TRUE
    FaultKinds = {"list", "lookup", "cordon", "delete"}
    MaxFaults = 2
    MaxRounds = 2
    MaxEdits = 1
INVARIANT TypeOK
INVARIANT SwitchDrained
INVARIANT CordonBalanced
PROPERTY KeptOut
PROPERTY DrainEnds
