SPECIFICATION Spec
CONSTANTS
    Services = {}
    BootLabels = {"true", "false"}
    FaultKinds = {}
    MaxFaults = 0
    MaxEdits = 1
    MaxCloses = 0
    MaxQueue = 1
INVARIANT Installed
