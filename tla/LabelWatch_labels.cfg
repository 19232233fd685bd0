SPECIFICATION FairSpec
CONSTANTS
    Services = {"stop", "restart"}
    BootLabels = {"true", "remove"}
    FaultKinds = {"boot", "install", "exit", "uninstall", "label", "service", "watch", "crash"}
    MaxFaults = 1
    MaxEdits = 2
    MaxCloses = 1
    MaxQueue = 1
INVARIANT TypeOK
INVARIANT Agreement
INVARIANT EnabledIsInstalled
PROPERTY RequestServed
