SPECIFICATION FairSpec
CONSTANTS
    N = 3
    Images = {1, 2}
    None = None
    Torn = Torn
    CrossMount = {1, 2}
    Revert = FALSE
    SerialSweep = TRUE
    FaultKinds = {"start", "pull", "runonce", "runc", "purge", "mkdir", "stop", "save", "place", "rbremove", "rbmove", "sweep", "enable", "restart"}
    MaxFaults = 1
    MaxCrashes = 3
    MaxInstalls = 1
    MaxUninstalls = 0
INVARIANT FinishedWhole
PROPERTY BootEnds

