SPECIFICATION FairSpec
CONSTANTS
    N = 3
    Images = {1, 2}
    None = None
    Torn = Torn
    CrossMount = {1}
    Revert = FALSE
    SerialSweep = TRUE
    FaultKinds = {"start", "pull", "id", "runonce", "runc", "purge", "mkdir", "stop", "save", "place", "runc2", "rbremove", "rbmove", "sweep", "enable", "restart", "unstop", "undisable", "unremove"}
    MaxFaults = 2
    MaxCrashes = 1
    MaxInstalls = 1
    MaxUninstalls = 1
INVARIANT TypeOK
PROPERTY BootEndsOrStuck
