SPECIFICATION Spec
CONSTANTS
    N = 3
    Images = {1, 2}
    None = None
    Torn = Torn
    CrossMount = {}
    Revert = TRUE
    SerialSweep = TRUE
    FaultKinds = {"start", "pull", "id", "runonce", "runc", "mkdir", "stop", "save", "place", "runc2", "sweep", "enable", "restart"}
    MaxFaults = 1
    MaxCrashes = 0
    MaxInstalls = 2
    MaxUninstalls = 0
INVARIANT RollbackRestores
INVARIANT NoPartLost
PROPERTY Refines

