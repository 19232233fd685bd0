SPECIFICATION Spec
CONSTANTS
    N = 3
    Images = {1, 2}
    None = None
    Torn = Torn
    CrossMount = {}
    Revert = FALSE
    SerialSweep = TRUE
    FaultKinds = {"start", "pull", "runonce", "runc", "mkdir", "stop", "save", "place", "sweep", "unstop"}
    MaxFaults = 2
    MaxCrashes = 0
    MaxInstalls = 2
    MaxUninstalls = 1
INVARIANT FinishedRunning
PROPERTY Refines

