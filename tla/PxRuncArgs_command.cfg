SPECIFICATION Spec
CONSTANTS
    Words = {"", "--sync", "--log", "-x", "kubernetes", "--help", "install"}
    InstallWords = {"install"}
    MaxArgs = 3
    Paths = {"/var/run/docker.sock", "/opt/pwx", "/etc/hosts"}
    MaxMounts = 1
    Images = {v1, v2}
INVARIANT TypeOK
INVARIANT ArgsPassed
INVARIANT MountsPassed
INVARIANT Recognised
SYMMETRY ImageSymmetry
