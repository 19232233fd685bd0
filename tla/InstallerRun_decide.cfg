SPECIFICATION Spec
CONSTANTS
    Images = {v1, v2}
    None = None
    BufSize = 3
    MarkLen = 2
    MaxLen = 5
    Frames = 2
    Mounts = {pod, disk}
    PodMounts = {pod}
    MaxFaults = 1
    MaxStarts = 2
INVARIANT TypeOK
INVARIANT NoFalseAlarm
INVARIANT RightImage
INVARIANT CordonIfInDoubt
INVARIANT RestartIfChanged
