SPECIFICATION Spec
CONSTANTS
    Minors = {5, 6, 7, 8, 9, 10}
    Devices = {sdb}
    NotGiven = NotGiven
    Multiline = Multiline
INVARIANT TypeOK
INVARIANT ApiAsUpgrade
INVARIANT OnePerNode
INVARIANT OnlyNamedDrives
INVARIANT Verbatim
