\* Two devices, one of them paired at first, two commands, two daemon processes
\* and one fault.
SPECIFICATION MCSpec
CONSTANTS
    Devices = {d1, d2}
    Commands = {1, 2}
    Daemons = {1, 2}
    d1 = d1
    d2 = d2
    Empty = Empty
    Broken = Broken
    NoFile = NoFile
    NoPid = NoPid
    MaxFaults = 1
INVARIANTS
    TypeOK
    PairedUntilRevoked
    Agreement
    CutOff
PROPERTIES
    KeepsSeen
CHECK_DEADLOCK FALSE
