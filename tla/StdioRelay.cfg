\* Two clients, one of them with three lines, a channel for one line, two faults.
SPECIFICATION FairSpec
CONSTANTS
    Sessions = {s1, s2}
    s1 = s1
    s2 = s2
    Capacity = 1
    Nil = Nil
    MaxLines <- MCMaxLines
    MaxFaults = 2
INVARIANTS
    TypeOK
    NothingLeaks
PROPERTIES
    NoGaps
    ClosedEnds
    EndedIsReleased
    CallbackReturns
CHECK_DEADLOCK FALSE
