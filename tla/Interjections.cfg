\* One flow, two sessions, two interjections, a fault, and as many restarts as
\* an interjection may be delivered.
SPECIFICATION FairSpec
CONSTANTS
    Flows = {f1}
    Callers = {c1, c2}
    f1 = f1
    c1 = c1
    c2 = c2
    Window = 1
    MaxDeliver = 2
    MaxTime = 1
    MaxSends = 2
    MaxFaults = 1
    MaxRestarts = 2
INVARIANTS
    TypeOK
    DroppedOnlyRepeats
    StopIsShownFirst
    NoneIsLost
PROPERTIES
    KeepsMailboxes
    AllAreHeard
CHECK_DEADLOCK FALSE
