\* An interjection between a call's look at the queue and its wait.
SPECIFICATION Spec
CONSTANTS
    Flows = {f1}
    Callers = {c1}
    f1 = f1
    c1 = c1
    Window = 1
    MaxDeliver = 3
    MaxTime = 0
    MaxSends = 1
    MaxFaults = 0
    MaxRestarts = 0
INVARIANTS
    ParkedMeansEmpty
CHECK_DEADLOCK FALSE
