\* Two asks in one or two flows, an answer, a stop, and a fault or a
\* shutdown.
\* The timer of one ask may expire before its subscription.
SPECIFICATION MCSpec
CONSTANTS
    Asks = {a1, a2}
    Flows = {f1, f2}
    Waiters = {w1}
    a1 = a1
    a2 = a2
    f1 = f1
    f2 = f2
    w1 = w1
    Choices = {"yes"}
    Impatient = {a2}
    Blank = Blank
    Open = Open
    MaxAnswers = 1
    MaxStops = 1
    MaxFaults = 1
INVARIANTS
    TypeOK
    OnlyStopsCrash
    DecisionIsDue
PROPERTIES
    KeepsPromise
    WaitsEnd
CHECK_DEADLOCK FALSE
