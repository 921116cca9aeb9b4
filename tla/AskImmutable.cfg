\* A stop, then the answer of the user.
SPECIFICATION Spec
CONSTANTS
    Asks = {a1}
    Flows = {f1}
    Waiters = {w1}
    a1 = a1
    f1 = f1
    w1 = w1
    Choices = {"yes"}
    Impatient = {}
    Blank = Blank
    Open = Open
    MaxAnswers = 1
    MaxStops = 1
    MaxFaults = 0
PROPERTIES
    DecidedIsImmutable
CHECK_DEADLOCK FALSE
