\* Two asks in one flow, one answer.
SPECIFICATION Spec
CONSTANTS
    Asks = {a1, a2}
    Flows = {f1}
    Waiters = {w1}
    a1 = a1
    a2 = a2
    f1 = f1
    w1 = w1
    Choices = {"yes"}
    Impatient = {}
    Blank = Blank
    Open = Open
    MaxAnswers = 1
    MaxStops = 0
    MaxFaults = 0
INVARIANTS
    AnswerRoutesToItsAsk
CHECK_DEADLOCK FALSE
