\* Two flows, both sweepers and a restart of the embedded broker; message IDs
\* expire after a second.
SPECIFICATION Spec
CONSTANTS
    Flows = {f1, f2}
    f1 = f1
    f2 = f2
    GracePeriod = 0
    MaxDeliver = 3
    DupWindow = 1
    Embedded = TRUE
    EndKinds = {"completed"}
    Sweepers = {"startup", "ticker"}
    MaxTime = 1
    ActiveUntil = 1
    MaxCalls = 1
    MaxFaults = 0
    MaxRestarts = 1
SYMMETRY FlowSymmetry
INVARIANTS
    EndedStaysOut
    LiveUnlessReaped
CHECK_DEADLOCK FALSE
