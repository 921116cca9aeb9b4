\* Two rebuilds of the heartbeat snapshot, the older one set last.
SPECIFICATION FairSpec
CONSTANTS
    Flows = {f1, f2}
    f1 = f1
    f2 = f2
    GracePeriod = 0
    MaxDeliver = 3
    DupWindow = 120
    Embedded = TRUE
    EndKinds = {"completed"}
    Sweepers = {"ticker"}
    MaxTime = 1
    ActiveUntil = 1
    MaxCalls = 1
    MaxFaults = 0
    MaxRestarts = 0
PROPERTIES
    HeartbeatSettles
CHECK_DEADLOCK FALSE
