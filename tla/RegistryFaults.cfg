\* One flow on a shared broker: a lost ack, publish or ledger operation, or a
\* consumer that quits, and a restart.  MaxDeliver is 2 so that the last
\* delivery is reached.
SPECIFICATION FairSpec
CONSTANTS
    Flows = {f1}
    f1 = f1
    GracePeriod = 1
    MaxDeliver = 2
    DupWindow = 1
    Embedded = FALSE
    EndKinds = {"completed"}
    Sweepers = {"ticker"}
    MaxTime = 3
    ActiveUntil = 1
    MaxCalls = 1
    MaxFaults = 1
    MaxRestarts = 1
INVARIANTS
    TypeOK
    BirthRecorded
    SilentAreStale
PROPERTIES
    NoPhantomFlows
CHECK_DEADLOCK FALSE
