SPECIFICATION FairSpec
CONSTANTS
    Notifications = {n1}
    None = None
    MaxDeliver = 3
    MaxServices = 2
    MaxTaps = 2
    MaxFaults = 3
INVARIANTS
    TypeOK
    RenderedOnce
    TapIsNotLost
    AckedIsHandled
PROPERTIES
    Delivered
    Reconnects
CHECK_DEADLOCK FALSE
