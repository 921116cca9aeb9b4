\* A command and a call of the ask tool, two flows, and two of: a message of the
\* users, an interjection, a trouble, a timeout of the ask tool.
SPECIFICATION MCSpec
CONSTANTS
    Notifications = {cmd, tool}
    cmd = cmd
    tool = tool
    Flows = {"f1", "f2"}
    MaxIncidents = 2
    Kinds <- MCKinds
    Picks = {"Deny", "Allow once", "suggestion"}
    Answers = {"Deny", "Allow once", "suggestion"}
    Deny = "Deny"
    AllowOnce = "Allow once"
    None = None
    LabelOf <- MCLabelOf
    MaxAnswers = 2
    MaxInterjects = 1
    MaxTroubles = 2
INVARIANTS
    TypeOK
    
    InTimeIsHeard
    FlowsAreEnded
    AnswersAreKept
PROPERTIES
    WaitsEnd
CHECK_DEADLOCK FALSE
