SPECIFICATION WakeSpec
CONSTANTS
    m1 = m1
    m2 = m2
    NoMsg = NoMsg
    Msgs = {m1, m2}
    Modes = {"start", "queue", "steer"}
    Reads = {"yes", "no"}
    Outcomes = {"sent", "delivered", "failed", "busy"}
    Agent = {"idle", "working"}
    Overlap = 1
    MaxCrashes = 0
    MaxArchives = 0
    MaxGaps = 0
    MaxFailures = 2
PROPERTIES
    QueueDrains
