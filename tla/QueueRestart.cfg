SPECIFICATION Spec
CONSTANTS
    m1 = m1
    m2 = m2
    NoMsg = NoMsg
    Msgs = {m1, m2}
    Modes = {"start", "queue", "steer"}
    Reads = {"yes", "no"}
    Outcomes = {"sent", "failed", "busy"}
    Agent = {"idle", "working"}
    Overlap = 1
    MaxCrashes = 1
    MaxArchives = 0
    MaxGaps = 0
    MaxFailures = 2
SYMMETRY Symmetry
INVARIANTS
    SendingRowOwned
    NoSilentLoss
