SPECIFICATION Spec
CONSTANTS
    m1 = m1
    m2 = m2
    NoMsg = NoMsg
    Msgs = {m1, m2}
    Modes = {"start", "queue"}
    Reads = {"yes", "no"}
    Outcomes = {"sent", "failed"}
    Agent = {"idle", "approval"}
    Overlap = 1
    MaxCrashes = 0
    MaxArchives = 1
    MaxGaps = 1
    MaxFailures = 2
SYMMETRY Symmetry
INVARIANTS
    SentAtMostOnce
    NoSilentLoss
