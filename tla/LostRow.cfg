SPECIFICATION Spec
CONSTANTS
    m1 = m1
    m2 = m2
    NoMsg = NoMsg
    Msgs = {m1, m2}
    Modes = {"queue"}
    Reads = {"yes", "no"}
    Outcomes = {"sent", "failed"}
    Agent = {"idle", "working"}
    Overlap = 2
    MaxCrashes = 0
    MaxArchives = 0
    MaxGaps = 0
    MaxFailures = 2
SYMMETRY Symmetry
INVARIANTS
    NoSilentLoss
