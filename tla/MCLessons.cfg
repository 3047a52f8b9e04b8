CONSTANTS
    Lessons = {l1, l2, l3}
    Runs = {r1, r2}
    Kinds = {"sync", "stream", "scheduled"}
    Verdicts = {"failed", "better", "worse"}
    MaxLessons = 1
    Loaded = 1
    FirstRows <- Left
    MaxScore = 1
    MaxUsed = 1
    Overcap = 1
    NoRow = NoRow
    Gone = Gone
    Clean = Clean
SPECIFICATION Spec
SYMMETRY Symmetry
INVARIANTS TypeOK NoLowScore
PROPERTIES CapKeptAlone DeletedStaysDeleted
CHECK_DEADLOCK FALSE
