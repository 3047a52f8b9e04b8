CONSTANTS
    Lessons = {l1, l2, l3, l4}
    Runs = {r1, r2}
    Kinds = {"sync", "scheduled"}
    Verdicts = {"failed", "better", "worse", "same"}
    MaxLessons = 1
    Loaded = 1
    FirstRows <- New
    MaxScore = 0
    MaxUsed = 1
    Overcap = 0
    NoRow = NoRow
    Gone = Gone
    Clean = Clean
SPECIFICATION Spec
SYMMETRY Symmetry
PROPERTY CapEnforced
CHECK_DEADLOCK FALSE
