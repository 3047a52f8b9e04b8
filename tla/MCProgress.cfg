CONSTANTS
    Parts = {"evals", "runs", "lessons"}
    Req = {q1, q2}
    Scen = {e1}
    None = None
    s1 = s1
    j1 = j1
    w1 = w1
    Runs = {s1, j1}
    MaxTries = 2
    LessonIds = {l1, l2, l3}
    LessonRuns = {r1, r2}
    NoRow = NoRow
    Gone = Gone
    Clean = Clean
SPECIFICATION Spec
PROPERTIES
    EvaluationEnds
    ScheduledEnds
    EveryRunEnds
CHECK_DEADLOCK FALSE
