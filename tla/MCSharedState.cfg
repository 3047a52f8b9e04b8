CONSTANTS
    \* sets of different modules share their model values: one symmetry serves all
    Parts = {"sessions", "memory", "volume", "evals"}
    Req = {r1, r2, r3}
    Name = {a1, a2}
    Pw = {i1, i2}
    SetupToken = FALSE
    Expire = 3
    MaxClock = 3
    MaxArrivals = 5
    MaxRestarts = 1
    None = None
    Prep = {i1, i2}
    Skill = {k1}
    SkillName = {n1, f1}
    Text = {t1}
    Part = {f1}
    Tool = {w1}
    n1 = n1
    t1 = t1
    Lesson <- MCLesson
    MaxPreps = 2
    MaxEdits = 2
    MaxFails = 1
    Job = {i1, i2}
    pkgP = pkgP
    pkgQ = pkgQ
    pDir = pDir
    qDir = qDir
    loose = loose
    other = other
    Given = {pkgP, pkgQ, other}
    Pkg = {pkgP, pkgQ}
    Version = {a1, a2}
    Entry = {pDir, loose, qDir}
    Owns <- MCOwns
    Needs <- MCNeeds
    Stem <- MCStem
    MaxRequests = 3
    MaxKills = 1
    Eval = {i1, i2}
    Scen = {s1}
    Defs <- MCDefs
    Mock = FALSE
    Pool = 2
    MaxEvals = 2
    MaxEvents = 1
SPECIFICATION SharedSpec
INVARIANTS
    SharedTypeOK
    OneAccount
    LogoutIsFinal
    OldPasswordIsOut
    ReportedIsThere
    RememberedOnce
    ListedHasCode
    UnderItsSettings
SYMMETRY Alike
CHECK_DEADLOCK FALSE
