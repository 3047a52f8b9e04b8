SPECIFICATION Spec
SYMMETRY Symmetry
\* a deleted workflow is never created again: everything may come to rest
CHECK_DEADLOCK FALSE
CONSTANTS
    c1 = c1
    c2 = c2
    cbad = cbad
    a1 = a1
    a2 = a2
    t1 = t1
    t2 = t2
    v1 = v1
    Workflows = {w1}
    Requests = {r1,r2}
    Crons <- MCCrons
    BadCrons <- MCBadCrons
    Agents <- MCAgents
    Tmpls <- MCTmpls
    Vars <- MCVars
    NoCron = NoCron
    NoAgent = NoAgent
    NoVars = NoVars
    Absent = Absent
    Null = Null
    Blank = Blank
    NoRow = NoRow
    Gone = Gone
    NoJob = NoJob
    NoWf = NoWf
    Free = Free
    Clients = "api"
    CreateBodies <- MCCreateBodies
    ImportBodies <- MCImportBodies
    UpdateBodies <- MCUpdateBodies
    Faults = {"jobstore","validation","commit"}
    MaxCrashes = 1
INVARIANTS
    TypeOK
    SchedulesAgree
PROPERTIES
    DeletedStaysDeleted
    UpdateKeepsCronValid
    UntouchedColumnsSurvive
