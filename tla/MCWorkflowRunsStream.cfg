SPECIFICATION Spec
\* every run ends and no other is started: the system may come to rest
CHECK_DEADLOCK FALSE
CONSTANTS
    s1 = s1
    t1 = t1
    j1 = j1
    w1 = w1
    w2 = w2
    Workflows <- MCWorkflows
    Runs = {t1}
    KindOf <- MCKindOf
    WfOf <- MCWfOf
    MaxTries = 4
    Faults = {}
    MaxCrashes = 0
PROPERTIES
    StreamOutcomeStored
