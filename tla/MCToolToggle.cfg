CONSTANTS
    Requests = {r1, r2}
    Kinds = {"chat", "chat_stream", "eval", "run", "put"}
    Tools <- TwoTools
    MaxRuns = 2
    MaxFailures = 1
    None = None
SPECIFICATION FairSpec
INVARIANTS TypeOK BlockAgrees CleanRequestSettles NoSelfWait
PROPERTY EveryRequestEnds
CHECK_DEADLOCK FALSE
