CONSTANTS
    ctx = ctx
    mgr = mgr
    d1 = d1
    d2 = d2
    Senders <- MCSenders
    Keys = {1, 2, 3}
    DocIds = {d1, d2}
    Compares <- MCCompares
    InitPairs <- MCInitPairs
    Reqs <- MCReqs
    MaxReq = 2

SPECIFICATION IASpec

INVARIANT IATypeOK
PROPERTY FindAnswersRange
PROPERTY EveryRequestAnswered

CHECK_DEADLOCK FALSE
