CONSTANTS
    d1 = d1
    c1 = c1
    c2 = c2
    x = x
    a = a
    b = b
    Loader = Loader
    Dbs = {d1}
    Colls = {c1, c2}
    Docs = {x}
    Clients = {a, b}
    Snapshot <- MCSnapshot
    MaxInc = 2
    MaxReq = 2

SPECIFICATION SSpec

INVARIANT STypeOK
INVARIANT LoadFinishAfterFill
PROPERTY LoadCompletes
PROPERTY EveryRequestAnswered

CHECK_DEADLOCK FALSE
