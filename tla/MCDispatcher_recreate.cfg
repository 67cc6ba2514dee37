CONSTANTS
    c1 = c1
    c2 = c2
    db1 = db1
    coll1 = coll1
    d1 = d1
    Clients <- MCClients
    Dbs <- MCDbs
    Colls <- MCColls
    Docs <- MCDocs
    Loader = Loader
    WalManager = WalManager
    Replayer = Replayer
    None = None
    MaxInc = 2
    MaxReq = 3
    MaxCrash = 0
    Stmts <- MCRecreateStmts

SPECIFICATION Spec

INVARIANT CollectionsMatchLog

CHECK_DEADLOCK FALSE
