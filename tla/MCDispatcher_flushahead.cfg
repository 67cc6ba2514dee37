CONSTANTS
    c1 = c1
    c2 = c2
    db1 = db1
    coll1 = coll1
    d1 = d1
    Clients <- MCClient1
    Dbs <- MCDbs
    Colls <- MCColls
    Docs <- MCDocs
    Loader = Loader
    WalManager = WalManager
    Replayer = Replayer
    None = None
    MaxInc = 1
    MaxReq = 4
    MaxCrash = 1
    Stmts <- MCCrashStmts

SPECIFICATION Spec

INVARIANT FlushAfterApplied

CHECK_DEADLOCK FALSE
