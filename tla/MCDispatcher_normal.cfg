CONSTANTS
    c1 = c1
    c2 = c2
    db1 = db1
    coll1 = coll1
    d1 = d1
    Clients <- MCClients
    Dbs <- MCDbs
    Colls <- MCColls
    Docs <- MCDocs
    Loader = Loader
    WalManager = WalManager
    Replayer = Replayer
    None = None
    MaxInc = 1
    MaxReq = 2
    MaxCrash = 0
    Stmts <- MCMutationStmts

SPECIFICATION Spec

INVARIANT AtMostOneReply
INVARIANT CollectionsMatchLog

PROPERTY EveryRequestAnswered

CHECK_DEADLOCK FALSE
