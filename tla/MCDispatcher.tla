---------------------------- MODULE MCDispatcher ----------------------------
(* Small instances of the dispatcher for TLC.                              *)
EXTENDS Dispatcher

CONSTANTS c1, c2, db1, coll1, d1

MCClients  == {c1, c2}
MCClient1  == {c1}
MCDbs     == {db1}
MCColls   == {coll1}
MCDocs    == {d1}

(* Every statement that changes which collections and _ids exist: the DDL, *)
(* insert and delete (an update keeps the _ids; the crash run has it).    *)
MCMutationStmts ==
    [type : {"create_database", "drop_database"}, db : MCDbs, coll : {None}, doc : {None}]
    \cup [type : {"create_collection", "drop_collection"}, db : MCDbs,
          coll : MCColls, doc : {None}]
    \cup [type : {"insert", "delete"}, db : MCDbs, coll : MCColls, doc : MCDocs]

(* Around a crash: a collection created and dropped, an insert and an     *)
(* update that replay, and the reads and index statements that do not.    *)
MCCrashStmts ==
    [type : {"create_database"}, db : MCDbs, coll : {None}, doc : {None}]
    \cup [type : {"create_collection", "drop_collection"} \cup ReadTypes \cup IndexTypes,
          db : MCDbs, coll : MCColls, doc : {None}]
    \cup [type : {"insert", "update"}, db : MCDbs, coll : MCColls, doc : MCDocs]

(* The statements that drop and re-create a collection around an insert. *)
MCRecreateStmts ==
    [type : {"create_database"}, db : MCDbs, coll : {None}, doc : {None}]
    \cup [type : {"create_collection", "drop_collection"}, db : MCDbs,
          coll : MCColls, doc : {None}]
    \cup [type : {"insert"}, db : MCDbs, coll : MCColls, doc : MCDocs]

(* Clients are interchangeable.                                            *)
MCSymmetry == Permutations(MCClients)

====
