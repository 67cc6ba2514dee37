--------------------------- MODULE MemoryStorage ---------------------------
(***************************************************************************)
(* The memory storage service (memory_storage_t) and the per-collection    *)
(* contexts it owns.  memory_storage_t is a cooperative supervisor whose   *)
(* enqueue_impl runs each handler at once, under its spin lock, in the     *)
(* thread of the sender: its handlers are therefore pure operators here,   *)
(* from a memory state to a new memory state and a result code, which the *)
(* sender's action applies in the same step.                               *)
(*                                                                         *)
(* A collection context is addressed by <<full name, incarnation>>: a      *)
(* collection dropped and created again is a new context.  collections_    *)
(* owns its contexts: erasing a name destroys its context, while a plan    *)
(* already sent to the executor still holds the raw pointer to it.         *)
(***************************************************************************)
EXTENDS Naturals, FiniteSets

CONSTANTS
    Dbs,      \* database names
    Colls,    \* collection names (within a database)
    Docs,     \* document ids (the value at /_id)
    MaxInc    \* how many times one collection name may be created

FullNames == Dbs \X Colls                  \* collection_full_name_t
Addrs     == FullNames \X (1 .. MaxInc)    \* one context per incarnation

Codes == {"success", "database_not_exists", "database_already_exists",
          "collection_not_exists", "collection_already_exists",
          "collection_dropped"}

(* databases_, collections_ (name -> current incarnation, 0 = absent),     *)
(* the number of incarnations created so far, and every context's         *)
(* document storage, dropped flag, and whether collections_.erase has      *)
(* destroyed it.                                                          *)
Ctx == [docs : SUBSET Docs, dropped : BOOLEAN, erased : BOOLEAN]

MemState == [databases   : SUBSET Dbs,
             collections : [FullNames -> 0 .. MaxInc],
             incs        : [FullNames -> 0 .. MaxInc],
             ctx         : [Addrs -> Ctx]]

EmptyMem == [databases   |-> {},
             collections |-> [fn \in FullNames |-> 0],
             incs        |-> [fn \in FullNames |-> 0],
             ctx         |-> [a \in Addrs |-> [docs |-> {}, dropped |-> FALSE, erased |-> FALSE]]]

Result(m, code) == [mem |-> m, code |-> code, addr |-> <<>>]

is_exists_database_(m, db)   == db \in m.databases
is_exists_collection_(m, fn) == m.collections[fn] # 0

(* check_collection_: the database first, then the collection.             *)
check_collection_(m, fn) ==
    IF ~is_exists_database_(m, fn[1]) THEN "database_not_exists"
    ELSE IF ~is_exists_collection_(m, fn) THEN "collection_not_exists"
    ELSE "success"

create_database_(m, db) ==
    IF is_exists_database_(m, db)
    THEN Result(m, "database_already_exists")
    ELSE Result([m EXCEPT !.databases = @ \cup {db}], "success")

(* drop_database_ erases the name only: the database's collections stay   *)
(* in collections_.                                                       *)
drop_database_(m, db) ==
    IF ~is_exists_database_(m, db)
    THEN Result(m, "database_not_exists")
    ELSE Result([m EXCEPT !.databases = @ \ {db}], "success")

(* A new context for fn; the reply carries its address.                   *)
NewContext(m, fn, docs) ==
    LET i == m.incs[fn] + 1
    IN  [m EXCEPT !.collections[fn] = i,
                  !.incs[fn]        = i,
                  !.ctx[<<fn, i>>]  = [docs |-> docs, dropped |-> FALSE, erased |-> FALSE]]

create_collection_(m, fn) ==
    IF ~is_exists_database_(m, fn[1])
    THEN Result(m, "database_not_exists")
    ELSE IF is_exists_collection_(m, fn)
    THEN Result(m, "collection_already_exists")
    ELSE LET m2 == NewContext(m, fn, {})
         IN  [mem |-> m2, code |-> "success",
              addr |-> <<fn, m2.collections[fn]>>]

(* drop() marks the context dropped and the answer is sent; then the     *)
(* name is erased from collections_, which destroys the context.  drop()  *)
(* (not in this repository) answers false only for a context dropped      *)
(* before, and a context is dropped once: its name goes in the same call, *)
(* so the other_error answer is not reachable.                            *)
drop_collection_(m, fn) ==
    LET code == check_collection_(m, fn)
        a    == <<fn, m.collections[fn]>>
    IN  IF code # "success" THEN Result(m, code)
        ELSE Result([m EXCEPT !.ctx[a].dropped = TRUE,
                              !.ctx[a].erased  = TRUE,
                              !.collections[fn] = 0], "success")

(* execute_plan: DDL is executed against the local maps.                  *)
execute_plan(m, stmt) ==
    CASE stmt.type = "create_database"   -> create_database_(m, stmt.db)
      [] stmt.type = "drop_database"     -> drop_database_(m, stmt.db)
      [] stmt.type = "create_collection" -> create_collection_(m, <<stmt.db, stmt.coll>>)
      [] stmt.type = "drop_collection"   -> drop_collection_(m, <<stmt.db, stmt.coll>>)

(* A collection context executing one statement (the executor is not in   *)
(* this repository: a dropped context refuses with collection_dropped, an *)
(* insert of an existing _id leaves the storage as it is; an update keeps *)
(* the set of _ids, and reads and index statements change no document).   *)
RunDml(m, a, stmt) ==
    IF m.ctx[a].dropped THEN Result(m, "collection_dropped")
    ELSE CASE stmt.type = "insert" ->
                Result([m EXCEPT !.ctx[a].docs = @ \cup {stmt.doc}], "success")
           [] stmt.type = "delete" ->
                Result([m EXCEPT !.ctx[a].docs = @ \ {stmt.doc}], "success")
           [] OTHER -> Result(m, "success")

(* The results the executor may produce for a plan sent with context a.   *)
(* A destroyed context is a use after free, undefined behaviour: either   *)
(* its memory still reads as the dropped context, which refuses, or the   *)
(* dropped flag no longer reads as set and the statement runs against     *)
(* destroyed storage, answered success with no collection changed.        *)
ApplyDml(m, a, stmt) ==
    IF m.ctx[a].erased
    THEN {Result(m, "collection_dropped"), Result(m, "success")}
    ELSE {RunDml(m, a, stmt)}

(***************************************************************************)
(* What the engine shows of a memory state: the databases, the live        *)
(* collections and their documents.                                        *)
(***************************************************************************)
View(m) ==
    [databases |-> m.databases,
     live      |-> {fn \in FullNames : m.collections[fn] # 0},
     docs      |-> [fn \in FullNames |->
                      IF m.collections[fn] = 0 THEN {}
                      ELSE m.ctx[<<fn, m.collections[fn]>>].docs]]

Views == [databases : SUBSET Dbs, live : SUBSET FullNames,
          docs : [FullNames -> SUBSET Docs]]

(* memory_storage_t::load: every database and collection of a disk         *)
(* snapshot (a View) becomes a database and a fresh context holding the    *)
(* snapshot's documents.                                                   *)
RECURSIVE LoadColls(_, _, _)
LoadColls(m, snap, todo) ==
    IF todo = {} THEN m
    ELSE LET fn == CHOOSE x \in todo : TRUE
         IN  LoadColls(NewContext(m, fn, snap.docs[fn]), snap, todo \ {fn})

storage_load(m, snap) ==
    LoadColls([m EXCEPT !.databases = @ \cup snap.databases], snap,
              {fn \in snap.live : fn[1] \in snap.databases})

=============================================================================
