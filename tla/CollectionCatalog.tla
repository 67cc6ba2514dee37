-------------------------- MODULE CollectionCatalog --------------------------
(***************************************************************************)
(* What the memory storage service promises its callers (spec 4.7 and the  *)
(* error codes of spec 6), with every request taking effect at once: a set *)
(* of databases, per fully-qualified collection name the set of document   *)
(* ids the collection holds, and the last answer given: a session, the     *)
(* request it answers and a code (and, for size, a count).                 *)
(*                                                                         *)
(* drop_database is stated as the code does it: it removes the name only.  *)
(* The collections of a dropped database keep their documents, still take  *)
(* statements already accepted for them, and are there again when the      *)
(* database is created again.  The spec says nothing either way.           *)
(***************************************************************************)
EXTENDS FiniteSets, Functions, TLC

CONSTANTS
    Dbs, Colls, Docs,
    Snapshot,   \* what a load installs: [databases, live, docs]
    Sessions,   \* session ids
    Requests,   \* statements: records with a type, a db and maybe a coll, a doc
    NoAnswer    \* the answer before the first one

VARIABLES cdbs, ccolls, answer

cvars == <<cdbs, ccolls, answer>>

Answered(s, req, code) == answer' = [sess |-> s, req |-> req, code |-> code]

Name(req) == <<req.db, req.coll>>

(* The check every statement on a collection starts with.                 *)
Check(fn) ==
    IF fn[1] \notin cdbs THEN "database_not_exists"
    ELSE IF fn \notin DOMAIN ccolls THEN "collection_not_exists"
    ELSE "success"

CatInit == cdbs = {} /\ ccolls = <<>> /\ answer = NoAnswer

CatLoad ==
    /\ cdbs = {} /\ ccolls = <<>>
    /\ cdbs' = Snapshot.databases
    /\ ccolls' = [fn \in {x \in Snapshot.live : x[1] \in Snapshot.databases} |->
                     Snapshot.docs[fn]]
    /\ UNCHANGED answer

(* The four DDL statements, each answered in the step that applies it.     *)
CatDdl(s, req) ==
    LET db == req.db
    IN  CASE req.type = "create_database" ->
               IF db \in cdbs
               THEN Answered(s, req, "database_already_exists") /\ UNCHANGED <<cdbs, ccolls>>
               ELSE cdbs' = cdbs \cup {db} /\ Answered(s, req, "success") /\ UNCHANGED ccolls
          [] req.type = "drop_database" ->
               IF db \notin cdbs
               THEN Answered(s, req, "database_not_exists") /\ UNCHANGED <<cdbs, ccolls>>
               ELSE cdbs' = cdbs \ {db} /\ Answered(s, req, "success") /\ UNCHANGED ccolls
          [] req.type = "create_collection" ->
               IF db \notin cdbs \/ Name(req) \in DOMAIN ccolls
               THEN /\ Answered(s, req, IF db \notin cdbs THEN "database_not_exists"
                                        ELSE "collection_already_exists")
                    /\ UNCHANGED <<cdbs, ccolls>>
               ELSE /\ ccolls' = ccolls @@ (Name(req) :> {})
                    /\ Answered(s, req, "success") /\ UNCHANGED cdbs
          [] req.type = "drop_collection" ->
               /\ Answered(s, req, Check(Name(req)))
               /\ ccolls' = IF Check(Name(req)) = "success"
                            THEN Restrict(ccolls, DOMAIN ccolls \ {Name(req)})
                            ELSE ccolls
               /\ UNCHANGED cdbs

CatSize(s, req) ==
    /\ req.type = "size"
    /\ answer' = IF Check(Name(req)) # "success"
                 THEN [sess |-> s, req |-> req, code |-> Check(Name(req))]
                 ELSE [sess |-> s, req |-> req, code |-> "success",
                       n |-> Cardinality(ccolls[Name(req)])]
    /\ UNCHANGED <<cdbs, ccolls>>

(* An insert or a delete: refused by the check; refused because the       *)
(* collection it was accepted for has been dropped since; or run against  *)
(* the collection, which still exists.                                    *)
IsDml(req) == req.type \in {"insert", "delete"}

CatRefuse(s, req) ==
    /\ IsDml(req) /\ Check(Name(req)) # "success"
    /\ Answered(s, req, Check(Name(req))) /\ UNCHANGED <<cdbs, ccolls>>

CatRefuseDropped(s, req) ==
    /\ IsDml(req)
    /\ Answered(s, req, "collection_dropped") /\ UNCHANGED <<cdbs, ccolls>>

CatDml(s, req) ==
    /\ IsDml(req) /\ Name(req) \in DOMAIN ccolls
    /\ ccolls' = [ccolls EXCEPT ![Name(req)] =
                     IF req.type = "insert" THEN @ \cup {req.doc} ELSE @ \ {req.doc}]
    /\ Answered(s, req, "success") /\ UNCHANGED cdbs

CatNext ==
    \/ CatLoad
    \/ \E s \in Sessions, req \in Requests :
           \/ req.type \in {"create_database", "drop_database",
                            "create_collection", "drop_collection"} /\ CatDdl(s, req)
           \/ CatSize(s, req)
           \/ CatRefuse(s, req) \/ CatRefuseDropped(s, req) \/ CatDml(s, req)

CatSpec == CatInit /\ [][CatNext]_cvars

====
