---------------------------- MODULE IndexCatalog ----------------------------
(***************************************************************************)
(* What the index engine promises (spec 4.3), without its list and         *)
(* iterators: a catalogue of indexes by id, each a key tuple and the       *)
(* (value, document) pairs fed to it, and a lookup by key tuple.           *)
(*                                                                         *)
(*  - emplace(keys) returns a fresh id, the number of indexes so far;      *)
(*  - the lookup by key tuple answers the first index made with the tuple; *)
(*  - insert(id, docs) adds, for every document and every key of the       *)
(*    index the document has non-null, the pair (field value, document).   *)
(***************************************************************************)
EXTENDS Naturals, FiniteSets, Functions, TLC

CONSTANTS KeyTuples, Fields, Vals, Null

VARIABLES indexes, by_keys

Entries(keys, d) == {<<d[f], d>> : f \in {k \in Range(keys) : d[k] # Null}}

CatInit == indexes = <<>> /\ by_keys = <<>>

CatEmplace(keys) ==
    LET id == Cardinality(DOMAIN indexes)
    IN  /\ indexes' = indexes @@ (id :> [keys |-> keys, entries |-> {}])
        /\ by_keys' = IF keys \in DOMAIN by_keys THEN by_keys
                      ELSE by_keys @@ (keys :> id)

CatInsert(id, docs) ==
    /\ id \in DOMAIN indexes
    /\ indexes' = [indexes EXCEPT ![id].entries =
                      @ \cup UNION {Entries(indexes[id].keys, d) : d \in docs}]
    /\ UNCHANGED by_keys

CatNext ==
    \/ \E keys \in KeyTuples : CatEmplace(keys)
    \/ \E id \in DOMAIN indexes, docs \in SUBSET [Fields -> Vals \cup {Null}] :
           CatInsert(id, docs)

CatSpec == CatInit /\ [][CatNext]_<<indexes, by_keys>>

====
