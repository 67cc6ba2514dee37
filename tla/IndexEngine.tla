---------------------------- MODULE IndexEngine ----------------------------
(***************************************************************************)
(* The index engine of a collection (index_engine_t): a list of index     *)
(* objects (storage_) and two maps into it, key tuple -> index (mapper_,   *)
(* a std::map) and index id -> index (index_to_mapper_, an unordered_map), *)
(* with the free functions insert / insert_one that feed documents to the  *)
(* index with a given id.                                                  *)
(*                                                                         *)
(* An element of storage_ is identified by its position: list iterators    *)
(* stay valid, and nothing is ever erased.  An index object is its key     *)
(* tuple and the (value, document) pairs inserted into it.                 *)
(***************************************************************************)
EXTENDS Naturals, Sequences, FiniteSets, Functions, TLC

CONSTANTS
    KeyTuples,   \* key tuples (sequences of field names) an index may have
    Fields,      \* field names of a document
    Vals,        \* field values
    Null,        \* a field that is null or absent
    MaxIdx,      \* emplace calls
    MaxIns       \* insert / insert_one calls

Docs == [Fields -> Vals \cup {Null}]

VARIABLES
    storage,          \* storage_: sequence of [keys, entries]
    mapper,           \* mapper_: key tuple -> position in storage
    index_to_mapper,  \* index_to_mapper_: id -> position in storage
    last,             \* the result of the last call
    nins,             \* insert calls so far
    issued            \* history: <<id, position>> for each emplace's answer

ivars == <<storage, mapper, index_to_mapper, last, nins, issued>>

(* map::emplace and unordered_map::emplace insert only a missing key.     *)
Emplace(f, k, v) == IF k \in DOMAIN f THEN f ELSE f @@ (k :> v)

(* Faulty variant: the maps given storage_'s end() instead of the         *)
(* iterator insert returned.                                              *)
emplace_end(e, keys) ==
    LET pos == Len(e.storage) + 1
        new_id == Cardinality(DOMAIN e.index_to_mapper)
    IN  [storage |-> Append(e.storage, [keys |-> keys, entries |-> {}]),
         mapper |-> Emplace(e.mapper, keys, pos - 1),
         index_to_mapper |-> Emplace(e.index_to_mapper, new_id, pos - 1),
         id |-> new_id, pos |-> pos]

(* emplace: append the index to storage_, register it under its key tuple *)
(* (a key tuple already present keeps its first index) and under the new   *)
(* id index_to_mapper_.size().                                             *)
emplace(e, keys) ==
    LET pos == Len(e.storage) + 1
        new_id == Cardinality(DOMAIN e.index_to_mapper)
    IN  [storage |-> Append(e.storage, [keys |-> keys, entries |-> {}]),
         mapper |-> Emplace(e.mapper, keys, pos),
         index_to_mapper |-> Emplace(e.index_to_mapper, new_id, pos),
         id |-> new_id, pos |-> pos]

(* The pairs index->insert(value, doc) adds for one document: one per key  *)
(* of the index whose field is not null, each under the field's value.     *)
(* Faulty variant: the is_null check left out.                            *)
DocEntries_nullcheck(keys, d) == {<<d[keys[i]], d>> : i \in DOMAIN keys}

DocEntries(keys, d) ==
    {<<d[keys[i]], d>> : i \in {j \in DOMAIN keys : d[keys[j]] # Null}}

(* insert(ptr, id, docs) and insert_one(ptr, id, doc): search_index, then  *)
(* every document against every key.  Key tuples here are field names, so  *)
(* insert_one's check that a key is a string always holds.                *)
insert(st, pos, docs) ==
    [st EXCEPT ![pos].entries =
        @ \cup UNION {DocEntries(st[pos].keys, d) : d \in docs}]

insert_one(st, pos, d) == insert(st, pos, {d})

-----------------------------------------------------------------------------
EngineOf == [storage |-> storage, mapper |-> mapper, index_to_mapper |-> index_to_mapper]

IInit ==
    /\ storage = <<>> /\ mapper = <<>> /\ index_to_mapper = <<>>
    /\ last = [op |-> "none"] /\ nins = 0
    /\ issued = {}

(* make_index -> emplace(keys, index).                                    *)
DoEmplace(keys) ==
    /\ Len(storage) < MaxIdx
    /\ LET r == emplace(EngineOf, keys)
       IN  /\ storage' = r.storage
           /\ mapper' = r.mapper
           /\ index_to_mapper' = r.index_to_mapper
           /\ last' = [op |-> "emplace", id |-> r.id]
           /\ issued' = issued \cup {<<r.id, r.pos>>}
    /\ UNCHANGED nins

(* insert / insert_one on an id: search_index dereferences the map entry, *)
(* so the id must be one emplace returned.                                *)
DoInsert(id, docs) ==
    /\ nins < MaxIns
    /\ id \in DOMAIN index_to_mapper
    /\ LET pos == index_to_mapper[id]
       IN  storage' = insert(storage, pos, docs)
    /\ nins' = nins + 1
    /\ last' = [op |-> "insert", id |-> id]
    /\ UNCHANGED <<mapper, index_to_mapper, issued>>

DoInsertOne(id, d) ==
    /\ nins < MaxIns
    /\ id \in DOMAIN index_to_mapper
    /\ LET pos == index_to_mapper[id]
       IN  storage' = insert_one(storage, pos, d)
    /\ nins' = nins + 1
    /\ last' = [op |-> "insert_one", id |-> id]
    /\ UNCHANGED <<mapper, index_to_mapper, issued>>

(* find(id) and find(keys) dereference the map entry without a check for   *)
(* end(); they are called only for present keys.  size() is mapper_.size(). *)
(* Faulty variant: find(id) answered through the key map of the index's   *)
(* key tuple.                                                             *)
find_id_keys(id) ==
    /\ id \in DOMAIN index_to_mapper
    /\ last' = [op |-> "find_id", id |-> id,
                pos |-> mapper[storage[index_to_mapper[id]].keys]]
    /\ UNCHANGED <<storage, mapper, index_to_mapper, nins, issued>>

find_id(id) ==
    /\ id \in DOMAIN index_to_mapper
    /\ last' = [op |-> "find_id", id |-> id, pos |-> index_to_mapper[id]]
    /\ UNCHANGED <<storage, mapper, index_to_mapper, nins, issued>>

find_keys(keys) ==
    /\ keys \in DOMAIN mapper
    /\ last' = [op |-> "find_keys", keys |-> keys, pos |-> mapper[keys]]
    /\ UNCHANGED <<storage, mapper, index_to_mapper, nins, issued>>

size ==
    /\ last' = [op |-> "size", n |-> Cardinality(DOMAIN mapper)]
    /\ UNCHANGED <<storage, mapper, index_to_mapper, nins, issued>>

INext ==
    \/ \E keys \in KeyTuples : DoEmplace(keys)
    \/ \E id \in DOMAIN index_to_mapper, docs \in SUBSET Docs :
           Cardinality(docs) \in 1 .. 2 /\ DoInsert(id, docs)
    \/ \E id \in DOMAIN index_to_mapper, d \in Docs : DoInsertOne(id, d)
    \/ \E id \in DOMAIN index_to_mapper : find_id(id)
    \/ \E keys \in DOMAIN mapper : find_keys(keys)
    \/ size

ISpec == IInit /\ [][INext]_ivars

-----------------------------------------------------------------------------
ITypeOK ==
    /\ storage \in Seq([keys : KeyTuples, entries : SUBSET ((Vals \cup {Null}) \X Docs)])
    /\ Len(storage) <= MaxIdx /\ nins \in 0 .. MaxIns
    /\ IsInjective(index_to_mapper)
    /\ Range(index_to_mapper) \cup Range(mapper) \subseteq DOMAIN storage

(* Spec 4.3: emplace returns a fresh index id.  Whatever has been emplaced *)
(* since, find(id) with an id emplace returned gives back the very index   *)
(* that call stored, and no later emplace takes the id over.               *)
FindIdReturnsEmplaced ==
    [][last'.op = "find_id" =>
         \A p \in issued : p[1] = last'.id => p[2] = last'.pos]_ivars

(* Spec 4.3, as IndexCatalog states it: the list of index objects and its *)
(* two maps implement a catalogue by id.  The index of an id is the list   *)
(* element index_to_mapper_ points to; the lookup by key tuple answers the *)
(* id whose element mapper_ points to.  Every emplace must then add one    *)
(* index under a fresh id and leave a repeated key tuple with its first    *)
(* index, and every insert must add exactly the non-null pairs of its      *)
(* documents to the index of its id.                                       *)
IdOf(p) ==
    IF \E id \in DOMAIN index_to_mapper : index_to_mapper[id] = p
    THEN CHOOSE id \in DOMAIN index_to_mapper : index_to_mapper[id] = p
    ELSE "no id"

Catalog == INSTANCE IndexCatalog
    WITH indexes <- [id \in DOMAIN index_to_mapper |-> storage[index_to_mapper[id]]],
         by_keys <- [k \in DOMAIN mapper |-> IdOf(mapper[k])]

ImplementsCatalog == Catalog!CatSpec

====
