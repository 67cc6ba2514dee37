# TLA+ models of the RocketJoe document engine

These modules model the engine under `src/`. They cover:
- the coordination layer: the dispatcher, the memory storage service, and the
  WAL and disk managers it hands mutations to, with a crash of the process and
  the recovery that follows it;
- the document trie and its JSON-pointer operations, `update` and `compare`;
- a collection's index engine;
- the `and` merge operator with the `count` aggregate.

TLC checks the modules against what the code's comments and `spec.md` promise.
Every definition that stands for code is listed, with its source lines, under
`map` in `PROJECT.json`.

## 1. The system (inventory)

| Part | Source | State | Operations |
|---|---|---|---|
| manager_dispatcher_t | `services/dispatcher/dispatcher.cpp` 506-612 | the dispatcher's address | forwards `load`, `execute_ql`, `insert_documents`, `delete_documents`, `update_documents`, `find`, `size`, ... to the dispatcher. It runs them in the caller's thread under a spin lock (`enqueue_impl`, 541-546). |
| dispatcher_t | same file, 20-503 | `session_to_address_` (session → sender, statement), `collection_address_book_` (collection name → address), `load_session_`, `load_count_answers_`, `last_wal_id_`, `load_result_` | `execute_ql` / `execute_ql_finish`. DML routing and its `*_finish` handlers. `wal_success`. The load chain `load` → `load_from_disk_result` → `load_from_memory_resource_result` → `load_from_wal_result`, with `check_load_from_wal`. |
| memory_storage_t | `services/memory_storage/memory_storage.cpp` | `databases_`, `collections_` (name → collection context) | the DDL handlers `create/drop_database_`, `create/drop_collection_`, `load`, `size`, and `execute_plan_`, which checks a DML plan, records its session in `sessions_` and sends it to the collection executor; the executor calls back `execute_plan_finish_` and `create_documents_finish_`. It is a supervisor that runs each handler at once in the sender's thread (157-162). |
| collection context / executor | not in `src/` | documents of a collection, the dropped flag | insert, delete, update, size on one context |
| WAL manager | only a header (`services/wal/manager_wal_replicate.hpp`) | the append-only log: ids are contiguous and survive a crash | write a record, answer `success(id)`. Load the records after an id. |
| disk manager | not in `src/` (`services/disk/index_agent_disk.*` is its index agent) | the snapshot of databases, collections and documents, and the checkpoint WAL id | `flush(id)`, `remove_collection`, `load`, `append_database`, `append_collection`, `load_indexes` |
| document_t | `components/document/document.cpp` | a JSON trie | JSON-pointer `set`, `remove`, `move`, `copy`. `find_container_key`. `update` (`$set`, `$inc`). Comparison. |
| index_agent_disk_t | `services/disk/index_agent_disk.cpp` | `index_disk_` (the on-disk B-tree of one index, `index_disk_t`, not in `src/`), `is_dropped_` | `insert`, `remove`, `find` (by `compare_type`), `drop`, each answered to its sender |
| index_engine_t | `components/index/index_engine.cpp` | storage, key → value map, id → value map | `emplace`, `find(id)`, `find(keys)`, `size` |
| operators | `services/collection/operators/...` | none (pure) | `operator_and` (intersection with a limit), `operator_count` |
| out of reach | Lua sandbox, SQL parser, serialisation traits, router (a MongoDB client), Python wrapper, logging, tests | | see `components` in `PROJECT.json` |

**How the parts interact.** A client call enters `manager_dispatcher_t` and is
posted to the mailbox of `dispatcher_t`, an asynchronous actor that handles one
message at a time. DDL goes to memory storage, whose handler runs at once. Its
answer (`execute_ql_finish`) arrives later in the dispatcher's mailbox. DML goes
straight to the collection's address, taken from the address book, and comes back
as `insert_finish`, `delete_finish` and so on. On a successful mutation the
dispatcher sends the statement to the WAL manager. On `wal_success` it asks the
disk to flush up to that id. Recovery runs disk load → memory load → WAL load
(the records after the disk's checkpoint) → replay. Replay calls the same
handlers with `manager_wal_` as the sender. That sender is the "replay detector":
it makes the `*_finish` handlers flush the disk instead of writing to the WAL, and
count the answers down in `check_load_from_wal`.

**Source versions.** The sources come from different versions of the engine. The
dispatcher sends DML straight to collection addresses, and it expects an address
in the answer to `create_collection`. The memory storage file sends DML through an
executor and answers `create_collection` without an address. The model follows
the dispatcher, because it is the component that decides what is logged.

**Hard behaviours** (each is a `hazards` entry in `PROJECT.json`):
- messages interleaving in the dispatcher's mailbox;
- a crash between two steps of a mutation;
- a replay batch handled in one handler, while the address book is only filled
  later;
- an answer addressed to the WAL manager, which is lost;
- a stale address-book entry;
- a counter at 0;
- a session table that only grows.

## 2. Modules

| Module | Models | State ↔ code |
|---|---|---|
| `MemoryStorage` | memory_storage_t and the collection contexts | `MemState.databases` = `databases_`. `collections[fn]` = the incarnation registered in `collections_` (0 = absent). `ctx[<<fn, i>>]` = the context of incarnation `i`: its documents, its dropped flag, and `erased`, set when `collections_.erase` destroys it (`drop_collection_`, line 272). Handlers are operators from a state to `[mem, code, addr]`, because the supervisor runs them in the caller's step. |
| `MemoryStorageService` | memory_storage_t as an actor: `load`, `execute_plan` (DDL and `execute_plan_`), `size`, `sessions_`, the executor callbacks `execute_plan_finish_` and `create_documents_finish_`, with clients, a loader and a FIFO executor | `mem` = MemoryStorage's state. `sessions_` = `sessions_` (`[plan, sender, count]`). `xmail` = the executor's mailbox. `out[p]` = answers sent to party `p`. `sent` = the last answer sent to a client. Handlers run in the caller's step, as `enqueue_impl` runs them under its lock. |
| `CollectionCatalog` | what memory storage promises (spec §4.7, §6): databases, the `_id`s per collection name, the last answer | Every request takes effect in one step. `drop_database` is stated as the code does it: the name only. |
| `IndexCatalog` | what the index engine promises (spec §4.3): indexes by id, each a key tuple and its pairs, and a lookup by key tuple | `emplace` gives the next id; the lookup keeps the first index of a tuple. |
| `Dispatcher` | dispatcher_t, manager_dispatcher_t, the collection actors, the WAL and disk managers, clients, loader, crash | `sessions` = `session_to_address_`. `book` = `collection_address_book_`. `loadSession`, `loadCount`, `lastWalId`, `loadWalId` = `load_session_`, `load_count_answers_`, `last_wal_id_`, `load_result_.wal_id()`. `dmail`, `cmail[a]`, `wmail`, `kmail` = the FIFO mailboxes. `wal` = the WAL file. `checkpoint` = the disk's flushed id. |
| `Document` | document_t's trie: `find_node_const`, `find_container_key`, `set_`, `remove_`, `move`, `copy`, `set_array`, `set_dict`, `type_by_key`, `set(ptr, other, other_ptr)` (`set_from`, with `other` this document: a leaf is copied, a missing node or a container gives `INVALID_TYPE`) | `doc` = the trie, as a function from paths to nodes (`ObjNode`, `ArrNode(len)`, `Leaf(v)`), closed under prefixes. `last` = the last call and its `error_code_t`. |
| `DocumentUpdate` | `document_t::update` (`$set`, `$inc`) | Leaves are typed. An int64 is four 16-bit limbs, so that `$inc` wraps as the code does. A string is a sequence of characters. `modified` = what `update` returned. |
| `DocumentCompare` | `document_t::compare(ptr, other, other_ptr)` | Three operands (document, valid flag, pointer) fixed at start. |
| `JsonPointer` | `unescape_key_`, the decoding of one JSON-pointer token | A key is a sequence of characters. One pass of the `do ... while` body (`unescape_pass`) maps `[string as edited so far, position of the current ~, error]` to the next. The loop is that pass applied `Len(key)` times, which is enough because every pass shortens the string. `Rfc6901Decode` is the reference decoder that `MemberNamedByRfc6901` uses. `Document` extends it. A token is built from its text with the key `MemberKey` decodes (`Token`), and `find_node_const` and `find_container_key` look object members up by that key. Decoding once per token gives the same result as decoding at every call, because the result depends on the text alone. |
| `IndexEngine` | index_engine_t, `insert`, `insert_one` | `storage` = `storage_` (a list; an element is its position, since list iterators stay valid). `mapper` = `mapper_`. `index_to_mapper` = `index_to_mapper_`. An index is its key tuple and the `(value, document)` pairs inserted into it. |
| `IndexAgentDisk` | index_agent_disk_t with two senders | `pairs` = the `(key, document id)` pairs of `index_disk_` (spec §4.3; `find`, `lower_bound`, `upper_bound` give the documents of the pairs with a key equal to, below or above the value, as a bag, since they append to one result vector). `is_dropped` = `is_dropped_`. `mbox` = the agent's FIFO mailbox. `answers[s]` = what sender `s` has received. |
| `OperatorAnd` | `operator_and_t::on_merge_impl`, `operator_count_t::aggregate_impl` | `left`, `right`, `lim` = the children's outputs (`NoOutput` for a missing child or output, the test at line 15) and the budget. `pc`, `i`, `count`, `output` = the loop's position, `count` and `output_`. |
| `MCDispatcher`, `MCDocument`, `MCDocumentCompare`, `MCIndexAgentDisk`, `MCMemoryStorageService` | model values and small input sets for TLC | |
| `MCIndexAndMerge` | `IndexEngine` and `OperatorAnd` in one run | `part` chooses the component a behaviour runs; the other keeps its initial state, so the state space is the union of the two, not their product. |

**Handlers as state transformers.** Each dispatcher handler is an operator from
the record `Cur` (the state a handler touches) to a new record.
`DispatcherStep` takes the head of the mailbox and commits
`Dispatch(msg, Cur)`. This is what lets `load_from_wal_result` be a `FoldLeft` of
`ReplayRecord` over the records: the same `execute_ql` and
`route_to_collection` handlers run one after another inside one step, as they do
in the code's loop. Sends append to the target mailbox. Memory storage's
handlers apply inside the caller's step, as its `enqueue_impl` does.

Every collection handler of the dispatcher has its own definition under its
source name:
- `insert_documents`, `delete_documents`, `update_documents`, `find`,
  `find_one`, `size`, `create_index`, `drop_index`;
- `insert_finish`, `delete_finish`, `update_finish` (shared shape
  `dml_finish`: log or flush, then answer or count down);
- `find_finish`, `find_one_finish`, `size_finish` (answer and drop the
  session);
- `create_index_finish`, `drop_index_finish` (shared shape `index_finish`:
  flush for a WAL session, without `check_load_from_wal`).

**What is abstracted.**
- A statement is a record `[type, db, coll, doc]` over small sets of names.
  In the dispatcher a document is its `_id`.
- Results, cursors and index names are a result code. `close_cursor` is not
  modelled. It looks the session up in `cursor_`, which no handler fills
  (`find_finish` does not store its cursor), so it always takes its error
  branch and changes no state. This is listed as a hazard
  (`dispatcher.cpp:463`): the collections' sub-cursors are never closed.
- The executor of a collection context is not in `src/`. `RunDml` models it
  from the spec: a dropped context refuses, insert and delete change the set of
  `_id`s, everything else answers success. `collections_` owns the contexts,
  and `drop_collection_` erases the name (line 272) while a plan that
  `execute_plan_` sent earlier still holds the raw pointer (line 296). The
  executor then runs that plan on a destroyed context, which is undefined
  behaviour. `ApplyDml` makes it a choice between the two outcomes that still
  answer: the freed memory still reads as the dropped context, which refuses;
  or the flag no longer reads as set, and the statement runs against
  destroyed storage, answered success with no collection changed. A crash of
  the process is a third outcome; it is not modelled.
- `drop()` of a context is not in `src/`. It answers false only for a context
  dropped before. A context is dropped once, because its name is erased in the
  same call, so the `other_error` answer of `drop_collection_` is not
  reachable and the model always answers success.
- The disk manager is not in `src/`. It is modelled from the spec
  (`spec_modelled`) as the engine replayed from the WAL prefix up to its
  checkpoint. `append_database`, `append_collection` and `load_indexes` are
  folded into that snapshot.
- The WAL manager is likewise modelled from the spec.
- In `Document`, a pointer token carries what the code computes from its text:
  the unescaped key (or `Err`) and `atol`'s value. The value is written as
  `2^32·hi + lo`, because TLC's integers are 32-bit. `Uint32(tok)` is the low
  word, as `uint32_t(atol(...))` is.
- `compare_` of two scalars and `limit_t::check` are not in `src/`. They are
  modelled from the spec: int64 by signed value; -1 means unbounded.

**Refinements.** Two detailed modules are checked against an abstract one,
each checked as a `PROPERTY` (`ImplementsCatalog`) over an `INSTANCE ... WITH`:
- `IndexEngine` → `IndexCatalog`. The index of an id is the list element
  `index_to_mapper_` points to; the lookup by key tuple maps to the id whose
  element `mapper_` points to (`IdOf`).
- `MemoryStorageService` → `CollectionCatalog`. The databases are
  `databases_`. The documents of a name are those of its current context plus
  the ones still travelling to it in a `create_documents` of the executor's
  mailbox. The answer is the last one sent to a client, and it carries the
  request it answers, so a success reply to a request that had no effect is
  caught. A DML request is checked in one step and applied in a later one; the
  abstract request takes effect at the executor's step, when the answer is sent.
  This refinement does not hold: the stale_plan_freed run shows a plan run on
  a destroyed context answered success.

**Crash.** `Crash` wipes every volatile variable, keeps `wal` and `checkpoint`,
and sends the loader back to `Boot`.

## 3. Runs

| Run | cfg | Expect | Properties | Bounds |
|---|---|---|---|---|
| normal | `MCDispatcher_normal.cfg` | pass | AtMostOneReply, CollectionsMatchLog, EveryRequestAnswered | 2 clients × 2 requests, DDL + insert/delete, 1 db, 1 collection, 1 doc, MaxInc = 1, no crash (101,886 states, about 2 min) |
| crash | `MCDispatcher_crash.cfg` | pass | TypeOK, AtMostOneReply, EveryRequestAnswered | 1 client × 4 requests over `MCCrashStmts` (create_database, create/drop_collection, insert, update, find, find_one, size, create/drop_index), 1 crash (56,650 states) |
| ack_before_wal | `MCDispatcher_ackbeforewal.cfg` | violation | AckedIsLogged | as normal |
| recovery_empty_disk | `MCDispatcher_recovery.cfg` | violation | CollectionsMatchLog | as crash |
| load_hangs | `MCDispatcher_loadhang.cfg` | violation | LoadCompletes | as crash |
| recreate | `MCDispatcher_recreate.cfg` | violation | CollectionsMatchLog | 2 clients × 3 requests, MaxInc = 2, create_database, create/drop_collection, insert |
| replay_flush_ahead | `MCDispatcher_flushahead.cfg` | violation | FlushAfterApplied | as crash |
| document | `MCDocument.cfg` | pass | UTypeOK, WellFormed, RemoveRemoves, MemberNamedByRfc6901 | 3 start documents, 16 pointers, 2 values, 6 update documents, MaxOps = 2 (62,799 states) |
| index_and_merge | `MCIndexAndMerge.cfg` | pass | ITypeOK, AndResult, ImplementsCatalog, FindIdReturnsEmplaced | index engine: 3 key tuples over 2 fields, MaxIdx = 3, MaxIns = 2; and-merge: left outputs of up to 3 of 3 ids or none, every right set or none, budgets -1, 0, 1, 2 (28,752 states) |
| memory_storage | `MCMemoryStorageService.cfg` | pass | STypeOK, LoadFinishAfterFill, LoadCompletes, EveryRequestAnswered | snapshot of 1 db with a full and an empty collection, 2 clients × 2 requests over every DDL, insert/delete of 1 doc and size, MaxInc = 2 (46,773 states, about 15 s) |
| index_agent_disk | `MCIndexAgentDisk.cfg` | pass | IATypeOK, FindAnswersRange, EveryRequestAnswered | 2 senders × 2 requests over insert/remove of one pair, drop, and find against key 2 with the six compare types and regex; the index empty or `{(1,d1), (2,d2), (3,d1)}` (258,684 states, about 1 min) |
| stale_plan_freed | `MCMemoryStorageService_freed.cfg` | violation | ImplementsCatalog | as memory_storage |

What the passing runs show:
- **normal.** Every request gets exactly one answer (spec §8: "the dispatcher
  emits exactly one reply per request"). This holds through the early return of
  the `drop_collection` path and the `drop_collection_finish_from_disk` that
  answers it. Whenever nothing is in flight, the collections
  in memory and their documents are what the WAL replays to, over every
  interleaving of two clients.
- **crash.** The same reply discipline holds through a crash, disk load, memory
  load and WAL replay, for every collection handler, the reads and index
  statements included. Every action fires in this run, including `WalLoad`, the
  replay fold and `check_load_from_wal` reaching 0.
- **document.** Every sequence of two calls keeps the trie well formed: every
  node's parent is a container, and array children lie below the array's
  length. The calls cover every branch of `find_container_key`: the
  past-the-end clamp, negative and 2^32 indexes, invalid escapes, a leaf as
  container. A successful `remove` leaves nothing at its pointer. A successful set, set_from, move, copy or
  remove at a pointer into an object adds or removes the member that RFC 6901
  decodes its last token to. For `/~01`, that member is `~1`, not `/`.
- **index_and_merge.** Index engine: `emplace` may meet a key tuple it
  already has. Even then, every id it returned still finds the index that call
  stored, and the engine implements `IndexCatalog`: fresh ids, the first index
  per key tuple, and exactly the non-null `(value, document)` pairs of the
  documents fed by id. And-merge: it emits exactly the left documents found on
  the right, in left order, cut to the budget: none with budget 0 or a side
  missing, and never one past the budget. `count` over the output counts them.
- **memory_storage.** Over every interleaving of the load's fills, two clients'
  DDL, DML and size, and the executor, including a plan run on a context
  another client's drop has destroyed (either outcome): `load_finish` reaches
  the loader only after the last fill, the load ends, and every request is
  answered.
- **index_agent_disk.** Whatever the two senders' requests and their
  interleaving, every `find` answers exactly the documents of the pairs its
  compare selects from the index as it is when the agent takes the message:
  the value itself in `gte` and `lte` and not in `ne`, a document under two
  keys twice, nothing for a compare the switch has no case for. Every request
  is answered to its sender, in the order the sender sent them.
What the violation runs show (the `findings` in `PROJECT.json`):
- **ack_before_wal.** A client sees success before its WAL record exists
  (spec §4.8 step 4).
- **recovery_empty_disk.** An empty disk snapshot skips WAL replay, so
  everything logged before the first flush is lost.
- **load_hangs.** A DML record replayed in the same batch as its
  `create_collection` finds no address. Its answer goes to `manager_wal_` and is
  lost, and the load never finishes.
- **stale_plan_freed.** Client a's insert passes `execute_plan_`'s check and
  waits in the executor's mailbox. Client b drops the collection, and the erase
  at `memory_storage.cpp:272` destroys the context the plan points to. The
  executor runs the insert on freed memory and answers success, with nothing
  written. The catalogue refuses a statement on a dropped collection with
  `collection_dropped` (spec §3), so `ImplementsCatalog` fails.
- **recreate.** An insert refused by a context being dropped is still logged,
  after a re-create, and replays into the new collection.
- **replay_flush_ahead.** After a crash, `load_from_wal_result` replays a
  batch of two records. When the first one finishes, its handler calls
  `wal_success(session, last_wal_id_)` (`dispatcher.cpp:261`, and the same in
  every `*_finish`), and `last_wal_id_` is the id of the batch's LAST record.
  So the disk is asked to flush up to record 3 while record 3's
  `execute_ql_finish` is still in the dispatcher's mailbox. Spec §4.8 says
  the flush is up to the id of the record that finished. A second crash at
  that point leaves a checkpoint that claims a record whose writes never
  reached the disk, and replay skips it. `FlushAfterApplied` states the rule
  for every flush command in the disk's mailbox: every WAL record up to its id
  has left the collection mailboxes and had its `execute_ql_finish` run.

Single-call bugs are hazards with a note rather than runs, because a unit test
shows each of them directly:
- `execute_ql_finish` has no branch that logs `drop_database`
  (`dispatcher.cpp:189`), so a restart brings a dropped database back; the
  invariant `DatabasesMatchLog` of `Dispatcher` states it, and
  `MCDispatcher_dropdb.cfg` finds it, but one drop-and-restart test shows it;
- `compare` answers `equals` for any pair with a container in it
  (`document.cpp:209`), so INT64_MAX equals the root object, the root object
  equals 1, and yet INT64_MAX is more than 1; the spec says compare is a total
  order. `DocumentCompare` states the order laws as `CompareTotalOrder`, and
  `tlc -config MCDocumentCompare.cfg MCDocumentCompare` finds these three
  positions; three `compare` calls in a unit test show the same, so it is not
  one of the project's runs;
- `move` loses its node when the destination is rejected (`document.cpp:313`);
- `update` reports an unchanged `$set` as modified (`:1029`): the code sets
  `result = true` after every field, so no passing property about the result
  could fail;
- string `$inc` puts the increment before the old value (`:975`);
- update field names are used as pointers (`:815`);
- replayed sessions are never removed from the dispatcher's session table
  (`dispatcher.cpp:484`): it shows on the first replayed record.

**Why the bounds are enough.**
- Each dispatcher bug above needs at most 5 statements and at most one crash,
  and TLC finds each of them within these bounds.
- `MaxInc` bounds the number of incarnations of one collection name. At 1, the
  normal run covers drop without re-create. The recreate run needs 2.
- Four requests from one client in the crash run are enough for
  create_database, create_collection, a DML or read and a drop around a crash.
- Two clients × 2 requests give every pairwise interleaving of DDL and DML in
  the dispatcher's mailbox. `update` is left out of that run because it keeps
  the set of `_id`s and routes exactly as `delete`; the crash run has it.
- `MaxOps = 2` in the document run lets a call act on what an earlier one made,
  for example a set into an array that a `set_array` created. Depth 3 takes
  about 1.5 minutes for 242k states and found nothing more.
- The pointer `/~01` is the shortest key in which one decoding can feed the
  next. `/~2` is an invalid escape. With two calls, a member `~1` is made and
  then moved, copied or removed.
- Three key tuples, two of which share a field, with three emplaces, let a tuple
  repeat and let the id and key maps disagree.
- In the memory storage run, two requests per client are enough for one client
  to drop and re-create a collection while the other's insert waits in the
  executor's mailbox; `MaxInc = 2` allows the re-create. The snapshot has an
  empty collection so that the load's count includes a fill with no documents.
- Keys 1, 2, 3 with every find against 2 put pairs below, at and above the
  value; `d1` under keys 1 and 3 makes `ne` answer it twice. Two requests per
  sender let an insert or remove of `(2, d1)` land before or after the
  other sender's find or drop.
- Three ids and left outputs of length 3 with repeats reach every budget
  outcome: cut before, at and after the last match.

**Fairness.**
- The dispatcher, every collection actor, the WAL and disk managers, the loader
  and the clients' receive steps are weakly fair. The actor scheduler runs every
  actor that has a non-empty mailbox, and a client blocks waiting for its answer.
- Client requests and the crash are not fair: nothing forces a client to call
  again or the process to die.
- In `MemoryStorageService` the loader's boot and receive, the executor and
  the clients' receive steps are weakly fair, for the same reason; requests are
  not.
- `IndexAgentDisk`'s agent is weakly fair, as an actor with a non-empty
  mailbox is run by the scheduler; its senders are not.
- Runs set `CHECK_DEADLOCK FALSE` because each model stops when its inputs are
  used up: clients out of requests, the operation bound reached, the merge
  done. No liveness is claimed of the merge: its loop is a range-for over a
  finite vector. That is a real end state, and every liveness property is checked
  separately.

**Mutants.** Each property of a passing run is shown to detect a plausible fault
of the code it is about. The faulty variants sit just before the operator they
replace:
- the `drop_collection` answer sent before the disk finishes;
- only inserts logged;
- no answer for a missing collection;
- an empty snapshot that drops the load session unanswered;
- `load_count_answers_` set one short;
- an unclamped array slot;
- an array not extended on append;
- `remove` erasing instead of leaving a hole;
- `unescape_key_` searching for the next `~` from the replaced position;
- `find(id)` answered through the key map;
- `load` counting databases instead of collections;
- `execute_plan_` not recording the session;
- `create_documents_finish_` testing the count before the decrement, or with
  its `contains` test inverted;
- the maps given `end()`;
- the index agent's `gte` answered by `upper_bound` alone, `drop` without its
  answer, and a message handled but left in the mailbox;
- no `is_null` check on insert;
- the budget checked before the count is raised.

## 4. Plan for the next sittings

1. **Done.**
   - `Document`, `DocumentUpdate` and `DocumentCompare`;
   - `JsonPointer` (`unescape_key_`, against RFC 6901);
   - `IndexEngine`, refining `IndexCatalog`;
   - `OperatorAnd` with `count`;
   - every collection handler of the dispatcher;
   - `MemoryStorageService`, refining `CollectionCatalog`;
   - `IndexAgentDisk`, the disk index agent.
2. **Dispatcher.** `FlushAfterApplied` shows the early flush to
   `last_wal_id_` (`dispatcher.cpp:261`). Its effect on a second crash needs a
   disk with its own contents, fed by `append_database`, `append_collection`
   and `remove_collection`, written from the disk manager's code, which is not
   in `src/`.
3. **Disk index agent.** What a write after `drop` does depends on
   `index_disk_t::drop`, which is not in `src/`.
4. **Document.**
   - `compare(ptr, value)`;
   - `merge`;
   - `is_equals_documents`, with copy's promise (spec §8) as a property.
5. **IndexEngine.** Feed it from the collection's insert, if the collection code
   becomes available.

## 5. Not modelled

- The Lua sandbox, the SQL parser, the serialisation templates, the router's
  MongoDB client, the Python binding, logging and tests: text processing, I/O or
  an embedded interpreter, with no engine state.
- Record encoding and file formats of the WAL and the disk.
- The dangling `&data` in `load_from_wal_result` (`dispatcher.cpp:112`). It is a
  memory-lifetime error, not a protocol state.
- `close_cursor` of memory storage: it looks the session up in `cursor_`,
  which no handler fills, so it always takes its error branch and changes no
  state.
- The older database/collection supervisor layer (`services/database`,
  `services/storage`): the dispatcher of this version never sends it a
  message, so none of its handlers can run.
- `set(ptr, other, other_ptr)` with `other` a second document: `Document` has
  one trie, so `set_from` copies within it. A leaf is copied by value, so the
  source document makes no difference beyond which leaves it offers.
- Sub-document views (`get_dict` / `get_array`, `document.cpp:167-181`). They
  hold the node, not its path. `Document` has no node identity, so a view made
  stale by a parent's replace, remove or move is listed as a hazard and is not
  modelled.
- `find` with no end check in the index engine (`index_engine.cpp:92`). Its
  callers are not in `src/`, and the model calls it only with present keys.
