----------------------------- MODULE Dispatcher -----------------------------
(***************************************************************************)
(* The dispatcher (dispatcher_t) and the actors it talks to: client        *)
(* sessions, the memory storage service (run inline, see MemoryStorage),   *)
(* one actor per collection context, the WAL manager and the disk manager, *)
(* with a crash of the process and the recovery that follows it (load ->   *)
(* disk load -> memory load -> WAL load -> replay of the WAL records).      *)
(*                                                                         *)
(* Every async actor has one FIFO mailbox; a send appends to it.  The      *)
(* dispatcher's handlers are operators from a record D of the state they   *)
(* touch to a new such record, so that the replay loop of                  *)
(* load_from_wal_result calls the same handlers one after another, inside  *)
(* one step, exactly as the code calls them.                               *)
(***************************************************************************)
EXTENDS Naturals, Sequences, SequencesExt, TLC, MemoryStorage

CONSTANTS
    Clients,     \* client parties, each issuing one request at a time
    Loader,      \* the party that calls load() at start-up
    WalManager,  \* the WAL manager's address (sender of replayed records)
    Replayer,    \* tag of the sessions made for replayed records
    None,        \* absent field
    MaxReq,      \* requests per client
    MaxCrash     \* crashes of the process

ASSUME MaxReq \in Nat /\ MaxCrash \in Nat

Parties  == Clients \cup {Loader}
DdlTypes == {"create_database", "drop_database", "create_collection", "drop_collection"}
DmlTypes == {"insert", "delete", "update"}
ReadTypes == {"size", "find", "find_one"}
IndexTypes == {"create_index", "drop_index"}

(* A statement names its database and collection; DML names the _id of    *)
(* the document it touches.  An index statement's index name is one name: *)
(* the session key {session, name} is then the session.                   *)
Stmts ==
    [type : {"create_database", "drop_database"}, db : Dbs, coll : {None}, doc : {None}]
    \cup [type : {"create_collection", "drop_collection"} \cup ReadTypes \cup IndexTypes,
          db : Dbs, coll : Colls, doc : {None}]
    \cup [type : DmlTypes, db : Dbs, coll : Colls, doc : Docs]

IsMutation(stmt) == stmt.type \in DdlTypes \cup DmlTypes

Sessions == (Clients \X (1 .. MaxReq)) \cup ({Loader} \X (0 .. MaxCrash))
            \cup ({Replayer} \X Nat)

WalRec == [id : Nat, stmt : Stmts, sess : Sessions]

VARIABLES
    phase,        \* "booting" | "loading" | "ready"
    cpc,          \* client -> "idle" | "waiting"
    creq,         \* client -> requests issued
    cstmt,        \* client -> statement of its current request
    answers,      \* party -> FIFO of replies sent to it
    sessions,     \* session_to_address_: session -> [sender, stmt]
    book,         \* collection_address_book_: full name -> incarnation (0 = none)
    dmail,        \* the dispatcher's mailbox
    loadSession,  \* load_session_
    loadCount,    \* load_count_answers_
    lastWalId,    \* last_wal_id_
    loadWalId,    \* load_result_.wal_id()
    mem,          \* memory storage state (MemoryStorage!MemState)
    cmail,        \* collection context address -> mailbox
    wmail,        \* the WAL manager's mailbox
    wal,          \* the durable WAL: records [id, stmt, sess]
    kmail,        \* the disk manager's mailbox
    checkpoint,   \* the WAL id the disk has flushed up to (durable)
    crashes,      \* crashes so far
    creates,      \* create_collection requests issued so far (bounds incarnations)
    replyCount,   \* history: session -> replies sent to a party for it
    acked         \* history: sessions whose mutation a client saw succeed

vars == <<phase, cpc, creq, cstmt, answers, sessions, book, dmail, loadSession,
          loadCount, lastWalId, loadWalId, mem, cmail, wmail, wal, kmail,
          checkpoint, crashes, creates, replyCount, acked>>

-----------------------------------------------------------------------------
(***************************************************************************)
(* The state a dispatcher handler reads and writes, as one record.         *)
(***************************************************************************)
Cur == [sessions |-> sessions, book |-> book, dmail |-> dmail, cmail |-> cmail,
        wmail |-> wmail, kmail |-> kmail, mem |-> mem, answers |-> answers,
        replyCount |-> replyCount, loadSession |-> loadSession,
        loadCount |-> loadCount, lastWalId |-> lastWalId, loadWalId |-> loadWalId]

Commit(st) ==
    /\ sessions' = st.sessions   /\ book' = st.book     /\ dmail' = st.dmail
    /\ cmail' = st.cmail         /\ wmail' = st.wmail   /\ kmail' = st.kmail
    /\ mem' = st.mem             /\ answers' = st.answers
    /\ replyCount' = st.replyCount /\ loadSession' = st.loadSession
    /\ loadCount' = st.loadCount /\ lastWalId' = st.lastWalId
    /\ loadWalId' = st.loadWalId

(* make_session keeps an existing entry (emplace).                         *)
make_session(t, s, v) == IF s \in DOMAIN t THEN t ELSE t @@ (s :> v)
remove_session(t, s)  == [x \in DOMAIN t \ {s} |-> t[x]]

(* actor_zeta::send of a reply to a party; a reply addressed to the WAL    *)
(* manager reaches no handler and is lost.                                 *)
Reply(st, to, s, code) ==
    IF to = WalManager THEN st
    ELSE [st EXCEPT !.answers[to] = Append(@, [sess |-> s, code |-> code]),
                    !.replyCount = IF s \in DOMAIN @ THEN [@ EXCEPT ![s] = @ + 1]
                                   ELSE @ @@ (s :> 1)]

(* take_session + send: reply to the session's sender and drop the entry.  *)
ReplyTake(st, s, code) ==
    Reply([st EXCEPT !.sessions = remove_session(@, s)], st.sessions[s].sender, s, code)

WalWriteMsg(s, stmt) == [kind |-> "write", sess |-> s, stmt |-> stmt]

wal_success(st, s, id) ==
    [st EXCEPT !.kmail = Append(@, [kind |-> "flush", sess |-> s, id |-> id])]

(* check_load_from_wal, for a session whose sender is the WAL manager.      *)
check_load_from_wal(st) ==
    IF st.loadCount - 1 = 0
    THEN ReplyTake([st EXCEPT !.loadCount = 0], st.loadSession, "success")
    ELSE [st EXCEPT !.loadCount = @ - 1]

FromWal(st, s) == st.sessions[s].sender = WalManager

(* A finished mutation: a replayed one flushes the disk up to the last     *)
(* replayed id, any other one is sent to the WAL.                          *)
LogOrFlush(st, s, stmt) ==
    IF FromWal(st, s) THEN wal_success(st, s, st.lastWalId)
    ELSE [st EXCEPT !.wmail = Append(@, WalWriteMsg(s, stmt))]

-----------------------------------------------------------------------------
(***************************************************************************)
(* Dispatcher handlers.                                                    *)
(***************************************************************************)

(* execute_ql: record the session, run the statement in memory storage,    *)
(* whose reply lands in the dispatcher's mailbox.                          *)
execute_ql(st, s, stmt, sender) ==
    LET r == execute_plan(st.mem, stmt)
    IN  [st EXCEPT !.sessions = make_session(@, s, [sender |-> sender, stmt |-> stmt]),
                   !.mem = r.mem,
                   !.dmail = Append(@, [kind |-> "execute_ql_finish", sess |-> s,
                                        stmt |-> stmt, code |-> r.code, addr |-> r.addr])]

(* Faulty variant: a statement for a missing collection gets no answer.   *)
route_to_collection_noreply(st, s, stmt, sender) ==
    LET fn == <<stmt.db, stmt.coll>>
    IN  IF st.book[fn] # 0
        THEN [st EXCEPT !.sessions = make_session(@, s, [sender |-> sender, stmt |-> stmt]),
                        !.cmail[<<fn, st.book[fn]>>] =
                            Append(@, [kind |-> stmt.type, sess |-> s, stmt |-> stmt])]
        ELSE st

(* The shape shared by every collection handler: look the collection up   *)
(* in the address book; if it is there, record the session and send the   *)
(* statement to the collection's address, otherwise answer at once with   *)
(* an empty result.                                                       *)
route_to_collection(st, s, stmt, sender) ==
    LET fn == <<stmt.db, stmt.coll>>
    IN  IF st.book[fn] # 0
        THEN [st EXCEPT !.sessions = make_session(@, s, [sender |-> sender, stmt |-> stmt]),
                        !.cmail[<<fn, st.book[fn]>>] =
                            Append(@, [kind |-> stmt.type, sess |-> s, stmt |-> stmt])]
        ELSE Reply(st, sender, s, "empty")

insert_documents(st, s, stmt, sender) == route_to_collection(st, s, stmt, sender)
delete_documents(st, s, stmt, sender) == route_to_collection(st, s, stmt, sender)
update_documents(st, s, stmt, sender) == route_to_collection(st, s, stmt, sender)
find(st, s, stmt, sender)             == route_to_collection(st, s, stmt, sender)
find_one(st, s, stmt, sender)         == route_to_collection(st, s, stmt, sender)
size(st, s, stmt, sender)             == route_to_collection(st, s, stmt, sender)

(* create_index / drop_index: the same, except that the answer for a      *)
(* missing collection is skipped when the sender is the dispatcher itself; *)
(* no statement of this model comes from the dispatcher, so the answer is *)
(* always sent.                                                           *)
create_index(st, s, stmt, sender) == route_to_collection(st, s, stmt, sender)
drop_index(st, s, stmt, sender)   == route_to_collection(st, s, stmt, sender)

(* Faulty variant: drop_collection is answered at once, without waiting    *)
(* for the disk, and the entry is kept for remove_collection_finish.       *)
execute_ql_finish_early_reply(st, s, stmt, code, addr) ==
    LET fn == <<stmt.db, stmt.coll>>
        st1 == IF code # "success" THEN st
               ELSE CASE stmt.type = "create_database" -> LogOrFlush(st, s, stmt)
                      [] stmt.type = "create_collection" ->
                             LogOrFlush([st EXCEPT !.book[fn] = addr[2]], s, stmt)
                      [] OTHER -> st
    IN  IF code = "success" /\ stmt.type = "drop_collection"
        THEN Reply(LogOrFlush([st EXCEPT !.book[fn] = 0,
                                   !.kmail = Append(@, [kind |-> "remove_collection", sess |-> s])],
                              s, stmt), st.sessions[s].sender, s, code)
        ELSE IF FromWal(st1, s) THEN check_load_from_wal(st1)
        ELSE ReplyTake(st1, s, code)

(* execute_ql_finish.                                                      *)
execute_ql_finish(st, s, stmt, code, addr) ==
    LET fn == <<stmt.db, stmt.coll>>
        st1 == IF code # "success" THEN st
               ELSE CASE stmt.type = "create_database" -> LogOrFlush(st, s, stmt)
                      [] stmt.type = "create_collection" ->
                             LogOrFlush([st EXCEPT !.book[fn] = addr[2]], s, stmt)
                      [] OTHER -> st
    IN  IF code = "success" /\ stmt.type = "drop_collection"
        THEN LogOrFlush([st EXCEPT !.book[fn] = 0,
                                   !.kmail = Append(@, [kind |-> "remove_collection", sess |-> s])],
                        s, stmt)
        ELSE IF FromWal(st1, s) THEN check_load_from_wal(st1)
        ELSE ReplyTake(st1, s, code)

(* drop_collection_finish_from_disk.                                       *)
drop_collection_finish_from_disk(st, s) ==
    IF FromWal(st, s) THEN check_load_from_wal(st)
    ELSE ReplyTake(st, s, "success")

(* Faulty variant: only inserts are written to the WAL.                    *)
dml_finish_insert_only(st, s, code) ==
    LET st1 == IF st.sessions[s].stmt.type = "insert"
               THEN LogOrFlush(st, s, st.sessions[s].stmt) ELSE st
    IN  IF FromWal(st, s) THEN check_load_from_wal(st1)
        ELSE [Reply(st1, st.sessions[s].sender, s, code)
                 EXCEPT !.sessions = remove_session(@, s)]

(* insert_finish / delete_finish / update_finish.                          *)
dml_finish(st, s, code) ==
    LET st1 == LogOrFlush(st, s, st.sessions[s].stmt)
    IN  IF FromWal(st, s) THEN check_load_from_wal(st1)
        ELSE [Reply(st1, st.sessions[s].sender, s, code)
                 EXCEPT !.sessions = remove_session(@, s)]

insert_finish(st, s, code) == dml_finish(st, s, code)
delete_finish(st, s, code) == dml_finish(st, s, code)
update_finish(st, s, code) == dml_finish(st, s, code)

(* size_finish / find_finish / find_one_finish: answer the session's       *)
(* sender and drop the entry; reads are neither logged nor counted.       *)
size_finish(st, s, code)     == ReplyTake(st, s, code)
find_finish(st, s, code)     == ReplyTake(st, s, code)
find_one_finish(st, s, code) == ReplyTake(st, s, code)

(* create_index_finish / drop_index_finish: a session of the WAL manager   *)
(* flushes the disk, but check_load_from_wal is not called; the sender is  *)
(* answered (a reply to the WAL manager is lost) and the entry dropped.    *)
index_finish(st, s, code) ==
    ReplyTake(IF FromWal(st, s) THEN wal_success(st, s, st.lastWalId) ELSE st, s, code)

create_index_finish(st, s, code) == index_finish(st, s, code)
drop_index_finish(st, s, code)   == index_finish(st, s, code)

(* load: remember the load session and ask the disk for its snapshot.      *)
load(st, s, sender) ==
    [st EXCEPT !.loadSession = s,
               !.sessions = make_session(@, s, [sender |-> sender, stmt |-> None]),
               !.kmail = Append(@, [kind |-> "load", sess |-> s])]

(* Faulty variant: an empty snapshot drops the load session unanswered.    *)
load_from_disk_result_silent(st, s, snap, walId) ==
    IF snap.databases = {}
    THEN [st EXCEPT !.sessions = remove_session(@, s), !.loadWalId = 0]
    ELSE LET m2 == storage_load(st.mem, snap)
         IN  [st EXCEPT !.loadWalId = walId,
                        !.mem = m2,
                        !.dmail = Append(@, [kind |-> "load_memory_result", sess |-> s,
                                  addrs |-> {<<fn, m2.collections[fn]>> :
                                             fn \in {x \in FullNames : m2.collections[x] # 0}}])]

(* load_from_disk_result: an empty snapshot ends the load at once;         *)
(* otherwise memory storage loads it (memory_storage_t::load, inline) and  *)
(* answers with the addresses of the collections it created.               *)
load_from_disk_result(st, s, snap, walId) ==
    IF snap.databases = {}
    THEN [ReplyTake(st, s, "success") EXCEPT !.loadWalId = 0]
    ELSE LET m2 == storage_load(st.mem, snap)
         IN  [st EXCEPT !.loadWalId = walId,
                        !.mem = m2,
                        !.dmail = Append(@, [kind |-> "load_memory_result", sess |-> s,
                                  addrs |-> {<<fn, m2.collections[fn]>> :
                                             fn \in {x \in FullNames : m2.collections[x] # 0}}])]

(* load_from_memory_resource_result: fill the address book, ask the WAL   *)
(* for the records after the disk's checkpoint.                            *)
load_from_memory_resource_result(st, s, addrs) ==
    [st EXCEPT !.book = [fn \in FullNames |->
                            IF @[fn] = 0 /\ \E a \in addrs : a[1] = fn
                            THEN (CHOOSE a \in addrs : a[1] = fn)[2] ELSE @[fn]],
               !.wmail = Append(@, [kind |-> "load", sess |-> s, id |-> st.loadWalId]),
               !.loadWalId = 0]

(* One record of load_from_wal_result's loop, under a fresh session whose  *)
(* sender is the WAL manager.                                              *)
ReplayRecord(st, r) ==
    LET s == <<Replayer, r.id>>
    IN  IF r.stmt.type \in DdlTypes THEN execute_ql(st, s, r.stmt, WalManager)
        ELSE route_to_collection(st, s, r.stmt, WalManager)

(* Faulty variant: load_count_answers_ set one short of the record count.  *)
load_from_wal_result_short(st, s, recs) ==
    IF recs = <<>>
    THEN ReplyTake([st EXCEPT !.loadCount = 0], s, "success")
    ELSE FoldLeft(ReplayRecord,
                  [st EXCEPT !.loadCount = Len(recs) - 1, !.lastWalId = recs[Len(recs)].id],
                  recs)

load_from_wal_result(st, s, recs) ==
    IF recs = <<>>
    THEN ReplyTake([st EXCEPT !.loadCount = 0], s, "success")
    ELSE FoldLeft(ReplayRecord,
                  [st EXCEPT !.loadCount = Len(recs), !.lastWalId = recs[Len(recs)].id],
                  recs)

(* The dispatcher's message loop: one message per step.                    *)
Dispatch(msg, st) ==
    CASE msg.kind \in {"create_database", "drop_database", "create_collection",
                       "drop_collection"} -> execute_ql(st, msg.sess, msg.stmt, msg.sender)
      [] msg.kind = "insert"       -> insert_documents(st, msg.sess, msg.stmt, msg.sender)
      [] msg.kind = "delete"       -> delete_documents(st, msg.sess, msg.stmt, msg.sender)
      [] msg.kind = "update"       -> update_documents(st, msg.sess, msg.stmt, msg.sender)
      [] msg.kind = "find"         -> find(st, msg.sess, msg.stmt, msg.sender)
      [] msg.kind = "find_one"     -> find_one(st, msg.sess, msg.stmt, msg.sender)
      [] msg.kind = "size"         -> size(st, msg.sess, msg.stmt, msg.sender)
      [] msg.kind = "create_index" -> create_index(st, msg.sess, msg.stmt, msg.sender)
      [] msg.kind = "drop_index"   -> drop_index(st, msg.sess, msg.stmt, msg.sender)
      [] msg.kind = "execute_ql_finish" ->
             execute_ql_finish(st, msg.sess, msg.stmt, msg.code, msg.addr)
      [] msg.kind = "remove_collection_finish" -> drop_collection_finish_from_disk(st, msg.sess)
      [] msg.kind = "insert_finish"   -> insert_finish(st, msg.sess, msg.code)
      [] msg.kind = "delete_finish"   -> delete_finish(st, msg.sess, msg.code)
      [] msg.kind = "update_finish"   -> update_finish(st, msg.sess, msg.code)
      [] msg.kind = "find_finish"     -> find_finish(st, msg.sess, msg.code)
      [] msg.kind = "find_one_finish" -> find_one_finish(st, msg.sess, msg.code)
      [] msg.kind = "size_finish"     -> size_finish(st, msg.sess, msg.code)
      [] msg.kind = "create_index_finish" -> create_index_finish(st, msg.sess, msg.code)
      [] msg.kind = "drop_index_finish"   -> drop_index_finish(st, msg.sess, msg.code)
      [] msg.kind = "wal_success" -> wal_success(st, msg.sess, msg.id)
      [] msg.kind = "load" -> load(st, msg.sess, msg.sender)
      [] msg.kind = "load_disk_result" -> load_from_disk_result(st, msg.sess, msg.snap, msg.walId)
      [] msg.kind = "load_memory_result" -> load_from_memory_resource_result(st, msg.sess, msg.addrs)
      [] msg.kind = "load_wal_result" -> load_from_wal_result(st, msg.sess, msg.recs)

DispatcherStep ==
    /\ dmail # <<>>
    /\ Commit(Dispatch(Head(dmail), [Cur EXCEPT !.dmail = Tail(@)]))
    /\ UNCHANGED <<phase, cpc, creq, cstmt, wal, checkpoint, crashes, creates, acked>>

-----------------------------------------------------------------------------
(***************************************************************************)
(* The other actors.                                                       *)
(***************************************************************************)

(* A collection context runs one DML statement of its mailbox against its  *)
(* storage and answers the dispatcher. A context destroyed by a drop since *)
(* the statement was queued answers as ApplyDml says.                      *)
FinishKind(k) == k \o "_finish"

CollectionStep(a) ==
    /\ cmail[a] # <<>>
    /\ LET msg == Head(cmail[a])
       IN  \E r \in ApplyDml(mem, a, msg.stmt) :
           /\ mem' = r.mem
           /\ cmail' = [cmail EXCEPT ![a] = Tail(@)]
           /\ dmail' = Append(dmail, [kind |-> FinishKind(msg.kind), sess |-> msg.sess,
                                      code |-> r.code])
    /\ UNCHANGED <<phase, cpc, creq, cstmt, answers, sessions, book, loadSession,
                   loadCount, lastWalId, loadWalId, wmail, wal, kmail, checkpoint,
                   crashes, creates, replyCount, acked>>

(* The WAL manager appends a record with the next id and reports success,  *)
(* or answers a load with every record after the given id.                 *)
WalWrite ==
    /\ wmail # <<>>
    /\ Head(wmail).kind = "write"
    /\ LET msg == Head(wmail)
           id  == Len(wal) + 1
       IN  /\ wal' = Append(wal, [id |-> id, stmt |-> msg.stmt, sess |-> msg.sess])
           /\ dmail' = Append(dmail, [kind |-> "wal_success", sess |-> msg.sess, id |-> id])
    /\ wmail' = Tail(wmail)
    /\ UNCHANGED <<phase, cpc, creq, cstmt, answers, sessions, book, loadSession,
                   loadCount, lastWalId, loadWalId, mem, cmail, kmail, checkpoint,
                   crashes, creates, replyCount, acked>>

WalLoad ==
    /\ wmail # <<>>
    /\ Head(wmail).kind = "load"
    /\ LET msg == Head(wmail)
       IN  dmail' = Append(dmail, [kind |-> "load_wal_result", sess |-> msg.sess,
                                   recs |-> SelectSeq(wal, LAMBDA r : r.id > msg.id)])
    /\ wmail' = Tail(wmail)
    /\ UNCHANGED <<phase, cpc, creq, cstmt, answers, sessions, book, loadSession,
                   loadCount, lastWalId, loadWalId, mem, cmail, wal, kmail, checkpoint,
                   crashes, creates, replyCount, acked>>

(* What a WAL prefix amounts to: its statements applied in order to an     *)
(* empty engine.                                                           *)
LogStep(m, stmt) ==
    IF stmt.type \in DdlTypes THEN execute_plan(m, stmt).mem
    ELSE LET fn == <<stmt.db, stmt.coll>>
         IN  IF m.collections[fn] = 0 THEN m
             ELSE RunDml(m, <<fn, m.collections[fn]>>, stmt).mem

LogView(log) == View(FoldLeft(LogStep, EmptyMem, [i \in DOMAIN log |-> log[i].stmt]))

(* The disk holds the engine as of its checkpoint: flush raises the        *)
(* checkpoint (a flush to an older id is a no-op), load returns the        *)
(* snapshot with the checkpoint id.                                        *)
DiskSnapshot(cp) == LogView(SubSeq(wal, 1, cp))

DiskStep ==
    /\ kmail # <<>>
    /\ LET msg == Head(kmail)
       IN  CASE msg.kind = "flush" ->
                    /\ checkpoint' = IF msg.id > checkpoint THEN msg.id ELSE checkpoint
                    /\ UNCHANGED dmail
             [] msg.kind = "remove_collection" ->
                    /\ dmail' = Append(dmail, [kind |-> "remove_collection_finish",
                                               sess |-> msg.sess])
                    /\ UNCHANGED checkpoint
             [] msg.kind = "load" ->
                    /\ dmail' = Append(dmail, [kind |-> "load_disk_result", sess |-> msg.sess,
                                               snap |-> DiskSnapshot(checkpoint),
                                               walId |-> checkpoint])
                    /\ UNCHANGED checkpoint
    /\ kmail' = Tail(kmail)
    /\ UNCHANGED <<phase, cpc, creq, cstmt, answers, sessions, book, loadSession,
                   loadCount, lastWalId, loadWalId, mem, cmail, wmail, wal,
                   crashes, creates, replyCount, acked>>

(***************************************************************************)
(* Clients, the loader, and the crash.                                     *)
(***************************************************************************)

(* A client sends one statement under a fresh session (session_id_t()).    *)
Request(c, stmt) ==
    /\ phase = "ready"
    /\ cpc[c] = "idle"
    /\ creq[c] < MaxReq
    /\ stmt.type = "create_collection" => creates < MaxInc
    /\ cpc' = [cpc EXCEPT ![c] = "waiting"]
    /\ creq' = [creq EXCEPT ![c] = @ + 1]
    /\ cstmt' = [cstmt EXCEPT ![c] = stmt]
    /\ creates' = IF stmt.type = "create_collection" THEN creates + 1 ELSE creates
    /\ dmail' = Append(dmail, [kind |-> stmt.type, sess |-> <<c, creq[c] + 1>>,
                               stmt |-> stmt, sender |-> c])
    /\ UNCHANGED <<phase, answers, sessions, book, loadSession, loadCount, lastWalId,
                   loadWalId, mem, cmail, wmail, wal, kmail, checkpoint, crashes,
                   replyCount, acked>>

(* A client takes the answer to its request.                               *)
ClientReceive(c) ==
    /\ answers[c] # <<>>
    /\ cpc' = [cpc EXCEPT ![c] = "idle"]
    /\ acked' = IF Head(answers[c]).code = "success" /\ IsMutation(cstmt[c])
                THEN acked \cup {Head(answers[c]).sess} ELSE acked
    /\ answers' = [answers EXCEPT ![c] = Tail(@)]
    /\ UNCHANGED <<phase, creq, cstmt, sessions, book, dmail, loadSession, loadCount,
                   lastWalId, loadWalId, mem, cmail, wmail, wal, kmail, checkpoint,
                   crashes, creates, replyCount>>

(* At start-up the loader calls load() and waits for load_finish.          *)
Boot ==
    /\ phase = "booting"
    /\ phase' = "loading"
    /\ dmail' = Append(dmail, [kind |-> "load", sess |-> <<Loader, crashes>>,
                               sender |-> Loader])
    /\ UNCHANGED <<cpc, creq, cstmt, answers, sessions, book, loadSession, loadCount,
                   lastWalId, loadWalId, mem, cmail, wmail, wal, kmail, checkpoint,
                   crashes, creates, replyCount, acked>>

LoaderReceive ==
    /\ answers[Loader] # <<>>
    /\ phase' = "ready"
    /\ answers' = [answers EXCEPT ![Loader] = Tail(@)]
    /\ UNCHANGED <<cpc, creq, cstmt, sessions, book, dmail, loadSession, loadCount,
                   lastWalId, loadWalId, mem, cmail, wmail, wal, kmail, checkpoint,
                   crashes, creates, replyCount, acked>>

(* The process dies: everything but the WAL file and the disk is lost;     *)
(* clients see their connection fail.                                      *)
Crash ==
    /\ crashes < MaxCrash
    /\ crashes' = crashes + 1
    /\ phase' = "booting"
    /\ cpc' = [c \in Clients |-> "idle"]
    /\ answers' = [p \in Parties |-> <<>>]
    /\ sessions' = <<>>
    /\ book' = [fn \in FullNames |-> 0]
    /\ dmail' = <<>>  /\ wmail' = <<>>  /\ kmail' = <<>>
    /\ cmail' = [a \in Addrs |-> <<>>]
    /\ mem' = EmptyMem
    /\ loadSession' = None /\ loadCount' = 0 /\ lastWalId' = 0 /\ loadWalId' = 0
    /\ UNCHANGED <<creq, cstmt, wal, checkpoint, creates, replyCount, acked>>

-----------------------------------------------------------------------------
Init ==
    /\ phase = "booting"
    /\ cpc = [c \in Clients |-> "idle"]
    /\ creq = [c \in Clients |-> 0]
    /\ cstmt = [c \in Clients |-> None]
    /\ answers = [p \in Parties |-> <<>>]
    /\ sessions = <<>>
    /\ book = [fn \in FullNames |-> 0]
    /\ dmail = <<>>  /\ wmail = <<>>  /\ kmail = <<>>
    /\ cmail = [a \in Addrs |-> <<>>]
    /\ mem = EmptyMem
    /\ loadSession = None /\ loadCount = 0 /\ lastWalId = 0 /\ loadWalId = 0
    /\ wal = <<>>  /\ checkpoint = 0
    /\ crashes = 0 /\ creates = 0
    /\ replyCount = <<>>
    /\ acked = {}

Next ==
    \/ DispatcherStep
    \/ \E a \in Addrs : CollectionStep(a)
    \/ WalWrite \/ WalLoad \/ DiskStep
    \/ \E c \in Clients, stmt \in Stmts : Request(c, stmt)
    \/ \E c \in Clients : ClientReceive(c)
    \/ Boot \/ LoaderReceive \/ Crash

(* Every actor handles what is in its mailbox (the scheduler runs every    *)
(* actor with pending messages) and every party reads its replies; the     *)
(* clients' requests and the crash are not forced.                         *)
Fairness ==
    /\ WF_vars(DispatcherStep)
    /\ \A a \in Addrs : WF_vars(CollectionStep(a))
    /\ WF_vars(WalWrite) /\ WF_vars(WalLoad) /\ WF_vars(DiskStep)
    /\ \A c \in Clients : WF_vars(ClientReceive(c))
    /\ WF_vars(Boot) /\ WF_vars(LoaderReceive)

Spec == Init /\ [][Next]_vars /\ Fairness

-----------------------------------------------------------------------------
(***************************************************************************)
(* Properties.                                                             *)
(***************************************************************************)

TypeOK ==
    /\ phase \in {"booting", "loading", "ready"}
    /\ cpc \in [Clients -> {"idle", "waiting"}]
    /\ creq \in [Clients -> 0 .. MaxReq]
    /\ book \in [FullNames -> 0 .. MaxInc]
    /\ mem \in MemState
    /\ wal \in Seq(WalRec)
    /\ checkpoint \in 0 .. Len(wal)
    /\ loadCount \in Nat /\ lastWalId \in Nat /\ loadWalId \in Nat
    /\ DOMAIN sessions \subseteq Sessions
    /\ acked \subseteq Sessions

(* Each request gets at most one answer: no handler path of the            *)
(* dispatcher (execute_ql_finish with its early return for drop_collection, *)
(* drop_collection_finish_from_disk, the *_finish handlers, load_finish)   *)
(* answers a session twice.                                                *)
AtMostOneReply == \A s \in DOMAIN replyCount : replyCount[s] <= 1

Quiescent ==
    /\ phase = "ready"
    /\ dmail = <<>> /\ wmail = <<>> /\ kmail = <<>>
    /\ \A a \in Addrs : cmail[a] = <<>>

(* Whenever no message is in flight, the live collections in memory and   *)
(* their documents are what the WAL replays to: the dispatcher logged      *)
(* every DDL and DML that changed a collection, in the order it changed.  *)
CollectionsMatchLog ==
    Quiescent =>
        LET v == LogView(wal)
        IN  /\ View(mem).live = v.live
            /\ View(mem).docs = v.docs

(* Whenever no message is in flight, the databases in memory are the ones  *)
(* the WAL replays to.                                                     *)
DatabasesMatchLog ==
    Quiescent => View(mem).databases = LogView(wal).databases

(* Spec 4.8 step 4: a client is answered only once the WAL has written    *)
(* its mutation, so a mutation a client has seen succeed is in the WAL.   *)
AckedIsLogged == \A s \in acked : \E i \in DOMAIN wal : wal[i].sess = s

(* Every request of a client is eventually answered.                      *)
EveryRequestAnswered == \A c \in Clients : cpc[c] = "waiting" ~> cpc[c] = "idle"

(* A started load eventually ends with load_finish: load_count_answers_    *)
(* reaches zero once every replayed record has finished.                   *)
LoadCompletes == phase = "loading" ~> phase = "ready"


(* The writes of WAL record j have not reached the disk manager yet: its  *)
(* statement, under its own session or the one its replay runs under,     *)
(* still waits in a collection's mailbox (the context writes what it      *)
(* applies), or its execute_ql_finish, which sends the disk manager        *)
(* append_database, append_collection or remove_collection, has not run.  *)
Unfinished(j) ==
    LET ss == {wal[j].sess, <<Replayer, j>>}
    IN  \/ \E a \in Addrs : \E i \in DOMAIN cmail[a] : cmail[a][i].sess \in ss
        \/ \E i \in DOMAIN dmail : dmail[i].sess \in ss /\ dmail[i].kind = "execute_ql_finish"

(* Spec 4.8: flushing the disk up to WAL id n makes the records up to n   *)
(* durable, and recovery replays only the records after it.  The disk     *)
(* can only hold what has reached it, so the dispatcher may ask for a     *)
(* flush to n only once the writes of the records up to n have reached   *)
(* it.  It is about the id wal_success is given: the record's own id      *)
(* after a WAL write, last_wal_id_ during replay.                         *)
FlushAfterApplied ==
    \A i \in DOMAIN kmail :
        kmail[i].kind = "flush" =>
            \A j \in 1 .. kmail[i].id : j \in DOMAIN wal => ~Unfinished(j)

====
