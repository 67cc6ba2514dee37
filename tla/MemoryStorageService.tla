------------------------- MODULE MemoryStorageService -------------------------
(***************************************************************************)
(* memory_storage_t as an actor of its own, with its callers and its       *)
(* executor: the handlers execute_plan, size, load and the two finish      *)
(* handlers the executor calls back, and the sessions_ table that routes   *)
(* each answer back to the caller.                                         *)
(*                                                                         *)
(* enqueue_impl runs a handler at once, under the spin lock, in the        *)
(* sender's thread: a handler is one step of its caller (a client, the     *)
(* loader or the executor).  DDL and size are answered in that step; DML   *)
(* is checked, recorded in sessions_ and sent to the executor with the     *)
(* address of the context it was checked against.  The executor (not in   *)
(* this repository) is one actor with a FIFO mailbox.                      *)
(***************************************************************************)
EXTENDS MemoryStorage, Sequences, SequencesExt, TLC

CONSTANTS
    Clients,    \* callers of execute_plan and size
    Loader,     \* the caller of load at start-up
    Snapshot,   \* what the disk manager loaded (a View)
    MaxReq      \* requests per client

Parties == Clients \cup {Loader}
Session == (Clients \X (1 .. MaxReq)) \cup {<<Loader, 0>>}

(* The statements of execute_plan: the four DDL kinds on their names, and *)
(* insert and delete of one document id, which go to the executor.         *)
DdlStmts == [type : {"create_database", "drop_database"}, db : Dbs]
            \cup [type : {"create_collection", "drop_collection"}, db : Dbs, coll : Colls]
DmlStmts == [type : {"insert", "delete"}, db : Dbs, coll : Colls, doc : Docs]
SizeReqs == [type : {"size"}, db : Dbs, coll : Colls]

NoPlan   == [type |-> "none"]               \* a load session has no plan
NoAnswer == [sess |-> <<>>, req |-> NoPlan, code |-> "none"]

VARIABLES
    phase,     \* "booting" | "loading" | "ready": the loader's view
    mem,       \* databases_, collections_ and the contexts (MemState)
    sessions_, \* session -> [sender, count_answers]
    xmail,     \* the executor's mailbox
    out,       \* party -> FIFO of the answers sent to it
    cpc,       \* client -> "idle" | "waiting"
    creq,      \* client -> requests issued
    sent       \* the last answer sent to a client

svars == <<phase, mem, sessions_, xmail, out, cpc, creq, sent>>

Send(o, p, msg) == [o EXCEPT ![p] = Append(@, msg)]
Answer(s, req, code) == [sess |-> s, req |-> req, code |-> code]
LoadFinish(s)        == [sess |-> s, code |-> "load_finish"]

(* An answer to a client; the last one is kept for the refinement.        *)
Reply(c, msg) == out' = Send(out, c, msg) /\ sent' = msg

emplace_session(t, s, v) == IF s \in DOMAIN t THEN t ELSE t @@ (s :> v)
erase_session(t, s)      == Restrict(t, DOMAIN t \ {s})

-----------------------------------------------------------------------------
(* load: the databases and an empty context per collection of the disk     *)
(* result; one create_documents per collection to the executor; the        *)
(* session is recorded with the number of collections, or load_finish is   *)
(* sent at once when there is none.                                        *)
LoadNames(snap) == {fn \in snap.live : fn[1] \in snap.databases}

(* Faulty variant: the databases counted instead of their collections.    *)
LoadCount_dbs(snap) == Cardinality(snap.databases)

(* count_collections: the collections of every database, summed.          *)
LoadCount(snap) == Cardinality(LoadNames(snap))

load(s) ==
    LET names == LoadNames(Snapshot)
        m2    == storage_load(mem, [Snapshot EXCEPT !.docs = [fn \in FullNames |-> {}]])
        fills == [i \in 1 .. Cardinality(names) |->
                    LET fn == SetToSeq(names)[i]
                    IN  [kind |-> "create_documents", sess |-> s,
                         addr |-> <<fn, m2.collections[fn]>>, docs |-> Snapshot.docs[fn]]]
    IN  /\ mem' = m2
        /\ xmail' = xmail \o fills
        /\ IF names = {}
           THEN /\ out' = Send(out, Loader, LoadFinish(s))
                /\ UNCHANGED sessions_
           ELSE /\ sessions_' = emplace_session(sessions_, s,
                                    [plan |-> NoPlan, sender |-> Loader, count |-> LoadCount(Snapshot)])
                /\ UNCHANGED out

Boot ==
    /\ phase = "booting"
    /\ phase' = "loading"
    /\ load(<<Loader, 0>>)
    /\ UNCHANGED <<cpc, creq, sent>>

LoaderReceive ==
    /\ out[Loader] # <<>>
    /\ phase' = "ready"
    /\ out' = [out EXCEPT ![Loader] = Tail(@)]
    /\ UNCHANGED <<mem, sessions_, xmail, cpc, creq, sent>>

-----------------------------------------------------------------------------
(* execute_plan from client c under session s.  DDL runs against the      *)
(* maps and is answered; drop_collection_ records the session and erases  *)
(* it again around its answer.  Any other plan goes to execute_plan_: the  *)
(* collection is checked, the session recorded, and the plan sent to the  *)
(* executor with the context the name resolves to now.                     *)
(* Faulty variant: the plan sent without recording its session.           *)
execute_plan_nosession(c, s, stmt) ==
    LET fn   == <<stmt.db, stmt.coll>>
        code == check_collection_(mem, fn)
    IN  IF code # "success"
        THEN /\ Reply(c, Answer(s, stmt, code))
             /\ UNCHANGED <<mem, sessions_, xmail>>
        ELSE /\ xmail' = Append(xmail, [kind |-> "execute_plan", sess |-> s, stmt |-> stmt,
                                        addr |-> <<fn, mem.collections[fn]>>])
             /\ UNCHANGED <<mem, out, sessions_, sent>>

execute_plan_(c, s, stmt) ==
    LET fn   == <<stmt.db, stmt.coll>>
        code == check_collection_(mem, fn)
    IN  IF code # "success"
        THEN /\ Reply(c, Answer(s, stmt, code))
             /\ UNCHANGED <<mem, sessions_, xmail>>
        ELSE /\ sessions_' = emplace_session(sessions_, s, [plan |-> stmt, sender |-> c, count |-> 1])
             /\ xmail' = Append(xmail, [kind |-> "execute_plan", sess |-> s, stmt |-> stmt,
                                        addr |-> <<fn, mem.collections[fn]>>])
             /\ UNCHANGED <<mem, out, sent>>

ExecuteDdl(c, s, stmt) ==
    LET r == execute_plan(mem, stmt)
    IN  /\ mem' = r.mem
        /\ Reply(c, Answer(s, stmt, r.code))
        /\ sessions_' = IF stmt.type = "drop_collection" /\ r.code = "success"
                        THEN erase_session(emplace_session(sessions_, s,
                                 [plan |-> stmt, sender |-> c, count |-> 1]), s)
                        ELSE sessions_
        /\ UNCHANGED xmail

(* size: the collection is checked, then its documents are counted.  The  *)
(* dropped() branch is not reachable: drop_collection_ erases the name in  *)
(* the call that marks the context dropped.                               *)
size(c, s, fn) ==
    LET code == check_collection_(mem, fn)
        req  == [type |-> "size", db |-> fn[1], coll |-> fn[2]]
    IN  /\ Reply(c,
                   IF code # "success" THEN Answer(s, req, code)
                   ELSE [sess |-> s, req |-> req, code |-> "success",
                         n |-> Cardinality(mem.ctx[<<fn, mem.collections[fn]>>].docs)])
        /\ UNCHANGED <<mem, sessions_, xmail>>

Issue(c) ==
    /\ phase = "ready" /\ cpc[c] = "idle" /\ creq[c] < MaxReq
    /\ cpc' = [cpc EXCEPT ![c] = "waiting"]
    /\ creq' = [creq EXCEPT ![c] = @ + 1]
    /\ UNCHANGED phase

Request(c, stmt) ==
    /\ Issue(c)
    /\ stmt.type = "create_collection" =>
           mem.incs[<<stmt.db, stmt.coll>>] < MaxInc
    /\ IF stmt \in DdlStmts THEN ExecuteDdl(c, <<c, creq[c] + 1>>, stmt)
       ELSE execute_plan_(c, <<c, creq[c] + 1>>, stmt)

SizeRequest(c, fn) ==
    /\ Issue(c)
    /\ size(c, <<c, creq[c] + 1>>, fn)

ClientReceive(c) ==
    /\ out[c] # <<>>
    /\ cpc' = [cpc EXCEPT ![c] = "idle"]
    /\ out' = [out EXCEPT ![c] = Tail(@)]
    /\ UNCHANGED <<phase, mem, sessions_, xmail, creq, sent>>

-----------------------------------------------------------------------------
(* The two handlers the executor calls back, run in its step.             *)
(* create_documents_finish_ ignores an unknown session and counts the      *)
(* answers of a load down to 0, then sends load_finish.                    *)
(* Faulty variants: the test made on the count before it is decremented;  *)
(* the contains() test inverted.                                          *)
create_documents_finish_late(s) ==
    IF s \notin DOMAIN sessions_ THEN UNCHANGED <<sessions_, out>>
    ELSE IF sessions_[s].count = 0
    THEN /\ out' = Send(out, sessions_[s].sender, LoadFinish(s))
         /\ sessions_' = erase_session(sessions_, s)
    ELSE /\ sessions_' = [sessions_ EXCEPT ![s].count = @ - 1]
         /\ UNCHANGED out

create_documents_finish_inverted(s) ==
    IF s \in DOMAIN sessions_ THEN UNCHANGED <<sessions_, out>>
    ELSE IF sessions_[s].count - 1 = 0
    THEN /\ out' = Send(out, sessions_[s].sender, LoadFinish(s))
         /\ sessions_' = erase_session(sessions_, s)
    ELSE /\ sessions_' = [sessions_ EXCEPT ![s].count = @ - 1]
         /\ UNCHANGED out

create_documents_finish_(s) ==
    IF s \notin DOMAIN sessions_ THEN UNCHANGED <<sessions_, out>>
    ELSE IF sessions_[s].count - 1 = 0
    THEN /\ out' = Send(out, sessions_[s].sender, LoadFinish(s))
         /\ sessions_' = erase_session(sessions_, s)
    ELSE /\ sessions_' = [sessions_ EXCEPT ![s].count = @ - 1]
         /\ UNCHANGED out

(* execute_plan_finish_ forwards the result to the session's sender.      *)
(* sessions_.at throws on a missing session: the step is then not taken.   *)
execute_plan_finish_(s, code) ==
    /\ s \in DOMAIN sessions_
    /\ Reply(sessions_[s].sender, Answer(s, sessions_[s].plan, code))
    /\ sessions_' = erase_session(sessions_, s)

(* The executor takes the head of its mailbox: it fills a loaded context,  *)
(* or runs a plan against the context it was sent with, which a drop may   *)
(* have destroyed since (ApplyDml).                                        *)
ExecutorStep ==
    /\ xmail # <<>>
    /\ xmail' = Tail(xmail)
    /\ LET msg == Head(xmail)
       IN  IF msg.kind = "create_documents"
           THEN /\ mem' = [mem EXCEPT !.ctx[msg.addr].docs = @ \cup msg.docs]
                /\ create_documents_finish_(msg.sess)
                /\ UNCHANGED sent
           ELSE \E r \in ApplyDml(mem, msg.addr, msg.stmt) :
                    /\ mem' = r.mem
                    /\ execute_plan_finish_(msg.sess, r.code)
    /\ UNCHANGED <<phase, cpc, creq>>

-----------------------------------------------------------------------------
SInit ==
    /\ phase = "booting"
    /\ mem = EmptyMem
    /\ sessions_ = <<>>
    /\ xmail = <<>>
    /\ out = [p \in Parties |-> <<>>]
    /\ cpc = [c \in Clients |-> "idle"]
    /\ creq = [c \in Clients |-> 0]
    /\ sent = NoAnswer

SNext ==
    \/ Boot \/ LoaderReceive \/ ExecutorStep
    \/ \E c \in Clients, stmt \in DdlStmts \cup DmlStmts : Request(c, stmt)
    \/ \E c \in Clients, fn \in FullNames : SizeRequest(c, fn)
    \/ \E c \in Clients : ClientReceive(c)

(* The executor runs whenever its mailbox is not empty, and every caller   *)
(* blocks on its answer; the clients' requests are not forced.            *)
SFairness ==
    /\ WF_svars(Boot) /\ WF_svars(LoaderReceive) /\ WF_svars(ExecutorStep)
    /\ \A c \in Clients : WF_svars(ClientReceive(c))

SSpec == SInit /\ [][SNext]_svars /\ SFairness

-----------------------------------------------------------------------------
STypeOK ==
    /\ phase \in {"booting", "loading", "ready"}
    /\ mem \in MemState
    /\ DOMAIN sessions_ \subseteq Session
    /\ \A s \in DOMAIN sessions_ :
           sessions_[s].sender \in Parties /\ sessions_[s].count \in 1 .. Cardinality(FullNames)
    /\ cpc \in [Clients -> {"idle", "waiting"}] /\ creq \in [Clients -> 0 .. MaxReq]

(* The documents a context holds once the executor has run the            *)
(* create_documents still in its mailbox.                                  *)
Pending(a) == UNION {xmail[i].docs : i \in {j \in DOMAIN xmail :
                        xmail[j].kind = "create_documents" /\ xmail[j].addr = a}}

(* Spec 4.7: the service is the sole writer of the database set and the   *)
(* collection map, and DML runs against the addressed context later, in   *)
(* the executor.  Seen through the current context of every name, the     *)
(* whole of it (load, the DDL handlers, execute_plan_, the executor and    *)
(* the finish handlers) behaves as the catalogue of CollectionCatalog,     *)
(* every request taking effect in one step; in particular a statement     *)
(* accepted for a collection dropped before it runs is refused with        *)
(* collection_dropped (spec 3, Collection).  It is about drop_collection_  *)
(* erasing the context a plan sent by execute_plan_ still points to.       *)
Catalog == INSTANCE CollectionCatalog
    WITH Sessions <- Session,
         NoAnswer <- NoAnswer,
         Requests <- DdlStmts \cup DmlStmts \cup SizeReqs,
         answer <- sent,
         cdbs <- mem.databases,
         ccolls <- [fn \in {x \in FullNames : mem.collections[x] # 0} |->
                      mem.ctx[<<fn, mem.collections[fn]>>].docs
                      \cup Pending(<<fn, mem.collections[fn]>>)]

ImplementsCatalog == Catalog!CatSpec

(* load_finish reaches the loader only after the executor has filled      *)
(* every loaded collection: count_answers counts the collections of every  *)
(* database of the disk result.                                           *)
LoadFinishAfterFill ==
    phase = "ready" => \A i \in DOMAIN xmail : xmail[i].kind # "create_documents"

(* The load ends, and every request a client makes is answered.           *)
LoadCompletes == phase = "loading" ~> phase = "ready"

EveryRequestAnswered == \A c \in Clients : cpc[c] = "waiting" ~> cpc[c] = "idle"

====
