--------------------------- MODULE IndexAgentDisk ---------------------------
(***************************************************************************)
(* index_agent_disk_t: the actor that owns the on-disk B-tree of one index *)
(* (index_disk_) and serves insert, remove, find and drop, each answered   *)
(* to the sender of the message it handles.                                *)
(*                                                                         *)
(* index_disk_t is not in this repository.  It is modelled from spec 4.3:  *)
(* the (key, document id) pairs it holds; find(v) gives the documents of   *)
(* the pairs with key v, lower_bound(v) those with a key below v,          *)
(* upper_bound(v) those with a key above v, each appending to the result   *)
(* vector res.  A result is therefore a bag of document ids: a document    *)
(* under two keys is in it twice.  What index_disk_t::drop does to the     *)
(* pairs is not specified; the model leaves them.                          *)
(***************************************************************************)
EXTENDS Integers, Sequences, FiniteSets, Bags

CONSTANTS
    Senders,     \* actors that send to the agent
    Keys,        \* key values (integers, so that they are ordered)
    DocIds,      \* document ids
    Compares,    \* compare_type values a find may carry
    InitPairs,   \* the B-tree contents an agent may start over
    Reqs,        \* requests: [op, key, doc, cmp] (the fields op does not use are ignored)
    MaxReq       \* requests per sender

VARIABLES
    pairs,       \* index_disk_: its (key, document id) pairs
    is_dropped,  \* is_dropped_
    mbox,        \* the agent's mailbox, a FIFO of messages
    answers,     \* per sender, the answers it has received, in order
    nsent        \* per sender, the requests it has sent

avars == <<pairs, is_dropped, mbox, answers, nsent>>

-----------------------------------------------------------------------------
(* index_disk_t (spec 4.3 range semantics): the documents of the pairs     *)
(* whose key is equal to, below or above v, as a bag.                     *)
DocsOf(S) == BagOfAll(LAMBDA p : p[2], SetToBag(S))

disk_find(ps, v)        == DocsOf({p \in ps : p[1] = v})
disk_lower_bound(ps, v) == DocsOf({p \in ps : p[1] < v})
disk_upper_bound(ps, v) == DocsOf({p \in ps : p[1] > v})

(* Faulty variant: gte answered by upper_bound alone.                      *)
find_res_nogte(ps, v, cmp) ==
    CASE cmp = "eq"  -> disk_find(ps, v)
      [] cmp = "ne"  -> disk_lower_bound(ps, v) (+) disk_upper_bound(ps, v)
      [] cmp = "gt"  -> disk_upper_bound(ps, v)
      [] cmp = "lt"  -> disk_lower_bound(ps, v)
      [] cmp = "gte" -> disk_upper_bound(ps, v)
      [] cmp = "lte" -> disk_lower_bound(ps, v) (+) disk_find(ps, v)
      [] OTHER       -> EmptyBag

(* The switch of index_agent_disk_t::find: what res holds when it is sent. *)
find_res(ps, v, cmp) ==
    CASE cmp = "eq"  -> disk_find(ps, v)
      [] cmp = "ne"  -> disk_lower_bound(ps, v) (+) disk_upper_bound(ps, v)
      [] cmp = "gt"  -> disk_upper_bound(ps, v)
      [] cmp = "lt"  -> disk_lower_bound(ps, v)
      [] cmp = "gte" -> disk_find(ps, v) (+) disk_upper_bound(ps, v)
      [] cmp = "lte" -> disk_lower_bound(ps, v) (+) disk_find(ps, v)
      [] OTHER       -> EmptyBag

-----------------------------------------------------------------------------
(* The constructor: a fresh agent over the B-tree at its path.             *)
IAInit ==
    /\ pairs \in InitPairs
    /\ is_dropped = FALSE
    /\ mbox = <<>>
    /\ answers = [s \in Senders |-> <<>>]
    /\ nsent = [s \in Senders |-> 0]

(* A sender puts a request in the agent's mailbox under a new session.    *)
Send(s, r) ==
    /\ nsent[s] < MaxReq
    /\ nsent' = [nsent EXCEPT ![s] = @ + 1]
    /\ mbox' = Append(mbox, [sess |-> <<s, nsent[s] + 1>>, sender |-> s] @@ r)
    /\ UNCHANGED <<pairs, is_dropped, answers>>

Reply(m, a) == answers' = [answers EXCEPT ![m.sender] = Append(@, a)]

(* Faulty variant: drop without the answer to its sender.                 *)
drop_noreply(m) ==
    /\ m.op = "drop"
    /\ is_dropped' = TRUE
    /\ UNCHANGED <<pairs, answers>>

(* The four handlers, each run on the message at the head of the mailbox. *)
drop(m) ==
    /\ m.op = "drop"
    /\ is_dropped' = TRUE
    /\ Reply(m, [sess |-> m.sess, kind |-> "success"])
    /\ UNCHANGED pairs

insert(m) ==
    /\ m.op = "insert"
    /\ pairs' = pairs \cup {<<m.key, m.doc>>}
    /\ Reply(m, [sess |-> m.sess, kind |-> "success"])
    /\ UNCHANGED is_dropped

remove(m) ==
    /\ m.op = "remove"
    /\ pairs' = pairs \ {<<m.key, m.doc>>}
    /\ Reply(m, [sess |-> m.sess, kind |-> "success"])
    /\ UNCHANGED is_dropped

find(m) ==
    /\ m.op = "find"
    /\ Reply(m, [sess |-> m.sess, kind |-> "success_find",
                 res |-> find_res(pairs, m.key, m.cmp)])
    /\ UNCHANGED <<pairs, is_dropped>>

(* Faulty variant: the message handled but left in the mailbox, so that   *)
(* it is delivered again.                                                  *)
Handle_redeliver ==
    /\ mbox # <<>>
    /\ LET m == Head(mbox)
       IN  drop(m) \/ insert(m) \/ remove(m) \/ find(m)
    /\ UNCHANGED <<mbox, nsent>>

Handle ==
    /\ mbox # <<>>
    /\ LET m == Head(mbox)
       IN  drop(m) \/ insert(m) \/ remove(m) \/ find(m)
    /\ mbox' = Tail(mbox)
    /\ UNCHANGED nsent

IANext ==
    \/ \E s \in Senders, r \in Reqs : Send(s, r)
    \/ Handle

(* The agent is an actor: a scheduler thread runs its mailbox whenever it  *)
(* holds a message.                                                        *)
IASpec == IAInit /\ [][IANext]_avars /\ WF_avars(Handle)

-----------------------------------------------------------------------------
IATypeOK ==
    /\ pairs \subseteq Keys \X DocIds
    /\ is_dropped \in BOOLEAN
    /\ \A s \in Senders : nsent[s] \in 0 .. MaxReq /\ Len(answers[s]) <= nsent[s]
    /\ Len(mbox) <= MaxReq * Cardinality(Senders)

(* The relation each compare_type stands for (spec 4.3, 4.4): the key of a *)
(* pair against the value of the find.                                     *)
Holds(k, v, cmp) ==
    CASE cmp = "eq"  -> k = v
      [] cmp = "ne"  -> k # v
      [] cmp = "gt"  -> k > v
      [] cmp = "lt"  -> k < v
      [] cmp = "gte" -> k >= v
      [] cmp = "lte" -> k <= v
      [] OTHER       -> FALSE

(* Spec 4.3: a find of kind c against v answers, from the index as it is  *)
(* when the agent takes the message, every document of a pair whose key   *)
(* stands in relation c to v, as often as it has such pairs, and nothing  *)
(* else.  It is about the way the find handler combines find, lower_bound *)
(* and upper_bound for ne, gte and lte.                                   *)
FindAnswersRange ==
    [][\A s \in Senders :
          Len(answers'[s]) > Len(answers[s]) =>
              LET a == answers'[s][Len(answers'[s])]
              IN  a.kind = "success_find" =>
                      a.res = DocsOf({p \in pairs : Holds(p[1], Head(mbox).key, Head(mbox).cmp)})]_avars

(* Every request is answered, to the actor that sent it, exactly once and *)
(* in the order that actor sent its requests: the handlers all end in a   *)
(* send to current_message()->sender(), and the mailbox is FIFO.          *)
EveryRequestAnswered ==
    \A s \in Senders, i \in 1 .. MaxReq :
        nsent[s] >= i ~> Len(answers[s]) >= i /\ answers[s][i].sess = <<s, i>>

====
