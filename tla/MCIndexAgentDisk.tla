-------------------------- MODULE MCIndexAgentDisk --------------------------
(* A collection context and the disk manager sending to one agent.  The   *)
(* index starts empty or holding three pairs, one document under two      *)
(* keys; finds ask about the middle key 2 with every compare_type and one *)
(* the switch has no case for (regex).                                    *)
EXTENDS IndexAgentDisk

CONSTANTS ctx, mgr, d1, d2

MCSenders == {ctx, mgr}

MCInitPairs == { {}, {<<1, d1>>, <<2, d2>>, <<3, d1>>} }

MCCompares == {"eq", "ne", "gt", "lt", "gte", "lte", "regex"}

MCReqs ==
    {[op |-> "find", key |-> 2, doc |-> d1, cmp |-> c] : c \in MCCompares}
    \cup {[op |-> o, key |-> 2, doc |-> d1, cmp |-> "eq"] : o \in {"insert", "remove"}}
    \cup {[op |-> "drop", key |-> 2, doc |-> d1, cmp |-> "eq"]}

====
