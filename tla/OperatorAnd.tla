---------------------------- MODULE OperatorAnd ----------------------------
(***************************************************************************)
(* operator_and_t::on_merge_impl, the intersection of the outputs of two   *)
(* child operators under a limit budget, one step per iteration of its     *)
(* loop over the left documents, and operator_count_t::aggregate_impl over *)
(* its output.  A document is its id; the inputs are chosen at start.  A   *)
(* child that is missing, or has made no output, is NoOutput.              *)
(***************************************************************************)
EXTENDS Integers, Sequences

CONSTANTS
    Ids,        \* document ids
    MaxLen,     \* longest left output
    Limits,     \* limit budgets (-1: unbounded)
    NoOutput    \* output_ never made

VARIABLES left, right, lim, pc, i, count, output

avars == <<left, right, lim, pc, i, count, output>>

SeqsUpTo(S, n) == UNION {[1 .. k -> S] : k \in 0 .. n}

(* limit_t::check (not in this repository; spec 5.1): -1 is unbounded,    *)
(* otherwise rows may be emitted while the count is below the budget.     *)
check(l, c) == l = -1 \/ c < l

AInit ==
    /\ left \in SeqsUpTo(Ids, MaxLen) \cup {NoOutput}
    /\ right \in SUBSET Ids \cup {NoOutput}
    /\ lim \in Limits
    /\ pc = "start" /\ i = 1 /\ count = 0 /\ output = NoOutput

(* The budget is checked before any output is made: limit 0 returns with   *)
(* output_ still unset, and so does a merge with a child, or a child's     *)
(* output, missing.                                                       *)
Start ==
    /\ pc = "start"
    /\ IF check(lim, count) /\ left # NoOutput /\ right # NoOutput
       THEN pc' = "loop" /\ output' = <<>>
       ELSE pc' = "done" /\ UNCHANGED output
    /\ UNCHANGED <<left, right, lim, i, count>>

(* Faulty variant: the budget checked before the count is raised.         *)
Probe_precheck ==
    /\ pc = "loop" /\ i <= Len(left)
    /\ IF left[i] \in right
       THEN /\ output' = Append(output, left[i])
            /\ count' = count + 1
            /\ pc' = IF check(lim, count) THEN "loop" ELSE "done"
       ELSE UNCHANGED <<output, count, pc>>
    /\ i' = i + 1
    /\ UNCHANGED <<left, right, lim>>

(* One left document: find_if over the right documents by id; a match is   *)
(* appended and counted, and the loop returns once the budget is spent.    *)
Probe ==
    /\ pc = "loop" /\ i <= Len(left)
    /\ IF left[i] \in right
       THEN /\ output' = Append(output, left[i])
            /\ count' = count + 1
            /\ pc' = IF check(lim, count + 1) THEN "loop" ELSE "done"
       ELSE UNCHANGED <<output, count, pc>>
    /\ i' = i + 1
    /\ UNCHANGED <<left, right, lim>>

(* The loop runs out of left documents.                                    *)
Exhausted ==
    /\ pc = "loop" /\ i > Len(left)
    /\ pc' = "done"
    /\ UNCHANGED <<left, right, lim, i, count, output>>

ANext == Start \/ Probe \/ Exhausted

ASpec == AInit /\ [][ANext]_avars

(* operator_count_t::aggregate_impl: the size of the child's output, or 0  *)
(* when it has none.                                                      *)
aggregate_impl(out) == IF out = NoOutput THEN 0 ELSE Len(out)

-----------------------------------------------------------------------------
Rows(out) == IF out = NoOutput THEN <<>> ELSE out

(* The left documents found on the right, in left order, cut to the       *)
(* budget; nothing when a side has no output.                             *)
AndRef(l, r, b) ==
    LET all == IF l = NoOutput \/ r = NoOutput THEN <<>>
               ELSE SelectSeq(l, LAMBDA d : d \in r)
    IN  IF b = -1 \/ b >= Len(all) THEN all ELSE SubSeq(all, 1, b)

(* Spec 5.1: intersection emits the documents of both sides and stops     *)
(* when the limit budget is consumed: a finished merge has emitted exactly *)
(* the reference rows, no fewer and not one past the budget, and the count *)
(* aggregate over it counts them.                                          *)
AndResult ==
    pc = "done" =>
        /\ Rows(output) = AndRef(left, right, lim)
        /\ aggregate_impl(output) = Len(AndRef(left, right, lim))

====
