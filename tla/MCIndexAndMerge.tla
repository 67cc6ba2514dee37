-------------------------- MODULE MCIndexAndMerge --------------------------
(***************************************************************************)
(* Two parts of a collection checked in one run: its index engine          *)
(* (IndexEngine) and the and-merge operator with the count aggregate over  *)
(* it (OperatorAnd).  They share no state, so a behaviour is one of the    *)
(* two, chosen at the start, while the other part keeps its initial state: *)
(* the states are the union of the two state spaces, not their product.   *)
(*                                                                         *)
(* Index engine: two fields, one value, three key tuples, two of them      *)
(* sharing a field, so that emplace meets a repeated key tuple.  And-merge: *)
(* three ids, left outputs of up to three documents (repeats included),    *)
(* either side possibly missing, and the budgets unbounded, 0, 1 and 2.    *)
(***************************************************************************)
EXTENDS IndexEngine, OperatorAnd

CONSTANTS NullV, i1, i2, i3, NoOutputV

VARIABLE part   \* "index" or "merge": the part this behaviour runs

MCFields    == {"a", "b"}
MCVals      == {1}
MCKeyTuples == {<<"a">>, <<"b">>, <<"a", "b">>}
MCIds       == {i1, i2, i3}
MCLimits    == {-1, 0, 1, 2}

mvars == <<part, ivars, avars>>

(* The and-merge before its call, over empty inputs.                       *)
MergeIdle ==
    /\ left = <<>> /\ right = {} /\ lim = -1
    /\ pc = "start" /\ i = 1 /\ count = 0 /\ output = NoOutput

MInit ==
    \/ part = "index" /\ IInit /\ MergeIdle
    \/ part = "merge" /\ AInit /\ IInit

MNext ==
    \/ part = "index" /\ INext /\ UNCHANGED <<part, avars>>
    \/ part = "merge" /\ ANext /\ UNCHANGED <<part, ivars>>

MSpec == MInit /\ [][MNext]_mvars

====
