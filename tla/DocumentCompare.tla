-------------------------- MODULE DocumentCompare --------------------------
(***************************************************************************)
(* document_t::compare(json_pointer, other, other_json_pointer): the order *)
(* the engine puts on two document positions.  An operand is a document,  *)
(* whether it is valid (is_valid(): it has a source), and a pointer.       *)
(*                                                                         *)
(* The state is three operands chosen at start and never changed: the     *)
(* order's laws are checked over every triple of them.                    *)
(***************************************************************************)
EXTENDS DocumentUpdate

CONSTANTS
    CmpDocs,      \* documents whose positions are compared (int64 leaves)
    CmpPointers   \* pointers into them

VARIABLES cx, cy, cz

cvars == <<doc, last, nops, modified, cx, cy, cz>>

Operands ==
    [valid : {TRUE}, doc : CmpDocs, ptr : CmpPointers]
    \cup {[valid |-> FALSE, doc |-> CHOOSE d \in CmpDocs : TRUE,
           ptr |-> CHOOSE p \in CmpPointers : TRUE]}

(* compare_ of two scalar elements (not in this repository): by value,    *)
(* signed, for int64; the top limb carries the sign.  Other scalar types  *)
(* are not compared here.                                                 *)
Signed(v, i) == IF i = 4 THEN (v[i] + 32768) % Limb ELSE v[i]

compare_(u, w) ==
    LET diff == {i \in 1 .. 4 : u.v[i] # w.v[i]}
    IN  IF diff = {} THEN "equals"
        ELSE LET top == CHOOSE i \in diff : \A j \in diff : j <= i
             IN  IF Signed(u.v, top) < Signed(w.v, top) THEN "less" ELSE "more"

(* compare: an invalid document sorts after a valid one, a missing node   *)
(* after a present one; two scalar nodes are compared by compare_, and any *)
(* pair with an object or an array in it is "equals".                     *)
compare(a, b) ==
    CASE a.valid /\ ~b.valid -> "less"
      [] ~a.valid /\ b.valid -> "more"
      [] ~a.valid /\ ~b.valid -> "equals"
      [] OTHER ->
           LET n == find_node_const(a.doc, a.ptr).path
               m == find_node_const(b.doc, b.ptr).path
           IN  CASE n # Null /\ m = Null -> "less"
                 [] n = Null /\ m # Null -> "more"
                 [] n = Null -> "equals"
                 [] a.doc[n].t = "val" /\ b.doc[m].t = "val" ->
                        compare_(a.doc[n].v, b.doc[m].v)
                 [] OTHER -> "equals"

CInit == UInit /\ cx \in Operands /\ cy \in Operands /\ cz \in Operands

CNext == UNCHANGED cvars

CSpec == CInit /\ [][CNext]_cvars

Flip(r) == CASE r = "less" -> "more" [] r = "more" -> "less" [] r = "equals" -> "equals"

NotAbove(a, b) == compare(a, b) # "more"

(* Spec 4.1 and 8: "compare is a total order: reflexive, antisymmetric,   *)
(* transitive".  Here: every position equals itself, swapping the operands *)
(* flips the answer, and not-above is transitive, over every triple of     *)
(* positions, containers included.                                        *)
CompareTotalOrder ==
    /\ compare(cx, cx) = "equals"
    /\ compare(cy, cx) = Flip(compare(cx, cy))
    /\ NotAbove(cx, cy) /\ NotAbove(cy, cz) => NotAbove(cx, cz)

====
