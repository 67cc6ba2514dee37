--------------------------- MODULE DocumentUpdate ---------------------------
(***************************************************************************)
(* document_t::update: a MongoDB-style update document applied to a        *)
(* document.  An update document is a sequence of operator entries        *)
(* [op, fields], fields a sequence of [key, val] in iteration order, or    *)
(* NotObj when the operator's value is not an object.  A field key is the *)
(* text the code hands to set() as a JSON pointer (a Ptr of Document).    *)
(*                                                                         *)
(* Leaf values are typed: [ty |-> "int64", v |-> four 16-bit limbs, low   *)
(* first] keeps the full 64-bit width so that $inc can wrap, and           *)
(* [ty |-> "string", v |-> a sequence of characters].  The other scalar   *)
(* branches of update (bool, uint64, int128, double) have the same         *)
(* control and are not repeated here.                                      *)
(***************************************************************************)
EXTENDS Document

CONSTANTS
    Updates,    \* update documents the operation is called with
    NotObj      \* an operator whose value is not an object

VARIABLE modified   \* what the last update returned

uvars == <<doc, last, nops, modified>>

Limb == 65536

(* Two's-complement int64 addition, limb by limb with carry; the carry out *)
(* of the top limb is dropped.                                             *)
Add64(a, b) ==
    FoldLeft(LAMBDA acc, i :
                 LET s == a[i] + b[i] + acc.carry
                 IN  [out |-> Append(acc.out, s % Limb), carry |-> s \div Limb],
             [out |-> <<>>, carry |-> 0], <<1, 2, 3, 4>>).out

ZeroOf(ty) == IF ty = "int64" THEN <<0, 0, 0, 0>> ELSE <<>>

(* get_as<T>(ptr): the value of a leaf of type T at ptr, T{} otherwise.    *)
get_as(d, ptr, ty) ==
    LET r == find_node_const(d, ptr)
    IN  IF r.path # Null /\ d[r.path].t = "val" /\ d[r.path].v.ty = ty
        THEN d[r.path].v.v ELSE ZeroOf(ty)

(* new_value + get_as(key): integer addition, or string concatenation     *)
(* with the new text first.                                                *)
Plus(ty, new, old) == IF ty = "int64" THEN Add64(new, old) ELSE new \o old

SetLeaf(d, ptr, val) == set_(d, ptr, <<>> :> Leaf(val)).doc

(* The $set block: write only when the stored value differs.              *)
SetField(d, f) ==
    IF get_as(d, f.key, f.val.ty) # f.val.v THEN SetLeaf(d, f.key, f.val) ELSE d

(* The $inc block: always write new_value + get_as(key).                  *)
IncField(d, f) ==
    SetLeaf(d, f.key, [ty |-> f.val.ty, v |-> Plus(f.val.ty, f.val.v, get_as(d, f.key, f.val.ty))])

(* One field of one operator; whatever the operator, result becomes true. *)
ApplyField(op, st, f) ==
    LET next == CASE op = "$set" -> SetField(st.doc, f)
                  [] op = "$inc" -> IncField(st.doc, f)
                  [] OTHER -> st.doc
    IN  [doc |-> next, result |-> TRUE, stop |-> FALSE]

(* update: operator entries in order; an entry whose value is not an      *)
(* object ends the loop.                                                   *)
update(d, u) ==
    FoldLeft(LAMBDA st, e :
                 IF st.stop THEN st
                 ELSE IF e.fields = NotObj THEN [st EXCEPT !.stop = TRUE]
                 ELSE FoldLeft(LAMBDA s, f : ApplyField(e.op, s, f), st, e.fields),
             [doc |-> d, result |-> FALSE, stop |-> FALSE], u)

DoUpdate(u) ==
    /\ nops < MaxOps
    /\ LET r == update(doc, u)
       IN  /\ doc' = r.doc
           /\ modified' = r.result
    /\ last' = [op |-> "update", from |-> Null, ptr |-> Null, v |-> u, err |-> "SUCCESS"]
    /\ nops' = nops + 1

UInit == DInit /\ modified = FALSE

UNext ==
    \/ DNext /\ UNCHANGED modified
    \/ \E u \in Updates : DoUpdate(u)

USpec == UInit /\ [][UNext]_uvars

-----------------------------------------------------------------------------
UTypeOK ==
    /\ DTypeOK
    /\ \A q \in DOMAIN doc :
          doc[q].t = "val" =>
              \/ doc[q].v.ty = "int64" /\ doc[q].v.v \in [1 .. 4 -> 0 .. Limb - 1]
              \/ doc[q].v.ty = "string" /\ doc[q].v.v \in Seq(STRING)
    /\ modified \in BOOLEAN

====
