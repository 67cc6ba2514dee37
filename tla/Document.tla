------------------------------ MODULE Document ------------------------------
(***************************************************************************)
(* The structural part of document_t: the trie of objects, arrays and      *)
(* leaves addressed by JSON pointers, and the operations that resolve a    *)
(* pointer (find_node_const, find_container_key) and change the trie       *)
(* (set_, remove_, move, copy).                                            *)
(*                                                                         *)
(* A document is a function from paths to nodes, closed under prefixes:   *)
(* a path is a sequence of object keys (character sequences) and array   *)
(* indexes (integers), <<>> is the root object.  A JSON pointer is a      *)
(* sequence of segment tokens, each token its text (characters, from      *)
(* which unescape_key_ of JsonPointer decodes an object member's name)    *)
(* and atol of the text (the long it parses to, 0 if none), written as    *)
(* 2^32 * hi + lo with lo in 0 .. 2^32-1 so that TLC's 32-bit integers    *)
(* can hold it; hi < 0 for a negative number.                             *)
(***************************************************************************)
EXTENDS Integers, Sequences, SequencesExt, FiniteSets, JsonPointer

CONSTANTS
    Tokens,    \* segment tokens, built by Token(text, hi, lo)
    Err,       \* unescape_key_ failed
    Values,    \* scalar leaf values
    Null       \* no node (nullptr)

Codes == {"SUCCESS", "NO_SUCH_ELEMENT", "NO_SUCH_CONTAINER",
          "INVALID_JSON_POINTER", "INVALID_INDEX", "INVALID_TYPE"}

(* A JSON pointer: lead is whether its text starts with '/'.  The empty   *)
(* pointer "" is [lead |-> FALSE, segs |-> <<>>].                          *)
Ptr(lead, segs) == [lead |-> lead, segs |-> segs]

ObjNode      == [t |-> "obj"]
ArrNode(n)   == [t |-> "arr", len |-> n]
Leaf(v)      == [t |-> "val", v |-> v]

IsContainer(n) == n.t \in {"obj", "arr"}

(* The member name unescape_key_ makes of a token's text, or Err: what    *)
(* find_node_const and find_container_key look an object member up by.   *)
(* It depends on the text alone, so a token is built with it (Token).     *)
MemberKey(text) ==
    LET r == unescape_key_(text)
    IN  IF r.err = "SUCCESS" THEN r.key ELSE Err

Token(text, hi, lo) == [text |-> text, key |-> MemberKey(text), hi |-> hi, lo |-> lo]

(* uint32_t(atol(text)) of a non-negative long: its low 32 bits.           *)
Uint32(tok) == tok.lo

(* The index json_array::get(size_t) receives from atol: a negative long    *)
(* or one of 2^32 or more is past any array this model builds (-1 stands   *)
(* for "past the end").                                                    *)
GetIndex(tok) == IF tok.hi = 0 THEN tok.lo ELSE -1

-----------------------------------------------------------------------------
(* The subtree at p, re-rooted at <<>>; the document without it; a         *)
(* subtree put at p in place of whatever was there.                        *)
Under(d, p)   == {q \in DOMAIN d : IsPrefix(p, q)}
Sub(d, p)     == [r \in {SubSeq(q, Len(p) + 1, Len(q)) : q \in Under(d, p)} |-> d[p \o r]]
Prune(d, p)   == [q \in DOMAIN d \ Under(d, p) |-> d[q]]
Graft(d, p, t) ==
    LET base == Prune(d, p)
    IN  [q \in DOMAIN base \cup {p \o r : r \in DOMAIN t} |->
            IF q \in DOMAIN base THEN base[q] ELSE t[SubSeq(q, Len(p) + 1, Len(q))]]

(* The child of the node at path p addressed by one segment token:        *)
(* objects look the unescaped key up, arrays take atol of the text.        *)
ChildStep(d, st, tok) ==
    IF st.err # "SUCCESS" THEN st
    ELSE LET n == d[st.path]
         IN  IF n.t = "obj" /\ tok.key = Err
             THEN [path |-> Null, err |-> "INVALID_JSON_POINTER"]
             ELSE IF ~IsContainer(n)
             THEN [path |-> Null, err |-> "NO_SUCH_ELEMENT"]
             ELSE LET c == st.path \o <<IF n.t = "obj" THEN tok.key ELSE GetIndex(tok)>>
                  IN  IF c \in DOMAIN d THEN [path |-> c, err |-> "SUCCESS"]
                      ELSE [path |-> Null, err |-> "NO_SUCH_ELEMENT"]

(* find_node_const: "" is the root, a pointer not starting with '/' is     *)
(* invalid, otherwise each segment steps down.                             *)
find_node_const(d, ptr) ==
    IF ptr.segs = <<>> /\ ~ptr.lead THEN [path |-> <<>>, err |-> "SUCCESS"]
    ELSE IF ~ptr.lead THEN [path |-> Null, err |-> "INVALID_JSON_POINTER"]
    ELSE FoldLeft(LAMBDA st, tok : ChildStep(d, st, tok),
                  [path |-> <<>>, err |-> "SUCCESS"], ptr.segs)

is_exists(d, ptr) == find_node_const(d, ptr).path # Null

(* Faulty variant: the array index taken as uint32_t(atol) without the     *)
(* std::min clamp to the array's size.                                     *)
find_container_key_noclamp(d, ptr) ==
    IF ~ptr.lead /\ Len(ptr.segs) <= 1
    THEN [err |-> "INVALID_JSON_POINTER", slot |-> Null]
    ELSE LET cont == find_node_const(d, Ptr(ptr.lead, Front(ptr.segs)))
             tok  == Last(ptr.segs)
         IN  IF cont.err # "SUCCESS"
             THEN [err |-> IF cont.err = "NO_SUCH_ELEMENT" THEN "NO_SUCH_CONTAINER"
                           ELSE cont.err, slot |-> Null]
             ELSE CASE d[cont.path].t = "obj" /\ tok.key = Err ->
                          [err |-> "INVALID_JSON_POINTER", slot |-> Null]
                    [] d[cont.path].t = "obj" ->
                          [err |-> "SUCCESS", slot |-> cont.path \o <<tok.key>>]
                    [] d[cont.path].t = "arr" /\ tok.hi < 0 ->
                          [err |-> "INVALID_INDEX", slot |-> Null]
                    [] d[cont.path].t = "arr" ->
                          [err |-> "SUCCESS", slot |-> cont.path \o <<Uint32(tok)>>]
                    [] OTHER -> [err |-> "NO_SUCH_CONTAINER", slot |-> Null]

(* find_container_key: the text before the last '/' names the container,  *)
(* the segment after it the key (objects) or index (arrays, clamped to    *)
(* the array's size).  Result: [err, path of the addressed slot].          *)
find_container_key(d, ptr) ==
    IF ~ptr.lead /\ Len(ptr.segs) <= 1
    THEN [err |-> "INVALID_JSON_POINTER", slot |-> Null]
    ELSE LET cont == find_node_const(d, Ptr(ptr.lead, Front(ptr.segs)))
             tok  == Last(ptr.segs)
         IN  IF cont.err = "INVALID_JSON_POINTER" THEN [err |-> cont.err, slot |-> Null]
             ELSE IF cont.err = "NO_SUCH_ELEMENT"
             THEN [err |-> "NO_SUCH_CONTAINER", slot |-> Null]
             ELSE LET n == d[cont.path]
                  IN  CASE n.t = "obj" /\ tok.key = Err ->
                               [err |-> "INVALID_JSON_POINTER", slot |-> Null]
                        [] n.t = "obj" ->
                               [err |-> "SUCCESS", slot |-> cont.path \o <<tok.key>>]
                        [] n.t = "arr" /\ tok.hi < 0 ->
                               [err |-> "INVALID_INDEX", slot |-> Null]
                        [] n.t = "arr" ->
                               [err |-> "SUCCESS",
                                slot |-> cont.path \o <<IF Uint32(tok) < n.len
                                                        THEN Uint32(tok) ELSE n.len>>]
                        [] OTHER -> [err |-> "NO_SUCH_CONTAINER", slot |-> Null]

(* Faulty variant: json_array::set at index size() writing the slot         *)
(* without growing the array.                                              *)
Extend_nogrow(d, slot) == d

(* The array holding slot, grown by one when the slot is at its end        *)
(* (json_array::set at index size() appends).                              *)
Extend(d, slot) ==
    LET cp == Front(slot)
    IN  IF d[cp].t = "arr" /\ Last(slot) >= d[cp].len
        THEN [d EXCEPT ![cp] = ArrNode(Last(slot) + 1)]
        ELSE d

(* set_: put a subtree at the pointer's slot.  Result: [doc, err].         *)
set_(d, ptr, t) ==
    LET r == find_container_key(d, ptr)
    IN  IF r.err # "SUCCESS" THEN [doc |-> d, err |-> r.err]
        ELSE [doc |-> Graft(Extend(d, r.slot), r.slot, t), err |-> "SUCCESS"]

(* Faulty variant: json_array::remove erasing the element, so that the     *)
(* later elements shift down by one and the array shrinks.                 *)
remove_erase(d, ptr) ==
    LET r    == find_container_key(d, ptr)
        cp   == Front(r.slot)
        i    == Last(r.slot)
        keep == Prune(d, r.slot)
        Down(q) == IF Len(q) > Len(cp) /\ IsPrefix(cp, q) /\ q[Len(cp) + 1] > i
                   THEN [q EXCEPT ![Len(cp) + 1] = @ - 1] ELSE q
        erased == [q \in {Down(x) : x \in DOMAIN keep} |->
                      IF q = cp THEN ArrNode(d[cp].len - 1)
                      ELSE keep[CHOOSE x \in DOMAIN keep : Down(x) = q]]
    IN  IF r.err # "SUCCESS" THEN [doc |-> d, err |-> r.err, node |-> Null]
        ELSE IF r.slot \notin DOMAIN d
        THEN [doc |-> d, err |-> "NO_SUCH_ELEMENT", node |-> Null]
        ELSE [doc |-> IF d[cp].t = "arr" THEN erased ELSE keep,
              err |-> "SUCCESS", node |-> Sub(d, r.slot)]

(* remove_: take the node out of its slot (an array keeps its size: the    *)
(* slot becomes a hole).  Result: [doc, err, node].                        *)
remove_(d, ptr) ==
    LET r == find_container_key(d, ptr)
    IN  IF r.err # "SUCCESS" THEN [doc |-> d, err |-> r.err, node |-> Null]
        ELSE IF r.slot \notin DOMAIN d
        THEN [doc |-> d, err |-> "NO_SUCH_ELEMENT", node |-> Null]
        ELSE [doc |-> Prune(d, r.slot), err |-> "SUCCESS", node |-> Sub(d, r.slot)]

(* move: remove_ at from, then set_ of the removed node at to.             *)
move(d, from, to) ==
    LET r == remove_(d, from)
    IN  IF r.err # "SUCCESS" THEN [doc |-> d, err |-> r.err]
        ELSE set_(r.doc, to, r.node)

(* copy: a deep copy of the node at from, set_ at to.                      *)
copy(d, from, to) ==
    LET r == find_container_key(d, from)
    IN  IF r.err # "SUCCESS" THEN [doc |-> d, err |-> r.err]
        ELSE IF r.slot \notin DOMAIN d THEN [doc |-> d, err |-> "NO_SUCH_ELEMENT"]
        ELSE set_(d, to, Sub(d, r.slot))

-----------------------------------------------------------------------------
(***************************************************************************)
(* One document and the public operations called on it, one at a time.    *)
(***************************************************************************)
CONSTANTS
    Pointers,   \* the JSON pointers the operations are called with
    InitDocs,   \* documents to start from
    MaxOps      \* operations per behaviour

VARIABLES
    doc,        \* the document
    last,       \* the last operation and its result
    nops        \* operations so far

dvars == <<doc, last, nops>>

Keys == {tok.key : tok \in Tokens} \ {Err}

NoOp == [op |-> "none", from |-> Null, ptr |-> Null, v |-> Null, err |-> "SUCCESS"]

DInit ==
    /\ doc \in InitDocs
    /\ last = NoOp
    /\ nops = 0

Apply(op, from, ptr, v, r) ==
    /\ nops < MaxOps
    /\ doc' = r.doc
    /\ last' = [op |-> op, from |-> from, ptr |-> ptr, v |-> v, err |-> r.err]
    /\ nops' = nops + 1

(* set(json_pointer, value) of a scalar.                                   *)
DoSet(p, v) == Apply("set", Null, p, v, set_(doc, p, <<>> :> Leaf(v)))

(* set_array / set_dict: an empty container at the pointer.                *)
DoSetArray(p) == Apply("set_array", Null, p, Null, set_(doc, p, <<>> :> ArrNode(0)))
DoSetDict(p)  == Apply("set_dict", Null, p, Null, set_(doc, p, <<>> :> ObjNode))

(* type_by_key: INVALID for a missing node or an ill-formed pointer, MAP  *)
(* or ARRAY for a container, the leaf's own type otherwise.                *)
type_by_key(d, ptr) ==
    LET n == find_node_const(d, ptr)
    IN  CASE n.path = Null       -> "INVALID"
          [] d[n.path] = ObjNode -> "MAP"
          [] d[n.path].t = "arr" -> "ARRAY"
          [] OTHER               -> "LEAF"

(* set(json_pointer, other, other_json_pointer) with other the document    *)
(* itself: a leaf is read with get_<T> and written with set(ptr, value);   *)
(* INVALID, MAP and ARRAY fall to the default branch, INVALID_TYPE, and    *)
(* nothing is written.                                                     *)
set_from(d, ptr, optr) ==
    IF type_by_key(d, optr) = "LEAF"
    THEN set_(d, ptr, <<>> :> d[find_node_const(d, optr).path])
    ELSE [doc |-> d, err |-> "INVALID_TYPE"]

DoSetFrom(f, p) == Apply("set_from", f, p, Null, set_from(doc, p, f))
DoRemove(p)  == Apply("remove", Null, p, Null, remove_(doc, p))
DoMove(f, p) == Apply("move", f, p, Null, move(doc, f, p))
DoCopy(f, p) == Apply("copy", f, p, Null, copy(doc, f, p))

DNext ==
    \/ \E p \in Pointers, v \in Values : DoSet(p, v)
    \/ \E p \in Pointers : DoSetArray(p) \/ DoSetDict(p) \/ DoRemove(p)
    \/ \E f, p \in Pointers : DoMove(f, p) \/ DoCopy(f, p) \/ DoSetFrom(f, p)

DSpec == DInit /\ [][DNext]_dvars

-----------------------------------------------------------------------------
(* An array grows by at most one element per operation (set at index      *)
(* size() appends), from at most MaxOps elements at the start.             *)
DTypeOK ==
    /\ doc[<<>>] = ObjNode
    /\ \A q \in DOMAIN doc :
          \/ doc[q] = ObjNode
          \/ doc[q].t = "arr" /\ doc[q].len \in 0 .. 2 * MaxOps
          \/ doc[q].t = "val"
    /\ last.err \in Codes
    /\ nops \in 0 .. MaxOps

(* The trie stays a tree whatever sequence of set_, remove_, move and      *)
(* copy is applied: every node hangs from a container that exists, object *)
(* children under a key, array children at an index below the array's     *)
(* size.                                                                   *)
WellFormed ==
    \A q \in DOMAIN doc \ {<<>>} :
        LET parent == doc[Front(q)]
        IN  /\ Front(q) \in DOMAIN doc
            /\ parent.t = "obj" => Last(q) \in Keys
            /\ parent.t = "arr" => Last(q) \in 0 .. parent.len - 1
            /\ parent.t # "val"

(* Spec 8: d.set(p, v); d.remove(p); d.is_exists(p) == false -- after a     *)
(* successful remove(p) nothing exists at p.                               *)
RemoveRemoves ==
    [][last'.op = "remove" /\ last'.err = "SUCCESS" => ~is_exists(doc', last'.ptr)]_dvars

(* Spec 4.1 and 6 (JSON Pointer, RFC 6901, ~0/~1 unescaping): after a    *)
(* successful set, set_array, set_dict, move or copy to a pointer whose    *)
(* container is an object, the member named by the RFC 6901 decoding of    *)
(* the pointer's last token is there, and after a successful remove it is  *)
(* gone: "/~01" addresses the member "~1", not "/".  It is about the       *)
(* in-place replace and rescan of unescape_key_, as find_container_key    *)
(* calls it.                                                               *)
MemberNamedByRfc6901 ==
    [][last'.err = "SUCCESS" /\ last'.ptr # Null =>
          LET p == last'.ptr
              c == find_node_const(doc', Ptr(p.lead, Front(p.segs)))
              k == Rfc6901Decode(Last(p.segs).text)
          IN  (c.err = "SUCCESS" /\ doc'[c.path] = ObjNode /\ k.err = "SUCCESS")
                  => ((c.path \o <<k.key>> \in DOMAIN doc') <=> last'.op # "remove")]_dvars

====
