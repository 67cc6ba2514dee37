----------------------------- MODULE MCDocument -----------------------------
(* Small documents, the pointers that reach every branch of               *)
(* find_node_const and find_container_key, and the update documents of    *)
(* spec 8 scenarios 2 and 3.                                              *)
EXTENDS DocumentUpdate

CONSTANTS ErrKey, NullV, NotObjV

(* Segment tokens: the text, and what atol makes of it.                   *)
tA   == Token(<<"a">>, 0, 0)
tB   == Token(<<"b">>, 0, 0)
tX   == Token(<<"x">>, 0, 0)
tS   == Token(<<"s">>, 0, 0)
t0   == Token(<<"0">>, 0, 0)
t1   == Token(<<"1">>, 0, 1)
t5   == Token(<<"5">>, 0, 5)
tBig == Token(<<"4", "2", "9", "4", "9", "6", "7", "2", "9", "6">>, 1, 0)
tNeg == Token(<<"-", "1">>, -1, 0)
tBad == Token(<<"~", "2">>, 0, 0)
tE01 == Token(<<"~", "0", "1">>, 0, 0)      \* the member "~1"

MCTokens == {tA, tB, tX, tS, t0, t1, t5, tBig, tNeg, tBad, tE01}

(* One or two pointers per branch of find_node_const and                  *)
(* find_container_key: "", "a", "/a", "/b", "/a/b", "/b/0", "/b/1",       *)
(* "/b/5", "/b/-1", "/b/4294967296", "/~2", "/~01", "/a/b/a" (a leaf as  *)
(* container), "/b/a/b" (no such container).                             *)
MCPointers ==
    {Ptr(FALSE, <<>>), Ptr(FALSE, <<tA>>)}
    \cup {Ptr(TRUE, s) : s \in {<<tA>>, <<tB>>, <<tBad>>, <<tE01>>, <<tA, tB>>, <<tA, tB, tA>>,
                                <<tB, tA, tB>>}}
    \cup {Ptr(TRUE, <<tB, x>>) : x \in {t0, t1, t5, tNeg, tBig}}

PX  == Ptr(TRUE, <<tX>>)     \* "/x"
PS  == Ptr(TRUE, <<tS>>)     \* "/s"
PXn == Ptr(FALSE, <<tX>>)    \* "x", a field name

I64(n)   == [ty |-> "int64", v |-> <<n, 0, 0, 0>>]
I64Max   == [ty |-> "int64", v |-> <<65535, 65535, 65535, 32767>>]
Str(s)   == [ty |-> "string", v |-> s]

MCValues == {I64(2), Str(<<"c">>)}

(* {"a": {"b": 1}, "b": [1]}, {"x": 5, "s": "ab"} and {"x": INT64_MAX}    *)
MCInitDocs ==
    LET a == <<"a">>  b == <<"b">>  x == <<"x">>  s == <<"s">>
    IN  { (<<>> :> ObjNode) @@ (<<a>> :> ObjNode) @@ (<<a, b>> :> Leaf(I64(1)))
            @@ (<<b>> :> ArrNode(1)) @@ (<<b, 0>> :> Leaf(I64(1))),
          (<<>> :> ObjNode) @@ (<<x>> :> Leaf(I64(5))) @@ (<<s>> :> Leaf(Str(<<"a", "b">>))),
          (<<>> :> ObjNode) @@ (<<x>> :> Leaf(I64Max)) }

Entry(op, fields) == [op |-> op, fields |-> fields]
Field(k, v)       == [key |-> k, val |-> v]

MCUpdates ==
    { <<Entry("$set", <<Field(PX, I64(5))>>)>>,                       \* unchanged $set
      <<Entry("$set", <<Field(PX, I64(2))>>)>>,                       \* changing $set
      <<Entry("$set", <<Field(PXn, I64(2))>>)>>,                      \* {"$set":{"x":2}}
      <<Entry("$inc", <<Field(PX, I64(3)), Field(PS, Str(<<"c", "d">>))>>)>>,
      <<Entry("$inc", <<Field(PX, I64(1))>>)>>,
      <<Entry("$set", NotObjV), Entry("$inc", <<Field(PX, I64(1))>>)>> }

====
