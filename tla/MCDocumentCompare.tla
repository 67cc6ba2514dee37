------------------------- MODULE MCDocumentCompare -------------------------
(* The positions of {"a": {"b": 1}, "b": [1]} and {"x": INT64_MAX}: leaves, *)
(* an object, an array, the root and missing nodes.                        *)
EXTENDS MCDocument, DocumentCompare

MCCmpDocs ==
    LET a == <<"a">>  b == <<"b">>  x == <<"x">>
    IN  { (<<>> :> ObjNode) @@ (<<a>> :> ObjNode) @@ (<<a, b>> :> Leaf(I64(1)))
            @@ (<<b>> :> ArrNode(1)) @@ (<<b, 0>> :> Leaf(I64(1))),
          (<<>> :> ObjNode) @@ (<<x>> :> Leaf(I64Max)) }

MCCmpPointers == MCPointers \cup {PX}

====
