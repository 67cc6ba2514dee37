----------------------- MODULE MCMemoryStorageService -----------------------
(* One database with two collections on disk, one of them holding one     *)
(* document, and two clients racing DDL, DML and size on them.           *)
EXTENDS MemoryStorageService

CONSTANTS d1, c1, c2, x, a, b

MCSnapshot ==
    [databases |-> {d1},
     live      |-> {<<d1, c1>>, <<d1, c2>>},
     docs      |-> [fn \in {d1} \X {c1, c2} |-> IF fn = <<d1, c1>> THEN {x} ELSE {}]]

====
