------------------------------ MODULE MCBridge ------------------------------
(* Small instances of the bridge: two players on one track. *)
EXTENDS Bridge

PlayerDef == [c \in Context |-> IF c = "c1" THEN "ann" ELSE "bob"]
KindDef == <<"abc", "clip">>
=============================================================================
