---------------------------- MODULE MCBlockOrder ----------------------------
(***************************************************************************)
(* BlockOrder for TLC: two principals whose suffixes are the smallest and  *)
(* the largest digit, and numbers that overflow after 2.                   *)
(***************************************************************************)
EXTENDS BlockOrder

MCSuffix == [p \in Principal |-> IF p = 0 THEN <<0, 0>> ELSE <<61, 61>>]
MCSnapTick == {NoTick, 1}
=============================================================================
