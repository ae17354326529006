----------------------------- MODULE MCOrderKey -----------------------------
(***************************************************************************)
(* The pure key functions of OrderKey against what order they must keep,   *)
(* for every pair of keys up to MaxLen digits out of KeyDigit: the extreme *)
(* digits, their neighbours and 'V'.  The two keys grow digit by digit.    *)
(***************************************************************************)
EXTENDS OrderKey

CONSTANTS KeyDigit, MaxLen

VARIABLES a, b

Init == a = <<>> /\ b = <<>>

ExtendA == \E d \in KeyDigit : Len(a) < MaxLen /\ a' = Append(a, d) /\ UNCHANGED b
ExtendB == \E d \in KeyDigit : Len(b) < MaxLen /\ b' = Append(b, d) /\ UNCHANGED a

Next == ExtendA \/ ExtendB

Spec == Init /\ [][Next]_<<a, b>>

(***************************************************************************)
(* order_midpoint returns a key strictly between two keys whenever there   *)
(* is room, and only then.                                                 *)
(***************************************************************************)
MidpointBetween == MidpointInOrder(a, b)

(***************************************************************************)
(* order_key_successor is after its predecessor, and after every key made  *)
(* canonically for the same or a smaller number, suffix included: appends  *)
(* of any principal stay in order.                                         *)
(***************************************************************************)
SuccessorIsLater == \A d \in KeyDigit : SuccessorInOrder(a, b, <<d>>)
=============================================================================
