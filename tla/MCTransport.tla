---------------------------- MODULE MCTransport -----------------------------
(***************************************************************************)
(* Transport on a small instance; the constants are given in the cfg.      *)
(***************************************************************************)
EXTENDS Transport

LaneOfDef == [c \in Founder |-> "bass"]
=============================================================================
