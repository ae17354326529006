-------------------------- MODULE MCBlockReplicas --------------------------
(***************************************************************************)
(* BlockReplicas for TLC: the configurations give the constants.  One      *)
(* replica authors blocks (the MCP session), both mutate and push.         *)
(***************************************************************************)
EXTENDS BlockReplicas
=============================================================================
