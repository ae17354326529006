----------------------------- MODULE MCSession -----------------------------
(* Session for TLC: the configurations give the constants.                  *)
EXTENDS Session
=============================================================================
