---------------------------- MODULE MCConnection ----------------------------
(* Small instances of the connection actor. *)
EXTENDS Connection

AskDef == << [op |-> "vfs", context |-> NoContext],
             [op |-> "join", context |-> "b"],
             [op |-> "other", context |-> NoContext],
             [op |-> "vfs", context |-> NoContext] >>
=============================================================================
