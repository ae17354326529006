----------------------------- MODULE MCTimeline -----------------------------
(***************************************************************************)
(* Timeline on a small instance; the constants are given in the cfg.       *)
(***************************************************************************)
EXTENDS Timeline

RecipeDef ==
    {<<"ambient", "UseLastGood">>, <<"history", "Literal">>}
=============================================================================
