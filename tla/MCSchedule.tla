----------------------------- MODULE MCSchedule -----------------------------
(* Two names and three patterns: one that matches a name, one that matches *)
(* both, one whose ends agree with the first but which matches nothing.    *)
EXTENDS Schedule, TLC

CONSTANTS a, b, ga, gab

MCMatches == ga :> {a} @@ gab :> {a, b}
MCEnds == {ga, gab} \X {ga, gab}
MCScopes == {None, <<a>>, <<ga>>, <<gab, b>>, <<b, Anywhere>>}
=============================================================================
