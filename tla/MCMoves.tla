------------------------------ MODULE MCMoves ------------------------------
(* Two folders of two names: four paths, a file and an empty file.         *)
EXTENDS Moves, TLC

CONSTANTS c1, c0, top, sub, a, b

MCSize == c1 :> 1 @@ c0 :> 0
MCSymmetry == Permutations(Names)
=============================================================================
