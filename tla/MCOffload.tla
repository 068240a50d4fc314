----------------------------- MODULE MCOffload -----------------------------
(* Two contents of one size, which only a digest tells apart, and two files *)
(* in folders of their own (a folder is named by its file).                 *)
EXTENDS Offload, TLC

MCSize == [c \in Contents |-> 1]
MCFolderOf == [f \in Files |-> f]
MCSymmetry == Permutations(Files) \cup Permutations(Contents)
=============================================================================
