------------------------------- MODULE Turns -------------------------------
(***************************************************************************)
(* What the shared schedule lock of a repository promises its jobs: they   *)
(* take turns.  A job that is in has the repository's schedule to itself   *)
(* until it leaves (the docstring of protonfs.commands.schedule's          *)
(* _wrapper_text).                                                         *)
(***************************************************************************)
CONSTANT Jobs

VARIABLE inside   \* the jobs that are in

Init == inside = {}
Enter(j) == inside = {} /\ inside' = {j}
Leave(j) == inside = {j} /\ inside' = {}
Next == \E j \in Jobs : Enter(j) \/ Leave(j)

Spec == Init /\ [][Next]_inside
=============================================================================
