------------------------------ MODULE MCGitMove ------------------------------
(* Two contents of one size; files and contents that can be exchanged.     *)
EXTENDS GitMove, TLC

CONSTANT b    \* the clone that never imports or exports

MCSize == [c \in Contents |-> 1]
MCSymmetry == Permutations(Contents) \cup Permutations(Files)

(* A file that no clone, no commit and no device has ever had. *)
Unused(f) ==
  /\ drive[f] = None
  /\ \A t \in {origin} \cup UNION {{clone[c].work, clone[c].staged, clone[c].head} : c \in Clones} :
       t.tree[f] = None
  /\ \A c \in Clones : clone[c].index[f] = None

OneFile == \E f \in Files : Unused(f)

Pristine ==
  /\ clone[b].index = Nothing
  /\ clone[b].work = clone[b].head
  /\ clone[b].head.imported = {}
  /\ clone[b].head.exported = {}

(* Two clones of a repository with one file, or two files in one clone,    *)
(* with two edits or an edit and a fault.                                  *)
Bounded == OneFile \/ (Pristine /\ edits + faults <= 2)
OneOrOther == clone'[b] # clone[b] => OneFile'
=============================================================================
