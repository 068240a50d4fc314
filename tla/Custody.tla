------------------------------ MODULE Custody ------------------------------
(***************************************************************************)
(* What protonfs promises about the copies of a machine's files, whatever  *)
(* of it is interrupted: the user and other devices do as they like, but a *)
(* local copy is taken away only once the index on disk says so and only   *)
(* in the content last synced, and a deletion is passed on to Drive only   *)
(* for files the user deleted (the docstrings of protonfs.commands.offload *)
(* and of its _delete_cleared).                                            *)
(***************************************************************************)
CONSTANTS None, Contents, Files

VARIABLES
  here,    \* the content of each file on this machine, None where it is not
  there,   \* and on Drive
  label,   \* what the index on disk says of each file
  known,   \* the content last pushed or pulled
  late,    \* files the user wrote while they were about to be taken away
  taken    \* the files protonfs took away and did not bring back

vars == <<here, there, label, known, late, taken>>

Nowhere == [f \in Files |-> None]

Init ==
  /\ here \in [Files -> Contents \cup {None}]
  /\ there = Nowhere
  /\ label = [f \in Files |-> "unknown"]
  /\ known = Nowhere
  /\ late = {} /\ taken = {}

-----------------------------------------------------------------------------
(* The user, and other devices.                                            *)
Writes(f, c) ==
  /\ here' = [here EXCEPT ![f] = c]
  /\ late' \in {late, late \cup {f}}
  /\ taken' = taken \ {f}
  /\ UNCHANGED <<there, label, known>>

Deletes(f) ==
  /\ here' = [here EXCEPT ![f] = None]
  /\ UNCHANGED <<there, label, known, late, taken>>

ChangesThere(f, c) ==
  /\ there' = [there EXCEPT ![f] = c]
  /\ UNCHANGED <<here, label, known, late, taken>>

(* push, pull, and push --deletions trash, which leaves something.         *)
Uploads(f) ==
  /\ here[f] # None
  /\ there' = [there EXCEPT ![f] = here[f]]
  /\ known' = [known EXCEPT ![f] = here[f]]
  /\ label' = [label EXCEPT ![f] = "present"]
  /\ UNCHANGED <<here, late, taken>>

Downloads(f) ==
  /\ label[f] # "unknown" /\ here[f] = None /\ there[f] # None
  /\ here' = [here EXCEPT ![f] = there[f]]
  /\ known' = [known EXCEPT ![f] = there[f]]
  /\ label' = [label EXCEPT ![f] = "present"]
  /\ taken' = taken \ {f}
  /\ UNCHANGED <<there, late>>

PassesOn(files) ==
  /\ \A f \in files : label[f] = "present" /\ here[f] = None
  /\ \E f \in Files \ files : label[f] = "present"
  /\ there' = [f \in Files |-> IF f \in files THEN None ELSE there[f]]
  /\ label' = [f \in Files |-> IF f \in files THEN "unknown" ELSE label[f]]
  /\ UNCHANGED <<here, known, late, taken>>

(* offload: first the index says that the copy is given up, then it is     *)
(* taken away, if it is still what was synced.                             *)
GivesUp(files) ==
  /\ \A f \in files : label[f] = "present"
  /\ label' = [f \in Files |-> IF f \in files THEN "metadata-only" ELSE label[f]]
  /\ late' \subseteq late
  /\ UNCHANGED <<here, there, known, taken>>

TakesAway(f) ==
  /\ label[f] = "metadata-only"
  /\ here[f] = known[f] \/ f \in late
  /\ here' = [here EXCEPT ![f] = None]
  /\ late' \subseteq late
  /\ taken' = taken \cup {f}
  /\ UNCHANGED <<there, label, known>>

Next ==
  \/ \E f \in Files :
       \/ \E c \in Contents : Writes(f, c) \/ ChangesThere(f, c)
       \/ Deletes(f) \/ ChangesThere(f, None)
       \/ Uploads(f) \/ Downloads(f) \/ TakesAway(f)
  \/ \E files \in SUBSET Files : PassesOn(files) \/ GivesUp(files)

Spec == Init /\ [][Next]_vars
=============================================================================
