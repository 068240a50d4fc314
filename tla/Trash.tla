------------------------------- MODULE Trash -------------------------------
(***************************************************************************)
(* protonfs rm, restore and trash empty against Drive's trash, which knows *)
(* an item by its basename and takes the first that has it                 *)
(* (protonfs.commands.rm, .restore, .trash, DriveClient.restore).          *)
(*                                                                         *)
(* A node of Drive is an id with a name, a parent and whether it is in the *)
(* trash.  Pushes of this machine and other devices go on between two      *)
(* calls of a command.                                                     *)
(***************************************************************************)
EXTENDS Naturals, Sequences, FiniteSets

CONSTANTS
  Absent,      \* no node, no path, no command
  Folders,     \* the names of the folders under remote_root
  Files,       \* the basenames of files
  MaxIds,      \* how many nodes there ever are
  MaxCommands, \* how many commands are run
  MaxOthers,   \* how often other devices and this machine's pushes act
  MaxMishaps   \* how many calls fail, or are killed

ASSUME TrashAssumption ==
  /\ Folders \cap Files = {}
  /\ {MaxIds, MaxCommands, MaxOthers, MaxMishaps} \subseteq Nat
  /\ MaxIds >= 3

Ids == 1 .. MaxIds
Names == Folders \cup Files
FilePaths == {<<f>> : f \in Files} \cup (Folders \X Files)
Paths == {<<d>> : d \in Folders} \cup FilePaths
Name(path) == path[Len(path)]

(* The root is the parent 0. *)
Nodes == [name : Names, parent : 0 .. MaxIds, trashed : BOOLEAN]

ASSUME AbsentAssumption ==
  /\ Absent \notin 0 .. MaxIds
  /\ Absent \notin Nodes
  /\ Absent \notin Paths

VARIABLES
  here,      \* the folders this machine has on disk
  nodes,     \* the nodes on Drive, in the trash or not
  first,     \* of each name, the trashed node Drive lists first and acts on
  hidden,    \* the trashed nodes its listing does not show yet
  index,     \* index.json: the paths it has
  listed,    \* the paths the remote manifest lists
  run,       \* the running command
  left,      \* what is left of the bounds
  stale,     \* history: the listing a command decides on is incomplete or old
  torn       \* history: an rm was killed, or a call of it failed half done

trashVars == <<here, nodes, first, hidden, index, listed, run, left, stale, torn>>

Resting == [op |-> Absent, phase |-> "idle", todo |-> {}, path |-> Absent, force |-> FALSE,
            recursive |-> FALSE, seen |-> {}, from |-> Absent, parent |-> Absent,
            own |-> Absent, removed |-> {}]

-----------------------------------------------------------------------------
(* Paths resolve from the root through the nodes that are not trashed.     *)
Children(parent, name) ==
  {i \in Ids : /\ nodes[i] # Absent /\ ~nodes[i].trashed
               /\ nodes[i].parent = parent /\ nodes[i].name = name}
Child(parent, name) ==
  IF Children(parent, name) = {} THEN Absent
  ELSE CHOOSE i \in Children(parent, name) : TRUE
FolderId(path) == IF Len(path) = 1 THEN 0 ELSE Child(0, path[1])
Node(path) == Child(FolderId(path), Name(path))

Live == {path \in Paths : Node(path) # Absent}
(* The id of a new node: the least above every node's. *)
Fresh(id) == /\ \A j \in Ids : nodes[j] # Absent => j < id
             /\ id - 1 \in Ids => nodes[id - 1] # Absent

(* Mutant: only the path itself. *)
Exactly(rel, path) == rel = path

(* A path and what is beneath it (rm's index.remove, the manifest's forget)*)
Beneath(rel, path) == path \in {rel, <<rel[1]>>}

(* The trashed nodes of a name, and those the listing of the trash shows.  *)
Trashed(name) ==
  {i \in Ids : nodes[i] # Absent /\ nodes[i].trashed /\ nodes[i].name = name}
Shown(name) == Trashed(name) \ hidden

TrashInit ==
  \E d \in Folders, f \in Files :
    /\ here \in SUBSET Folders
    /\ nodes = [i \in Ids |-> CASE i = 1 -> [name |-> d, parent |-> 0, trashed |-> FALSE]
                                [] i = 2 -> [name |-> f, parent |-> 1, trashed |-> FALSE]
                                [] i = 3 -> [name |-> f, parent |-> 0, trashed |-> FALSE]
                                [] OTHER -> Absent]
    /\ first = [name \in Names |-> Absent]
    /\ hidden = {}
    /\ index = {<<d, f>>, <<f>>}
    /\ listed = index
    /\ run = Resting
    /\ left = [commands |-> MaxCommands, others |-> MaxOthers, mishaps |-> MaxMishaps]
    /\ stale = FALSE
    /\ torn = FALSE

Spend(what, n) ==
  /\ left[what] >= n
  /\ left' = [left EXCEPT ![what] = @ - n]

-----------------------------------------------------------------------------
(* In which order Drive lists the trash is its own choice; the first item  *)
(* of a name stays the first until it goes or another one comes.           *)
Lists ==
  /\ first' \in [Names -> Ids \cup {Absent}]
  /\ \A name \in Names :
       IF Trashed(name)' = {} THEN first'[name] = Absent
       ELSE /\ first'[name] \in Trashed(name)'
            /\ first[name] \in Trashed(name)' =>
                 first'[name] \in {first[name]} \cup (Trashed(name)' \ Trashed(name))

Trashes(id) ==
  /\ nodes' = [nodes EXCEPT ![id].trashed = TRUE]
  /\ Lists

(* A node goes for good, and with a folder what is in it. *)
Removes(ids) ==
  LET gone == {i \in Ids : nodes[i] # Absent /\ (i \in ids \/ nodes[i].parent \in ids)}
  IN /\ nodes' = [i \in Ids |-> IF i \in gone THEN Absent ELSE nodes[i]]
     /\ hidden' = hidden \ gone
     /\ Lists

(* A file is uploaded again, with its folder when that is gone: by a push  *)
(* of this machine, which records it, or by another device.                *)
Uploads(path) ==
  \E id \in Ids :
    LET folder == FolderId(path)
        new == [name |-> Name(path), parent |-> IF folder = Absent THEN id ELSE folder,
                trashed |-> FALSE]
    IN /\ Node(path) = Absent /\ Fresh(id)
       /\ folder = Absent => id + 1 \in Ids
       /\ nodes' = IF folder = Absent
                   THEN [nodes EXCEPT ![id] = [name |-> path[1], parent |-> 0, trashed |-> FALSE],
                                      ![id + 1] = new]
                   ELSE [nodes EXCEPT ![id] = new]
       /\ UNCHANGED <<first, hidden>>

PushAgain ==
  /\ run.phase = "idle"
  /\ \E path \in FilePaths :
       /\ Uploads(path)
       /\ index' = index \cup {path}
       /\ listed' = listed \cup {path}
  /\ Spend("others", 1)
  /\ UNCHANGED <<here, run, stale, torn>>

(* Another device uploads a file no index has, trashes, restores or        *)
(* deletes it; what it does to a file of the store shows in RemoteManifest *)
(* and Refresh.                                                            *)
Foreign(i) == nodes[i] # Absent /\ nodes[i].parent = 0 /\ nodes[i].name \in Files
OtherDevice ==
  /\ Spend("others", 1)
  /\ \/ \E f \in Files : <<f>> \notin index \cup listed /\ Uploads(<<f>>)
     \/ \E i \in Ids : /\ Foreign(i) /\ ~nodes[i].trashed
                       /\ <<nodes[i].name>> \notin index \cup listed
                       /\ Trashes(i) /\ UNCHANGED hidden
     \/ \E i \in Ids : Foreign(i) /\ nodes[i].trashed /\ Removes({i})
  /\ stale' = TRUE
  /\ UNCHANGED <<here, index, listed, run, torn>>

(* The listing of the trash catches up. *)
Appears ==
  /\ \E i \in hidden : hidden' = hidden \ {i}
  /\ UNCHANGED <<here, nodes, first, index, listed, run, left, stale, torn>>

-----------------------------------------------------------------------------
(* rm of some paths, one after the other; -r is told apart where one of    *)
(* them is a folder.                                                       *)
RmBegins ==
  /\ run.phase = "idle" /\ Spend("commands", 1)
  /\ \E paths \in SUBSET Paths, force, recursive \in BOOLEAN :
       /\ paths # {} /\ Cardinality(paths) <= 2
       /\ recursive => paths \ FilePaths # {}
       /\ run' = [Resting EXCEPT !.op = "rm", !.phase = "rm", !.todo = paths, !.force = force,
                    !.recursive = recursive]
  /\ stale' = FALSE
  /\ UNCHANGED <<here, nodes, first, hidden, index, listed, torn>>

(* A directory needs -r, which is asked of this machine's disk.            *)
Refused(path) == ~run.recursive /\ path \in {<<d>> : d \in here}

(* drive.trash; an error, as of a path Drive does not have, ends the run,  *)
(* and what was removed before it is still dropped from the manifest.  The *)
(* call may fail after Drive has trashed the path.                         *)
RmTrashes ==
  /\ run.phase = "rm"
  /\ \E path \in run.todo, fails, lands \in BOOLEAN :
       LET done == lands /\ ~Refused(path) /\ Node(path) # Absent
       IN /\ Spend("mishaps", IF fails THEN 1 ELSE 0)
          /\ ~fails => lands
          /\ IF done
             THEN /\ Trashes(Node(path))
                  /\ \/ hidden' = hidden \cup {Node(path)}
                     \/ hidden' = hidden
             ELSE UNCHANGED <<nodes, first, hidden>>
          /\ run' = IF done /\ ~fails
                    THEN [run EXCEPT !.phase = IF run.force THEN "list" ELSE "drop",
                            !.todo = @ \ {path}, !.path = path, !.own = Node(path)]
                    ELSE [run EXCEPT !.phase = "manifest", !.todo = {}]
          /\ torn' = (torn \/ (done /\ fails))
  /\ UNCHANGED <<here, index, listed, stale>>

(* -f lists the trash ...  An error of this call or the next ends the run  *)
(* with the path trashed and still in the index and the manifest.          *)
Abandons ==
  /\ Spend("mishaps", 1)
  /\ run' = [run EXCEPT !.phase = "manifest", !.todo = {}, !.path = Absent, !.own = Absent,
               !.seen = {}]
  /\ torn' = TRUE
  /\ UNCHANGED <<here, nodes, first, hidden, index, listed, stale>>

RmLists ==
  /\ run.phase = "list"
  /\ \/ /\ run' = [run EXCEPT !.phase = "delete", !.seen = Shown(Name(run.path))]
        /\ stale' = (hidden # {})
        /\ UNCHANGED <<here, nodes, first, hidden, index, listed, left, torn>>
     \/ Abandons

(* Mutant: when there is one at all. *)
AtLeastOne(seen) == seen # {}

(* ... and deletes the item of this name when there is exactly one.        *)
Single(seen) == Cardinality(seen) = 1

RmDeletes ==
  /\ run.phase = "delete"
  /\ \/ /\ IF Single(run.seen) /\ first[Name(run.path)] # Absent
           THEN Removes({first[Name(run.path)]})
           ELSE UNCHANGED <<nodes, first, hidden>>
        /\ run' = [run EXCEPT !.phase = "drop", !.seen = {}]
        /\ UNCHANGED <<here, index, listed, left, stale, torn>>
     \/ Single(run.seen) /\ Abandons

RmDrops ==
  /\ run.phase = "drop"
  /\ index' = {rel \in index : ~Beneath(rel, run.path)}
  /\ run' = [run EXCEPT !.phase = IF run.todo = {} THEN "manifest" ELSE "rm",
               !.removed = @ \cup {run.path}, !.path = Absent, !.own = Absent]
  /\ UNCHANGED <<here, nodes, first, hidden, listed, left, stale, torn>>

(* One write of the manifest for the whole run; its failure is a warning.  *)
RmForgets ==
  /\ run.phase = "manifest"
  /\ \E fails \in BOOLEAN :
       /\ Spend("mishaps", IF fails THEN 1 ELSE 0)
       /\ torn' = (torn \/ fails)
       /\ listed' = IF fails THEN listed
                    ELSE {rel \in listed : \A path \in run.removed : ~Beneath(rel, path)}
  /\ run' = Resting
  /\ UNCHANGED <<here, nodes, first, hidden, index, stale>>

-----------------------------------------------------------------------------
(* restore: proton-drive rejects the original path, so the trash is listed,*)
(* the folder the path lies in looked up, and the first item of the name   *)
(* restored when it was trashed from there.                                *)
RestoreBegins ==
  /\ run.phase = "idle" /\ Spend("commands", 1)
  /\ \E path \in Paths : \E i \in Shown(Name(path)) :
       /\ first[Name(path)] \in Shown(Name(path)) => i = first[Name(path)]
       /\ run' = [Resting EXCEPT !.op = "restore", !.phase = "info", !.path = path,
                    !.from = nodes[i].parent]
  /\ stale' = (hidden # {})
  /\ UNCHANGED <<here, nodes, first, hidden, index, listed, torn>>

RestoreLooksUp ==
  /\ run.phase = "info"
  /\ LET folder == FolderId(run.path)
     IN run' = IF folder = Absent THEN Resting
               ELSE [run EXCEPT !.phase = "restore", !.parent = folder]
  /\ UNCHANGED <<here, nodes, first, hidden, index, listed, left, stale, torn>>

(* Mutant: whatever item of the name was trashed. *)
AnyCandidate(from, parent) == from # Absent

(* The item the listing gave first lay in the folder of the path.          *)
Candidate(from, parent) == from = parent

(* Drive restores the first item of the name it has, unless a file has     *)
(* taken its place; restore then compares the uid, when it is done.        *)
Restores ==
  /\ run.phase = "restore"
  /\ LET id == first[Name(run.path)]
     IN IF /\ Candidate(run.from, run.parent)
           /\ id # Absent
           /\ Child(nodes[id].parent, nodes[id].name) = Absent
        THEN /\ nodes' = [nodes EXCEPT ![id].trashed = FALSE]
             /\ hidden' = hidden \ {id}
             /\ Lists
        ELSE UNCHANGED <<nodes, first, hidden>>
  /\ run' = Resting
  /\ UNCHANGED <<here, index, listed, left, stale, torn>>

(* trash empty deletes every item of the account. *)
EmptyTrash ==
  /\ run.phase = "idle"
  /\ LET items == {i \in Ids : nodes[i] # Absent /\ nodes[i].trashed}
     IN items # {} /\ Removes(items)
  /\ Spend("commands", 1)
  /\ UNCHANGED <<here, index, listed, run, stale, torn>>

Killed ==
  /\ run.phase # "idle"
  /\ Spend("mishaps", 1)
  /\ run' = Resting
  /\ torn' = (torn \/ run.op = "rm")
  /\ UNCHANGED <<here, nodes, first, hidden, index, listed, stale>>

TrashNext ==
  \/ PushAgain \/ OtherDevice \/ Appears
  \/ RmBegins \/ RmTrashes \/ RmLists \/ RmDeletes \/ RmDrops \/ RmForgets
  \/ RestoreBegins \/ RestoreLooksUp \/ Restores \/ EmptyTrash \/ Killed

TrashSpec == TrashInit /\ [][TrashNext]_trashVars

-----------------------------------------------------------------------------
TrashTypeOK ==
  /\ here \subseteq Folders
  /\ nodes \in [Ids -> Nodes \cup {Absent}]
  /\ first \in [Names -> Ids \cup {Absent}]
  /\ hidden \subseteq Ids
  /\ index \subseteq FilePaths /\ listed \subseteq FilePaths
  /\ run \in [op : {Absent, "rm", "restore"},
              phase : {"idle", "rm", "list", "delete", "drop", "manifest", "info", "restore"},
              todo : SUBSET Paths, path : Paths \cup {Absent}, force : BOOLEAN,
              recursive : BOOLEAN, seen : SUBSET Ids, from : 0 .. MaxIds \cup {Absent},
              parent : 0 .. MaxIds \cup {Absent}, own : Ids \cup {Absent},
              removed : SUBSET Paths]
  /\ run.phase = "restore" => run.from # Absent /\ run.parent # Absent
  /\ left \in [commands : Nat, others : Nat, mishaps : Nat]
  /\ stale \in BOOLEAN /\ torn \in BOOLEAN

(* rm -f deletes for good the node it trashed and no other, however many   *)
(* items of its name the trash has, if the listing is complete, has that   *)
(* node, and still holds.                                                  *)
ForceDeletesItsOwn ==
  [][(/\ run.phase = "delete" /\ run'.phase = "drop" /\ ~stale
      /\ run.own \in run.seen) =>
       \A i \in Ids : nodes[i] # Absent /\ nodes'[i] = Absent =>
         i = run.own \/ nodes[i].parent = run.own]_trashVars

(* restore brings back a node trashed from the path it was asked for, if   *)
(* the listing it decided on is complete and still holds, or none at all.  *)
RestoresTheAskedPath ==
  [][(run.phase = "restore" /\ ~stale) =>
       \A i \in Ids, path \in {run.path} :
         (nodes[i] # Absent /\ nodes[i].trashed /\ nodes'[i] # Absent /\ ~nodes'[i].trashed)
           => Node(path)' = i]_trashVars

(* Between two commands every path of the index and of the manifest is on  *)
(* Drive: what a command took away, a directory with what is beneath it,   *)
(* it dropped from both, unless it was killed, the manifest not written,   *)
(* or a call failed once Drive had trashed the path.                       *)
RemovedIsForgotten ==
  (run.phase = "idle" /\ ~torn) => index \cup listed \subseteq Live

=============================================================================
