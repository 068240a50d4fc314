------------------------------- MODULE Refresh -------------------------------
(***************************************************************************)
(* protonfs refresh: one host walks the remote tree breadth first, seeds a *)
(* metadata-only index entry for every remote file it does not know, and   *)
(* keeps the walk's frontier on disk so that an interrupted walk resumes.  *)
(*                                                                         *)
(* Two files are written, each atomically but one after the other: the     *)
(* index (index.json) and the frontier (refresh-state.json).  Throttling,  *)
(* Ctrl-C, a failed write or a kill may fall between any two steps, and    *)
(* other devices upload and trash files and folders while the walk runs.   *)
(* A listing may leave out what is there: names Proton cannot decrypt are  *)
(* skipped, and an answer that is no list counts as an empty folder.       *)
(*                                                                         *)
(* A folder queue is a set: breadth-first order decides only which folder  *)
(* is listed next, and ListFolder lets it be any of the queue.             *)
(***************************************************************************)
EXTENDS Naturals

CONSTANTS
  Dirs,           \* the remote folders
  Top,            \* the repo's remote_root
  Roots,          \* the folders a refresh is asked for (remote_root or a subpath)
  Children,       \* the folders directly in a folder
  Below,          \* a folder and every folder under it
  Files,          \* the remote files that may ever exist
  FolderOf,       \* the folder a file is in
  Local,          \* files on the local disk (the scan taken before the walk)
  Ignored,        \* files the ignore rules or the control directory exclude
  MaxGeneration,  \* bound: manifest writes by other devices
  MaxFaults       \* bound: kills and failed writes

ASSUME TreeAssumption ==
  /\ Top \in Dirs
  /\ Roots \subseteq Dirs
  /\ Children \in [Dirs -> SUBSET Dirs]
  /\ Below \in [Dirs -> SUBSET Dirs]
  /\ \A d \in Dirs : Below[d] = {d} \cup UNION {Below[c] : c \in Children[d]}
  /\ \A d \in Dirs : \A e \in Below[d] : Below[e] \subseteq Below[d]
  /\ Below[Top] = Dirs
  /\ FolderOf \in [Files -> Dirs]

ASSUME BoundAssumption ==
  /\ MaxGeneration \in Nat
  /\ MaxFaults \in Nat

VARIABLES
  drive,          \* the files on Drive
  folders,        \* the remote folders that exist
  generation,     \* the remote manifest's generation, 0 before its first write
  listed,         \* history: the files each generation of the manifest lists that
                  \* have been on Drive, and in every listing of their folder, since
  index,          \* index.json: the tracked files and the manifest state
  frontier,       \* refresh-state.json: the frontier it holds, none when it is absent
  mem,            \* the running process's index
  phase,          \* where the running process is
  pass,           \* the arguments of the pass: root, persist, prune; and resumed
  queue,          \* the walk's queue
  pending,        \* pending_frontier, a list of at most one queue
  seen,           \* the files the walk returned
  manifestSeen,   \* manifest_seen, 0 for None
  faults,         \* bound: faults so far
  owed,           \* history: the files this walk, with the walks it resumes, had to seed
  owedSaved,      \* history: the same, of the walk whose frontier is on disk
  missed          \* history: the files this pass's listings left out, or that came
                  \* onto Drive while it ran

other == <<drive, folders, generation, listed>>
disk == <<index, frontier>>
walk == <<pass, queue, pending, seen, manifestSeen>>
history == <<owed, owedSaved, missed>>
vars == <<other, disk, mem, phase, walk, faults, history>>

FilesIn(d) == {f \in drive : FolderOf[f] = d}
Covered(dirs) == UNION {Below[d] : d \in dirs}

(* What _seed_directory leaves alone: control paths and ignored files, and *)
(* files the local scan found.                                             *)
Unseeded == Local \cup Ignored

Indexes == [entries : SUBSET Files, generation : 0 .. MaxGeneration]
Frontiers == [root : Dirs, dirs : SUBSET Dirs]
AtMostOne(S) == {T \in SUBSET S : \A x, y \in T : x = y}
Phases == {"idle", "walking", "listed", "indexSaved", "wedged", "wedgedSaved",
           "walked", "returned"}

TypeOK ==
  /\ drive \subseteq Files
  /\ folders \subseteq Dirs
  /\ generation \in 0 .. MaxGeneration
  /\ listed \in [0 .. MaxGeneration -> SUBSET Files]
  /\ index \in Indexes
  /\ frontier \in AtMostOne(Frontiers)
  /\ mem \in Indexes
  /\ phase \in Phases
  /\ pass \in [root : Dirs, persist : BOOLEAN, prune : BOOLEAN, resumed : BOOLEAN]
  /\ queue \subseteq Dirs
  /\ pending \in AtMostOne(SUBSET Dirs)
  /\ seen \subseteq Files
  /\ manifestSeen \in 0 .. MaxGeneration
  /\ faults \in 0 .. MaxFaults
  /\ owed \subseteq Files
  /\ owedSaved \subseteq Files
  /\ missed \subseteq Files

Init ==
  /\ drive \in SUBSET Files
  /\ folders = Dirs
  /\ generation = 0
  /\ listed = [g \in 0 .. MaxGeneration |-> {}]
  /\ \E known \in SUBSET drive : index = [entries |-> known, generation |-> 0]
  /\ frontier = {}
  /\ mem = [entries |-> {}, generation |-> 0]
  /\ phase = "idle"
  /\ pass = [root |-> Top, persist |-> TRUE, prune |-> FALSE, resumed |-> FALSE]
  /\ queue = {}
  /\ pending = {}
  /\ seen = {}
  /\ manifestSeen = 0
  /\ faults = 0
  /\ owed = {}
  /\ owedSaved = {}
  /\ missed = {}

-----------------------------------------------------------------------------
(* Other devices.  What was trashed may come back, and be trashed again.   *)

(* An upload, or a file that is restored. *)
OtherUploads(f) ==
  /\ f \notin drive
  /\ FolderOf[f] \in folders
  /\ drive' = drive \cup {f}
  /\ missed' = IF phase = "idle" THEN missed ELSE missed \cup {f}
  /\ UNCHANGED <<folders, generation, listed, disk, mem, phase, walk, faults, owed, owedSaved>>

(* These are off Drive, or in no listing, for a while. *)
Drops(files) == listed' = [g \in 0 .. MaxGeneration |-> listed[g] \ files]

OtherTrashes(f) ==
  /\ f \in drive
  /\ drive' = drive \ {f}
  /\ Drops({f})
  /\ UNCHANGED <<folders, generation, disk, mem, phase, walk, faults, history>>

OtherTrashesFolder(d) ==
  /\ d \in folders
  /\ folders' = folders \ Below[d]
  /\ drive' = {f \in drive : FolderOf[f] \notin Below[d]}
  /\ Drops(drive \ drive')
  /\ UNCHANGED <<generation, disk, mem, phase, walk, faults, history>>

OtherMakesFolder(d) ==
  /\ d \notin folders
  /\ \A e \in Dirs \ folders : d \in Below[e] => e = d
  /\ folders' = folders \cup {d}
  /\ UNCHANGED <<drive, generation, listed, disk, mem, phase, walk, faults, history>>

(* The manifest records uploads that were verified on Drive, after them. *)
OtherWritesManifest ==
  /\ generation < MaxGeneration
  /\ generation' = generation + 1
  /\ listed' = [listed EXCEPT ![generation + 1] = drive]
  /\ UNCHANGED <<drive, folders, disk, mem, phase, walk, faults, history>>

-----------------------------------------------------------------------------
(* One pass of refresh().                                                  *)

(* The process is over and its memory gone. *)
NoIndex == [entries |-> {}, generation |-> 0]
Ends ==
  /\ phase' = "idle"
  /\ mem' = NoIndex
  /\ pass' = [pass EXCEPT !.prune = FALSE, !.resumed = FALSE]
  /\ queue' = {}
  /\ pending' = {}
  /\ seen' = {}
  /\ manifestSeen' = 0
  /\ owed' = {}
  /\ missed' = {}

(* The frontier the pass resumes from: none saved for another root. *)
SavedFrontier(root, persist) == {fr \in frontier : persist /\ fr.root = root}

(* A run starts: a new process reads the index, the next PATH of the same  *)
(* run keeps the index it has in memory.                                   *)
Begin(root, persist, prune) ==
  /\ \/ phase = "idle" /\ mem' = index
     \/ phase = "returned" /\ mem' = mem /\ persist = pass.persist
  /\ LET saved == SavedFrontier(root, persist) IN
       /\ pass' = [root |-> root, persist |-> persist, prune |-> prune,
                   resumed |-> saved # {}]
       /\ owed' = IF saved # {} THEN owedSaved ELSE {}
       /\ queue' = IF saved # {} THEN UNION {fr.dirs : fr \in saved} ELSE {root}
  /\ manifestSeen' \in IF persist /\ root = Top THEN {0, generation} ELSE {0}
  /\ pending' = {}
  /\ seen' = {}
  /\ missed' = {}
  /\ phase' = "walking"
  /\ UNCHANGED <<other, disk, faults, owedSaved>>

(* The files a listing leaves out, and those in folders it leaves out. *)
LeftOut(d, shown, subs) ==
  {f \in drive : \/ FolderOf[f] = d /\ f \notin shown
                 \/ FolderOf[f] \in Covered((Children[d] \cap folders) \ subs)}

(* A listing succeeds: the folders it shows join the queue,                *)
(* _seed_directory seeds its files and _save_progress notes the frontier.  *)
ListFolder(d) ==
  /\ phase = "walking"
  /\ d \in queue
  /\ d \in folders
  /\ \E shown \in SUBSET FilesIn(d), subs \in SUBSET (Children[d] \cap folders) :
       /\ queue' = (queue \ {d}) \cup subs
       /\ seen' = seen \cup shown
       /\ mem' = [mem EXCEPT !.entries = @ \cup (shown \ Unseeded)]
       /\ owed' = owed \cup (shown \ Unseeded)
       /\ missed' = missed \cup LeftOut(d, shown, subs)
       /\ Drops(LeftOut(d, shown, subs))
  /\ pending' = {queue'}
  /\ phase' = "listed"
  /\ UNCHANGED <<drive, folders, generation, disk, pass, manifestSeen, faults, owedSaved>>

(* No checkpoint is due, or the pass persists nothing. *)
NotDue ==
  /\ phase = "listed"
  /\ phase' = "walking"
  /\ UNCHANGED <<other, disk, mem, walk, faults, history>>

(* Mutant: the frontier is saved without the index. *)
CheckpointSkipsIndex ==
  /\ phase = "listed"
  /\ pass.persist
  /\ phase' = "indexSaved"
  /\ UNCHANGED <<other, disk, mem, walk, faults, history>>

CheckpointIndex ==
  /\ phase = "listed"
  /\ pass.persist
  /\ index' = mem
  /\ phase' = "indexSaved"
  /\ UNCHANGED <<other, frontier, mem, walk, faults, history>>

CheckpointFrontier ==
  /\ phase = "indexSaved"
  /\ frontier' = {[root |-> pass.root, dirs |-> q] : q \in pending}
  /\ owedSaved' = owed
  /\ pending' = {}
  /\ phase' = "walking"
  /\ UNCHANGED <<other, index, mem, pass, queue, seen, manifestSeen, faults, owed, missed>>

(* Listing a folder that is gone is an error walk() raises. *)
ListMissing(d) ==
  /\ phase = "walking"
  /\ d \in queue \ folders
  /\ phase' = "wedged"
  /\ UNCHANGED <<other, disk, mem, walk, faults, history>>

(* The listing is throttled past its retries, or the user interrupts. *)
WalkRaises ==
  /\ \/ phase = "walking" /\ queue # {}
     \/ phase = "listed"
  /\ phase' = "wedged"
  /\ UNCHANGED <<other, disk, mem, walk, faults, history>>

CheckpointRaises ==
  /\ phase = "indexSaved" \/ (phase = "listed" /\ pass.persist)
  /\ faults < MaxFaults
  /\ faults' = faults + 1
  /\ phase' = "wedged"
  /\ UNCHANGED <<other, disk, mem, walk, history>>

(* Mutant: the handler saves the index and forgets the frontier. *)
WedgedForgetsFrontier ==
  /\ phase = "wedged"
  /\ pass.persist
  /\ index' = mem
  /\ Ends
  /\ UNCHANGED <<other, frontier, faults, owedSaved>>

(* The handler of any exception out of walk(). *)
WedgedSavesIndex ==
  /\ phase = "wedged"
  /\ pass.persist
  /\ index' = mem
  /\ \/ pending = {} /\ Ends
     \/ pending # {} /\ phase' = "wedgedSaved" /\ UNCHANGED <<mem, walk, owed, missed>>
  /\ UNCHANGED <<other, frontier, faults, owedSaved>>

WedgedSavesFrontier ==
  /\ phase = "wedgedSaved"
  /\ frontier' = {[root |-> pass.root, dirs |-> q] : q \in pending}
  /\ owedSaved' = owed
  /\ Ends
  /\ UNCHANGED <<other, index, faults>>

WedgedPersistsNothing ==
  /\ phase = "wedged"
  /\ ~pass.persist
  /\ Ends
  /\ UNCHANGED <<other, disk, faults, owedSaved>>

WedgedSaveRaises ==
  /\ phase = "wedgedSaved" \/ (phase = "wedged" /\ pass.persist)
  /\ faults < MaxFaults
  /\ faults' = faults + 1
  /\ Ends
  /\ UNCHANGED <<other, disk, owedSaved>>

(* Mutant: a resumed pass goes on to detection. *)
ResumedWalkDetects ==
  /\ phase = "walking"
  /\ queue = {}
  /\ frontier' = IF pass.persist THEN {} ELSE frontier
  /\ phase' = "walked"
  /\ UNCHANGED <<other, index, mem, walk, faults, history>>

(* walk() returned: the frontier is dropped, and a resumed pass is over. *)
WalkReturns ==
  /\ phase = "walking"
  /\ queue = {}
  /\ frontier' = IF pass.persist THEN {} ELSE frontier
  /\ phase' = IF pass.resumed THEN "returned" ELSE "walked"
  /\ UNCHANGED <<other, index, mem, walk, faults, history>>

(* The entries classify() calls remote-deleted in the pass's scope. *)
RemoteDeleted ==
  {f \in mem.entries \ Local : FolderOf[f] \in Below[pass.root] /\ f \notin seen}

(* Mutant: the manifest is read after the walk. *)
DetectedReadLate ==
  [entries |-> IF pass.prune THEN mem.entries \ RemoteDeleted ELSE mem.entries,
   generation |-> IF pass.persist /\ pass.root = Top THEN generation ELSE mem.generation]
(* Change and deletion detection of a full pass, and its save. *)
Detected ==
  [entries |-> IF pass.prune THEN mem.entries \ RemoteDeleted ELSE mem.entries,
   generation |-> IF manifestSeen # 0 THEN manifestSeen ELSE mem.generation]

Detect ==
  /\ phase = "walked"
  /\ mem' = Detected
  /\ index' = IF pass.persist THEN mem' ELSE index
  /\ phase' = "returned"
  /\ UNCHANGED <<other, frontier, walk, faults, history>>

DetectSaveRaises ==
  /\ phase = "walked"
  /\ pass.persist
  /\ faults < MaxFaults
  /\ faults' = faults + 1
  /\ Ends
  /\ UNCHANGED <<other, disk, owedSaved>>

(* The command is over; pull --refresh ends with a save of its own. *)
RefreshExits ==
  /\ phase = "returned"
  /\ Ends
  /\ UNCHANGED <<other, disk, faults, owedSaved>>

PullSaves ==
  /\ phase = "returned"
  /\ pass.persist
  /\ index' = mem
  /\ Ends
  /\ UNCHANGED <<other, frontier, faults, owedSaved>>

(* SIGKILL, power loss: only the disk survives. *)
Kill ==
  /\ phase # "idle"
  /\ faults < MaxFaults
  /\ faults' = faults + 1
  /\ Ends
  /\ UNCHANGED <<other, disk, owedSaved>>

-----------------------------------------------------------------------------
Environment ==
  \/ \E f \in Files : OtherUploads(f) \/ OtherTrashes(f)
  \/ \E d \in Dirs \ {Top} : OtherTrashesFolder(d) \/ OtherMakesFolder(d)
  \/ OtherWritesManifest

(* refresh [--prune] persists; a dry run (pull --refresh --dry-run) neither *)
(* persists nor prunes.                                                     *)
Start == \E root \in Roots, persist, prune \in BOOLEAN :
           (prune => persist) /\ Begin(root, persist, prune)
List == \E d \in Dirs : ListFolder(d)

(* The steps of the process once it runs; WalkRaises and the faults are    *)
(* left out, for nothing makes them happen.                                *)
Progress ==
  \/ NotDue \/ CheckpointIndex \/ CheckpointFrontier
  \/ WedgedSavesIndex \/ WedgedSavesFrontier \/ WedgedPersistsNothing
  \/ (\E d \in Dirs : ListMissing(d)) \/ WalkReturns \/ Detect
  \/ RefreshExits \/ PullSaves

Disturbance ==
  \/ WalkRaises \/ CheckpointRaises \/ WedgedSaveRaises \/ DetectSaveRaises
  \/ Kill

Next == Environment \/ Start \/ List \/ Progress \/ Disturbance

(* A refresh is started again whenever none runs (a schedule or a user),   *)
(* the process runs on, and a listing that is tried again and again is     *)
(* not throttled every time.                                               *)
Fairness ==
  /\ WF_vars(Start)
  /\ WF_vars(Progress)
  /\ SF_vars(List)

Spec == Init /\ [][Next]_vars
FairSpec == Spec /\ Fairness

-----------------------------------------------------------------------------
(* The frontier is never saved ahead of the index: a file that the walk of *)
(* the saved frontier has listed, and that is still on Drive, is either in *)
(* the saved index or in a folder that a resume lists again.               *)
FrontierNeverAhead ==
  \A fr \in frontier : \A f \in owedSaved \cap drive :
    FolderOf[f] \notin Covered(fr.dirs) => f \in index.entries

(* The saved index never claims a manifest generation it does not cover:   *)
(* every file in scope which that generation lists, and which has been on  *)
(* Drive and in the listings of its folder since, has an entry.            *)
ReconciledIsSeeded == listed[index.generation] \ Unseeded \subseteq index.entries

(* Whatever a pass is resumed from, interrupted by or scoped to, an index  *)
(* entry is dropped from disk only for a file that is gone from Drive,     *)
(* that a listing of the pass itself left out (an undecryptable name, an   *)
(* answer that is no list), or that came back while the pass ran.  Such a  *)
(* file is pruned although it is on Drive.                                 *)
PruneDropsOnlyGone ==
  [][index.entries \ index'.entries \subseteq (Files \ drive) \cup missed]_vars

(* Once every run refreshes the same root and persists, a saved frontier   *)
(* is used up in the end, however often the walk is throttled, unless a    *)
(* folder on it is gone from Drive.                                        *)
ResumeCompletes ==
  <>[](pass.root = Top /\ pass.persist)
    => []<>(\A fr \in frontier : ~(fr.dirs \subseteq folders))
=============================================================================
