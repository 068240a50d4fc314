---------------------------- MODULE RefreshProofs ----------------------------
(***************************************************************************)
(* What Refresh promises, proved for every remote tree, every set of files *)
(* and any number of manifest writes and faults.                           *)
(***************************************************************************)
EXTENDS Refresh, TLAPS

(* Listing a folder loses nothing as long as what is on Drive is reachable *)
(* from the queue: a file's folder exists, and so do those above it.       *)
FoldersClosed == \A d \in Dirs \ folders : Below[d] \cap folders = {}
FilesInFolders == \A f \in drive : FolderOf[f] \in folders

ListedIsThere == \A g \in 0 .. MaxGeneration : listed[g] \subseteq drive

(* Nothing refers to a manifest generation before it is written. *)
OnlyWritten ==
  /\ index.generation <= generation
  /\ mem.generation <= generation
  /\ manifestSeen <= generation

Running == phase # "idle"
InPass == phase \notin {"idle", "returned"}

MemHoldsIndex == Running /\ pass.persist => index.entries \subseteq mem.entries
PendingIsQueue == InPass => pending \subseteq {queue}
SavedIsMem == phase \in {"indexSaved", "wedgedSaved"} => index = mem
WalkedIsFull ==
  phase = "walked" => /\ queue = {}
                      /\ ~pass.resumed
                      /\ pass.persist => frontier = {}

(* What the walk has listed is in memory, and in the index once the        *)
(* frontier is on disk.                                                    *)
MemNeverBehind == InPass => owed \subseteq mem.entries
IndexNeverBehind == frontier # {} => owedSaved \subseteq index.entries

(* In a full pass a file that is not seen is one the walk has not reached, *)
(* or one the history of the pass says was missed.                         *)
FullPassSees ==
  InPass /\ ~pass.resumed =>
    \A f \in mem.entries \cap drive :
      FolderOf[f] \in Below[pass.root] \ Covered(queue) => f \in seen \cup missed
MissedApart ==
  InPass => missed \cap (listed[manifestSeen] \cup listed[mem.generation]) = {}
ManifestWalked ==
  InPass /\ ~pass.resumed /\ manifestSeen # 0 =>
    \A f \in listed[manifestSeen] \ Unseeded :
      FolderOf[f] \notin Covered(queue) => f \in mem.entries
MemReconciled == Running => listed[mem.generation] \ Unseeded \subseteq mem.entries

IInv ==
  /\ TypeOK
  /\ FoldersClosed
  /\ FilesInFolders
  /\ ListedIsThere
  /\ OnlyWritten
  /\ MemHoldsIndex
  /\ PendingIsQueue
  /\ SavedIsMem
  /\ WalkedIsFull
  /\ MemNeverBehind
  /\ IndexNeverBehind
  /\ FullPassSees
  /\ MissedApart
  /\ ManifestWalked
  /\ MemReconciled
  /\ ReconciledIsSeeded

-----------------------------------------------------------------------------
LEMMA InitHolds == Init => IInv
  BY TreeAssumption, BoundAssumption
  DEF Init, IInv, TypeOK, Indexes, Frontiers, AtMostOne, Phases, Covered, Unseeded,
      FoldersClosed, FilesInFolders, ListedIsThere, OnlyWritten,
      Running, InPass, MemHoldsIndex, PendingIsQueue, SavedIsMem, WalkedIsFull,
      MemNeverBehind, IndexNeverBehind, FullPassSees, MissedApart, ManifestWalked, MemReconciled,
      ReconciledIsSeeded

(* The state of a process that is over is of its type. *)
LEMMA EndsType ==
  ASSUME TypeOK, Ends
  PROVE  /\ mem' \in Indexes
         /\ phase' \in Phases
         /\ pass' \in [root : Dirs, persist : BOOLEAN, prune : BOOLEAN, resumed : BOOLEAN]
         /\ queue' = {} /\ pending' = {} /\ seen' = {} /\ manifestSeen' = 0 /\ owed' = {}
         /\ missed' = {}
<1>1. mem' \in Indexes
  BY BoundAssumption DEF Ends, NoIndex, Indexes
<1>2. pass' \in [root : Dirs, persist : BOOLEAN, prune : BOOLEAN, resumed : BOOLEAN]
  BY DEF Ends, TypeOK
<1> QED
  BY <1>1, <1>2 DEF Ends, Phases

LEMMA TypeInvariant == TypeOK /\ [Next]_vars => TypeOK'
<1> SUFFICES ASSUME TypeOK, [Next]_vars PROVE TypeOK'
  OBVIOUS
<1>1. ASSUME NEW f \in Files, OtherUploads(f) PROVE TypeOK'
  BY <1>1, TreeAssumption, BoundAssumption
  DEF OtherUploads, TypeOK, Indexes, Frontiers, AtMostOne, Phases, other, disk, walk,
      history
<1>2. ASSUME NEW f \in Files, OtherTrashes(f) PROVE TypeOK'
  BY <1>2, TreeAssumption, BoundAssumption
  DEF OtherTrashes, Drops, TypeOK, Indexes, Frontiers, AtMostOne, Phases, other, disk, walk,
      history
<1>3. ASSUME NEW d \in Dirs, OtherTrashesFolder(d) PROVE TypeOK'
  BY <1>3, TreeAssumption, BoundAssumption
  DEF OtherTrashesFolder, Drops, TypeOK, Indexes, Frontiers, AtMostOne, Phases, other, disk,
      walk, history
<1>4. CASE OtherWritesManifest
  BY <1>4, TreeAssumption, BoundAssumption
  DEF OtherWritesManifest, TypeOK, Indexes, Frontiers, AtMostOne, Phases, other,
      disk, walk, history
<1>5. ASSUME NEW root \in Roots, NEW persist \in BOOLEAN, NEW prune \in BOOLEAN,
             Begin(root, persist, prune)
      PROVE TypeOK'
  BY <1>5, TreeAssumption, BoundAssumption
  DEF Begin, SavedFrontier, TypeOK, Indexes, Frontiers, AtMostOne, Phases, other, disk,
      walk, history
<1>6. ASSUME NEW d \in Dirs, ListFolder(d) PROVE TypeOK'
  <2>1. PICK shown \in SUBSET FilesIn(d), subs \in SUBSET (Children[d] \cap folders) :
          /\ queue' = (queue \ {d}) \cup subs
          /\ seen' = seen \cup shown
          /\ mem' = [mem EXCEPT !.entries = @ \cup (shown \ Unseeded)]
          /\ owed' = owed \cup (shown \ Unseeded)
          /\ missed' = missed \cup LeftOut(d, shown, subs)
          /\ Drops(LeftOut(d, shown, subs))
    BY <1>6 DEF ListFolder
  <2>2. queue' \subseteq Dirs /\ pending' = {queue'} /\ phase' = "listed"
    BY <1>6, <2>1 DEF ListFolder, TypeOK
  <2>3. shown \subseteq drive /\ LeftOut(d, shown, subs) \subseteq drive
    BY DEF FilesIn, LeftOut
  <2>4. seen' \subseteq Files /\ owed' \subseteq Files /\ missed' \subseteq Files
    BY <2>1, <2>3 DEF TypeOK
  <2>5. mem' \in Indexes
    BY <2>1, <2>3 DEF TypeOK, Indexes
  <2>6. listed' \in [0 .. MaxGeneration -> SUBSET Files]
    BY <2>1 DEF TypeOK, Drops
  <2>7. pending' \in AtMostOne(SUBSET Dirs)
    BY <2>2 DEF AtMostOne
  <2>8. UNCHANGED <<drive, folders, generation, index, frontier, pass, manifestSeen, faults,
                    owedSaved>>
    BY <1>6 DEF ListFolder, disk
  <2> QED
    BY <2>2, <2>4, <2>5, <2>6, <2>7, <2>8 DEF TypeOK, Phases
<1>7. CASE NotDue
  BY <1>7, TreeAssumption, BoundAssumption
  DEF NotDue, TypeOK, Indexes, Frontiers, AtMostOne, Phases, other, disk, walk, history
<1>8. CASE CheckpointIndex
  BY <1>8, TreeAssumption, BoundAssumption
  DEF CheckpointIndex, TypeOK, Indexes, Frontiers, AtMostOne, Phases, other, disk, walk,
      history
<1>9. CASE CheckpointFrontier
  BY <1>9, TreeAssumption, BoundAssumption
  DEF CheckpointFrontier, TypeOK, Indexes, Frontiers, AtMostOne, Phases, other, disk,
      walk, history
<1>10. ASSUME NEW d \in Dirs, ListMissing(d) PROVE TypeOK'
  BY <1>10, TreeAssumption, BoundAssumption
  DEF ListMissing, TypeOK, Indexes, Frontiers, AtMostOne, Phases, other, disk, walk, history
<1>11. CASE WalkRaises
  BY <1>11, TreeAssumption, BoundAssumption
  DEF WalkRaises, TypeOK, Indexes, Frontiers, AtMostOne, Phases, other, disk, walk, history
<1>12. CASE CheckpointRaises
  BY <1>12, TreeAssumption, BoundAssumption
  DEF CheckpointRaises, TypeOK, Indexes, Frontiers, AtMostOne, Phases, other, disk, walk,
      history
<1>13. CASE WedgedSavesIndex
  BY <1>13, TreeAssumption, BoundAssumption, EndsType
  DEF WedgedSavesIndex, TypeOK, Indexes, Frontiers, AtMostOne, Phases, other, disk, walk,
      history
<1>14. CASE WedgedSavesFrontier
  BY <1>14, TreeAssumption, BoundAssumption, EndsType
  DEF WedgedSavesFrontier, TypeOK, Indexes, Frontiers, AtMostOne, Phases, other, disk,
      walk, history
<1>15. CASE WedgedPersistsNothing
  BY <1>15, TreeAssumption, BoundAssumption, EndsType
  DEF WedgedPersistsNothing, TypeOK, Indexes, Frontiers, AtMostOne, Phases, other, disk,
      walk, history
<1>16. CASE WedgedSaveRaises
  BY <1>16, TreeAssumption, BoundAssumption, EndsType
  DEF WedgedSaveRaises, TypeOK, Indexes, Frontiers, AtMostOne, Phases, other, disk, walk,
      history
<1>17. CASE WalkReturns
  BY <1>17, TreeAssumption, BoundAssumption
  DEF WalkReturns, TypeOK, Indexes, Frontiers, AtMostOne, Phases, other, disk, walk, history
<1>18. CASE Detect
  BY <1>18, TreeAssumption, BoundAssumption
  DEF Detect, Detected, RemoteDeleted, TypeOK, Indexes, Frontiers, AtMostOne, Phases,
      other, disk, walk, history
<1>19. CASE DetectSaveRaises
  BY <1>19, TreeAssumption, BoundAssumption, EndsType
  DEF DetectSaveRaises, TypeOK, Indexes, Frontiers, AtMostOne, Phases, other, disk, walk,
      history
<1>20. CASE RefreshExits
  BY <1>20, TreeAssumption, BoundAssumption, EndsType
  DEF RefreshExits, TypeOK, Indexes, Frontiers, AtMostOne, Phases, other, disk, walk,
      history
<1>21. CASE PullSaves
  BY <1>21, TreeAssumption, BoundAssumption, EndsType
  DEF PullSaves, TypeOK, Indexes, Frontiers, AtMostOne, Phases, other, disk, walk, history
<1>22. CASE Kill
  BY <1>22, TreeAssumption, BoundAssumption, EndsType
  DEF Kill, TypeOK, Indexes, Frontiers, AtMostOne, Phases, other, disk, walk, history
<1>23. CASE UNCHANGED vars
  BY <1>23, TreeAssumption, BoundAssumption
  DEF vars, TypeOK, Indexes, Frontiers, AtMostOne, Phases, other, disk, walk, history
<1>24. ASSUME NEW d \in Dirs, OtherMakesFolder(d) PROVE TypeOK'
  BY <1>24 DEF OtherMakesFolder, TypeOK, other, disk, walk, history
<1> QED
  BY <1>1, <1>2, <1>3, <1>4, <1>5, <1>6, <1>7, <1>8, <1>9, <1>10, <1>11, <1>12, <1>13,
     <1>14, <1>15, <1>16, <1>17, <1>18, <1>19, <1>20, <1>21, <1>22, <1>23, <1>24
  DEF Next, Environment, Start, List, Progress, Disturbance

(* What is not under a queue stays out of reach when the queue's folder d  *)
(* is replaced by some of its subfolders, but for d itself and what is     *)
(* under the others: of an existing folder, every folder above it exists.  *)
LEMMA ListReaches ==
  ASSUME TypeOK, FoldersClosed, NEW d \in queue, NEW subs, NEW x \in folders,
         x \notin Covered((queue \ {d}) \cup subs)
  PROVE  \/ x = d
         \/ x \notin Covered(queue)
         \/ x \in Covered((Children[d] \cap folders) \ subs)
<1> SUFFICES ASSUME NEW e \in queue, x \in Below[e], x # d
             PROVE  x \in Covered((Children[d] \cap folders) \ subs)
  BY DEF Covered
<1>1. e = d
  BY DEF Covered
<1>2. x \in {d} \cup UNION {Below[c] : c \in Children[d]}
  BY <1>1, TreeAssumption DEF TypeOK
<1>3. PICK c \in Children[d] : x \in Below[c]
  BY <1>2
<1>4. c \in folders
  BY <1>3, TreeAssumption DEF TypeOK, FoldersClosed
<1>5. c \notin subs
  BY <1>3 DEF Covered
<1> QED
  BY <1>3, <1>4, <1>5 DEF Covered

(* Listing a folder: what leaves the queue's reach is in the listing, or   *)
(* among the missed.                                                       *)
LEMMA ListFolderHolds ==
  ASSUME IInv, TypeOK', NEW d \in Dirs, ListFolder(d) PROVE IInv'
<1>0. PICK shown \in SUBSET FilesIn(d), subs \in SUBSET (Children[d] \cap folders) :
        /\ queue' = (queue \ {d}) \cup subs
        /\ seen' = seen \cup shown
        /\ mem' = [mem EXCEPT !.entries = @ \cup (shown \ Unseeded)]
        /\ owed' = owed \cup (shown \ Unseeded)
        /\ missed' = missed \cup LeftOut(d, shown, subs)
        /\ Drops(LeftOut(d, shown, subs))
  BY DEF ListFolder
<1> DEFINE left == LeftOut(d, shown, subs)
<1>1. /\ d \in queue
      /\ phase = "walking" /\ phase' = "listed" /\ pending' = {queue'}
      /\ UNCHANGED <<drive, folders, generation, index, frontier, pass, manifestSeen, owedSaved>>
  BY DEF ListFolder, disk
<1>2. \A g \in 0 .. MaxGeneration : listed'[g] = listed[g] \ left
  BY <1>0 DEF Drops
<1>3. /\ mem'.entries = mem.entries \cup (shown \ Unseeded)
      /\ mem'.generation = mem.generation
      /\ mem.generation \in 0 .. MaxGeneration
  BY <1>0 DEF IInv, TypeOK, Indexes
<1>4. ASSUME NEW f \in drive, FolderOf[f] \notin Covered(queue'), f \notin left
      PROVE  f \in shown \/ FolderOf[f] \notin Covered(queue)
  <2>1. FolderOf[f] \in folders
    BY DEF IInv, FilesInFolders
  <2>2. \/ FolderOf[f] = d
        \/ FolderOf[f] \notin Covered(queue)
        \/ FolderOf[f] \in Covered((Children[d] \cap folders) \ subs)
    BY <1>0, <1>1, <1>4, <2>1, ListReaches DEF IInv
  <2> QED
    BY <1>4, <2>2 DEF LeftOut
<1>5. FoldersClosed' /\ FilesInFolders' /\ ListedIsThere' /\ OnlyWritten'
  BY <1>1, <1>2, <1>3 DEF IInv, FoldersClosed, FilesInFolders, ListedIsThere, OnlyWritten
<1>6. MemHoldsIndex' /\ PendingIsQueue' /\ SavedIsMem' /\ WalkedIsFull'
  BY <1>1, <1>3 DEF IInv, MemHoldsIndex, PendingIsQueue, SavedIsMem, WalkedIsFull, Running,
                           InPass
<1>7. MemNeverBehind' /\ IndexNeverBehind'
  BY <1>0, <1>1, <1>3 DEF IInv, MemNeverBehind, IndexNeverBehind, InPass
<1>8. FullPassSees'
  <2> SUFFICES ASSUME ~pass.resumed, NEW f \in mem'.entries \cap drive,
                      FolderOf[f] \in Below[pass.root], FolderOf[f] \notin Covered(queue')
               PROVE  f \in seen' \cup missed'
    BY <1>1 DEF FullPassSees
  <2>1. CASE f \in left \cup shown
    BY <1>0, <2>1
  <2>2. CASE f \notin left \cup shown
    <3>1. f \in mem.entries /\ FolderOf[f] \notin Covered(queue)
      BY <1>3, <1>4, <2>2
    <3> QED
      BY <1>0, <1>1, <3>1 DEF IInv, FullPassSees, InPass
  <2> QED
    BY <2>1, <2>2
<1>9. MissedApart'
  BY <1>0, <1>1, <1>2, <1>3 DEF IInv, TypeOK, MissedApart, InPass
<1>10. ManifestWalked'
  <2> SUFFICES ASSUME ~pass.resumed, manifestSeen # 0,
                      NEW f \in listed'[manifestSeen] \ Unseeded,
                      FolderOf[f] \notin Covered(queue')
               PROVE  f \in mem'.entries
    BY <1>1 DEF ManifestWalked
  <2>1. f \in listed[manifestSeen] \ left /\ f \in drive
    BY <1>2 DEF IInv, TypeOK, ListedIsThere
  <2>2. CASE f \in shown
    BY <1>3, <2>2
  <2>3. CASE f \notin shown
    BY <1>1, <1>3, <1>4, <2>1, <2>3 DEF IInv, ManifestWalked, InPass
  <2> QED
    BY <2>2, <2>3
<1>11. MemReconciled' /\ ReconciledIsSeeded'
  BY <1>1, <1>2, <1>3
  DEF IInv, TypeOK, Indexes, MemReconciled, ReconciledIsSeeded, Running, Unseeded
<1> QED
  BY <1>5, <1>6, <1>7, <1>8, <1>9, <1>10, <1>11 DEF IInv

(* A pass begins: a resumed one with what was owed to the saved frontier, *)
(* a fresh one with everything in its scope still to be listed.           *)
LEMMA BeginHolds ==
  ASSUME IInv, TypeOK', NEW root \in Roots, NEW persist \in BOOLEAN, NEW prune \in BOOLEAN,
         Begin(root, persist, prune)
  PROVE  IInv'
<1> USE TreeAssumption DEF IInv, Begin, InPass, Running, TypeOK, Indexes, Unseeded,
      other, disk
<1> DEFINE saved == SavedFrontier(root, persist)
<1>1. /\ pass'.root = root /\ pass'.persist = persist /\ pass'.resumed = (saved # {})
      /\ owed' = IF saved # {} THEN owedSaved ELSE {}
      /\ queue' = IF saved # {} THEN UNION {fr.dirs : fr \in saved} ELSE {root}
  OBVIOUS
<1>2. ASSUME saved = {} PROVE Covered(queue') = Below[root] /\ owed' = {}
  BY <1>1, <1>2 DEF Covered
<1>3. ASSUME saved # {}
      PROVE  \E fr \in frontier : owed' = owedSaved /\ queue' = fr.dirs
  <2>1. PICK fr \in frontier : fr \in saved
    BY <1>3 DEF SavedFrontier
  <2>2. saved = {fr}
    BY <2>1 DEF SavedFrontier, AtMostOne
  <2>3. UNION {gr.dirs : gr \in saved} = fr.dirs
    BY <2>2
  <2> QED
    BY <1>1, <1>3, <2>3
<1>4. /\ mem'.generation <= generation
      /\ listed[mem'.generation] \ Unseeded \subseteq mem'.entries
      /\ persist => index.entries \subseteq mem'.entries
  BY DEF OnlyWritten, MemReconciled, ReconciledIsSeeded, MemHoldsIndex
<1>5. FoldersClosed' /\ FilesInFolders' /\ ListedIsThere' /\ OnlyWritten'
  BY <1>1, <1>4 DEF FoldersClosed, FilesInFolders, ListedIsThere, OnlyWritten
<1>6. MemHoldsIndex' /\ PendingIsQueue' /\ SavedIsMem' /\ WalkedIsFull'
  BY <1>1, <1>4 DEF MemHoldsIndex, PendingIsQueue, SavedIsMem, WalkedIsFull
<1>7. MemNeverBehind' /\ IndexNeverBehind' /\ MissedApart'
  <2>1. CASE saved = {}
    BY <1>2, <2>1 DEF MemNeverBehind, IndexNeverBehind, MissedApart
  <2>2. CASE saved # {}
    BY <1>3, <1>4, <2>2 DEF MemNeverBehind, IndexNeverBehind, MissedApart, SavedFrontier
  <2> QED
    BY <2>1, <2>2
<1>8. FullPassSees' /\ ManifestWalked'
  <2> SUFFICES ASSUME saved = {} PROVE FullPassSees' /\ ManifestWalked'
    BY <1>1 DEF FullPassSees, ManifestWalked
  <2>1. manifestSeen' # 0 => root = Top
    OBVIOUS
  <2>2. pass'.root = root /\ Covered(queue') = Below[root]
    BY <1>1, <1>2
  <2>3. FullPassSees'
    BY <2>2 DEF FullPassSees
  <2>4. \A f \in Files : manifestSeen' # 0 => FolderOf[f] \in Covered(queue')
    BY <2>1, <2>2
  <2> QED
    BY <2>3, <2>4 DEF ManifestWalked
<1>9. MemReconciled' /\ ReconciledIsSeeded'
  BY <1>4 DEF MemReconciled, ReconciledIsSeeded
<1> QED
  BY <1>5, <1>6, <1>7, <1>8, <1>9

(* Every step of the process and of the other devices keeps the invariant. *)
LEMMA StepHolds == IInv /\ [Next]_vars => IInv'
<1> SUFFICES ASSUME IInv, [Next]_vars, TypeOK' PROVE IInv'
  BY TypeInvariant DEF IInv
<1>1. ASSUME NEW root \in Roots, NEW persist \in BOOLEAN, NEW prune \in BOOLEAN,
             Begin(root, persist, prune)
      PROVE  IInv'
  BY <1>1, BeginHolds
<1>2. ASSUME NEW d \in Dirs, ListFolder(d) PROVE IInv'
  BY <1>2, ListFolderHolds
<1> USE TreeAssumption, BoundAssumption
    DEF IInv, FoldersClosed, FilesInFolders, ListedIsThere, OnlyWritten,
      Running, InPass, MemHoldsIndex, PendingIsQueue, SavedIsMem, WalkedIsFull,
      MemNeverBehind, IndexNeverBehind, FullPassSees, MissedApart, ManifestWalked, MemReconciled,
      ReconciledIsSeeded,
      TypeOK, Indexes, Frontiers, AtMostOne, Phases, Unseeded, other, disk, walk, history
<1>3. ASSUME NEW f \in Files, OtherUploads(f) PROVE IInv'
  BY <1>3 DEF OtherUploads
<1>4. ASSUME NEW f \in Files, OtherTrashes(f) PROVE IInv'
  BY <1>4 DEF OtherTrashes, Drops
<1>5. ASSUME NEW d \in Dirs, OtherTrashesFolder(d) PROVE IInv'
  BY <1>5 DEF OtherTrashesFolder, Drops
<1>6. CASE OtherWritesManifest
  BY <1>6 DEF OtherWritesManifest
<1>7. CASE NotDue
  BY <1>7 DEF NotDue
<1>8. CASE CheckpointIndex
  BY <1>8 DEF CheckpointIndex
<1>9. CASE CheckpointFrontier
  BY <1>9 DEF CheckpointFrontier
<1>10. ASSUME NEW d \in Dirs, ListMissing(d) PROVE IInv'
  BY <1>10 DEF ListMissing
<1>11. CASE WalkRaises
  BY <1>11 DEF WalkRaises
<1>12. CASE CheckpointRaises
  BY <1>12 DEF CheckpointRaises
<1>13. CASE WedgedSavesIndex
  BY <1>13 DEF WedgedSavesIndex, Ends, NoIndex
<1>14. CASE WedgedSavesFrontier
  BY <1>14 DEF WedgedSavesFrontier, Ends, NoIndex
<1>15. CASE WedgedPersistsNothing
  BY <1>15 DEF WedgedPersistsNothing, Ends, NoIndex
<1>16. CASE WedgedSaveRaises
  BY <1>16 DEF WedgedSaveRaises, Ends, NoIndex
<1>17. CASE WalkReturns
  BY <1>17 DEF WalkReturns
<1>18. CASE Detect
  BY <1>18 DEF Detect, Detected, RemoteDeleted, Covered
<1>19. CASE DetectSaveRaises
  BY <1>19 DEF DetectSaveRaises, Ends, NoIndex
<1>20. CASE RefreshExits
  BY <1>20 DEF RefreshExits, Ends, NoIndex
<1>21. CASE PullSaves
  BY <1>21 DEF PullSaves, Ends, NoIndex
<1>22. CASE Kill
  BY <1>22 DEF Kill, Ends, NoIndex
<1>23. CASE UNCHANGED vars
  BY <1>23 DEF vars
<1>24. ASSUME NEW d \in Dirs, OtherMakesFolder(d) PROVE IInv'
  BY <1>24 DEF OtherMakesFolder
<1> HIDE DEF IInv, FoldersClosed, FilesInFolders, ListedIsThere, OnlyWritten,
      Running, InPass, MemHoldsIndex, PendingIsQueue, SavedIsMem, WalkedIsFull,
      MemNeverBehind, IndexNeverBehind, FullPassSees, MissedApart, ManifestWalked, MemReconciled,
      ReconciledIsSeeded,
      TypeOK, Indexes, Frontiers, AtMostOne, Phases, Unseeded, other, disk, walk, history
<1> QED
  BY <1>1, <1>2, <1>3, <1>4, <1>5, <1>6, <1>7, <1>8, <1>9, <1>10, <1>11, <1>12, <1>13,
     <1>14, <1>15, <1>16, <1>17, <1>18, <1>19, <1>20, <1>21, <1>22, <1>23, <1>24
  DEF Next, Environment, Start, List, Progress, Disturbance

LEMMA Invariance == Spec => []IInv
  BY InitHolds, StepHolds, PTL DEF Spec

-----------------------------------------------------------------------------
(* Every variable of a refresh keeps its type. *)
THEOREM TypeCorrect == Spec => []TypeOK
<1>1. IInv => TypeOK
  BY DEF IInv
<1> QED
  BY Invariance, <1>1, PTL

(* The frontier on disk is never ahead of the index on disk, whatever was *)
(* killed, throttled or refused, and whatever other devices did meanwhile. *)
THEOREM FrontierIsNeverAhead == Spec => []FrontierNeverAhead
<1>1. IInv => FrontierNeverAhead
  BY DEF IInv, IndexNeverBehind, FrontierNeverAhead
<1> QED
  BY Invariance, <1>1, PTL

(* An index that records a manifest generation has an entry for every file *)
(* in scope which that generation lists, and which has been on Drive and   *)
(* in the listings of its folder since.                                    *)
THEOREM ReconciledIndexIsSeeded == Spec => []ReconciledIsSeeded
<1>1. IInv => ReconciledIsSeeded
  BY DEF IInv
<1> QED
  BY Invariance, <1>1, PTL

(* Only a full pass drops entries, and only those of files that are gone,  *)
(* that one of its own listings left out, or that came back meanwhile.     *)
THEOREM PruneIsSafe == Spec => PruneDropsOnlyGone
<1>1. ASSUME IInv, [Next]_vars
      PROVE  [index.entries \ index'.entries \subseteq (Files \ drive) \cup missed]_vars
  <2> SUFFICES ASSUME IInv, Next 
               PROVE  index.entries \ index'.entries \subseteq (Files \ drive) \cup missed
    BY <1>1
  <2>1. CASE Detect
    BY <2>1, TreeAssumption
    DEF Detect, Detected, RemoteDeleted, IInv, TypeOK, Indexes, Covered, WalkedIsFull,
        MemHoldsIndex, FullPassSees, Running, InPass, disk
  <2>2. CASE CheckpointIndex \/ WedgedSavesIndex \/ PullSaves
    BY <2>2 DEF CheckpointIndex, WedgedSavesIndex, PullSaves, IInv, MemHoldsIndex, Running
  <2>3. CASE index' = index
    BY <2>3
  <2>4. Next => Detect \/ CheckpointIndex \/ WedgedSavesIndex \/ PullSaves \/ index' = index
    BY DEF Next, Environment, Start, List, Progress, Disturbance, OtherUploads, OtherTrashes,
       OtherTrashesFolder, OtherMakesFolder, OtherWritesManifest, Begin, ListFolder, NotDue,
       CheckpointFrontier, ListMissing, WalkRaises, CheckpointRaises, WedgedSavesFrontier,
       WedgedPersistsNothing, WedgedSaveRaises, WalkReturns, DetectSaveRaises, RefreshExits,
       Kill, disk
  <2> QED
    BY <2>1, <2>2, <2>3, <2>4
<1> QED
  BY Invariance, <1>1, PTL DEF Spec, PruneDropsOnlyGone
=============================================================================
