---------------------------- MODULE OffloadProofs ----------------------------
(***************************************************************************)
(* What Offload promises, and that it implements Custody, proved for every *)
(* set of files, folders and contents; where it says so, for one process   *)
(* at a time.                                                              *)
(***************************************************************************)
EXTENDS Offload, TLAPS

(* The lock covers what the other processes read. *)
Locked ==
  /\ ~Overlap => stale \subseteq {index}
  /\ ~Overlap /\ phase # "idle" => stale = {}
  /\ phase # "checking" => listing = {}

(* The candidates are held by the index in memory, the cleared ones are    *)
(* not, and while they are deleted the saved index agrees.                 *)
NotHeld(f, idx) == idx[f] = None \/ idx[f].local_state = "metadata-only"
Split ==
  /\ phase = "idle" => cleared = {}
  /\ \A f \in todo : mem[f] # None
  /\ \A f \in cleared : NotHeld(f, mem)
  /\ phase = "deleting" => \A f \in cleared : NotHeld(f, index)

(* An offloaded file is absent, and no index holds it. *)
Recorded ==
  /\ \A f \in offloaded : local[f] = None
  /\ \A f \in offloaded : NotHeld(f, index)
  /\ phase # "idle" => \A f \in offloaded : NotHeld(f, mem)

(* Entries say what was last synced, and so does a cleared file. *)
EntriesSynced ==
  /\ \A f \in Files : index[f] # None => index[f].content = synced[f]
  /\ phase # "idle" => \A f \in Files : mem[f] # None => mem[f].content = synced[f]
ClearedSynced ==
  \A f \in cleared \ edited : local[f] \in {None, synced[f]}

(* A digest listed, and a cleared file, is on Drive unless excused. *)
ListedOnDrive ==
  \A l \in listing : \A f \in Files \ excused :
    FolderOf[f] = folder /\ l[f] # None => l[f].sha1 \in {None, drive[f]}
ClearedOnDrive ==
  \A f \in cleared \ (edited \cup excused) : local[f] \in {None, drive[f]}

AsSynced == EntriesSynced /\ ClearedSynced
AsListed == ListedOnDrive /\ ClearedOnDrive


-----------------------------------------------------------------------------
(* Every variable keeps its type; a candidate is an entry of the index. *)
Typed == TypeOK /\ Split

LEMMA InitTyped == Init => Typed
<1> SUFFICES ASSUME Init PROVE Typed
  OBVIOUS
<1>1. NoEntries \in Indexes
  BY DEF NoEntries, Indexes
<1>2. NoCommand \in [verify : BOOLEAN, window : BOOLEAN]
  BY DEF NoCommand
<1>3. [f \in Files |-> None] \in [Files -> Digests]
  BY DEF Digests
<1> QED
  BY <1>1, <1>2, <1>3 DEF Init, Typed, Split, TypeOK

LEMMA TypedHolds == Typed /\ [Next]_vars => Typed'
<1> SUFFICES ASSUME Typed, [Next]_vars PROVE Typed'
  OBVIOUS
<1> USE ContentsAssumption, OffloadAssumption DEF Typed, Split, NotHeld, NoEntries,
        NoCommand, TypeOK, Indexes, Entries, Listings, Digests, running, history
<1>1. ASSUME NEW f \in Files, NEW c \in Contents, UserWrites(f, c) PROVE Typed'
  BY <1>1 DEF UserWrites
<1>2. ASSUME NEW f \in Files, UserDeletes(f) PROVE Typed'
  BY <1>2 DEF UserDeletes
<1>3. ASSUME NEW f \in Files, Settles(f) PROVE Typed'
  BY <1>3 DEF Settles
<1>4. ASSUME NEW f \in Files, NEW c \in Contents, OtherUploads(f, c) PROVE Typed'
  BY <1>4 DEF OtherUploads, OutdatesListing
<1>5. ASSUME NEW f \in Files, OtherTrashes(f) PROVE Typed'
  BY <1>5 DEF OtherTrashes, OutdatesListing
<1>6. ASSUME NEW f \in Files, Push(f) PROVE Typed'
  BY <1>6 DEF Push, Free
<1>7. ASSUME NEW f \in Files, Pull(f) PROVE Typed'
  BY <1>7 DEF Pull, Free
<1>8. ASSUME NEW trashed \in SUBSET Files, TrashDeletions(trashed) PROVE Typed'
  BY <1>8 DEF TrashDeletions, Free, Deletions, Held_and_gone, Present, OnDisk
<1>9. CASE OtherLoads
  BY <1>9 DEF OtherLoads
<1>10. CASE OtherSaves
  BY <1>10 DEF OtherSaves
<1>11. ASSUME NEW scope \in SUBSET Files, NEW verify \in BOOLEAN, NEW window \in BOOLEAN,
              Begin(scope, verify, window)
      PROVE  Typed'
  BY <1>11 DEF Begin, Free, Present, OnDisk
<1>12. ASSUME NEW d \in Folders, NEW report \in Reports, OpenFolder(d, report)
      PROVE  Typed'
  BY <1>12 DEF OpenFolder, Listing
<1>13. ASSUME NEW f \in Files, NEW report \in Reports, ListLate(f, report) PROVE Typed'
  BY <1>13 DEF ListLate, Listing, InFolder, OnDisk, Settled, Unedited, Must_verify
<1>14. ASSUME NEW f \in Files, Skip(f) PROVE Typed'
  BY <1>14 DEF Skip, InFolder, OnDisk
<1>15. ASSUME NEW f \in Files, Clear(f) PROVE Typed'
  BY <1>15 DEF Clear, InFolder, OnDisk, Unedited, Demoted
<1>16. ASSUME NEW f \in Files, Unlink(f) PROVE Typed'
  BY <1>16 DEF Unlink, OnDisk
<1>17. CASE CloseFolder
  BY <1>17 DEF CloseFolder, InFolder
<1>18. CASE LastBatch
  BY <1>18 DEF LastBatch
<1>19. CASE SaveBatch
  BY <1>19 DEF SaveBatch
<1>20. CASE SaveFails
  BY <1>20 DEF SaveFails
<1>21. CASE SaveFailsAgain
  BY <1>21 DEF SaveFailsAgain, Ends
<1>22. CASE BatchDeleted
  BY <1>22 DEF BatchDeleted
<1>23. CASE Finishes
  BY <1>23 DEF Finishes, Ends
<1>24. CASE Stops
  BY <1>24 DEF Stops, Ends
<1>25. CASE UNCHANGED vars
  BY <1>25 DEF vars
<1> HIDE DEF Typed, Split, NotHeld, NoEntries, NoCommand, TypeOK, Indexes, Entries,
             Listings, Digests, running, history
<1> QED
  BY <1>1, <1>2, <1>3, <1>4, <1>5, <1>6, <1>7, <1>8, <1>9, <1>10, <1>11, <1>12, <1>13,
     <1>14, <1>15, <1>16, <1>17, <1>18, <1>19, <1>20, <1>21, <1>22, <1>23, <1>24, <1>25
  DEF Next, Environment, Commands, Offloads

-----------------------------------------------------------------------------
(* Without Overlap no offloaded file is held. *)
LEMMA LockHolds == Typed /\ Locked /\ [Next]_vars => Locked'
<1> SUFFICES ASSUME Typed, Locked, [Next]_vars PROVE Locked'
  OBVIOUS
<1> USE OffloadAssumption DEF Typed, Split, Locked, TypeOK, running, history
<1>1. ASSUME NEW f \in Files, NEW c \in Contents, UserWrites(f, c) PROVE Locked'
  BY <1>1 DEF UserWrites
<1>2. ASSUME NEW f \in Files, UserDeletes(f) PROVE Locked'
  BY <1>2 DEF UserDeletes
<1>3. ASSUME NEW f \in Files, Settles(f) PROVE Locked'
  BY <1>3 DEF Settles
<1>4. ASSUME NEW f \in Files, NEW c \in Contents, OtherUploads(f, c) PROVE Locked'
  BY <1>4 DEF OtherUploads, OutdatesListing
<1>5. ASSUME NEW f \in Files, OtherTrashes(f) PROVE Locked'
  BY <1>5 DEF OtherTrashes, OutdatesListing
<1>6. ASSUME NEW f \in Files, Push(f) PROVE Locked'
  BY <1>6 DEF Push, Free
<1>7. ASSUME NEW f \in Files, Pull(f) PROVE Locked'
  BY <1>7 DEF Pull, Free
<1>8. ASSUME NEW trashed \in SUBSET Files, TrashDeletions(trashed) PROVE Locked'
  BY <1>8 DEF TrashDeletions, Free, Deletions, Held_and_gone, Present, OnDisk
<1>9. CASE OtherLoads
  BY <1>9 DEF OtherLoads
<1>10. CASE OtherSaves
  BY <1>10 DEF OtherSaves
<1>11. ASSUME NEW scope \in SUBSET Files, NEW verify \in BOOLEAN, NEW window \in BOOLEAN,
              Begin(scope, verify, window)
      PROVE  Locked'
  BY <1>11 DEF Begin, Free, Present, OnDisk
<1>12. ASSUME NEW d \in Folders, NEW report \in Reports, OpenFolder(d, report)
      PROVE  Locked'
  BY <1>12 DEF OpenFolder, Listing
<1>13. ASSUME NEW f \in Files, NEW report \in Reports, ListLate(f, report) PROVE Locked'
  BY <1>13 DEF ListLate, Listing, InFolder, OnDisk, Settled, Unedited, Must_verify
<1>14. ASSUME NEW f \in Files, Skip(f) PROVE Locked'
  BY <1>14 DEF Skip, InFolder, OnDisk
<1>15. ASSUME NEW f \in Files, Clear(f) PROVE Locked'
  BY <1>15 DEF Clear, InFolder, OnDisk, Unedited, Demoted
<1>16. ASSUME NEW f \in Files, Unlink(f) PROVE Locked'
  BY <1>16 DEF Unlink, OnDisk
<1>17. CASE CloseFolder
  BY <1>17 DEF CloseFolder, InFolder
<1>18. CASE LastBatch
  BY <1>18 DEF LastBatch
<1>19. CASE SaveBatch
  BY <1>19 DEF SaveBatch
<1>20. CASE SaveFails
  BY <1>20 DEF SaveFails
<1>21. CASE SaveFailsAgain
  BY <1>21 DEF SaveFailsAgain, Ends
<1>22. CASE BatchDeleted
  BY <1>22 DEF BatchDeleted
<1>23. CASE Finishes
  BY <1>23 DEF Finishes, Ends
<1>24. CASE Stops
  BY <1>24 DEF Stops, Ends
<1>25. CASE UNCHANGED vars
  BY <1>25 DEF vars
<1> HIDE DEF Typed, Split, Locked, TypeOK, running, history
<1> QED
  BY <1>1, <1>2, <1>3, <1>4, <1>5, <1>6, <1>7, <1>8, <1>9, <1>10, <1>11, <1>12, <1>13,
     <1>14, <1>15, <1>16, <1>17, <1>18, <1>19, <1>20, <1>21, <1>22, <1>23, <1>24, <1>25
  DEF Next, Environment, Commands, Offloads

LEMMA RecordHolds == ~Overlap /\ Typed /\ Locked /\ Recorded /\ [Next]_vars => Recorded'
<1> SUFFICES ASSUME ~Overlap, Typed, Locked, Recorded, [Next]_vars PROVE Recorded'
  OBVIOUS
<1> USE DEF Typed, Split, NotHeld, Locked, Recorded, TypeOK, Indexes, Entries, running,
        history
<1>1. ASSUME NEW f \in Files, NEW c \in Contents, UserWrites(f, c) PROVE Recorded'
  BY <1>1 DEF UserWrites
<1>2. ASSUME NEW f \in Files, UserDeletes(f) PROVE Recorded'
  BY <1>2 DEF UserDeletes
<1>3. ASSUME NEW f \in Files, Settles(f) PROVE Recorded'
  BY <1>3 DEF Settles
<1>4. ASSUME NEW f \in Files, NEW c \in Contents, OtherUploads(f, c) PROVE Recorded'
  BY <1>4 DEF OtherUploads, OutdatesListing
<1>5. ASSUME NEW f \in Files, OtherTrashes(f) PROVE Recorded'
  BY <1>5 DEF OtherTrashes, OutdatesListing
<1>6. ASSUME NEW f \in Files, Push(f) PROVE Recorded'
  BY <1>6 DEF Push, Free
<1>7. ASSUME NEW f \in Files, Pull(f) PROVE Recorded'
  BY <1>7 DEF Pull, Free
<1>8. ASSUME NEW trashed \in SUBSET Files, TrashDeletions(trashed) PROVE Recorded'
  BY <1>8 DEF TrashDeletions, Free, Deletions, Held_and_gone, Present, OnDisk
<1>9. CASE OtherLoads
  BY <1>9 DEF OtherLoads
<1>10. CASE OtherSaves
  BY <1>10 DEF OtherSaves
<1>11. ASSUME NEW scope \in SUBSET Files, NEW verify \in BOOLEAN, NEW window \in BOOLEAN,
              Begin(scope, verify, window)
      PROVE  Recorded'
  BY <1>11 DEF Begin, Free, Present, OnDisk
<1>12. ASSUME NEW d \in Folders, NEW report \in Reports, OpenFolder(d, report)
      PROVE  Recorded'
  BY <1>12 DEF OpenFolder, Listing
<1>13. ASSUME NEW f \in Files, NEW report \in Reports, ListLate(f, report) PROVE Recorded'
  BY <1>13 DEF ListLate, Listing, InFolder, OnDisk, Settled, Unedited, Must_verify
<1>14. ASSUME NEW f \in Files, Skip(f) PROVE Recorded'
  BY <1>14 DEF Skip, InFolder, OnDisk
<1>15. ASSUME NEW f \in Files, Clear(f) PROVE Recorded'
  BY <1>15 DEF Clear, InFolder, OnDisk, Unedited, Demoted
<1>16. ASSUME NEW f \in Files, Unlink(f) PROVE Recorded'
  BY <1>16 DEF Unlink, OnDisk
<1>17. CASE CloseFolder
  BY <1>17 DEF CloseFolder, InFolder
<1>18. CASE LastBatch
  BY <1>18 DEF LastBatch
<1>19. CASE SaveBatch
  BY <1>19 DEF SaveBatch
<1>20. CASE SaveFails
  BY <1>20 DEF SaveFails
<1>21. CASE SaveFailsAgain
  BY <1>21 DEF SaveFailsAgain, Ends
<1>22. CASE BatchDeleted
  BY <1>22 DEF BatchDeleted
<1>23. CASE Finishes
  BY <1>23 DEF Finishes, Ends
<1>24. CASE Stops
  BY <1>24 DEF Stops, Ends
<1>25. CASE UNCHANGED vars
  BY <1>25 DEF vars
<1> HIDE DEF Typed, Split, NotHeld, Locked, Recorded, TypeOK, Indexes, Entries, running,
             history
<1> QED
  BY <1>1, <1>2, <1>3, <1>4, <1>5, <1>6, <1>7, <1>8, <1>9, <1>10, <1>11, <1>12, <1>13,
     <1>14, <1>15, <1>16, <1>17, <1>18, <1>19, <1>20, <1>21, <1>22, <1>23, <1>24, <1>25
  DEF Next, Environment, Commands, Offloads

-----------------------------------------------------------------------------
LEMMA SyncHolds == ~Overlap /\ Typed /\ Locked /\ AsSynced /\ [Next]_vars => AsSynced'
<1> SUFFICES ASSUME ~Overlap, Typed, Locked, AsSynced, [Next]_vars PROVE AsSynced'
  OBVIOUS
<1> USE DEF Typed, Split, Locked, AsSynced, EntriesSynced, ClearedSynced, TypeOK, Indexes,
        Entries, running, history
<1>1. ASSUME NEW f \in Files, NEW c \in Contents, UserWrites(f, c) PROVE AsSynced'
  BY <1>1 DEF UserWrites
<1>2. ASSUME NEW f \in Files, UserDeletes(f) PROVE AsSynced'
  BY <1>2 DEF UserDeletes
<1>3. ASSUME NEW f \in Files, Settles(f) PROVE AsSynced'
  BY <1>3 DEF Settles
<1>4. ASSUME NEW f \in Files, NEW c \in Contents, OtherUploads(f, c) PROVE AsSynced'
  BY <1>4 DEF OtherUploads, OutdatesListing
<1>5. ASSUME NEW f \in Files, OtherTrashes(f) PROVE AsSynced'
  BY <1>5 DEF OtherTrashes, OutdatesListing
<1>6. ASSUME NEW f \in Files, Push(f) PROVE AsSynced'
  BY <1>6 DEF Push, Free
<1>7. ASSUME NEW f \in Files, Pull(f) PROVE AsSynced'
  BY <1>7 DEF Pull, Free
<1>8. ASSUME NEW trashed \in SUBSET Files, TrashDeletions(trashed) PROVE AsSynced'
  BY <1>8 DEF TrashDeletions, Free, Deletions, Held_and_gone, Present, OnDisk
<1>9. CASE OtherLoads
  BY <1>9 DEF OtherLoads
<1>10. CASE OtherSaves
  BY <1>10 DEF OtherSaves
<1>11. ASSUME NEW scope \in SUBSET Files, NEW verify \in BOOLEAN, NEW window \in BOOLEAN,
              Begin(scope, verify, window)
      PROVE  AsSynced'
  BY <1>11 DEF Begin, Free, Present, OnDisk
<1>12. ASSUME NEW d \in Folders, NEW report \in Reports, OpenFolder(d, report)
      PROVE  AsSynced'
  BY <1>12 DEF OpenFolder, Listing
<1>13. ASSUME NEW f \in Files, NEW report \in Reports, ListLate(f, report) PROVE AsSynced'
  BY <1>13 DEF ListLate, Listing, InFolder, OnDisk, Settled, Unedited, Must_verify
<1>14. ASSUME NEW f \in Files, Skip(f) PROVE AsSynced'
  BY <1>14 DEF Skip, InFolder, OnDisk
<1>15. ASSUME NEW f \in Files, Clear(f) PROVE AsSynced'
  BY <1>15 DEF Clear, InFolder, OnDisk, Unedited, Demoted
<1>16. ASSUME NEW f \in Files, Unlink(f) PROVE AsSynced'
  BY <1>16 DEF Unlink, OnDisk
<1>17. CASE CloseFolder
  BY <1>17 DEF CloseFolder, InFolder
<1>18. CASE LastBatch
  BY <1>18 DEF LastBatch
<1>19. CASE SaveBatch
  BY <1>19 DEF SaveBatch
<1>20. CASE SaveFails
  BY <1>20 DEF SaveFails
<1>21. CASE SaveFailsAgain
  BY <1>21 DEF SaveFailsAgain, Ends
<1>22. CASE BatchDeleted
  BY <1>22 DEF BatchDeleted
<1>23. CASE Finishes
  BY <1>23 DEF Finishes, Ends
<1>24. CASE Stops
  BY <1>24 DEF Stops, Ends
<1>25. CASE UNCHANGED vars
  BY <1>25 DEF vars
<1> HIDE DEF Typed, Split, Locked, AsSynced, EntriesSynced, ClearedSynced, TypeOK,
             Indexes, Entries, running, history
<1> QED
  BY <1>1, <1>2, <1>3, <1>4, <1>5, <1>6, <1>7, <1>8, <1>9, <1>10, <1>11, <1>12, <1>13,
     <1>14, <1>15, <1>16, <1>17, <1>18, <1>19, <1>20, <1>21, <1>22, <1>23, <1>24, <1>25
  DEF Next, Environment, Commands, Offloads

-----------------------------------------------------------------------------
LEMMA CopyHolds == Typed /\ Locked /\ AsListed /\ [Next]_vars => AsListed'
<1> SUFFICES ASSUME Typed, Locked, AsListed, [Next]_vars PROVE AsListed'
  OBVIOUS
<1> USE ContentsAssumption, OffloadAssumption DEF Typed, Split, Locked, AsListed,
        ListedOnDrive, ClearedOnDrive, TypeOK, Indexes, Entries, Listings, Digests,
        running, history
<1>1. ASSUME NEW f \in Files, NEW c \in Contents, UserWrites(f, c) PROVE AsListed'
  BY <1>1 DEF UserWrites
<1>2. ASSUME NEW f \in Files, UserDeletes(f) PROVE AsListed'
  BY <1>2 DEF UserDeletes
<1>3. ASSUME NEW f \in Files, Settles(f) PROVE AsListed'
  BY <1>3 DEF Settles
<1>4. ASSUME NEW f \in Files, NEW c \in Contents, OtherUploads(f, c) PROVE AsListed'
  BY <1>4 DEF OtherUploads, OutdatesListing
<1>5. ASSUME NEW f \in Files, OtherTrashes(f) PROVE AsListed'
  BY <1>5 DEF OtherTrashes, OutdatesListing
<1>6. ASSUME NEW f \in Files, Push(f) PROVE AsListed'
  BY <1>6 DEF Push, Free
<1>7. ASSUME NEW f \in Files, Pull(f) PROVE AsListed'
  BY <1>7 DEF Pull, Free
<1>8. ASSUME NEW trashed \in SUBSET Files, TrashDeletions(trashed) PROVE AsListed'
  BY <1>8 DEF TrashDeletions, Free, Deletions, Held_and_gone, Present, OnDisk
<1>9. CASE OtherLoads
  BY <1>9 DEF OtherLoads
<1>10. CASE OtherSaves
  BY <1>10 DEF OtherSaves
<1>11. ASSUME NEW scope \in SUBSET Files, NEW verify \in BOOLEAN, NEW window \in BOOLEAN,
              Begin(scope, verify, window)
      PROVE  AsListed'
  BY <1>11 DEF Begin, Free, Present, OnDisk
<1>12. ASSUME NEW d \in Folders, NEW report \in Reports, OpenFolder(d, report)
      PROVE  AsListed'
  BY <1>12 DEF OpenFolder, Listing
<1>13. ASSUME NEW f \in Files, NEW report \in Reports, ListLate(f, report) PROVE AsListed'
  BY <1>13 DEF ListLate, Listing, InFolder, OnDisk, Settled, Unedited, Must_verify
<1>14. ASSUME NEW f \in Files, Skip(f) PROVE AsListed'
  BY <1>14 DEF Skip, InFolder, OnDisk
<1>15. ASSUME NEW f \in Files, Clear(f) PROVE AsListed'
  <2>1. ASSUME NEW g \in cleared' \ (edited' \cup excused')
        PROVE  local'[g] \in {None, drive'[g]}
    <3>1. CASE g = f
      BY <1>15, <2>1, <3>1 DEF Clear, InFolder, OnDisk, Unedited, Confirmed, Confirms
    <3>2. CASE g # f
      BY <1>15, <2>1, <3>2 DEF Clear
    <3> QED
      BY <3>1, <3>2
  <2>2. ListedOnDrive'
    BY <1>15 DEF Clear
  <2> QED
    BY <2>1, <2>2
<1>16. ASSUME NEW f \in Files, Unlink(f) PROVE AsListed'
  BY <1>16 DEF Unlink, OnDisk
<1>17. CASE CloseFolder
  BY <1>17 DEF CloseFolder, InFolder
<1>18. CASE LastBatch
  BY <1>18 DEF LastBatch
<1>19. CASE SaveBatch
  BY <1>19 DEF SaveBatch
<1>20. CASE SaveFails
  BY <1>20 DEF SaveFails
<1>21. CASE SaveFailsAgain
  BY <1>21 DEF SaveFailsAgain, Ends
<1>22. CASE BatchDeleted
  BY <1>22 DEF BatchDeleted
<1>23. CASE Finishes
  BY <1>23 DEF Finishes, Ends
<1>24. CASE Stops
  BY <1>24 DEF Stops, Ends
<1>25. CASE UNCHANGED vars
  BY <1>25 DEF vars
<1> HIDE DEF Typed, Split, Locked, AsListed, ListedOnDrive, ClearedOnDrive, TypeOK,
             Indexes, Entries, Listings, Digests, running, history
<1> QED
  BY <1>1, <1>2, <1>3, <1>4, <1>5, <1>6, <1>7, <1>8, <1>9, <1>10, <1>11, <1>12, <1>13,
     <1>14, <1>15, <1>16, <1>17, <1>18, <1>19, <1>20, <1>21, <1>22, <1>23, <1>24, <1>25
  DEF Next, Environment, Commands, Offloads

-----------------------------------------------------------------------------
(* Every variable of an offload keeps its type, with Overlap or without. *)
LEMMA TypedAlways == Spec => []Typed
  BY InitTyped, TypedHolds, PTL DEF Spec

THEOREM TypeCorrect == Spec => []TypeOK
<1>1. Typed => TypeOK
  BY DEF Typed
<1> QED
  BY TypedAlways, <1>1, PTL

LEMMA LockedAlways == Spec => [](Typed /\ Locked)
<1>1. Init => Locked
  BY DEF Init, Locked
<1> QED
  BY InitTyped, <1>1, TypedHolds, LockHolds, PTL DEF Spec

LEMMA RecordedAlways ==
  ASSUME ~Overlap
  PROVE  Spec => [](Typed /\ Locked /\ Recorded)
<1>1. Init => Recorded
  BY DEF Init, Recorded
<1>2. Typed /\ Locked /\ Recorded /\ [Next]_vars => Recorded'
  BY RecordHolds
<1> QED
  BY LockedAlways, <1>1, <1>2, PTL DEF Spec

(* Wherever an offload is cut short, the saved index holds no file that it *)
(* deleted, if no other process writes back an index it read before.       *)
THEOREM OffloadedNotHeld ==
  ASSUME ~Overlap
  PROVE  Spec => []OffloadedIsNotHeld
<1>1. Recorded => OffloadedIsNotHeld
  BY DEF Recorded, NotHeld, OffloadedIsNotHeld, Present
<1> QED
  BY RecordedAlways, <1>1, PTL

(* Then push --deletions trash leaves the Drive copy of every offloaded    *)
(* file alone.                                                             *)
THEOREM OffloadedAreSpared ==
  ASSUME ~Overlap
  PROVE  Spec => TrashSparesOffloaded
<1>1. Typed /\ Locked /\ Recorded /\ [Next]_vars
      => [\A trashed \in SUBSET Files :
            TrashDeletions(trashed) => trashed \cap offloaded = {}]_vars
  BY DEF Recorded, NotHeld, TrashDeletions, Deletions, Held_and_gone
<1> QED
  BY RecordedAlways, <1>1, PTL DEF Spec, TrashSparesOffloaded

(* Offload deletes nothing but the content last synced, verified or not.   *)
THEOREM OnlySyncedDeleted ==
  ASSUME ~Overlap
  PROVE  Spec => DeletesOnlySynced
<1>1. Init => AsSynced
  BY DEF Init, NoEntries, AsSynced, EntriesSynced, ClearedSynced
<1>2. Typed /\ Locked /\ AsSynced /\ [Next]_vars => AsSynced'
  BY SyncHolds
<1>3. Typed /\ Locked /\ AsSynced /\ [Next]_vars
      => [\A f \in Files : Unlink(f) /\ f \notin edited => local[f] = synced[f]]_vars
  BY DEF AsSynced, ClearedSynced, Unlink, OnDisk
<1> QED
  BY LockedAlways, <1>1, <1>2, <1>3, PTL DEF Spec, DeletesOnlySynced

(* A file deleted after a listing with digests is on Drive, even if other  *)
(* processes overlap.                                                      *)
THEOREM OnlyCopiesDeleted == Spec => DeletesOnlyCopies
<1>1. Init => AsListed
  BY DEF Init, AsListed, ListedOnDrive, ClearedOnDrive
<1>2. Typed /\ Locked /\ AsListed /\ [Next]_vars => AsListed'
  BY CopyHolds
<1>3. Typed /\ Locked /\ AsListed /\ [Next]_vars
      => [\A f \in Files : Unlink(f) /\ f \notin edited \cup excused => drive[f] = local[f]]_vars
  BY DEF AsListed, ClearedOnDrive, Unlink, OnDisk
<1> QED
  BY LockedAlways, <1>1, <1>2, <1>3, PTL DEF Spec, DeletesOnlyCopies
-----------------------------------------------------------------------------
(* Offload implements Custody.  The index in memory is the one on disk,    *)
(* but for files given up; a cleared file is given up in memory, and on    *)
(* disk by the time the batch is deleted.                                  *)
Shelved ==
  /\ phase # "idle" =>
       \A f \in Files : \/ Label(mem)[f] = Label(index)[f]
                        \/ Label(index)[f] = "present" /\ Label(mem)[f] = "metadata-only"
  /\ \A f \in cleared : Label(mem)[f] = "metadata-only"
  /\ phase = "deleting" => \A f \in cleared : Label(index)[f] = "metadata-only"

LEMMA ShelvedHolds == ~Overlap /\ Typed /\ Shelved /\ [Next]_vars => Shelved'
<1> SUFFICES ASSUME ~Overlap, Typed, Shelved, [Next]_vars PROVE Shelved'
  OBVIOUS
<1> USE DEF Typed, Split, Shelved, Label, TypeOK, running, history
<1>1. CASE Environment
  <2>1. UNCHANGED running /\ UNCHANGED index /\ cleared' = cleared
    BY <1>1 DEF Environment, UserWrites, UserDeletes, Settles, OtherUploads, OtherTrashes
  <2> QED
    BY <2>1
<1>2. ASSUME phase = "idle", UNCHANGED <<phase, cleared>> PROVE Shelved'
  BY <1>2
<1>3. CASE Commands
  <2>1. phase = "idle" /\ UNCHANGED <<phase, cleared>>
    BY <1>3 DEF Commands, Push, Pull, TrashDeletions, OtherLoads, OtherSaves, Free
  <2> QED
    BY <1>2, <2>1
<1>4. ASSUME NEW scope \in SUBSET Files, NEW verify, NEW window, Begin(scope, verify, window)
      PROVE  Shelved'
  BY <1>4 DEF Begin, Free
<1>5. ASSUME NEW f \in Files, Clear(f) PROVE Shelved'
  <2>1. mem[f] # None /\ mem[f] \in Entries /\ mem \in [Files -> Entries \cup {None}]
    BY <1>5 DEF Clear, InFolder, Indexes
  <2>2. Demoted(mem[f]) \in Entries /\ Demoted(mem[f]).local_state = "metadata-only"
    BY <2>1 DEF Demoted, Entries
  <2>3. /\ mem' = [mem EXCEPT ![f] = Demoted(mem[f])]
        /\ cleared' = cleared \cup {f} /\ UNCHANGED <<index, phase>> /\ phase = "checking"
    BY <1>5 DEF Clear
  <2>4. mem[f].local_state \in {"present", "metadata-only"}
    BY <2>1 DEF Entries
  <2>5. Demoted(mem[f]) # None
    BY <2>2, EntryAssumption
  <2>6. \A g \in Files : Label(mem)'[g] = IF g = f THEN "metadata-only" ELSE Label(mem)[g]
    BY <2>1, <2>2, <2>3, <2>5
  <2>7. Label(mem)[f] \in {"present", "metadata-only"} /\ UNCHANGED Label(index)
    BY <2>1, <2>3, <2>4
  <2> HIDE DEF Label
  <2> QED
    BY <2>3, <2>6, <2>7
<1>6. ASSUME NEW f \in Files, Unlink(f) PROVE Shelved'
  BY <1>6 DEF Unlink
<1>7. CASE SaveBatch
  BY <1>7 DEF SaveBatch
<1>8. CASE \/ \E d \in Folders, report \in Reports : OpenFolder(d, report)
           \/ \E f \in Files, report \in Reports : ListLate(f, report)
           \/ \E f \in Files : Skip(f)
           \/ CloseFolder \/ LastBatch \/ SaveFails \/ BatchDeleted
  <2>1. UNCHANGED <<mem, index, cleared>> /\ phase # "idle" /\ phase' # "deleting"
    BY <1>8 DEF OpenFolder, ListLate, Skip, CloseFolder, LastBatch, SaveFails, BatchDeleted
  <2> QED
    BY <2>1
<1>9. CASE SaveFailsAgain \/ Finishes \/ Stops
  BY <1>9 DEF SaveFailsAgain, Finishes, Stops, Ends
<1>10. CASE UNCHANGED vars
  BY <1>10 DEF vars
<1> HIDE DEF Typed, Split, Shelved, Label, TypeOK, running, history
<1> QED
  BY <1>1, <1>3, <1>4, <1>5, <1>6, <1>7, <1>8, <1>9, <1>10 DEF Next, Offloads

(* Each step is one of Custody's, or none. *)
LEMMA CustodyStarts == Init => C!Init
<1> SUFFICES ASSUME Init PROVE C!Init
  OBVIOUS
<1>1. Label(index) = [f \in Files |-> "unknown"]
  BY DEF Init, NoEntries, Label
<1> QED
  BY <1>1 DEF Init, C!Init, C!Nowhere, Digests

LEMMA CustodyStep ==
  ASSUME ~Overlap, Typed, Locked, AsSynced, Shelved, [Next]_vars
  PROVE  [C!Next]_(C!vars)
<1> DEFINE label == Label(index)
<1>1. /\ label \in [Files -> {"unknown", "present", "metadata-only"}]
      /\ \A f \in Files : label[f] = IF index[f] = None THEN "unknown" ELSE index[f].local_state
      /\ local \in [Files -> Digests] /\ drive \in [Files -> Digests] /\ index \in Indexes
      /\ Digests = Contents \cup {None} /\ None \notin Contents
  BY ContentsAssumption DEF Typed, TypeOK, Label, Indexes, Entries, Digests
<1>2. ASSUME UNCHANGED <<local, drive, index, synced, edited, offloaded>>
      PROVE  UNCHANGED C!vars
  BY <1>2 DEF C!vars, Label
<1>3. ASSUME NEW files \in SUBSET Files, \A f \in files : label[f] = "present",
             label' = [f \in Files |-> IF f \in files THEN "metadata-only" ELSE label[f]],
             edited' \subseteq edited, UNCHANGED <<local, drive, synced, offloaded>>
      PROVE  C!Next
  <2>1. C!GivesUp(files)
    BY <1>3 DEF C!GivesUp
  <2> QED
    BY <2>1 DEF C!Next
<1>4. CASE \E f \in Files, c \in Contents : UserWrites(f, c)
  <2>1. PICK f \in Files, c \in Contents : UserWrites(f, c)
    BY <1>4
  <2>2. C!Writes(f, c)
    BY <2>1 DEF UserWrites, C!Writes, Label
  <2> QED
    BY <2>2 DEF C!Next
<1>5. CASE \E f \in Files : UserDeletes(f)
  <2>1. PICK f \in Files : C!Deletes(f)
    BY <1>5 DEF UserDeletes, C!Deletes, Label, history
  <2> QED
    BY <2>1 DEF C!Next
<1>6. CASE \E f \in Files : OtherTrashes(f) \/ \E c \in Contents : OtherUploads(f, c)
  <2>1. PICK f \in Files, c \in Contents \cup {None} : C!ChangesThere(f, c)
    BY <1>6 DEF OtherTrashes, OtherUploads, C!ChangesThere, Label
  <2> QED
    BY <2>1 DEF C!Next
<1>7. CASE \E f \in Files : Push(f)
  <2>1. PICK f \in Files : Push(f)
    BY <1>7
  <2>2. label' = [label EXCEPT ![f] = "present"]
    <3>1. index' = [index EXCEPT ![f] = [content |-> local[f], local_state |-> "present",
                                         unsettled |-> f \in recent]]
      BY <2>1 DEF Push
    <3>2. [content |-> local[f], local_state |-> "present", unsettled |-> f \in recent] # None
      <4>1. local[f] \in Contents /\ (f \in recent) \in BOOLEAN
        BY <1>1, <2>1 DEF Push
      <4>2. [content |-> local[f], local_state |-> "present", unsettled |-> f \in recent] \in Entries
        BY <4>1 DEF Entries
      <4> QED
        BY <4>2, EntryAssumption
    <3> QED
      BY <1>1, <3>1, <3>2 DEF Label, Indexes
  <2>3. C!Uploads(f)
    BY <2>1, <2>2 DEF Push, C!Uploads
  <2> QED
    BY <2>3 DEF C!Next
<1>8. CASE \E f \in Files : Pull(f)
  <2>1. PICK f \in Files : Pull(f)
    BY <1>8
  <2>2. label' = [label EXCEPT ![f] = "present"] /\ label[f] # "unknown"
    <3>1. index' = [index EXCEPT ![f] = [content |-> drive[f], local_state |-> "present",
                                         unsettled |-> TRUE]]
      BY <2>1 DEF Pull
    <3>2. [content |-> drive[f], local_state |-> "present", unsettled |-> TRUE] # None
      <4>1. drive[f] \in Contents
        BY <1>1, <2>1 DEF Pull
      <4>2. [content |-> drive[f], local_state |-> "present", unsettled |-> TRUE] \in Entries
        BY <4>1 DEF Entries
      <4> QED
        BY <4>2, EntryAssumption
    <3>3. label[f] # "unknown"
      BY <1>1, <2>1 DEF Pull, Indexes, Entries
    <3> QED
      BY <1>1, <3>1, <3>2, <3>3 DEF Label, Indexes
  <2>3. C!Downloads(f)
    BY <2>1, <2>2 DEF Pull, C!Downloads
  <2> QED
    BY <2>3 DEF C!Next
<1>9. CASE \E trashed \in SUBSET Files : TrashDeletions(trashed)
  <2>1. PICK trashed \in SUBSET Files : TrashDeletions(trashed)
    BY <1>9
  <2>2. \A f \in trashed : label[f] = "present" /\ local[f] = None
    BY <1>1, <2>1 DEF TrashDeletions, Deletions, Held_and_gone, OnDisk, Indexes, Entries
  <2>3. \E f \in Files \ trashed : label[f] = "present"
    BY <1>1, <2>1, <2>2 DEF TrashDeletions, Present, Indexes, Entries
  <2>4. label' = [f \in Files |-> IF f \in trashed THEN "unknown" ELSE label[f]]
    BY <2>1 DEF TrashDeletions, Label
  <2>5. C!PassesOn(trashed)
    BY <2>1, <2>2, <2>3, <2>4 DEF TrashDeletions, C!PassesOn, history
  <2> QED
    BY <2>5 DEF C!Next
<1>10. CASE OtherSaves
  <2>1. index' = index
    BY <1>10 DEF OtherSaves, Locked
  <2> QED
    BY <1>2, <1>10, <2>1 DEF OtherSaves, history
<1>11. CASE SaveBatch \/ Finishes
  <2>1. /\ index' = mem /\ phase # "idle" /\ edited' \subseteq edited
        /\ UNCHANGED <<local, drive, synced, offloaded>>
    BY <1>11 DEF SaveBatch, Finishes, Ends, history
  <2> DEFINE files == {f \in Files : Label(mem)[f] # label[f]}
  <2>2. \A f \in files : label[f] = "present" /\ Label(mem)[f] = "metadata-only"
    BY <2>1 DEF Shelved
  <2>3. label' = [f \in Files |-> IF f \in files THEN "metadata-only" ELSE label[f]]
    BY <2>1, <2>2 DEF Label
  <2> HIDE DEF files, label
  <2>4. files \in SUBSET Files
    BY DEF files
  <2> QED
    BY <1>3, <2>1, <2>2, <2>3, <2>4
<1>12. CASE \E f \in Files : Unlink(f)
  <2>1. PICK f \in Files : Unlink(f)
    BY <1>12
  <2>2. label[f] = "metadata-only"
    BY <2>1 DEF Unlink, Shelved
  <2>3. local[f] = synced[f] \/ f \in edited
    BY <2>1 DEF Unlink, AsSynced, ClearedSynced, OnDisk
  <2>4. C!TakesAway(f)
    BY <2>1, <2>2, <2>3 DEF Unlink, C!TakesAway, Label
  <2> QED
    BY <2>4 DEF C!Next
<1>13. CASE SaveFailsAgain \/ Stops
  <2>1. C!GivesUp({})
    BY <1>13 DEF SaveFailsAgain, Stops, Ends, C!GivesUp, Label
  <2> QED
    BY <2>1 DEF C!Next
<1>14. CASE \/ \E f \in Files : Settles(f) \/ Skip(f) \/ Clear(f)
            \/ OtherLoads
            \/ \E scope \in SUBSET Files, verify, window \in BOOLEAN : Begin(scope, verify, window)
            \/ \E d \in Folders, report \in Reports : OpenFolder(d, report)
            \/ \E f \in Files, report \in Reports : ListLate(f, report)
            \/ CloseFolder \/ LastBatch \/ SaveFails \/ BatchDeleted \/ UNCHANGED vars
  <2>1. UNCHANGED <<local, drive, index, synced, edited, offloaded>>
    BY <1>14 DEF Settles, Skip, Clear, OtherLoads, Begin, OpenFolder, ListLate, CloseFolder,
                 LastBatch, SaveFails, BatchDeleted, vars, history
  <2> QED
    BY <1>2, <2>1
<1> QED
  BY <1>4, <1>5, <1>6, <1>7, <1>8, <1>9, <1>10, <1>11, <1>12, <1>13, <1>14
     DEF Next, Environment, Commands, Offloads

(* Offload's batches, and the commands around them, keep custody: the      *)
(* saved index gives a copy up before it goes, what goes is what was last  *)
(* synced, and only what the user deleted is trashed.                      *)
THEOREM OffloadImplementsCustody ==
  ASSUME ~Overlap
  PROVE  Spec => OffloadKeepsCustody
<1>1. Init => AsSynced /\ Shelved
  BY DEF Init, NoEntries, AsSynced, EntriesSynced, ClearedSynced, Shelved
<1>2. Typed /\ Locked /\ AsSynced /\ [Next]_vars => AsSynced'
  BY SyncHolds
<1>3. Typed /\ Shelved /\ [Next]_vars => Shelved'
  BY ShelvedHolds
<1>4. Typed /\ Locked /\ AsSynced /\ Shelved /\ [Next]_vars => [C!Next]_(C!vars)
  BY CustodyStep
<1> QED
  BY LockedAlways, CustodyStarts, <1>1, <1>2, <1>3, <1>4, PTL DEF Spec, OffloadKeepsCustody, C!Spec
=============================================================================
