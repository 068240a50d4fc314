------------------------------- MODULE Offload -------------------------------
(***************************************************************************)
(* protonfs offload on one host: files that a listing confirms on Drive    *)
(* are recorded as metadata-only, the index is saved, and only then are    *)
(* their local copies deleted, batch by batch.                             *)
(*                                                                         *)
(* A kill, a Drive error or a failed save may fall between any two steps,  *)
(* and the user and other devices go on meanwhile.  The other commands of  *)
(* this host take the repo lock, so each is one step between offloads; but *)
(* a process reads the index before it takes the lock, and saves what it   *)
(* read then (constant Overlap).                                           *)
(***************************************************************************)
EXTENDS Diff

CONSTANTS
  Files,        \* the tracked paths
  Folders,      \* the folders they are in
  FolderOf,     \* the folder a path is in
  Reports,      \* what a listing tells of its files: "full", "size" or "nothing"
  Overlap       \* may another process read the index before a command and save it after?

ASSUME OffloadAssumption ==
  /\ FolderOf \in [Files -> Folders]
  /\ Reports \subseteq {"full", "size", "nothing"}
  /\ Overlap \in BOOLEAN

VARIABLES
  local,      \* the local files
  recent,     \* the files modified within the settle window
  drive,      \* the nodes on Drive
  index,      \* index.json
  stale,      \* the index another process read, {} or the set of that one index
  mem,        \* the running offload's index
  phase,      \* where the running offload is
  cmd,        \* its arguments: verify, and whether a settle window is set
  todo,       \* the candidates it has not checked
  folder,     \* the folder it is checking
  listing,    \* that folder's listing: {} before it is fetched, else the set of it
  cleared,    \* the files verified, to delete after a save
  resave,     \* one save of the batch has failed
  offloaded,  \* history: deleted by offload and not back since
  synced,     \* history: the content of each path this host last pushed or pulled
  edited,     \* history: cleared files the user wrote after they were checked
  excused     \* history: cleared files that Drive need not hold in the same content

running == <<mem, phase, cmd, todo, folder, listing, cleared, resave>>
history == <<offloaded, synced, edited, excused>>
vars == <<local, recent, drive, index, stale, running, history>>

-----------------------------------------------------------------------------
(* An entry, with whether last_synced falls within min_age of the mtime.   *)
Entries == [content : Contents, local_state : {"present", "metadata-only"},
            unsettled : BOOLEAN]
ASSUME EntryAssumption == None \notin Entries

Indexes == [Files -> Entries \cup {None}]
Listings == [Files -> [claimed_size : Nat \cup {None}, sha1 : Digests] \cup {None}]

Present(idx) == {f \in Files : idx[f] # None /\ idx[f].local_state = "present"}
OnDisk == {f \in Files : local[f] # None}
InFolder == {f \in todo : FolderOf[f] = folder}

TypeOK ==
  /\ local \in [Files -> Digests]
  /\ recent \subseteq Files
  /\ drive \in [Files -> Digests]
  /\ index \in Indexes
  /\ stale \subseteq Indexes
  /\ mem \in Indexes
  /\ phase \in {"idle", "between", "checking", "saving", "deleting"}
  /\ cmd \in [verify : BOOLEAN, window : BOOLEAN]
  /\ todo \subseteq Files
  /\ folder \in Folders \cup {None}
  /\ listing \subseteq Listings
  /\ cleared \subseteq Files
  /\ resave \in BOOLEAN
  /\ offloaded \subseteq Files
  /\ synced \in [Files -> Digests]
  /\ edited \subseteq Files
  /\ excused \subseteq Files

NoEntries == [f \in Files |-> None]
NoCommand == [verify |-> TRUE, window |-> TRUE]

Init ==
  /\ local \in [Files -> Digests]
  /\ recent = {}
  /\ drive = [f \in Files |-> None]
  /\ index = NoEntries
  /\ stale = {}
  /\ mem = NoEntries
  /\ phase = "idle"
  /\ cmd = NoCommand
  /\ todo = {}
  /\ folder = None
  /\ listing = {}
  /\ cleared = {}
  /\ resave = FALSE
  /\ offloaded = {}
  /\ synced = [f \in Files |-> None]
  /\ edited = {}
  /\ excused = {}

(* The process is over and its memory gone. *)
Ends ==
  /\ phase' = "idle"
  /\ mem' = NoEntries
  /\ cmd' = NoCommand
  /\ todo' = {}
  /\ folder' = None
  /\ listing' = {}
  /\ cleared' = {}
  /\ resave' = FALSE
  /\ edited' = {}
  /\ excused' = {}

-----------------------------------------------------------------------------
(* The user, time, and other devices.                                      *)

UserWrites(f, c) ==
  /\ local' = [local EXCEPT ![f] = c]
  /\ recent' = recent \cup {f}
  /\ offloaded' = offloaded \ {f}
  /\ edited' = edited \cup ({f} \cap cleared)
  /\ UNCHANGED <<drive, index, stale, running, synced, excused>>

UserDeletes(f) ==
  /\ local[f] # None
  /\ local' = [local EXCEPT ![f] = None]
  /\ UNCHANGED <<recent, drive, index, stale, running, history>>

Settles(f) ==
  /\ f \in recent
  /\ recent' = recent \ {f}
  /\ UNCHANGED <<local, drive, index, stale, running, history>>

(* A listing fetched before says nothing of the node any more. *)
OutdatesListing(f) ==
  excused' = IF f \in cleared \/ (listing # {} /\ FolderOf[f] = folder)
             THEN excused \cup {f} ELSE excused

OtherUploads(f, c) ==
  /\ drive' = [drive EXCEPT ![f] = c]
  /\ OutdatesListing(f)
  /\ UNCHANGED <<local, recent, index, stale, running, offloaded, synced, edited>>

OtherTrashes(f) ==
  /\ drive[f] # None
  /\ drive' = [drive EXCEPT ![f] = None]
  /\ OutdatesListing(f)
  /\ UNCHANGED <<local, recent, index, stale, running, offloaded, synced, edited>>

-----------------------------------------------------------------------------
(* This host's other commands, each within the lock.                       *)

(* A command begins: none runs and, without Overlap, none has read the     *)
(* index and not yet saved it.                                             *)
Free == phase = "idle" /\ (Overlap \/ stale = {})

(* push verifies a file on Drive and records it. *)
Push(f) ==
  /\ Free
  /\ local[f] # None
  /\ drive' = [drive EXCEPT ![f] = local[f]]
  /\ synced' = [synced EXCEPT ![f] = local[f]]
  /\ index' = [index EXCEPT ![f] = [content |-> local[f], local_state |-> "present",
                                    unsettled |-> f \in recent]]
  /\ UNCHANGED <<local, recent, stale, running, offloaded, edited, excused>>

Pull(f) ==
  /\ Free
  /\ index[f] # None
  /\ local[f] = None
  /\ drive[f] # None
  /\ local' = [local EXCEPT ![f] = drive[f]]
  /\ recent' = recent \cup {f}
  /\ index' = [index EXCEPT ![f] = [content |-> drive[f], local_state |-> "present",
                                    unsettled |-> TRUE]]
  /\ offloaded' = offloaded \ {f}
  /\ synced' = [synced EXCEPT ![f] = drive[f]]
  /\ UNCHANGED <<drive, stale, running, edited, excused>>

(* What push --deletions trash calls local deletions.  Some are left alone *)
(* (moved, ignored or exported ones); a run that would trash everything    *)
(* this machine holds is refused.                                          *)
Deletions ==
  {f \in Files :
     /\ index[f] # None
     /\ Held_and_gone(IF index[f].local_state = "present" THEN "remote-only"
                      ELSE "metadata-only", index[f], f \in OnDisk)}

TrashDeletions(trashed) ==
  /\ Free
  /\ trashed # {}
  /\ trashed \subseteq Deletions
  /\ trashed # Present(index)
  /\ drive' = [f \in Files |-> IF f \in trashed THEN None ELSE drive[f]]
  /\ index' = [f \in Files |-> IF f \in trashed THEN None ELSE index[f]]
  /\ UNCHANGED <<local, recent, stale, running, history>>

(* Any other command: load_context reads the index, repo_lock comes later, *)
(* and the command's save writes what it read where it changed nothing.    *)
OtherLoads ==
  /\ phase = "idle" \/ Overlap
  /\ stale' = {index}
  /\ UNCHANGED <<local, recent, drive, index, running, history>>

OtherSaves ==
  /\ phase = "idle"
  /\ \E read \in stale : index' = read
  /\ stale' = {}
  /\ UNCHANGED <<local, recent, drive, running, history>>

-----------------------------------------------------------------------------
(* offload                                                                 *)

(* The candidates: held here by the index, in scope (a subpath, or the     *)
(* paths prune chose), and on disk.                                        *)
Begin(scope, verify, window) ==
  /\ Free
  /\ scope \cap Present(index) \cap OnDisk # {}
  /\ mem' = index
  /\ todo' = scope \cap Present(index) \cap OnDisk
  /\ cmd' = [verify |-> verify, window |-> window]
  /\ phase' = "between"
  /\ UNCHANGED <<local, recent, drive, index, stale, folder, listing, cleared, resave,
                 history>>

(* remote_identities of the folder: Drive may not report a size or digest. *)
Listing(report) ==
  [f \in Files |->
     IF drive[f] = None \/ FolderOf[f] # folder' THEN None
     ELSE [claimed_size |-> IF report = "nothing" THEN None ELSE Size[drive[f]],
           sha1 |-> IF report = "full" THEN drive[f] ELSE None]]

OpenFolder(d, report) ==
  /\ phase = "between"
  /\ \E f \in todo : FolderOf[f] = d
  /\ folder' = d
  /\ listing' = IF cmd.verify THEN {Listing(report)} ELSE {}
  /\ phase' = "checking"
  /\ UNCHANGED <<local, recent, drive, index, stale, mem, cmd, todo, cleared, resave,
                 history>>

Settled(f) == cmd.window => f \notin recent
(* Mutant: an edit since the last sync is not noticed. *)
AssumedUnedited(f) == mem[f] # None

Unedited(f) == local[f] = mem[f].content
Must_verify(f) == cmd.verify \/ (cmd.window /\ mem[f].unsettled)

(* Without --verify the listing is fetched for the first file pushed while *)
(* still unsettled.                                                        *)
ListLate(f, report) ==
  /\ phase = "checking"
  /\ f \in InFolder \cap OnDisk
  /\ Settled(f) /\ Unedited(f) /\ Must_verify(f)
  /\ listing = {}
  /\ folder' = folder
  /\ listing' = {Listing(report)}
  /\ UNCHANGED <<local, recent, drive, index, stale, mem, phase, cmd, todo, cleared,
                 resave, history>>

(* Mutant: the size alone confirms. *)
SizeConfirms(l, f) == l[f] # None /\ l[f].claimed_size = Size[local[f]]

Confirms(l, f) ==
  /\ l[f] # None
  /\ l[f].claimed_size = Size[local[f]]
  /\ l[f].sha1 = None \/ l[f].sha1 = mem[f].content

(* replace(entry, local_state="metadata-only") *)
Demoted(entry) ==
  [content |-> entry.content, local_state |-> "metadata-only",
   unsettled |-> entry.unsettled]

Confirmed(f) == \E l \in listing : Confirms(l, f)

Skip(f) ==
  /\ phase = "checking"
  /\ f \in InFolder \cap OnDisk
  /\ \/ ~Settled(f)
     \/ ~Unedited(f)
     \/ Must_verify(f) /\ listing # {} /\ ~Confirmed(f)
  /\ todo' = todo \ {f}
  /\ UNCHANGED <<local, recent, drive, index, stale, mem, phase, cmd, folder, listing,
                 cleared, resave, history>>

Clear(f) ==
  /\ phase = "checking"
  /\ f \in InFolder \cap OnDisk
  /\ Settled(f)
  /\ Unedited(f)
  /\ Must_verify(f) => Confirmed(f)
  /\ todo' = todo \ {f}
  /\ cleared' = cleared \cup {f}
  /\ mem' = [mem EXCEPT ![f] = Demoted(mem[f])]
  /\ excused' = IF Must_verify(f) /\ \A l \in listing : l[f].sha1 # None
                THEN excused ELSE excused \cup {f}
  /\ UNCHANGED <<local, recent, drive, index, stale, phase, cmd, folder, listing, resave,
                 offloaded, synced, edited>>

(* The folder is done; the batch is deleted if a checkpoint is due. *)
CloseFolder ==
  /\ phase = "checking"
  /\ InFolder = {}
  /\ \/ phase' = "between"
     \/ cleared # {} /\ phase' = "saving"
  /\ folder' = None
  /\ listing' = {}
  /\ excused' = excused \cap cleared
  /\ UNCHANGED <<local, recent, drive, index, stale, mem, cmd, todo, cleared, resave,
                 offloaded, synced, edited>>

(* Mutant: the last batch is deleted before the final save. *)
LastBatchUnsaved ==
  /\ phase = "between"
  /\ todo = {}
  /\ cleared # {}
  /\ phase' = "deleting"
  /\ UNCHANGED <<local, recent, drive, index, stale, mem, cmd, todo, folder, listing,
                 cleared, resave, history>>

(* After the last folder, the rest of them. *)
LastBatch ==
  /\ phase = "between"
  /\ todo = {}
  /\ cleared # {}
  /\ phase' = "saving"
  /\ UNCHANGED <<local, recent, drive, index, stale, mem, cmd, todo, folder, listing,
                 cleared, resave, history>>

SaveBatch ==
  /\ phase = "saving"
  /\ index' = mem
  /\ phase' = "deleting"
  /\ resave' = FALSE
  /\ UNCHANGED <<local, recent, drive, stale, mem, cmd, todo, folder, listing, cleared,
                 history>>

(* Mutant: a failed save is not tried again, and the batch deleted. *)
SaveFailureIgnored ==
  /\ phase = "saving"
  /\ phase' = "deleting"
  /\ UNCHANGED <<local, recent, drive, index, stale, mem, cmd, todo, folder, listing,
                 cleared, resave, history>>

(* A failed save is tried again. *)
SaveFails ==
  /\ phase = "saving"
  /\ ~resave
  /\ resave' = TRUE
  /\ UNCHANGED <<local, recent, drive, index, stale, mem, phase, cmd, todo, folder,
                 listing, cleared, history>>

(* The second failure ends offload. *)
SaveFailsAgain ==
  /\ phase = "saving"
  /\ resave
  /\ Ends
  /\ UNCHANGED <<local, recent, drive, index, stale, offloaded, synced>>

Unlink(f) ==
  /\ phase = "deleting"
  /\ f \in cleared \cap OnDisk
  /\ local' = [local EXCEPT ![f] = None]
  /\ cleared' = cleared \ {f}
  /\ offloaded' = offloaded \cup {f}
  /\ edited' = edited \ {f}
  /\ excused' = excused \ {f}
  /\ UNCHANGED <<recent, drive, index, stale, mem, phase, cmd, todo, folder, listing,
                 resave, synced>>

BatchDeleted ==
  /\ phase = "deleting"
  /\ cleared = {}
  /\ phase' = "between"
  /\ UNCHANGED <<local, recent, drive, index, stale, mem, cmd, todo, folder, listing,
                 cleared, resave, history>>

(* Nothing is left to check or to delete. *)
Finishes ==
  /\ phase = "between"
  /\ todo = {}
  /\ cleared = {}
  /\ index' = mem
  /\ Ends
  /\ UNCHANGED <<local, recent, drive, stale, offloaded, synced>>

(* A candidate is gone when it is read or deleted, which raises; a Drive   *)
(* error, Ctrl-C, a kill, a failed last save.                              *)
Stops ==
  /\ phase # "idle"
  /\ Ends
  /\ UNCHANGED <<local, recent, drive, index, stale, offloaded, synced>>

-----------------------------------------------------------------------------
Environment ==
  \E f \in Files :
    \/ \E c \in Contents : UserWrites(f, c) \/ OtherUploads(f, c)
    \/ UserDeletes(f) \/ Settles(f) \/ OtherTrashes(f)

Commands ==
  \/ \E f \in Files : Push(f) \/ Pull(f)
  \/ \E trashed \in SUBSET Files : TrashDeletions(trashed)
  \/ OtherLoads \/ OtherSaves

Offloads ==
  \/ \E scope \in SUBSET Files, verify, window \in BOOLEAN : Begin(scope, verify, window)
  \/ \E d \in Folders, report \in Reports : OpenFolder(d, report)
  \/ \E f \in Files, report \in Reports : ListLate(f, report)
  \/ \E f \in Files : Skip(f) \/ Clear(f) \/ Unlink(f)
  \/ CloseFolder \/ LastBatch \/ SaveBatch \/ SaveFails \/ SaveFailsAgain
  \/ BatchDeleted \/ Finishes \/ Stops

Next == Environment \/ Commands \/ Offloads

Spec == Init /\ [][Next]_vars

-----------------------------------------------------------------------------
(* Whatever interrupts an offload, the saved index never says that a file  *)
(* it deleted is held here.                                                *)
OffloadedIsNotHeld == offloaded \cap Present(index) = {}

(* push --deletions trash never takes a file that offload deleted for one  *)
(* the user deleted, and so never trashes the only copy.                   *)
TrashSparesOffloaded ==
  [][\A trashed \in SUBSET Files : TrashDeletions(trashed) => trashed \cap offloaded = {}]_vars

(* Even with --no-verify offload deletes only the content last pushed or   *)
(* pulled, unless the file was written after it was checked.               *)
DeletesOnlySynced ==
  [][\A f \in Files : Unlink(f) /\ f \notin edited => local[f] = synced[f]]_vars

(* What was verified against digests is on Drive when it is deleted here,  *)
(* if neither side changed since the listing: batches, lazy listings and   *)
(* retried saves let no older verdict through.                             *)
DeletesOnlyCopies ==
  [][\A f \in Files : Unlink(f) /\ f \notin edited \cup excused => drive[f] = local[f]]_vars

(* Batches, checkpoints, late listings, failed saves and kills are nothing *)
(* but this: the saved index says so before a copy goes, and what goes is  *)
(* what was synced (Custody).                                              *)
Label(idx) == [f \in Files |-> IF idx[f] = None THEN "unknown" ELSE idx[f].local_state]
C == INSTANCE Custody WITH here <- local, there <- drive, label <- Label(index),
                           known <- synced, late <- edited, taken <- offloaded
OffloadKeepsCustody == C!Spec
=============================================================================
