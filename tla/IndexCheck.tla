----------------------------- MODULE IndexCheck -----------------------------
(***************************************************************************)
(* The re-verification of an index that an earlier release wrote: every    *)
(* entry is compared with a listing of its directory, what the comparison  *)
(* proves is repaired, and an index whose entries were all settled is      *)
(* recorded at the current check level.  upgrade runs it for an index      *)
(* below that level, verify --index --repair whenever it is asked to.      *)
(*                                                                         *)
(* One path of the index is followed; of the others it only matters        *)
(* whether their listings settled them.  The command loads the index,      *)
(* takes the repo lock, lists the directories, repairs the index in memory *)
(* and saves it; the user and other devices act between any two of these   *)
(* steps, the other commands of this host until the lock is taken.         *)
(***************************************************************************)
EXTENDS Diff

CONSTANTS
  Stubs,      \* the contents that parse as a git-LFS pointer stub
  EncSize,    \* the encrypted size of a content
  Reports     \* what a listing tells of a node: "full", "size" or "nothing"

ASSUME CheckAssumption ==
  /\ Stubs \subseteq Contents
  /\ EncSize \in [Contents -> Nat]
  /\ Reports \subseteq {"full", "size", "nothing"}
  /\ None \notin IndexEntries

VARIABLES
  file,      \* the local file
  node,      \* its node on Drive
  disk,      \* index.json: the entry, and whether the index is at the current level
  mem,       \* the command's index
  phase,     \* where the command is
  finding,   \* what it found out about this path
  rest,      \* are the entries of all other paths settled so far?
  kept,      \* history: the size of every content that was on Drive
  touched,   \* history: something changed at the path since the command's load
  settled    \* history: an index check settled everything, and nothing changed since

checkVars == <<file, node, disk, mem, phase, finding, rest, kept, touched, settled>>

-----------------------------------------------------------------------------
(* An index, and as a history field whether its entry was reported as      *)
(* suspect since it was recorded.                                          *)
Stores == [entry : IndexEntries \cup {None}, current : BOOLEAN, suspect : BOOLEAN]

(* A new index holds only what this release records. *)
Empty == [entry |-> None, current |-> TRUE, suspect |-> FALSE]

(* The verdicts that say Drive's copy is not the one the entry records. *)
Mismatches == {"missing", "remote-larger", "remote-smaller", "digest-differs"}

Verdicts == Mismatches \cup {"ok", "unsized", "unlisted"}

Nodes == [content : Contents, report : Reports]

CheckTypeOK ==
  /\ file \in Digests
  /\ node \in Nodes \cup {None}
  /\ disk \in Stores
  /\ mem \in Stores
  /\ phase \in {"idle", "loaded", "checking", "repaired"}
  /\ finding \in [verdict : Verdicts, ident : RemoteEntries \cup {None}] \cup {None}
  /\ rest \in BOOLEAN
  /\ kept \subseteq Nat
  /\ touched \in BOOLEAN
  /\ settled \in BOOLEAN

Entry(c, state) ==
  [size |-> Size[c], sha256 |-> c, sha1 |-> c, local_state |-> state]

(* What earlier releases recorded: any content as delivered, and no sha1   *)
(* when the entry was migrated from schema 1.                              *)
Old_entries ==
  {Entry(c, state) : c \in Contents, state \in {"present", "metadata-only"}}
    \cup {[Entry(c, state) EXCEPT !.sha1 = None] :
            c \in Contents, state \in {"present", "metadata-only"}}

Old_indexes == [entry : Old_entries, current : {FALSE}, suspect : {FALSE}]

CheckInit ==
  /\ file \in Digests
  /\ node \in {n \in Nodes \cup {None} : n = None \/ n.content \notin Stubs}
  /\ disk \in Old_indexes \cup {Empty}
  /\ mem = Empty
  /\ phase = "idle"
  /\ finding = None
  /\ rest = TRUE
  /\ kept = IF node = None THEN {} ELSE {Size[node.content]}
  /\ touched = FALSE
  /\ settled = FALSE

(* RemoteIdentity: what a listing says of the node. *)
Ident ==
  IF node = None THEN None
  ELSE [claimed_size |-> IF node.report = "nothing" THEN None ELSE Size[node.content],
        sha1 |-> IF node.report = "full" THEN node.content ELSE None,
        size |-> EncSize[node.content]]

(* A real local copy: a git-LFS pointer stub is a placeholder. *)
Here == file \notin Stubs \cup {None}

-----------------------------------------------------------------------------
(* The user, other devices, and the other commands of this host, which the *)
(* repo lock keeps out once it is taken.                                   *)

Touches ==
  /\ touched' = (phase # "idle")
  /\ settled' = FALSE

UserWrites(c) ==
  /\ file' = c
  /\ Touches
  /\ UNCHANGED <<node, disk, mem, phase, finding, rest, kept>>

UserDeletes ==
  /\ file # None
  /\ file' = None
  /\ Touches
  /\ UNCHANGED <<node, disk, mem, phase, finding, rest, kept>>

OtherUploads(c, report) ==
  /\ c \notin Stubs
  /\ node' = [content |-> c, report |-> report]
  /\ kept' = kept \cup {Size[c]}
  /\ Touches
  /\ UNCHANGED <<file, disk, mem, phase, finding, rest>>

OtherTrashes ==
  /\ node # None
  /\ node' = None
  /\ Touches
  /\ UNCHANGED <<file, disk, mem, phase, finding, rest, kept>>

Records(entry) ==
  /\ phase \in {"idle", "loaded"}
  /\ disk' = [disk EXCEPT !.entry = entry, !.suspect = FALSE]
  /\ Touches
  /\ UNCHANGED <<mem, phase, finding, rest>>

(* push, of a file its listing then shows at its size. *)
Push(report) ==
  /\ Here
  /\ disk.entry # None => disk.entry.sha256 # file
  /\ report # "nothing"
  /\ Records(Entry(file, "present"))
  /\ node' = [content |-> file, report |-> report]
  /\ kept' = kept \cup {Size[file]}
  /\ UNCHANGED file

(* pull, of a file that is not here. *)
Pull ==
  /\ file = None
  /\ node # None
  /\ disk.entry # None
  /\ Records(Entry(node.content, "present"))
  /\ file' = node.content
  /\ UNCHANGED <<node, kept>>

(* offload, of the content last synced: unless --no-verify, a listing      *)
(* confirms it.                                                            *)
Offload(verify) ==
  /\ disk.entry # None
  /\ disk.entry.local_state = "present"
  /\ file # None
  /\ file = disk.entry.sha256
  /\ verify => /\ node # None
               /\ Ident.claimed_size = Size[file]
               /\ Ident.sha1 \in {None, disk.entry.sha1}
  /\ phase \in {"idle", "loaded"}
  /\ file' = None
  /\ disk' = [disk EXCEPT !.entry.local_state = "metadata-only"]
  /\ Touches
  /\ UNCHANGED <<node, mem, phase, finding, rest, kept>>

(* refresh, of a file on Drive that neither the index nor the scan has. *)
Seed ==
  /\ file = None
  /\ disk.entry = None
  /\ node # None
  /\ Records([size |-> Ident.size, sha256 |-> None, sha1 |-> None,
              local_state |-> "metadata-only"])
  /\ UNCHANGED <<file, node, kept>>

-----------------------------------------------------------------------------
(* The command.                                                            *)

(* load_context; upgrade has nothing to check in an empty index or in one  *)
(* at the current level.                                                   *)
Load(by) ==
  /\ phase = "idle"
  /\ by = "upgrade" => disk.entry # None /\ ~disk.current
  /\ mem' = disk
  /\ phase' = "loaded"
  /\ touched' = FALSE
  /\ UNCHANGED <<file, node, disk, finding, rest, kept, settled>>

(* repo_lock; upgrade does not read the index again. *)
Lock ==
  /\ phase = "loaded"
  /\ phase' = "checking"
  /\ rest' = TRUE
  /\ UNCHANGED <<file, node, disk, mem, finding, kept, touched, settled>>

(* _verdict *)
Verdict(entry, ident) ==
  IF ident = None THEN "missing"
  ELSE CASE ident.claimed_size = None -> "unsized"
         [] ident.claimed_size # None /\ ident.claimed_size > entry.size -> "remote-larger"
         [] ident.claimed_size # None /\ ident.claimed_size < entry.size -> "remote-smaller"
         [] OTHER -> IF None \notin {ident.sha1, entry.sha1} /\ ident.sha1 # entry.sha1
                     THEN "digest-differs" ELSE "ok"

(* check_index, this path's directory: a failed listing leaves the entry   *)
(* without a verdict.                                                      *)
ListsPath(fails) ==
  /\ phase = "checking"
  /\ mem.entry # None
  /\ finding = None
  /\ finding' = IF fails THEN [verdict |-> "unlisted", ident |-> None]
                ELSE [verdict |-> Verdict(mem.entry, Ident), ident |-> Ident]
  /\ UNCHANGED <<file, node, disk, mem, phase, rest, kept, touched, settled>>

(* check_index, another directory: its listing fails, or shows a copy      *)
(* without a size.                                                         *)
ListsOther ==
  /\ phase = "checking"
  /\ rest' = FALSE
  /\ UNCHANGED <<file, node, disk, mem, phase, finding, kept, touched, settled>>

(* IndexCheck.complete *)
Complete ==
  /\ finding # None => finding.verdict \notin {"unlisted", "unsized"}
  /\ rest

(* Mutant: Drive's encrypted size is recorded. *)
Drive_copy_encrypted(entry, ident) ==
  [size |-> ident.size, sha256 |-> None, sha1 |-> ident.sha1, local_state |-> "metadata-only"]
(* _drive_copy *)
Drive_copy(entry, ident) ==
  [size |-> ident.claimed_size, sha256 |-> None, sha1 |-> ident.sha1,
   local_state |-> "metadata-only"]

(* Mutant: a stub is taken for a local copy. *)
Repaired_stub(entry, verdict, ident) ==
  CASE verdict = "ok" ->
         IF entry.local_state = "metadata-only" /\ entry.sha1 = None
         THEN [entry EXCEPT !.sha1 = ident.sha1] ELSE entry
    [] verdict \in Mismatches ->
         IF entry.local_state = "present" /\ file # None THEN None
         ELSE IF verdict = "remote-larger" THEN Drive_copy(entry, ident) ELSE entry
    [] OTHER -> entry

(* repair_index: the entry it leaves. *)
Repaired(entry, verdict, ident) ==
  CASE verdict = "ok" ->
         IF entry.local_state = "metadata-only" /\ entry.sha1 = None
         THEN [entry EXCEPT !.sha1 = ident.sha1] ELSE entry
    [] verdict \in Mismatches ->
         IF entry.local_state = "present" /\ Here THEN None
         ELSE IF verdict = "remote-larger" THEN Drive_copy(entry, ident) ELSE entry
    [] OTHER -> entry

(* What the findings and the list of suspects say of the entry. *)
Suspect ==
  CASE finding # None /\ finding.verdict \in Mismatches ->
         Repaired(mem.entry, finding.verdict, finding.ident) = mem.entry
    [] finding # None /\ finding.verdict = "ok" -> FALSE
    [] OTHER -> mem.suspect

(* Mutant: one checked path raises the level. *)
Repairs_not_all ==
  /\ phase = "checking"
  /\ (mem.entry = None) = (finding = None)
  /\ mem' = [entry |-> IF finding = None THEN None
                       ELSE Repaired(mem.entry, finding.verdict, finding.ident),
             current |-> mem.current \/ rest,
             suspect |-> Suspect]
  /\ phase' = "repaired"
  /\ UNCHANGED <<file, node, disk, finding, rest, kept, touched, settled>>

(* repair_index and set_check_level. *)
Repairs ==
  /\ phase = "checking"
  /\ (mem.entry = None) = (finding = None)
  /\ mem' = [entry |-> IF finding = None THEN None
                       ELSE Repaired(mem.entry, finding.verdict, finding.ident),
             current |-> mem.current \/ Complete,
             suspect |-> Suspect]
  /\ phase' = "repaired"
  /\ UNCHANGED <<file, node, disk, finding, rest, kept, touched, settled>>

CheckEnds ==
  /\ mem' = Empty
  /\ phase' = "idle"
  /\ finding' = None
  /\ rest' = TRUE
  /\ touched' = FALSE

Saves ==
  /\ phase = "repaired"
  /\ disk' = mem
  /\ settled' = (Complete /\ ~touched)
  /\ CheckEnds
  /\ UNCHANGED <<file, node, kept>>

(* Throttling, a lost session, a kill or a failed save: nothing changes. *)
CheckStops ==
  /\ phase # "idle"
  /\ CheckEnds
  /\ UNCHANGED <<file, node, disk, kept, settled>>

-----------------------------------------------------------------------------
Surroundings ==
  \/ \E c \in Contents : UserWrites(c)
  \/ UserDeletes
  \/ \E c \in Contents, report \in Reports : OtherUploads(c, report)
  \/ OtherTrashes

Others ==
  \/ \E report \in Reports : Push(report)
  \/ Pull
  \/ \E verify \in BOOLEAN : Offload(verify)
  \/ Seed

Command ==
  \/ \E by \in {"upgrade", "verify"} : Load(by)
  \/ Lock
  \/ \E fails \in BOOLEAN : ListsPath(fails)
  \/ ListsOther \/ Repairs \/ Saves \/ CheckStops

CheckNext == Surroundings \/ Others \/ Command

CheckSpec == CheckInit /\ [][CheckNext]_checkVars

-----------------------------------------------------------------------------
(* The check level is earned: in an index at the current level a present   *)
(* entry has the size of something that was on Drive at its path, unless   *)
(* the entry was reported as suspect.                                      *)
LevelIsEarned ==
  disk.current /\ disk.entry # None /\ disk.entry.local_state = "present" /\ ~disk.suspect
    => disk.entry.size \in kept

(* A repair leaves nothing for the next one: run again on what it left,    *)
(* with nothing changed meanwhile, it finds the entry right or suspect and *)
(* does not change it.                                                     *)
RepairSettles ==
  settled /\ disk.entry # None
    => LET verdict == Verdict(disk.entry, Ident)
       IN /\ verdict = "ok" \/ (verdict \in Mismatches /\ disk.suspect)
          /\ Repaired(disk.entry, verdict, Ident) = disk.entry

(* The repair hides no loss: with nobody at the path meanwhile, a file     *)
(* that is not really here keeps its entry, and one whose copy on Drive is *)
(* not larger than recorded keeps what was recorded of it, so that the     *)
(* difference goes on being seen.                                          *)
RepairHidesNoLoss ==
  [][Saves /\ ~touched /\ ~Here /\ disk.entry # None
       => /\ disk'.entry # None
          /\ node = None \/ Size[node.content] <= disk.entry.size
               => /\ disk'.entry.size = disk.entry.size
                  /\ disk'.entry.local_state = disk.entry.local_state
                  /\ disk.entry.sha1 \in {None, disk'.entry.sha1}]_checkVars
=============================================================================
