------------------------------ MODULE FileSync ------------------------------
(***************************************************************************)
(* One path of one host's store: the local file, its index entry and its   *)
(* node on Drive, while push and pull run, the user edits the file and     *)
(* other devices write the node.                                           *)
(*                                                                         *)
(* The steps of push and pull are the moments at which they read or write  *)
(* shared state: the scan, the listing that chooses a revision, the upload *)
(* or download, the listing that verifies it, the save of the index.       *)
(* Everything may change between two steps.  Refresh, offload and the      *)
(* trashing of local deletions have modules of their own; here each is one *)
(* step.                                                                   *)
(***************************************************************************)
EXTENDS Diff

CONSTANTS
  Stubs,            \* the contents that parse as a git-LFS pointer stub
  Prefixes,         \* the contents that are a proper prefix of a content
  EncSize,          \* the encrypted size of a content
  Reports,          \* what a listing tells of a node: "full", "size" or "nothing"
  PushStrategies,   \* None or the strategy --resolve stands for
  PullResolves,     \* None or "remote"
  SeedSources,      \* "listing" (refresh) and "manifest" (a first pull)
  SilentRevisions,  \* may Drive keep the old revision of an upload it reports done?
  SilentDownloads   \* may a download it reports done not land?

ASSUME SyncAssumption ==
  /\ Stubs \subseteq Contents
  /\ Prefixes \in [Contents -> SUBSET Contents]
  /\ \A c \in Contents : \A p \in Prefixes[c] : Size[p] < Size[c]
  /\ EncSize \in [Contents -> Nat]
  /\ Reports \subseteq {"full", "size", "nothing"}
  /\ PushStrategies \subseteq {None, "merge", "replace", "skip", "keep-both"}
  /\ PullResolves \subseteq {None, "remote"}
  /\ None \notin {"merge", "replace", "skip", "keep-both", "remote"}
  /\ SeedSources \subseteq {"listing", "manifest"}
  /\ SilentRevisions \in BOOLEAN
  /\ SilentDownloads \in BOOLEAN

VARIABLES
  file,     \* the local file
  node,     \* the node on Drive, and (history) who wrote its active revision
  disk,     \* index.json: this path's entry
  mem,      \* the running command's index
  own,      \* the indexes whose underdelivered record names the active revision
  phase,    \* where the running command is
  cmd,      \* what it does with this path
  scanned,  \* what its scan read
  landed,   \* what its download put in place
  calm,     \* from now on nobody but push runs, and nothing fails for good
  kept,     \* history: every content that was on Drive (revisions and trash keep it)
  raced     \* history: have file or node changed while this command ran, and
            \* "since" the scan or listing it last decided by, or only before?

command == <<mem, phase, cmd, scanned, landed>>
vars == <<file, node, disk, own, command, calm, kept, raced>>

-----------------------------------------------------------------------------
(* An index, with two history fields: the Drive content its entry was      *)
(* recorded from, and whether that was taken on trust.  Its underdelivered *)
(* record is compared with the node's revision only, and a revision that   *)
(* was replaced is never active again: own says what that comparison finds.*)
Stores == [entry : IndexEntries \cup {None}, agreed : Digests, doubt : BOOLEAN]
Empty == [entry |-> None, agreed |-> None, doubt |-> FALSE]

Idle == [op |-> "none", strategy |-> None, asked |-> FALSE, adopt |-> FALSE,
         unattributed |-> FALSE, retry |-> FALSE, thumbnails |-> TRUE, silent |-> FALSE]

Phases == {"idle", "scanned", "planned", "sent", "pulling", "landed", "done"}

TypeOK ==
  /\ file \in Digests
  /\ node \in [content : Contents, report : Reports, by : {"here", "other", "claimed"}] \cup {None}
  /\ disk \in Stores
  /\ mem \in Stores
  /\ own \subseteq {"disk", "mem"}
  /\ phase \in Phases
  /\ cmd \in [op : {"none", "push", "pull"},
              strategy : PushStrategies \cup PullResolves \cup {None, "merge"},
              asked : BOOLEAN, adopt : BOOLEAN, unattributed : BOOLEAN, retry : BOOLEAN,
              thumbnails : BOOLEAN, silent : BOOLEAN]
  /\ scanned \in Digests
  /\ landed \in Digests
  /\ calm \in BOOLEAN
  /\ kept \subseteq Contents
  /\ raced \in {"no", "before", "since"}

Init ==
  /\ file \in Digests
  /\ node = None
  /\ disk = Empty
  /\ mem = Empty
  /\ own = {}
  /\ phase = "idle"
  /\ cmd = Idle
  /\ scanned = None
  /\ landed = None
  /\ calm = FALSE
  /\ kept = {}
  /\ raced = "no"

(* remote_identities: what a listing of the folder says of the node. *)
Ident ==
  IF node = None THEN None
  ELSE [claimed_size |-> IF node.report = "nothing" THEN None ELSE Size[node.content],
        sha1 |-> IF node.report = "full" THEN node.content ELSE None,
        size |-> EncSize[node.content]]

(* A new revision, or none: no record names it. *)
Becomes(new) ==
  /\ node' = new
  /\ own' = {}

Written(c, report, who) == [content |-> c, report |-> report, by |-> who]

Entry(c, state) ==
  [size |-> Size[c], sha256 |-> c, sha1 |-> c, local_state |-> state]

(* The local verdict, as push and a plain pull see it. *)
LocalVerdict == Classify(file, file \in Stubs, disk.entry, FALSE, None)
RemoteVerdict == Classify(file, file \in Stubs, disk.entry, TRUE, Ident)

(* load_context reads the index, index.set makes an entry of this path.     *)
Loads ==
  /\ mem' = disk
  /\ own' = IF "disk" \in own THEN {"disk", "mem"} ELSE {}
Sets(entry, agreed, doubt) ==
  /\ mem' = [entry |-> entry, agreed |-> agreed, doubt |-> doubt]
  /\ own' = own \ {"mem"}

(* The command is through with this path. *)
Finish ==
  /\ phase' = "done"
  /\ cmd' = Idle
  /\ scanned' = None
  /\ landed' = None
  /\ raced' = "no"

Races == IF phase \in {"idle", "done"} THEN "no" ELSE "since"

(* Push decides by a listing of the folder: what changed, changed before.  *)
Decides == raced' = IF raced = "no" THEN "no" ELSE "before"

-----------------------------------------------------------------------------
(* The user and other devices.                                             *)

UserWrites(c) ==
  /\ ~calm
  /\ file' = c
  /\ raced' = Races
  /\ UNCHANGED <<own, node, disk, command, calm, kept>>

UserDeletes ==
  /\ ~calm
  /\ file # None
  /\ file' = None
  /\ raced' = Races
  /\ UNCHANGED <<own, node, disk, command, calm, kept>>

OtherUploads(c, report) ==
  /\ ~calm
  /\ Becomes(Written(c, report, "other"))
  /\ kept' = kept \cup {c}
  /\ raced' = Races
  /\ UNCHANGED <<file, disk, command, calm>>

OtherTrashes ==
  /\ ~calm
  /\ node # None
  /\ Becomes(None)
  /\ raced' = Races
  /\ UNCHANGED <<file, disk, command, calm, kept>>

(* From here on only PushConverges is at stake: every content counts as    *)
(* kept, so that fewer states differ.                                      *)
CalmsDown ==
  /\ phase = "idle"
  /\ ~calm
  /\ calm' = TRUE
  /\ kept' = Contents
  /\ raced' = "no"
  /\ UNCHANGED <<own, file, node, disk, command>>

-----------------------------------------------------------------------------
(* push                                                                    *)

(* The scan, and the verdicts push uploads. *)
PushScan(strategy) ==
  /\ phase = "idle"
  /\ calm => strategy = None
  /\ file # None
  /\ LocalVerdict \in {"local-only", "local-modified", "conflict", "both-modified"}
  /\ Loads
  /\ scanned' = file
  /\ cmd' = [Idle EXCEPT !.op = "push", !.strategy = strategy, !.asked = strategy # None]
  /\ phase' = "scanned"
  /\ raced' = "no"
  /\ UNCHANGED <<file, node, disk, landed, calm, kept>>

(* Mutant: the digest is not compared. *)
Is_revision_by_size ==
  /\ mem.entry # None
  /\ mem.entry.local_state = "present"
  /\ mem.entry.sha256 # None
  /\ node # None
  /\ Ident.claimed_size \in {None, mem.entry.size}

(* _revision_rels: is the changed file a new revision of its node? *)
Is_revision ==
  /\ mem.entry # None
  /\ mem.entry.local_state = "present"
  /\ mem.entry.sha256 # None
  /\ node # None
  /\ Ident.claimed_size \in {None, mem.entry.size}
  /\ None \in {Ident.sha1, mem.entry.sha1} \/ Ident.sha1 = mem.entry.sha1

PushPlan ==
  /\ phase = "scanned"
  /\ cmd' = IF cmd.strategy = None /\ Is_revision THEN [cmd EXCEPT !.strategy = "merge"] ELSE cmd
  /\ phase' = "planned"
  /\ Decides
  /\ UNCHANGED <<own, file, node, disk, mem, scanned, landed, calm, kept>>

(* The upload writes the node: the whole file as it now is, or its first   *)
(* bytes only.  A call that was retried after a time-out reports its own   *)
(* first attempt as a name conflict; a skip of another file of the call    *)
(* leaves it open which file was skipped.                                  *)
UploadLands(c, report, conflict, skip) ==
  /\ phase = "planned"
  /\ file \notin Stubs \cup {None}
  /\ c \in Prefixes[file] \cup {file}
  /\ node = None \/ cmd.strategy \in {"merge", "replace"}
  /\ conflict => cmd.strategy = None
  /\ Becomes(Written(c, report, "here"))
  /\ kept' = kept \cup {c}
  /\ cmd' = [cmd EXCEPT !.adopt = conflict, !.unattributed = skip /\ ~conflict]
  /\ phase' = "sent"
  /\ UNCHANGED <<file, disk, mem, scanned, landed, calm, raced>>

(* The upload is reported done, or skipped, and the node is as it was. *)
UploadLeavesNode(skip) ==
  /\ phase = "planned"
  /\ file \notin Stubs \cup {None}
  /\ \/ node = None /\ ~calm
     \/ node # None /\ cmd.strategy \in {"merge", "replace"} /\ SilentRevisions /\ ~calm
     \/ node # None /\ cmd.strategy = "skip" /\ skip
     \/ node # None /\ cmd.strategy = "keep-both"
  /\ cmd' = [cmd EXCEPT !.adopt = FALSE, !.unattributed = skip,
                        !.silent = cmd.strategy \in {"merge", "replace"}]
  /\ phase' = "sent"
  /\ UNCHANGED <<own, file, node, disk, mem, scanned, landed, calm, kept, raced>>

UploadConflicts ==
  /\ phase = "planned"
  /\ file \notin Stubs \cup {None}
  /\ cmd.strategy = None
  /\ node # None
  /\ cmd' = [cmd EXCEPT !.adopt = TRUE, !.unattributed = FALSE]
  /\ phase' = "sent"
  /\ UNCHANGED <<own, file, node, disk, mem, scanned, landed, calm, kept, raced>>

(* This host cannot thumbnail the file: once more, without a thumbnail. *)
UploadLacksThumbnail ==
  /\ phase = "planned"
  /\ file \notin Stubs \cup {None}
  /\ cmd.thumbnails
  /\ cmd' = [cmd EXCEPT !.thumbnails = FALSE, !.retry = TRUE]
  /\ UNCHANGED <<own, file, node, disk, mem, phase, scanned, landed, calm, kept, raced>>

(* A failure reported for the file, or a file that is gone or a stub now. *)
UploadFails ==
  /\ phase = "planned"
  /\ Finish
  /\ UNCHANGED <<own, file, node, disk, mem, calm, kept>>

-----------------------------------------------------------------------------
(* push: the verification of what it sent.                                 *)

(* Mutant: whatever has a size is taken for the whole file. *)
Verify_any_size(ident, content, strict_sha1) ==
  CASE ident = None -> "refuted"
    [] ident # None /\ strict_sha1 /\ ident.sha1 \notin {None, content} -> "refuted"
    [] ident # None /\ ~(strict_sha1 /\ ident.sha1 \notin {None, content}) ->
         IF ident.claimed_size = None THEN "unverifiable" ELSE "verified"

(* _verify_remote *)
Verify_remote(ident, content, strict_sha1) ==
  CASE ident = None -> "refuted"
    [] ident # None /\ strict_sha1 /\ ident.sha1 \notin {None, content} -> "refuted"
    [] ident # None /\ ~(strict_sha1 /\ ident.sha1 \notin {None, content}) ->
         IF ident.claimed_size = None THEN "unverifiable"
         ELSE IF ident.claimed_size # Size[content] THEN "refuted" ELSE "verified"

Verdict == Verify_remote(Ident, scanned, cmd.adopt \/ cmd.unattributed)

(* _is_older_copy: the node is a prefix of the file as it now is. *)
Is_older_copy ==
  /\ Ident # None
  /\ Ident.claimed_size # None
  /\ Ident.sha1 # None
  /\ file # None
  /\ Ident.sha1 \in Prefixes[file] \cup {file}

(* _is_own_upload: its revision is the one the underdelivered record names. *)
Is_own_upload == node # None /\ "mem" \in own

(* Mutant: the underdelivered record is not consulted. *)
IsOlderByBytes == cmd.adopt /\ ~cmd.retry /\ Is_older_copy

IsOlder == cmd.adopt /\ ~cmd.retry /\ (Is_older_copy \/ Is_own_upload)

(* The short upload push takes for its own. *)
IsShort ==
  /\ ~cmd.adopt
  /\ ~cmd.unattributed
  /\ cmd.strategy \notin {"skip", "keep-both"}
  /\ node # None

PushIndexes ==
  /\ phase = "sent"
  /\ Verdict = "verified"
  /\ Sets(Entry(scanned, "present"), scanned,
          \/ raced # "no"
          \/ cmd.silent
          \/ (cmd.adopt \/ cmd.unattributed) /\ Ident.sha1 = None)
  /\ Finish
  /\ UNCHANGED <<file, node, disk, calm, kept>>

PushSendsRevision ==
  /\ phase = "sent"
  /\ Verdict = "refuted"
  /\ IsOlder
  /\ cmd' = [Idle EXCEPT !.op = "push", !.strategy = "merge", !.retry = TRUE]
  /\ phase' = "planned"
  /\ Decides
  /\ UNCHANGED <<own, file, node, disk, mem, scanned, landed, calm, kept>>

(* The active revision is recorded as a short upload of this host (another *)
(* device's, when that came after the upload or the upload left none).     *)
PushMarksUnderdelivered ==
  /\ phase = "sent"
  /\ Verdict = "refuted"
  /\ IsShort
  /\ own' = own \cup {"mem"}
  /\ node' = IF node.by = "other" THEN [node EXCEPT !.by = "claimed"] ELSE node
  /\ Finish
  /\ UNCHANGED <<file, disk, mem, calm, kept>>

(* Unverified, a conflict, a phantom or an upload that is not there. *)
PushReports ==
  /\ phase = "sent"
  /\ \/ Verdict = "unverifiable"
     \/ Verdict = "refuted" /\ ~IsOlder /\ ~IsShort
  /\ Finish
  /\ UNCHANGED <<own, file, node, disk, mem, calm, kept>>

-----------------------------------------------------------------------------
(* pull                                                                    *)

(* What pull brings down: absent here, or with --resolve=remote changed on *)
(* both sides.  A verdict of remote-modified passes the first filter and   *)
(* not the second, which drops every path that exists.                     *)
To_pull(resolve, no_restore) ==
  LET state == IF resolve = None THEN LocalVerdict ELSE RemoteVerdict
      down == \/ state \in {"remote-only", "metadata-only"}
              \/ state = "remote-modified" /\ resolve # None
      gone == Held_and_gone(state, disk.entry, file # None)
  IN \/ down /\ file = None /\ ~(no_restore /\ gone)
     \/ state = "both-modified" /\ resolve = "remote"

PullScan(resolve, no_restore) ==
  /\ phase = "idle"
  /\ ~calm
  /\ disk.entry # None \/ file # None \/ (resolve # None /\ node # None)
  /\ Loads
  /\ \/ /\ To_pull(resolve, no_restore)
        /\ phase' = "pulling"
        /\ cmd' = [Idle EXCEPT !.op = "pull", !.strategy = resolve]
        /\ UNCHANGED <<scanned, landed, raced>>
     \/ ~To_pull(resolve, no_restore) /\ Finish
  /\ UNCHANGED <<file, node, disk, calm, kept>>

(* The download lands in staging and is moved over whatever is there now. *)
DownloadLands ==
  /\ phase = "pulling"
  /\ node # None
  /\ file' = node.content
  /\ landed' = node.content
  /\ phase' = "landed"
  /\ UNCHANGED <<own, node, disk, mem, cmd, scanned, calm, kept, raced>>

DownloadVanishes ==
  /\ phase = "pulling"
  /\ SilentDownloads
  /\ phase' = "landed"
  /\ UNCHANGED <<own, file, node, disk, mem, cmd, scanned, landed, calm, kept, raced>>

DownloadFails ==
  /\ phase = "pulling"
  /\ Finish
  /\ UNCHANGED <<own, file, node, disk, mem, calm, kept>>

(* What is at the path is hashed and recorded, if anything is. *)
PullIndexes ==
  /\ phase = "landed"
  /\ file # None
  /\ Sets(Entry(file, "present"), landed, raced # "no")
  /\ Finish
  /\ UNCHANGED <<file, node, disk, calm, kept>>

PullFindsNothing ==
  /\ phase = "landed"
  /\ file = None
  /\ Finish
  /\ UNCHANGED <<own, file, node, disk, mem, calm, kept>>

-----------------------------------------------------------------------------
(* Every command: its last save, and what ends it early.                   *)

Ends ==
  /\ mem' = Empty
  /\ phase' = "idle"
  /\ cmd' = Idle
  /\ scanned' = None
  /\ landed' = None
  /\ raced' = "no"

Persists ==
  /\ disk' = mem
  /\ own' = IF "mem" \in own THEN {"disk"} ELSE {}

Saves ==
  /\ phase = "done"
  /\ Persists
  /\ Ends
  /\ UNCHANGED <<file, node, calm, kept>>

(* A kill, a Drive error or a failed save, after a checkpoint or before    *)
(* it; Ctrl-C saves the index.                                             *)
Stops ==
  /\ phase # "idle"
  /\ ~calm
  /\ Persists \/ (disk' = disk /\ own' = own \ {"mem"})
  /\ Ends
  /\ UNCHANGED <<file, node, calm, kept>>

-----------------------------------------------------------------------------
(* The commands with modules of their own, on this path.                   *)

(* refresh and the first pull of a fresh clone: an entry for a file on     *)
(* Drive that neither the index nor the local scan has.                    *)
Seed(source) ==
  /\ phase = "idle"
  /\ ~calm
  /\ file = None
  /\ disk.entry = None
  /\ \/ /\ source = "listing"
        /\ node # None
        /\ disk' = [entry |-> [size |-> Ident.size, sha256 |-> None, sha1 |-> None,
                               local_state |-> "metadata-only"],
                    agreed |-> node.content, doubt |-> FALSE]
     \/ /\ source = "manifest"
        /\ \E c \in kept : disk' = [entry |-> Entry(c, "metadata-only"),
                                    agreed |-> c, doubt |-> FALSE]
  /\ own' = {}
  /\ UNCHANGED <<file, node, command, calm, kept, raced>>

(* offload: the content last synced, and unless --no-verify a listing that *)
(* confirms it.                                                            *)
Offload(verify) ==
  /\ phase = "idle"
  /\ ~calm
  /\ disk.entry # None
  /\ disk.entry.local_state = "present"
  /\ file # None
  /\ file = disk.entry.sha256
  /\ verify => /\ node # None
               /\ Ident.claimed_size = Size[file]
               /\ Ident.sha1 \in {None, disk.entry.sha1}
  /\ file' = None
  /\ disk' = [disk EXCEPT !.entry.local_state = "metadata-only"]
  /\ own' = {}
  /\ UNCHANGED <<node, command, calm, kept, raced>>

(* push --deletions trash: a file held here that is gone. *)
TrashDeleted ==
  /\ phase = "idle"
  /\ ~calm
  /\ disk.entry # None
  /\ file = None
  /\ Held_and_gone(LocalVerdict, disk.entry, FALSE)
  /\ Becomes(None)
  /\ disk' = Empty
  /\ UNCHANGED <<file, command, calm, kept, raced>>

-----------------------------------------------------------------------------
Environment ==
  \/ \E c \in Contents : UserWrites(c)
  \/ UserDeletes
  \/ \E c \in Contents, report \in Reports : OtherUploads(c, report)
  \/ OtherTrashes

UploadReturns ==
  \/ \E c \in Contents, report \in Reports, conflict, skip \in BOOLEAN :
       UploadLands(c, report, conflict, skip)
  \/ \E skip \in BOOLEAN : UploadLeavesNode(skip)
  \/ UploadConflicts \/ UploadLacksThumbnail \/ UploadFails

(* What push does by itself. *)
PushGoesOn ==
  \/ PushScan(None) \/ PushPlan \/ UploadReturns
  \/ PushIndexes \/ PushSendsRevision \/ PushMarksUnderdelivered \/ PushReports
  \/ Saves

Push ==
  \/ \E strategy \in PushStrategies : PushScan(strategy)
  \/ PushPlan \/ UploadReturns
  \/ PushIndexes \/ PushSendsRevision \/ PushMarksUnderdelivered \/ PushReports

Pull ==
  \/ \E resolve \in PullResolves, no_restore \in BOOLEAN : PullScan(resolve, no_restore)
  \/ DownloadLands \/ DownloadVanishes \/ DownloadFails \/ PullIndexes \/ PullFindsNothing

Others ==
  \/ \E source \in SeedSources : Seed(source)
  \/ \E verify \in BOOLEAN : Offload(verify)
  \/ TrashDeleted

Next == Environment \/ CalmsDown \/ Push \/ Pull \/ Saves \/ Stops \/ Others

Spec == Init /\ [][Next]_vars

(* A schedule runs push again and again; a command that has begun goes on; *)
(* in an endless series of calls Drive takes a file whole, and answers one *)
(* whose name is taken, in the end; not every one of these answers follows *)
(* a failed thumbnail, for the second round takes nothing for an older     *)
(* copy.                                                                   *)
Fairness ==
  /\ WF_vars(PushGoesOn)
  /\ SF_vars(\E report \in Reports \ {"nothing"} : UploadLands(file, report, FALSE, FALSE))
  /\ SF_vars(UploadConflicts /\ ~cmd.retry)

FairSpec == Spec /\ Fairness

-----------------------------------------------------------------------------
(* What the index calls present was on Drive: a short upload, a name taken *)
(* by another device's file or a retried call is never recorded as the     *)
(* delivery of this content.  Not promised: a record taken while file or   *)
(* node changed under the command, or one that only a size confirmed.      *)
PresentWasOnDrive ==
  \A store \in {disk, mem} :
    store.entry # None /\ store.entry.local_state = "present" /\ ~store.doubt
      => store.entry.sha256 \in kept

(* The walk calls no file changed on Drive whose node still holds what the *)
(* index entry was recorded from, when entry and listing speak of the same *)
(* size.  Not promised: refresh seeds an entry with the encrypted size and *)
(* no digest, and where the listing reports the plaintext size that file   *)
(* is called changed; so is a file with a full entry whose node the        *)
(* listing reports nothing of.  Nor is it promised of an entry recorded    *)
(* while file or node changed under the command, or that only a size       *)
(* confirmed.                                                              *)
NoFalseDrift ==
  disk.entry # None /\ node # None /\ ~disk.doubt
    => (node.content = disk.agreed /\ (disk.entry.sha1 = None <=> node.report = "nothing")
          => RemoteVerdict \notin {"remote-modified", "both-modified", "remote-changed"})

(* A push nobody asked to resolve conflicts replaces another device's      *)
(* revision only if that is the content this host last had in sync, or the *)
(* file has grown out of it: no update of the other device gets lost that  *)
(* this host never saw.  Not promised: what changed since the listing push *)
(* decided by; a revision the listing gives no digest of; and a revision   *)
(* that push, when its own upload came out short or not at all, found in   *)
(* its place and took for its own.                                         *)
PushReplacesNoOther ==
  [][(/\ phase = "planned" /\ phase' = "sent" /\ node' # node
      /\ node # None /\ ~cmd.asked /\ raced # "since") =>
       \/ node.by # "other"
       \/ node.report # "full"
       \/ mem.entry # None /\ node.content = mem.entry.sha1
       \/ node.content \in Prefixes[file] \cup {file}]_vars

(* Push tells its own copy on Drive by its bytes, by its recorded          *)
(* revision, or as what the index entry describes.                         *)
Recognised ==
  \/ "disk" \in own
  \/ node.report = "full" /\ node.content \in Prefixes[file] \cup {file}
  \/ /\ disk.entry # None
     /\ disk.entry.local_state = "present"
     /\ disk.entry.size = Size[node.content]
     /\ node.report = "full" => disk.entry.sha1 = node.content

(* However an upload was cut short, killed or refused before, pushing      *)
(* again and again ends with the file in the index, unless its name on     *)
(* Drive is taken by a file that is not recognisably an older copy of it,  *)
(* or Drive does not report its size.                                      *)
PushConverges ==
  calm ~> \/ file \in Stubs \cup {None}
          \/ disk.entry # None /\ disk.entry.sha256 = file
          \/ node # None /\ (node.report = "nothing" \/ ~Recognised)

=============================================================================
