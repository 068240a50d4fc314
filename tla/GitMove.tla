------------------------------- MODULE GitMove -------------------------------
(***************************************************************************)
(* protonfs import and export: files move between git and the store, on    *)
(* clones of one repository whose stores share one folder of Drive.        *)
(*                                                                         *)
(* A move first pushes or pulls, then lists Drive and reads every file,    *)
(* and only then changes git: some steps, undone when one of them fails.   *)
(* Users edit, stage, commit and pull meanwhile, though not during the git *)
(* step itself; other devices write Drive at any time.  History is linear: *)
(* a commit is at once the repository's newest.                            *)
(*                                                                         *)
(* push, pull and offload have modules of their own; each is one step here.*)
(***************************************************************************)
EXTENDS Diff

CONSTANTS
  Clones,
  Movers,     \* the clones that import and export
  Files,
  MaxFaults,  \* bound: failing git commands, Ctrl-C and kills
  MaxEdits    \* bound: users' edits and git adds, other devices' uploads and trashes

ASSUME MoveAssumption ==
  /\ None \notin Clones
  /\ Movers \subseteq Clones
  /\ MaxFaults \in Nat
  /\ MaxEdits \in Nat

VARIABLES
  drive,    \* the nodes on Drive
  origin,   \* the newest commit
  clone,    \* each clone: its work tree, git index and HEAD, its protonfs index
  cmd,      \* each clone's running import or export
  torn,     \* the clones left with a half-made git step to undo by hand
  faults,   \* bound: faults so far
  edits,    \* bound: edits so far
  gitGone,  \* history: the files an import's commit took from a clone's work tree
  owed,     \* history: the paths of a clone's last move that only it has touched
  raced     \* history: the paths of a move touched by others since it looked at them

history == <<gitGone, owed, raced>>
vars == <<drive, origin, clone, cmd, torn, faults, edits, history>>

-----------------------------------------------------------------------------
(* The import block of .gitignore and the export block of .protonfs/ignore *)
(* are sets of paths; a commit and the git index hold a version of each.   *)
Trees == [tree : [Files -> Digests], imported : SUBSET Files, exported : SUBSET Files]
Entries == [content : Contents, local_state : {"present", "metadata-only"}]
ASSUME EntryAssumption == None \notin Entries

CloneStates == [work : Trees, staged : Trees, head : Trees, index : [Files -> Entries \cup {None}]]

ImportPhases == {"pushing", "reading", "listing", "verifying", "ignoring", "untracking", "staging"}
ExportPhases == {"pulling", "listing", "verifying", "ignoring", "tracking", "exporting",
                 "sealing", "trashing", "forgetting"}
UndoPhases == {"undoing", "restoring", "restoringIgnore"}
GitPhases == {"ignoring", "untracking", "staging", "tracking", "exporting", "sealing"}
             \cup UndoPhases

Commands == [op : {"none", "import", "export"},
             phase : {"idle"} \cup ImportPhases \cup ExportPhases \cup UndoPhases,
             paths : SUBSET Files, todo : SUBSET Files, trash : BOOLEAN, unignore : BOOLEAN,
             listing : [Files -> Digests], blobs : [Files -> Digests],
             before : [imported : SUBSET Files, exported : SUBSET Files]]

Nothing == [f \in Files |-> None]
Idle == [op |-> "none", phase |-> "idle", paths |-> {}, todo |-> {},
         trash |-> FALSE, unignore |-> FALSE,
         listing |-> Nothing, blobs |-> Nothing,
         before |-> [imported |-> {}, exported |-> {}]]

TypeOK ==
  /\ drive \in [Files -> Digests]
  /\ origin \in Trees
  /\ clone \in [Clones -> CloneStates]
  /\ cmd \in [Clones -> Commands]
  /\ torn \subseteq Clones
  /\ faults \in 0 .. MaxFaults
  /\ edits \in 0 .. MaxEdits
  /\ gitGone \in [Clones -> SUBSET Files]
  /\ owed \in [Clones -> SUBSET Files]
  /\ raced \in [Clones -> SUBSET Files]

(* Every clone is at the first commit, which tracks some of the files.     *)
Init ==
  /\ drive = Nothing
  /\ origin \in [tree : [Files -> Digests], imported : {{}}, exported : {{}}]
  /\ clone = [c \in Clones |-> [work |-> origin, staged |-> origin, head |-> origin,
                                index |-> Nothing]]
  /\ cmd = [c \in Clones |-> Idle]
  /\ torn = {}
  /\ faults = 0
  /\ edits = 0
  /\ gitGone = [c \in Clones |-> {}]
  /\ owed = [c \in Clones |-> {}]
  /\ raced = [c \in Clones |-> {}]

-----------------------------------------------------------------------------
Goes(c, to) == cmd' = [cmd EXCEPT ![c] = to]
Changes(c, to) == clone' = [clone EXCEPT ![c] = to]
Enters(c, phase) == Goes(c, [cmd[c] EXCEPT !.phase = phase])

On(c, op, phase) == cmd[c].op = op /\ cmd[c].phase = phase

(* A command's end; paths others touch later are not owed by it any more.  *)
Quits(c) ==
  /\ Goes(c, Idle)
  /\ raced' = [raced EXCEPT ![c] = {}]

(* The user's own git commands: between a move's steps, not within its git *)
(* step, and only once a half-made one has been undone.                    *)
UserMayGit(c) == cmd[c].phase \notin GitPhases /\ c \notin torn
Disowns(c, files) ==
  /\ owed' = [owed EXCEPT ![c] = @ \ files]
  /\ raced' = [raced EXCEPT ![c] = @ \cup (files \cap cmd[c].paths)]

(* What happens on Drive concerns every move.                              *)
DriveBecomes(f, content, who) ==
  /\ drive' = [drive EXCEPT ![f] = content]
  /\ raced' = [c \in Clones |-> raced[c] \cup ({f} \cap (IF c = who THEN {} ELSE cmd[c].paths))]

Tracked(c) == {f \in Files : clone[c].staged.tree[f] # None}
OnDisk(c) == {f \in Files : clone[c].work.tree[f] # None}
Held(c) == {f \in Files : clone[c].index[f] # None}
Present(c) == {f \in Held(c) : clone[c].index[f].local_state = "present"}
Record(content) == [content |-> content, local_state |-> "present"]

-----------------------------------------------------------------------------
(* Users, other devices, and the commands with modules of their own.       *)

Edit == edits < MaxEdits /\ edits' = edits + 1

UserWrites(c, f, content) ==
  /\ Edit
  /\ clone[c].work.tree[f] # content
  /\ Changes(c, [clone[c] EXCEPT !.work.tree[f] = content])
  /\ gitGone' = [gitGone EXCEPT ![c] = @ \ {f}]
  /\ raced' = [raced EXCEPT ![c] = @ \cup ({f} \cap cmd[c].paths)]
  /\ UNCHANGED <<drive, origin, cmd, torn, faults, owed>>

(* git add or git rm of one path, or git reset of it to another version.   *)
UserStages(c, f, content) ==
  /\ Edit
  /\ UserMayGit(c)
  /\ clone[c].staged.tree[f] # content
  /\ f \in Tracked(c) \/ (f \in OnDisk(c) /\ f \notin clone[c].work.imported)
  /\ Changes(c, [clone[c] EXCEPT !.staged.tree[f] = content])
  /\ Disowns(c, {f})
  /\ UNCHANGED <<drive, origin, cmd, torn, faults, gitGone>>

GitCommits(c) ==
  /\ UserMayGit(c)
  /\ clone[c].head = origin
  /\ clone[c].staged # origin
  /\ origin' = clone[c].staged
  /\ Changes(c, [clone[c] EXCEPT !.head = clone[c].staged])
  /\ raced' = [raced EXCEPT ![c] =
                 @ \cup {f \in cmd[c].paths : clone[c].staged.tree[f] # clone[c].head.tree[f]}]
  /\ UNCHANGED <<drive, cmd, torn, faults, edits, gitGone, owed>>

(* git pull: of what the commit changes nothing may be staged or edited,   *)
(* but an ignored file is expendable.  A pulled export line, too, ends     *)
(* what the clone's last move answers for.                                 *)
Pulled(c) == {f \in Files : clone[c].head.tree[f] # origin.tree[f]}
GitPulls(c) ==
  /\ UserMayGit(c)
  /\ clone[c].head # origin
  /\ clone[c].staged = clone[c].head
  /\ clone[c].work.imported = clone[c].head.imported
  /\ clone[c].work.exported = clone[c].head.exported
  /\ \A f \in Pulled(c) : \/ clone[c].work.tree[f] = clone[c].head.tree[f]
                          \/ clone[c].head.tree[f] = None /\ f \in clone[c].work.imported
  /\ LET merged == [f \in Files |-> IF f \in Pulled(c) THEN origin.tree[f]
                                    ELSE clone[c].work.tree[f]]
         taken == {f \in Pulled(c) : origin.tree[f] = None}
     IN /\ Changes(c, [clone[c] EXCEPT !.work = [origin EXCEPT !.tree = merged],
                                       !.staged = origin, !.head = origin])
        /\ gitGone' = [gitGone EXCEPT ![c] = (@ \ Pulled(c)) \cup (taken \cap origin.imported)]
  /\ owed' = [owed EXCEPT ![c] = @ \ (Pulled(c) \cup (origin.exported \ clone[c].head.exported))]
  /\ raced' = [raced EXCEPT ![c] = @ \cup (Pulled(c) \cap cmd[c].paths)]
  /\ UNCHANGED <<drive, origin, cmd, torn, faults, edits>>

(* What the messages of a move that could not be undone ask for. *)
UserRepairs(c) ==
  /\ c \in torn
  /\ cmd[c].phase = "idle"
  /\ Changes(c, [clone[c] EXCEPT !.staged = clone[c].head,
                                 !.work.imported = clone[c].head.imported,
                                 !.work.exported = clone[c].head.exported])
  /\ torn' = torn \ {c}
  /\ owed' = [owed EXCEPT ![c] = {}]
  /\ UNCHANGED <<drive, origin, cmd, faults, edits, gitGone, raced>>

(* Another device, or another client: an upload or a trash. *)
OtherDevice(f, content) ==
  /\ Edit
  /\ drive[f] # content
  /\ DriveBecomes(f, content, None)
  /\ UNCHANGED <<origin, clone, cmd, torn, faults, gitGone, owed>>

Free(c) == cmd[c].phase = "idle"

Push(c, f) ==
  /\ Free(c)
  /\ f \in OnDisk(c) \ clone[c].work.exported
  /\ DriveBecomes(f, clone[c].work.tree[f], c)
  /\ Changes(c, [clone[c] EXCEPT !.index[f] = Record(clone[c].work.tree[f])])
  /\ UNCHANGED <<origin, cmd, torn, faults, edits, gitGone, owed>>

(* Mutant: a path of the import block is taken for a deleted one. *)
Trash_blocked(c) ==
  {f \in Held(c) :
     /\ Held_and_gone(IF f \in Present(c) THEN "remote-only" ELSE "metadata-only",
                      clone[c].index[f], f \in OnDisk(c))
     /\ f \notin clone[c].work.exported}

(* push --deletions trash: _trash_candidates leaves alone what is ignored  *)
(* or in the import block.  Its guards only refuse (module Offload).       *)
Trash_candidates(c) ==
  {f \in Held(c) :
     /\ Held_and_gone(IF f \in Present(c) THEN "remote-only" ELSE "metadata-only",
                      clone[c].index[f], f \in OnDisk(c))
     /\ f \notin clone[c].work.imported
     /\ f \notin clone[c].work.exported}

PushTrashes(c, f) ==
  /\ Free(c)
  /\ f \in Trash_candidates(c)
  /\ DriveBecomes(f, None, c)
  /\ Changes(c, [clone[c] EXCEPT !.index[f] = None])
  /\ owed' = [owed EXCEPT ![c] = @ \ {f}]
  /\ UNCHANGED <<origin, cmd, torn, faults, edits, gitGone>>

(* pull, and the part of an export that downloads. *)
Downloads(c, files) ==
  [clone[c] EXCEPT
     !.work.tree = [f \in Files |-> IF f \in files THEN drive[f] ELSE @[f]],
     !.index = [f \in Files |-> IF f \in files THEN Record(drive[f]) ELSE @[f]]]
Downloadable(c) ==
  {f \in Held(c) \ OnDisk(c) : drive[f] # None /\ f \notin clone[c].work.exported}

Pull(c, f) ==
  /\ Free(c)
  /\ f \in Downloadable(c)
  /\ Changes(c, Downloads(c, {f}))
  /\ gitGone' = [gitGone EXCEPT ![c] = @ \ {f}]
  /\ UNCHANGED <<drive, origin, cmd, torn, faults, edits, owed, raced>>

Offload(c, f) ==
  /\ Free(c)
  /\ f \in Present(c) \cap OnDisk(c)
  /\ clone[c].work.tree[f] = clone[c].index[f].content
  /\ drive[f] = clone[c].work.tree[f]
  /\ Changes(c, [clone[c] EXCEPT !.work.tree[f] = None,
                                 !.index[f].local_state = "metadata-only"])
  /\ UNCHANGED <<drive, origin, cmd, torn, faults, edits, history>>

-----------------------------------------------------------------------------
(* A move begins: its checks, which refuse all of the paths or none.       *)

Clean(c, field) ==
  /\ clone[c].work[field] = clone[c].head[field]
  /\ clone[c].staged[field] = clone[c].head[field]

(* Tracked by git or synced by protonfs. *)
Kept(c, f) == f \in Tracked(c) \/ f \in Held(c) \ clone[c].work.exported

Begins(c, op, phase, paths, trash) ==
  /\ Free(c)
  /\ paths # {}
  /\ Goes(c, [Idle EXCEPT !.op = op, !.phase = phase, !.paths = paths, !.trash = trash,
                         !.unignore = op = "export" /\ paths \cap clone[c].work.imported # {}])
  /\ owed' = [owed EXCEPT ![c] = {f \in paths : Kept(c, f)}]
  /\ UNCHANGED <<drive, origin, clone, torn, faults, edits, gitGone, raced>>

(* check_import *)
ImportBegins(c, paths) ==
  /\ paths \subseteq Tracked(c) \ clone[c].work.exported
  /\ \A f \in paths : /\ clone[c].work.tree[f] = clone[c].head.tree[f]
                      /\ clone[c].staged.tree[f] = clone[c].head.tree[f]
  /\ Clean(c, "imported")
  /\ Begins(c, "import", "pushing", paths, FALSE)

(* check_export *)
ExportBegins(c, paths, trash) ==
  /\ paths \subseteq Held(c) \ Tracked(c)
  /\ Clean(c, "exported")
  /\ paths \cap clone[c].work.imported # {} => Clean(c, "imported")
  /\ Begins(c, "export", "pulling", paths, trash)

(* push of exactly these paths; it verifies some of them. *)
ImportPushes(c) ==
  /\ On(c, "import", "pushing")
  /\ \E pushed \in SUBSET (cmd[c].paths \cap OnDisk(c)) :
       /\ drive' = [f \in Files |-> IF f \in pushed THEN clone[c].work.tree[f] ELSE drive[f]]
       /\ Changes(c, [clone[c] EXCEPT !.index = [f \in Files |->
                        IF f \in pushed THEN Record(clone[c].work.tree[f]) ELSE @[f]]])
       /\ raced' = [d \in Clones |-> IF d = c THEN {} ELSE raced[d] \cup (pushed \cap cmd[d].paths)]
  /\ Enters(c, "reading")
  /\ UNCHANGED <<origin, torn, faults, edits, gitGone, owed>>

(* verify_imported: HEAD's blobs, before anything is asked of Drive. *)
ReadsHead(c) ==
  /\ On(c, "import", "reading")
  /\ Goes(c, [cmd[c] EXCEPT !.blobs = clone[c].head.tree, !.phase = "listing"])
  /\ raced' = [raced EXCEPT ![c] = {}]
  /\ UNCHANGED <<drive, origin, clone, torn, faults, edits, gitGone, owed>>

(* pull of the paths that are not here: all are delivered, or it ends.     *)
ExportPulls(c) ==
  /\ On(c, "export", "pulling")
  /\ LET wanted == {f \in cmd[c].paths : f \notin Present(c) \cap OnDisk(c)}
         delivered == wanted \cap Downloadable(c)
     IN /\ Changes(c, Downloads(c, delivered))
        /\ gitGone' = [gitGone EXCEPT ![c] = @ \ delivered]
        /\ IF delivered = wanted
           THEN Enters(c, "listing") /\ UNCHANGED raced
           ELSE Quits(c)
  /\ UNCHANGED <<drive, origin, torn, faults, edits, owed>>

(* What has been committed or pulled since an import read HEAD. *)
HeadMoved(c) ==
  {f \in cmd[c].paths : cmd[c].op = "import" /\ cmd[c].blobs[f] # clone[c].head.tree[f]}

(* _verify_synced: a listing, then a read of each file.  Both would see    *)
(* what came before them; only HEAD has been read already.                 *)
Lists(c) ==
  /\ cmd[c].phase = "listing"
  /\ Goes(c, [cmd[c] EXCEPT !.listing = drive, !.phase = "verifying"])
  /\ raced' = [raced EXCEPT ![c] = HeadMoved(c)]
  /\ UNCHANGED <<drive, origin, clone, torn, faults, edits, gitGone, owed>>

(* Mutant: an export does not ask Drive. *)
VerifiedHere(c, seen) ==
  \A f \in cmd[c].paths :
    /\ f \in Present(c) \cap OnDisk(c)
    /\ clone[c].work.tree[f] = clone[c].index[f].content
    /\ cmd[c].op = "import" => clone[c].work.tree[f] \in {seen[f]} \cap {cmd[c].blobs[f]}

Verified(c, seen) ==
  \A f \in cmd[c].paths :
    /\ f \in Present(c) \cap OnDisk(c)
    /\ clone[c].work.tree[f] = clone[c].index[f].content
    /\ seen[f] = clone[c].work.tree[f]
    /\ cmd[c].op = "import" => cmd[c].blobs[f] = clone[c].work.tree[f]

(* A copy that Drive reports no sha1 for is downloaded and compared.       *)
Seen(c, unchecked) == [f \in Files |-> IF f \in unchecked THEN drive[f] ELSE cmd[c].listing[f]]

Verifies(c) ==
  /\ cmd[c].phase = "verifying"
  /\ \E unchecked \in SUBSET cmd[c].paths :
       IF Verified(c, Seen(c, unchecked))
       THEN /\ Goes(c, [cmd[c] EXCEPT
                 !.phase = "ignoring", !.todo = cmd[c].paths, !.listing = Nothing, !.blobs = Nothing,
                 !.before = [imported |-> clone[c].work.imported,
                             exported |-> clone[c].work.exported]])
            /\ UNCHANGED raced
       ELSE Quits(c)
  /\ UNCHANGED <<drive, origin, clone, torn, faults, edits, gitGone, owed>>

(* Before and after the git step a Drive error, Ctrl-C or kill just ends   *)
(* the command.                                                            *)
Stops(c) ==
  /\ cmd[c].phase \notin {"idle"} \cup GitPhases
  /\ Quits(c)
  /\ UNCHANGED <<drive, origin, clone, torn, faults, edits, gitGone, owed>>

-----------------------------------------------------------------------------
(* The git step of an import: _git_step.                                   *)

GitStep(c, to, phase) ==
  /\ Changes(c, to)
  /\ Enters(c, phase)
  /\ UNCHANGED <<drive, origin, torn, faults, edits, history>>

ImportIgnores(c) ==
  /\ On(c, "import", "ignoring")
  /\ GitStep(c, [clone[c] EXCEPT !.work.imported = @ \cup cmd[c].paths], "untracking")

(* git rm --cached refuses a version that neither HEAD nor the file has.   *)
Removable(c) ==
  {f \in Tracked(c) : clone[c].work.tree[f] \in {None, clone[c].staged.tree[f]}
                       \/ clone[c].head.tree[f] = clone[c].staged.tree[f]}

(* git rm --cached, batch by batch. *)
ImportUntracks(c, batch) ==
  /\ On(c, "import", "untracking")
  /\ batch # {}
  /\ batch \subseteq cmd[c].todo \cap Removable(c)
  /\ Changes(c, [clone[c] EXCEPT !.staged.tree =
                   [f \in Files |-> IF f \in batch THEN None ELSE @[f]]])
  /\ Goes(c, [cmd[c] EXCEPT !.todo = @ \ batch,
                            !.phase = IF batch = cmd[c].todo THEN "staging" ELSE @])
  /\ UNCHANGED <<drive, origin, torn, faults, edits, history>>

ImportStages(c) ==
  /\ On(c, "import", "staging")
  /\ Changes(c, [clone[c] EXCEPT !.staged.imported = clone[c].work.imported])
  /\ Quits(c)
  /\ UNCHANGED <<drive, origin, torn, faults, edits, gitGone, owed>>

-----------------------------------------------------------------------------
(* The git step of an export, _export_git_step, and what follows it.       *)

(* Skipped if no path had an import line when the export began. *)
ExportUnignores(c) ==
  /\ On(c, "export", "ignoring")
  /\ GitStep(c, [clone[c] EXCEPT !.work.imported = IF cmd[c].unignore THEN @ \ cmd[c].paths ELSE @],
             "tracking")

(* git would still ignore a path: by an import line pulled since, say. *)
StillIgnored(c) == cmd[c].paths \cap clone[c].work.imported # {}

(* git add, batch by batch, an edited .gitignore with the last one. *)
ExportTracks(c, batch) ==
  /\ On(c, "export", "tracking")
  /\ ~StillIgnored(c)
  /\ batch # {}
  /\ batch \subseteq cmd[c].todo \cap (OnDisk(c) \cup Tracked(c))
  /\ Changes(c, [clone[c] EXCEPT
       !.staged.tree = [f \in Files |-> IF f \in batch THEN clone[c].work.tree[f] ELSE @[f]],
       !.staged.imported = IF cmd[c].unignore /\ batch = cmd[c].todo
                           THEN clone[c].work.imported ELSE @])
  /\ Goes(c, [cmd[c] EXCEPT !.todo = @ \ batch,
                            !.phase = IF batch = cmd[c].todo THEN "exporting" ELSE @])
  /\ UNCHANGED <<drive, origin, torn, faults, edits, history>>

ExportIgnores(c) ==
  /\ On(c, "export", "exporting")
  /\ GitStep(c, [clone[c] EXCEPT !.work.exported = @ \cup cmd[c].paths], "sealing")

ExportSeals(c) ==
  /\ On(c, "export", "sealing")
  /\ GitStep(c, [clone[c] EXCEPT !.staged.exported = clone[c].work.exported],
             IF cmd[c].trash THEN "trashing" ELSE "forgetting")

(* --trash-remote: some are confirmed gone. *)
ExportTrashes(c, gone) ==
  /\ On(c, "export", "trashing")
  /\ gone \subseteq cmd[c].paths
  /\ drive' = [f \in Files |-> IF f \in gone THEN None ELSE drive[f]]
  /\ raced' = [d \in Clones |-> IF d = c THEN raced[c] ELSE raced[d] \cup (gone \cap cmd[d].paths)]
  /\ Enters(c, "forgetting")
  /\ UNCHANGED <<origin, clone, torn, faults, edits, gitGone, owed>>

(* _forget; a Ctrl-C while trashing leads here too. *)
ExportForgets(c) ==
  /\ cmd[c].op = "export"
  /\ cmd[c].phase \in {"trashing", "forgetting"}
  /\ Changes(c, [clone[c] EXCEPT !.index = [f \in Files |->
                   IF f \in cmd[c].paths THEN None ELSE @[f]]])
  /\ Quits(c)
  /\ UNCHANGED <<drive, origin, torn, faults, edits, gitGone, owed>>

-----------------------------------------------------------------------------
(* Failures in the git step, and their undoing.                            *)

(* git rm --cached that refuses a path, git add of one that is nowhere.    *)
Blocked(c) ==
  \/ On(c, "import", "untracking") /\ ~(cmd[c].todo \subseteq Removable(c))
  \/ /\ On(c, "export", "tracking")
     /\ StillIgnored(c) \/ ~(cmd[c].todo \subseteq OnDisk(c) \cup Tracked(c))

Fault == faults < MaxFaults /\ faults' = faults + 1

(* A failing git command, a failing write, Ctrl-C. *)
GitFails(c) ==
  /\ cmd[c].phase \in GitPhases \ UndoPhases
  /\ \/ Blocked(c) /\ UNCHANGED faults
     \/ ~Blocked(c) /\ Fault
  /\ Enters(c, "undoing")
  /\ UNCHANGED <<drive, origin, clone, torn, edits, history>>

(* Mutant: .gitignore is left staged. *)
UndoResetsFiles(c) ==
  /\ cmd[c].phase = "undoing"
  /\ GitStep(c, [clone[c] EXCEPT
       !.staged.tree = [f \in Files |-> IF f \in cmd[c].paths THEN clone[c].head.tree[f] ELSE @[f]],
       !.staged.exported = IF cmd[c].op = "export" THEN clone[c].head.exported ELSE @],
       "restoring")

(* git reset, of the paths and the files with the blocks. *)
UndoResets(c) ==
  /\ cmd[c].phase = "undoing"
  /\ GitStep(c, [clone[c] EXCEPT
       !.staged.tree = [f \in Files |-> IF f \in cmd[c].paths THEN clone[c].head.tree[f] ELSE @[f]],
       !.staged.imported = clone[c].head.imported,
       !.staged.exported = IF cmd[c].op = "export" THEN clone[c].head.exported ELSE @],
       "restoring")

(* Mutant: of an export, too, only .gitignore is written back. *)
UndoRestoresGitignore(c) ==
  /\ cmd[c].phase = "restoring"
  /\ Changes(c, [clone[c] EXCEPT !.work.imported = cmd[c].before.imported])
  /\ Quits(c)
  /\ UNCHANGED <<drive, origin, torn, faults, edits, gitGone, owed>>

(* .gitignore, and of an export .protonfs/ignore, are written back.        *)
UndoRestores(c) ==
  /\ cmd[c].phase = "restoring"
  /\ Changes(c, [clone[c] EXCEPT !.work.imported = cmd[c].before.imported])
  /\ IF cmd[c].op = "export"
     THEN Enters(c, "restoringIgnore") /\ UNCHANGED raced
     ELSE Quits(c)
  /\ UNCHANGED <<drive, origin, torn, faults, edits, gitGone, owed>>

UndoRestoresIgnore(c) ==
  /\ cmd[c].phase = "restoringIgnore"
  /\ Changes(c, [clone[c] EXCEPT !.work.exported = cmd[c].before.exported])
  /\ Quits(c)
  /\ UNCHANGED <<drive, origin, torn, faults, edits, gitGone, owed>>

(* A kill within the git step, a failure or Ctrl-C while it is undone.  An *)
(* export whose undo has reset git, but not .protonfs/ignore, leaves files *)
(* that neither keeps, which its message says.                             *)
HalfUndone(c) == cmd[c].op = "export" /\ cmd[c].phase \in {"restoring", "restoringIgnore"}

Tears(c) ==
  /\ cmd[c].phase \in GitPhases
  /\ Fault
  /\ torn' = torn \cup {c}
  /\ owed' = IF HalfUndone(c) THEN [owed EXCEPT ![c] = {}] ELSE owed
  /\ Quits(c)
  /\ UNCHANGED <<drive, origin, clone, edits, gitGone>>

-----------------------------------------------------------------------------
User(c) ==
  \/ \E f \in Files, content \in Digests : UserStages(c, f, content) \/ UserWrites(c, f, content)
  \/ GitCommits(c) \/ GitPulls(c) \/ UserRepairs(c)

OtherCommands(c) ==
  \E f \in Files : Push(c, f) \/ PushTrashes(c, f) \/ Pull(c, f) \/ Offload(c, f)

Import(c) ==
  \/ \E paths \in SUBSET Files : ImportBegins(c, paths)
  \/ ImportPushes(c) \/ ReadsHead(c) \/ ImportIgnores(c) \/ ImportStages(c)
  \/ \E batch \in SUBSET Files : ImportUntracks(c, batch)

Export(c) ==
  \/ \E paths \in SUBSET Files, trash \in BOOLEAN : ExportBegins(c, paths, trash)
  \/ ExportPulls(c) \/ ExportUnignores(c) \/ ExportIgnores(c) \/ ExportSeals(c)
  \/ \E batch \in SUBSET Files : ExportTracks(c, batch) \/ ExportTrashes(c, batch)
  \/ ExportForgets(c)

Move(c) ==
  \/ Import(c) \/ Export(c) \/ Lists(c) \/ Verifies(c) \/ Stops(c)
  \/ GitFails(c) \/ UndoResets(c) \/ UndoRestores(c) \/ UndoRestoresIgnore(c) \/ Tears(c)

Next ==
  \/ \E f \in Files, content \in Digests : OtherDevice(f, content)
  \/ \E c \in Clones : User(c) \/ OtherCommands(c)
  \/ \E c \in Movers : Move(c)

Spec == Init /\ [][Next]_vars

-----------------------------------------------------------------------------
(* However a move ends, each of its paths is tracked by git, synced, or    *)
(* both, never neither, until somebody else stages, trashes or pulls it or *)
(* its export line; only an undo that is itself interrupted may fail it.   *)
NeverNeither ==
  \A c \in Movers : cmd[c].phase = "idle" => \A f \in owed[c] : Kept(c, f)

(* Git is changed for every path or for none, and its blocks with it:      *)
(* however a git step failed, what it leaves is consistent, unless it also *)
(* could not be undone.  Not judged is what the undo of an export resets   *)
(* to HEAD, where something else was staged.                               *)
Judged(c) == {f \in cmd[c].paths \cap owed[c] :
                cmd[c].op = "export" => clone[c].head.tree[f] = None}

Moved(c) ==
  IF cmd[c].op = "import" THEN Judged(c) \ Tracked(c)' ELSE Judged(c) \cap Tracked(c)'

GitStepEnds(c) == cmd[c].phase \in GitPhases /\ cmd'[c].phase \notin GitPhases /\ c \notin torn'

EndsWhole(c) ==
  LET now == clone'[c]
  IN /\ Moved(c) \in {{}, Judged(c)}
     /\ cmd[c].op = "import" \/ cmd[c].unignore => now.work.imported = now.staged.imported
     /\ now.work.exported = now.staged.exported
     /\ cmd[c].op = "import" =>
          /\ Moved(c) \subseteq now.work.imported
          /\ Moved(c) = {} /\ Judged(c) # {} => now.work.imported = cmd[c].before.imported
     /\ cmd[c].op = "export" => /\ Moved(c) = Judged(c) \cap now.work.exported
                                /\ Moved(c) \cap now.work.imported = {}

AllOrNothing == [][\A c \in Movers : GitStepEnds(c) => EndsWhole(c)]_vars

(* What changes hands is one content: an import takes out of git only what *)
(* Drive holds in the content git had, and an export gives git the version *)
(* Drive holds, never a stale one, if nobody touched the file, here or on  *)
(* Drive, since the listing.  Nor may an import's HEAD have moved since it *)
(* was read, which is before the listing: a version committed between the  *)
(* two is taken out of git unseen, Drive holding the one before it.        *)
GitAgreesWithDrive ==
  [][\A c \in Movers, batch \in SUBSET Files : \A f \in batch \ raced[c] :
       /\ ImportUntracks(c, batch) => drive[f] = clone[c].head.tree[f]
       /\ ExportTracks(c, batch) => clone'[c].staged.tree[f] = drive[f]]_vars

(* A file that an import's commit took from this clone's work tree is not  *)
(* taken for a deleted one: push never trashes its Drive copy.             *)
TrashSparesImported ==
  [][\A c \in Clones, f \in Files : PushTrashes(c, f) => f \notin gitGone[c]]_vars
=============================================================================
