---------------------------- MODULE RemoteManifest ----------------------------
(***************************************************************************)
(* The manifest on Drive that lists what protonfs verified there: several  *)
(* hosts read, update and rebuild it without a conditional write.          *)
(*                                                                         *)
(* A write is a loop of a listing (which revision is active?), a download  *)
(* and replay if that is not the revision the writer has read, an upload   *)
(* and a listing that confirms it.  Other hosts, other clients and crashes *)
(* come between any two of them.  A host's own commands take its repo lock *)
(* and so run one at a time.                                               *)
(*                                                                         *)
(* Every revision has bytes of its own (updated, updated_by), and a        *)
(* listing reports their sha1: a comparison of bytes with a listing is one *)
(* of revisions.                                                           *)
(***************************************************************************)
EXTENDS Naturals

CONSTANTS
  Hosts,
  Files,
  MaxVersion,    \* bound: uploads of one path
  MaxRevisions,  \* bound: manifest revisions
  MaxCommands,   \* bound: commands started, by all hosts
  SAVE_ATTEMPTS

ASSUME ManifestAssumption ==
  /\ MaxVersion \in Nat
  /\ MaxRevisions \in Nat
  /\ MaxCommands \in Nat
  /\ SAVE_ATTEMPTS \in Nat \ {0}

VARIABLES
  drive,   \* the version of each path on Drive, 0 where there is none
  made,    \* how many versions of each path were uploaded
  manifest,\* the manifest's active revision, its revision 0 when there is none
  last,    \* how many revisions Drive has received
  index,   \* each host's index.json: the paths it knows and its manifest state
  run,     \* each host's running command
  started  \* bound: commands so far

vars == <<drive, made, manifest, last, index, run, started>>

-----------------------------------------------------------------------------
Versions == 0 .. MaxVersion
Revisions == 0 .. MaxRevisions

(* Entries name the version that was verified. *)
NoFiles == [f \in Files |-> 0]
Manifests == [revision : Revisions, generation : 0 .. MaxRevisions,
              entries : [Files -> Versions]]
NoManifest == [revision |-> 0, generation |-> 0, entries |-> NoFiles]
Listed(entries) == {f \in Files : entries[f] # 0}

(* The manifest state is a generation and a revision, 0 when it has none;  *)
(* listed is a history field, what that revision lists.                    *)
Indexes == [known : SUBSET Files, generation : 0 .. MaxRevisions,
            revision : Revisions, listed : [Files -> Versions]]

Ops == {"none", "update", "repair", "refresh", "seed"}
Phases == {"idle", "loading", "fetching", "walking", "probing", "replaying",
           "uploading", "confirming"}

(* The running command: its index, the listing of the manifest it last saw, *)
(* its RemoteManifest (what it read, with the changes queued) and its walk. *)
Runs == [op : Ops, phase : Phases, mem : Indexes, probed : Revisions, read : Manifests,
         sets : [Files -> Versions], forgets : SUBSET Files,
         was_current : BOOLEAN, replayed : BOOLEAN,
         attempts : 0 .. SAVE_ATTEMPTS, sent : Revisions,
         todo : SUBSET Files, found : [Files -> Versions]]

NoIndex == [known |-> {}, generation |-> 0, revision |-> 0, listed |-> NoFiles]
Idle == [op |-> "none", phase |-> "idle", mem |-> NoIndex, probed |-> 0,
         read |-> NoManifest, sets |-> NoFiles, forgets |-> {},
         was_current |-> FALSE, replayed |-> FALSE, attempts |-> 0, sent |-> 0,
         todo |-> {}, found |-> NoFiles]

TypeOK ==
  /\ drive \in [Files -> Versions]
  /\ made \in [Files -> Versions]
  /\ manifest \in Manifests
  /\ last \in Revisions
  /\ index \in [Hosts -> Indexes]
  /\ run \in [Hosts -> Runs]
  /\ started \in 0 .. MaxCommands

Init ==
  /\ drive = NoFiles
  /\ made = NoFiles
  /\ manifest = NoManifest
  /\ last = 0
  /\ index = [h \in Hosts |-> NoIndex]
  /\ run = [h \in Hosts |-> Idle]
  /\ started = 0

-----------------------------------------------------------------------------
(* Steps of a host.                                                        *)

Goes(h, to) == run' = [run EXCEPT ![h] = to]

Starts(h, command) ==
  /\ run[h].phase = "idle"
  /\ started < MaxCommands
  /\ started' = started + 1
  /\ Goes(h, [command EXCEPT !.phase = "loading"])

(* The command ends and saves its index. *)
Ends(h, idx) ==
  /\ index' = [index EXCEPT ![h] = idx]
  /\ Goes(h, Idle)
  /\ UNCHANGED started

(* set_manifest_state *)
Reconciled(known, m) ==
  [known |-> known, generation |-> m.generation, revision |-> m.revision,
   listed |-> m.entries]

(* Our changes, on top of a manifest that was read. *)
Applied(entries, r) ==
  [f \in Files |-> IF r.sets[f] # 0 THEN r.sets[f]
                   ELSE IF f \in r.forgets THEN 0 ELSE entries[f]]

-----------------------------------------------------------------------------
(* Someone trashes the manifest in the web UI.  Another client's upload or *)
(* trash of a file looks like a push or rm that stops before the manifest. *)

OutsideTrashesManifest ==
  /\ manifest # NoManifest
  /\ manifest' = NoManifest
  /\ UNCHANGED <<drive, made, last, index, run, started>>

-----------------------------------------------------------------------------
(* push and rm: the change on Drive, verified, then manifest.update().     *)

Uploaded(f) ==
  /\ made[f] < MaxVersion
  /\ made' = [made EXCEPT ![f] = @ + 1]
  /\ drive' = [drive EXCEPT ![f] = made[f] + 1]

Pushes(h, f) ==
  /\ Uploaded(f)
  /\ Starts(h, [Idle EXCEPT !.op = "update",
                            !.mem = [index[h] EXCEPT !.known = @ \cup {f}],
                            !.sets = [NoFiles EXCEPT ![f] = made[f] + 1]])
  /\ UNCHANGED <<manifest, last, index>>

Removes(h, f) ==
  /\ drive[f] # 0
  /\ drive' = [drive EXCEPT ![f] = 0]
  /\ Starts(h, [Idle EXCEPT !.op = "update",
                            !.mem = [index[h] EXCEPT !.known = @ \ {f}],
                            !.forgets = {f}])
  /\ UNCHANGED <<made, manifest, last, index>>

(* verify --repair, refresh, and the first pull of an empty index. *)
Begins(h, op) ==
  /\ op = "seed" => index[h].known = {}
  /\ Starts(h, [Idle EXCEPT !.op = op, !.mem = index[h]])
  /\ UNCHANGED <<drive, made, manifest, last, index>>

(* RemoteManifest.load: the listing. *)
Probes(h) ==
  /\ run[h].phase = "loading"
  /\ manifest # NoManifest
  /\ Goes(h, [run[h] EXCEPT !.phase = "fetching", !.probed = manifest.revision])
  /\ UNCHANGED <<drive, made, manifest, last, index, started>>

(* No manifest, or none that refresh can read: a walk goes on without. *)
WalksWithout(h) ==
  /\ \/ /\ run[h].phase = "loading"
        /\ run[h].op \in {"repair", "refresh"}
        /\ manifest = NoManifest
     \/ run[h].phase = "fetching" /\ run[h].op = "refresh"
  /\ Goes(h, [run[h] EXCEPT !.phase = "walking", !.todo = Files, !.probed = 0])
  /\ UNCHANGED <<drive, made, manifest, last, index, started>>

(* ... and the download, which has to match the listing. *)
Readable(h) ==
  /\ manifest # NoManifest
  /\ manifest.revision = run[h].probed

FetchesForUpdate(h) ==
  /\ run[h].phase = "fetching"
  /\ run[h].op = "update"
  /\ Readable(h)
  /\ Goes(h, [run[h] EXCEPT
       !.phase = "probing",
       !.probed = 0,
       !.read = [manifest EXCEPT !.entries = Applied(@, run[h])],
       !.was_current = /\ run[h].mem.revision = manifest.revision
                       /\ run[h].mem.generation = manifest.generation])
  /\ UNCHANGED <<drive, made, manifest, last, index, started>>

FetchesForWalk(h) ==
  /\ run[h].phase = "fetching"
  /\ run[h].op \in {"repair", "refresh"}
  /\ Readable(h)
  /\ Goes(h, [run[h] EXCEPT !.phase = "walking", !.todo = Files, !.probed = 0,
                            !.read = manifest])
  /\ UNCHANGED <<drive, made, manifest, last, index, started>>

(* seed_index *)
Seeds(h) ==
  /\ run[h].phase = "fetching"
  /\ run[h].op = "seed"
  /\ Readable(h)
  /\ Ends(h, Reconciled(Listed(manifest.entries), manifest))
  /\ UNCHANGED <<drive, made, manifest, last>>

-----------------------------------------------------------------------------
(* The walk of the whole root, one folder (here: path) at a time.          *)

(* A file listed without a plaintext size is left out of the manifest. *)
Lists(h, f, sized) ==
  /\ run[h].phase = "walking"
  /\ f \in run[h].todo
  /\ Goes(h, [run[h] EXCEPT !.todo = @ \ {f},
                            !.found[f] = IF run[h].op = "repair" /\ sized
                                         THEN drive[f] ELSE 0,
                            !.mem.known = IF run[h].op = "refresh" /\ drive[f] # 0
                                          THEN @ \cup {f} ELSE @])
  /\ UNCHANGED <<drive, made, manifest, last, index, started>>

(* refresh: what it read before the walk is what it is reconciled with. *)
Refreshes(h) ==
  /\ run[h].phase = "walking"
  /\ run[h].op = "refresh"
  /\ run[h].todo = {}
  /\ Ends(h, IF run[h].read = NoManifest THEN run[h].mem
             ELSE Reconciled(run[h].mem.known, run[h].read))
  /\ UNCHANGED <<drive, made, manifest, last>>

(* rebuild: the changes that make the manifest what the walk found. *)
Rebuilt(h) ==
  LET old == run[h].read.entries
      found == run[h].found
  IN [run[h] EXCEPT
        !.sets = [f \in Files |-> IF found[f] # old[f] THEN found[f] ELSE 0],
        !.forgets = {f \in Files : old[f] # 0 /\ found[f] = 0},
        !.read.entries = found,
        !.found = NoFiles,
        !.phase = "probing"]

Rebuilds(h) ==
  /\ run[h].phase = "walking"
  /\ run[h].op = "repair"
  /\ run[h].todo = {}
  /\ IF run[h].read # NoManifest /\ run[h].found = run[h].read.entries
     THEN Goes(h, Idle) ELSE Goes(h, Rebuilt(h))
  /\ UNCHANGED <<drive, made, manifest, last, index, started>>

-----------------------------------------------------------------------------
(* RemoteManifest.save                                                     *)

(* Mutant: no replay. *)
TakesUpAsRead(h) ==
  Goes(h, [run[h] EXCEPT !.attempts = @ + 1, !.probed = manifest.revision,
                         !.phase = "uploading"])

(* The manifest is listed again: another host's revision is replayed onto, *)
(* what was read is written over.                                          *)
Takes_up(h) ==
  Goes(h, [run[h] EXCEPT
    !.attempts = @ + 1,
    !.probed = manifest.revision,
    !.phase = IF manifest # NoManifest /\ manifest.revision # run[h].read.revision
              THEN "replaying" ELSE "uploading"])

(* Mutant: a vanished manifest is written again. *)
SaveProbesAnyway(h) ==
  /\ run[h].phase = "probing"
  /\ run[h].attempts < SAVE_ATTEMPTS
  /\ Takes_up(h)
  /\ UNCHANGED <<drive, made, manifest, last, index, started>>

(* A manifest that vanished since it was read is not written again: save   *)
(* raises (Stops).                                                         *)
SaveProbes(h) ==
  /\ run[h].phase = "probing"
  /\ run[h].attempts < SAVE_ATTEMPTS
  /\ manifest = NoManifest => run[h].read.revision = 0
  /\ Takes_up(h)
  /\ UNCHANGED <<drive, made, manifest, last, index, started>>

Replays(h) ==
  /\ run[h].phase = "replaying"
  /\ Readable(h)
  /\ Goes(h, [run[h] EXCEPT
       !.read = [manifest EXCEPT !.entries = Applied(@, run[h])],
       !.replayed = TRUE,
       !.phase = "uploading"])
  /\ UNCHANGED <<drive, made, manifest, last, index, started>>

Uploads(h) ==
  /\ run[h].phase = "uploading"
  /\ last < MaxRevisions
  /\ last' = last + 1
  /\ manifest' = [revision |-> last + 1, generation |-> run[h].read.generation + 1,
                  entries |-> run[h].read.entries]
  /\ Goes(h, [run[h] EXCEPT !.phase = "confirming", !.sent = last + 1, !.probed = 0])
  /\ UNCHANGED <<drive, made, index, started>>

(* The upload is reported done and nothing landed. *)
UploadVanishes(h) ==
  /\ run[h].phase = "uploading"
  /\ Goes(h, [run[h] EXCEPT !.phase = "confirming", !.sent = 0, !.probed = 0])
  /\ UNCHANGED <<drive, made, manifest, last, index, started>>

Landed(h) == manifest # NoManifest /\ manifest.revision = run[h].sent

(* Mutant: what was replayed onto counts as known. *)
ConfirmsReplayed(h) ==
  /\ run[h].phase = "confirming"
  /\ Landed(h)
  /\ Ends(h, IF run[h].was_current THEN Reconciled(run[h].mem.known, manifest)
             ELSE run[h].mem)
  /\ UNCHANGED <<drive, made, manifest, last>>

(* The index is current with the new generation if it was with the one     *)
(* read and nothing was replayed.                                          *)
Confirms(h) ==
  /\ run[h].phase = "confirming"
  /\ Landed(h)
  /\ Ends(h, IF run[h].was_current /\ ~run[h].replayed
             THEN Reconciled(run[h].mem.known, manifest)
             ELSE run[h].mem)
  /\ UNCHANGED <<drive, made, manifest, last>>

(* Overtaken, or never landed: round again. *)
GoesRoundAgain(h) ==
  /\ run[h].phase = "confirming"
  /\ ~Landed(h)
  /\ Goes(h, [run[h] EXCEPT !.phase = "probing"])
  /\ UNCHANGED <<drive, made, manifest, last, index, started>>

(* A Drive error, a manifest that is absent, changed while it was read or  *)
(* gone, the last attempt, Ctrl-C: the command's own result is saved.  A   *)
(* kill: it may be, for the index is checkpointed.                         *)
Stops(h) ==
  /\ run[h].phase # "idle"
  /\ \E idx \in {index[h], run[h].mem} : Ends(h, idx)
  /\ UNCHANGED <<drive, made, manifest, last>>

-----------------------------------------------------------------------------
Command(h) ==
  \/ \E f \in Files : Pushes(h, f) \/ Removes(h, f)
  \/ \E op \in {"repair", "refresh", "seed"} : Begins(h, op)
  \/ Probes(h) \/ WalksWithout(h)
  \/ FetchesForUpdate(h) \/ FetchesForWalk(h) \/ Seeds(h)
  \/ \E f \in Files, sized \in BOOLEAN : Lists(h, f, sized)
  \/ Refreshes(h) \/ Rebuilds(h)

Save(h) ==
  \/ SaveProbes(h) \/ Replays(h) \/ Uploads(h) \/ UploadVanishes(h)
  \/ Confirms(h) \/ GoesRoundAgain(h)

Next == OutsideTrashesManifest \/ \E h \in Hosts : Command(h) \/ Save(h) \/ Stops(h)

Spec == Init /\ [][Next]_vars

-----------------------------------------------------------------------------
(* An index reconciled with a manifest revision knows every file that      *)
(* revision lists and Drive still holds as listed: pull's staleness note   *)
(* is silent only when there is nothing to pick up.                        *)
Misses(h, entries) ==
  {f \in Files \ index[h].known : drive[f] # 0 /\ entries[f] = drive[f]}

ReconciledKnowsAll == \A h \in Hosts : Misses(h, index[h].listed) = {}

(* The one way another host's changes are lost: a writer that uploads over *)
(* the revision it has just listed keeps every entry it did not change, so *)
(* only a revision that came between its listing and its upload can go     *)
(* missing from the manifest.                                              *)
OnlyRacersAreDropped ==
  [][\A h \in Hosts :
       Uploads(h) /\ manifest # NoManifest /\ run[h].probed = manifest.revision =>
         \A f \in Files : run[h].sets[f] = 0 /\ f \notin run[h].forgets
                           => manifest'.entries[f] = manifest.entries[f]]_vars

(* A manifest comes into being only from a walk of the whole root, or      *)
(* again from one that was there when its writer looked last: push and rm  *)
(* never start one mid-history.                                            *)
NeverStartedMidHistory ==
  [][\A h \in Hosts : Uploads(h) /\ manifest = NoManifest =>
       run[h].op = "repair" \/ run[h].probed # 0]_vars
=============================================================================
