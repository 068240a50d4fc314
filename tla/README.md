# protonfs: specifications in TLA+

protonfs keeps a local tree and a folder of Proton Drive in step by calling the
Proton Drive command line client. Its correctness lies in what it *remembers*:
an index says what this machine holds and what it last saw on Drive, and
commands delete local files, trash remote ones and overwrite either side on the
word of that index. These modules state what has to be true of the index, the
saved walk, the remote manifest, the schedule and a store's configuration while
commands are interrupted, the client reports success that is none, and the user
and other devices keep writing.

All paths below are relative to `src/src/protonfs/` unless they start with
`docs/`. `PROJECT.json` maps every definition to the lines it stands for.

## 1. The system

| part | state it keeps | operations | what makes it hard |
|---|---|---|---|
| **index** (`index.py`) | `.protonfs/index.json`: per path size, sha256, sha1, `present`/`metadata-only`, last sync; the manifest generation reconciled with; underdelivered revisions | `set`, `remove`, `checkpoint`, `save`, `set_manifest_state` | atomic file, but loaded before the lock and saved whole |
| **refresh** (`commands/refresh.py`, `refreshstate.py`) | the saved frontier `refresh-state.json` | walk, seed, checkpoint, resume, detect, prune | two files saved one after the other, throttled walks, resumes |
| **push** (`commands/push.py`) | per-file upload jobs | scan, revision choice, upload, verify, adopt, retry; moves; trash local deletions | the client's reports cannot be trusted; name conflicts with its own earlier uploads |
| **pull** (`commands/pull.py`) | – | choose, download into staging, move into place, index | overwrites; files that changed since the scan |
| **offload / prune** (`commands/offload.py`, `commands/prune.py`, `retention.py`) | the batch to delete | check against Drive, record, save, delete | deletes local files: the save has to come first |
| **remote manifest** (`manifest.py`) | one JSON object on Drive, written by every host | load, seed an index, update, rebuild | no conditional write: listing, replay, upload, confirm |
| **diff** (`diff.py`) | – (pure) | `classify`, `held_and_gone`, `pair_moves` | three views of a path, each possibly missing or partial |
| **drive client** (`drive.py`, `drivecache.py`, `batching.py`, `argv.py`) | throttling delays, clock offset | list, walk, upload, download, move, trash, restore | retries of what was done, silent failures |
| **lock and context** (`locking.py`, `context.py`) | flock on the repo | `repo_lock`, `load_context` | the index is read before the lock is held |
| **local scan** (`localscan.py`, `ignore.py`, `hashcache.py`, `lfs.py`) | hash cache | `scan`, pointer stubs | stale between scan and use |
| **git moves** (`commands/gitmove.py`, `gitops.py`, `importblock.py`) | git index, `.gitignore` block | import, export | three stores changed in turn, with rollback |
| **rm, trash, restore** (`commands/rm.py`, `commands/trash.py`, `commands/restore.py`) | – | trash, delete for good, restore | Drive's trash knows an item by its basename |
| **schedule** (`commands/schedule.py`) | crontab, schedule record, wrapper scripts | add, remove, run | read-modify-write without a lock; three flocks; a wrapper killed while its command runs |
| **index check, upgrade** (`indexcheck.py`, `migrations.py`, `commands/upgrade.py`) | schema, check level, layout markers | detect, repair, migrate | repairs decided on a listing; a crash before the marker |
| **setup, deinit, configuration** (`commands/setup.py`, `commands/deinit.py`, `config.py`) | six files, git's index and HEAD | create, complete, migrate from git-LFS, remove | many files one after the other, killed between any two |
| **credentials** (`credstore.py`, `secretservice.py`, `commands/auth.py`) | keyring session | start, unlock, log in | helper processes |
| **install, reports** (the rest) | – | downloads, printing | – |

**How they interact.** A command loads the context (configuration, index), takes
the repo lock, and calls one of the functions above, which work on the index in
memory, call the drive client and save the index once or at checkpoints. Nothing
runs concurrently *inside* a command. The concurrency is between a command and
(a) the user at the same files, (b) other devices at the same Drive nodes, (c)
other hosts at the manifest, (d) a second command that was started before the
lock was free, and (e) the moment at which it is killed or throttled.

**What makes each part correct**

- *refresh*: an interrupted walk loses nothing and is finished in the end; a
  partial pass deletes nothing, and a full one only what it was not shown; the
  generation recorded is covered.
- *push*: `present` in the index means the bytes were on Drive; pushing again
  repairs whatever an earlier push left behind, and replaces no revision of another
  device that this machine never had in sync.
- *pull*: it records what it downloaded. That it overwrites nothing that exists
  nowhere else cannot be promised (section 3).
- *offload*: it deletes only a confirmed copy, and no interruption makes a deleted
  file look like one the user removed.
- *manifest*: concurrent writers keep each other's changes, save for a race of
  one step; an index that is called current knows what the manifest lists.
- *diff*: an unchanged node is not reported as changed, where entry and listing speak
  of the same size.
- *git moves*: a file is tracked by git, synced, or both, never neither; all paths of a
  move change or none; git gives up, and is given, only what Drive holds; a clone that
  pulls an import does not trash the files it loses.
- *moves*: after a push the index names nodes where they are; a half-done move is put
  back or recorded; trashing local deletions never takes what was moved.
- *rm, restore*: of several items of one name, the one that was meant.
- *schedule*: crontab, record and wrappers agree; no two jobs undo each other's work;
  jobs take turns, and each one ends.
- *index check*: an index is called checked only when it is; a repair hides no loss.
- *setup*: it can be stopped anywhere and run again; a machine keeps its device id; git
  gives up an LFS file only once it was uploaded.

## 2. Modules

### `Refresh` (with `MCRefresh`, `RefreshProofs`)

One host's `refresh`, one step per read or write of shared state.
`index`/`frontier` are the two files on disk, `mem` the process's index,
`queue`/`pending`/`seen` the walk and `_save_progress`'s closure, `drive`,
`folders`, `generation`/`listed` what other devices do meanwhile: files and folders
go and come back at any time.

| code | actions |
|---|---|
| arguments, `load_frontier`, manifest read before the walk (until `refresh.py:160`) | `Begin` |
| `DriveClient.walk` + `_seed_directory` + `_save_progress` | `ListFolder`, `NotDue`, `CheckpointIndex`, `CheckpointFrontier`, `CheckpointRaises` |
| throttled past the retries, Ctrl-C, a folder that is gone | `WalkRaises`, `ListMissing` |
| `except BaseException` around the walk | `WedgedSavesIndex`, `WedgedSavesFrontier`, `WedgedPersistsNothing`, `WedgedSaveRaises` |
| the walk's return, a resumed pass's early return | `WalkReturns` |
| change and deletion detection, `--prune`, the save | `Detect`, `DetectSaveRaises` |
| the command's end, or pull's save after `pull --refresh` | `RefreshExits`, `PullSaves` |
| SIGKILL, power loss | `Kill` |

The breadth-first queue is a set (the order does not matter to any property);
a file's index entry is its membership in `entries`. `ListFolder` shows any part of a
folder: the walk skips entries whose name Proton cannot decrypt (`drive.py:1324`) and
takes an answer that is no list for an empty folder (`drive.py:1209`). History are
`owed`, what the walk of the saved frontier has listed and so must have recorded;
`missed`, what the listings of the running pass left out or what came onto Drive after
it began; and `listed`, what a manifest lists and no listing has left out since.

### `Diff`

`_remote_diverged`, `_classify_present`, `_classify_absent`, `classify` and
`held_and_gone` as operators on one path: a content is its own digest, a remote
entry is the plaintext size and digest Drive may not report and the encrypted
size it always does. `FileSync` and `Offload` use them.

### `FileSync` (with `MCFileSync`, `FileProofs`)

One path of one host: `file`, its `node` on Drive, its index entry on `disk` and in
the running command's memory, while push and pull run in steps and anything may
change between two of them.

| code | actions |
|---|---|
| push's scan and `classify` | `PushScan` |
| `_revision_rels` | `PushPlan` (`Is_revision`) |
| the upload and how the client reports it | `UploadLands`, `UploadLeavesNode`, `UploadConflicts`, `UploadLacksThumbnail`, `UploadFails` |
| `_verify_remote`, `_is_older_copy`, `_is_own_upload` and the outcome of a round | `PushIndexes`, `PushSendsRevision`, `PushMarksUnderdelivered`, `PushReports` |
| pull's candidates | `PullScan` (`To_pull`) |
| download, landing, hashing | `DownloadLands`, `DownloadVanishes`, `DownloadFails`, `PullIndexes`, `PullFindsNothing` |
| the last save, a kill or an error | `Saves`, `Stops` |
| refresh, first pull, offload, `--deletions trash` on this path | `Seed`, `Offload`, `TrashDeleted` |

`own` says whether an index's underdelivered record names the node's active
revision (revisions are never compared otherwise, so no counter is needed). A node is
`by` this host, another device, or `"claimed"`: another device's that a short push has
recorded as its own. `agreed` and `doubt`, `kept` and `raced` are history; `raced` tells
what changed before a push's last listing (`"before"`) from what changed after it
(`"since"`), which no code can see.

### `Custody` and `Offload` (with `MCOffload`, `OffloadProofs`)

`Custody` is the abstract promise about a machine's copies: no batches, checkpoints,
listings or kills, only that the index on disk gives a copy up (`GivesUp`) before it is
taken away (`TakesAway`), in the content last synced or one the user wrote meanwhile,
and that a deletion is passed on to Drive (`PassesOn`) only for files the user deleted.
`Offload` is the code, and implements it under `C == INSTANCE Custody`: `here` is
`local`, `there` is `drive`, `label` is what the saved `index` says (`Label`), `known` is
`synced`, `late` is `edited` and `taken` is `offloaded`. A listing, a decision, a failed save
and a kill are stutters there; a save of a batch is a `GivesUp`.

Several paths in several folders, one host. `cleared` is the batch, `listing` the
folder's listing, `resave` that a save has failed once. `OtherLoads`/`OtherSaves` are
a second process that calls `load_context` before and saves after; constant
`Overlap` says whether it may straddle another command, which the code allows.

### `RemoteManifest` (with `MCRemoteManifest`, `RemoteManifestProofs`)

Any number of hosts, each running one command at a time (`run[h]`), and the manifest
node they share. `SaveProbes`, `Replays`, `Uploads`, `UploadVanishes`, `Confirms`,
`GoesRoundAgain` are the rounds of `RemoteManifest.save`; `FetchesForUpdate` is
`update()`, `FetchesForWalk`/`Lists`/`Rebuilds` are `verify --repair`, `Refreshes` and
`Seeds` the two ways an index gets reconciled. A manifest entry is the number
of the version that was verified. Every revision has its own bytes, so comparing
sha1 with a listing is comparing revisions.

### `GitMove` (with `MCGitMove`, `GitMoveProofs`)

`import` and `export` on clones of one repository whose stores share a folder of
Drive. A clone has a work tree, a git index (`staged`), a HEAD and a protonfs index;
each of the first three holds a version of the files and of the two blocks,
`imported` (in `.gitignore`) and `exported` (in `.protonfs/ignore`). `origin` is the
newest commit; `cmd[c]` is the running command with its `phase`.

| code | actions |
|---|---|
| `check_import`, `check_export` | `ImportBegins`, `ExportBegins` |
| `import_from_git`'s push, `export_to_git`'s pull | `ImportPushes`, `ExportPulls` |
| `verify_imported`'s read of HEAD's blobs, which comes before the listing | `ReadsHead` |
| `_verify_synced`: the listing, then the files; `_compare_by_download` | `Lists`, `Verifies` |
| `_git_step` | `ImportIgnores`, `ImportUntracks` (a batch), `ImportStages` |
| `_export_git_step` | `ExportUnignores`, `ExportTracks` (a batch), `ExportIgnores`, `ExportSeals` |
| `_trash_deleted` and `_forget` after an export | `ExportTrashes`, `ExportForgets` |
| a failing git command or Ctrl-C in the git step, its undo | `GitFails`, `UndoResets`, `UndoRestores`, `UndoRestoresIgnore` |
| a kill in the git step, an undo that fails | `Tears`; `UserRepairs` is what the message asks for |
| an error, Ctrl-C or kill elsewhere | `Stops` |
| push, `push --deletions trash`, pull and offload of one path, in one step each | `Push`, `PushTrashes`, `Pull`, `Offload` |
| git and the user | `UserWrites`, `UserStages`, `GitCommits`, `GitPulls` |

`owed`, `gitGone` and `raced` are history: the paths only the last move has touched (a
pulled commit that drops an export line, and an undo that was interrupted, end that),
the files a pulled import took from a work tree, and the paths others touched
since a running move listed Drive, or whose version in HEAD an import read and a commit
has changed since.

### `Moves` (with `MCMoves`, `MovesProofs`)

A whole push over several folders: `local` files, `drive` nodes, the index on `disk`
and in `mem`, the paths the manifest `listed`, and `run`, the push's scan, plan and
place. `Pair_moves` and its helpers are `pair_moves` in its two rounds.

| code | actions |
|---|---|
| scan, verdicts, settle window, the plan | `Start` |
| `_apply_moves` for one target folder | `ListTarget`, `MoveNodes`, `RenameNode`, `ListMoved`, `PutBack` |
| `index.checkpoint()` after the moves | `Checkpoint` |
| whole directories, uploads by folder | `UploadDir`, `Upload` |
| the guards, `_trash_deleted` and its listing | `Guard`, `Trash`, `ListTrashed` |
| the manifest's update, the last save | `WriteManifest`, `Save` |
| Ctrl-C, a kill | `Interrupted`, `Killed` |
| the user, another device | `UserWrites`, `UserDeletes`, `UserMoves`, `OtherWrites` |

`homes` and `woes` are history: the paths some machine ever had a file at, and what
went wrong besides a call that moves or uploads (another device wrote, a kill, a
listing that did not answer, an edit under a running push, two entries at one node, a
stray nothing names). The properties of a push say which of these they exclude.

### `Trash` (with `FileProofs`)

`rm`, `restore` and `trash empty` over nodes that have a parent and a name. Drive acts
on the `first` trashed node of a name; which one that is, among several, is left to
Drive, and it stays the first until it goes or another one comes (`Lists`). `hidden` are
the trashed nodes the listing does not show yet.

| code | actions |
|---|---|
| `rm` and `rm -f` of files and directories | `RmBegins`, `RmTrashes`, `RmLists`, `RmDeletes`, `RmDrops` |
| an error of the calls `-f` adds | `Abandons` |
| a trash call that fails, before or after Drive has trashed the node | `RmTrashes` with `fails`, `lands` |
| one manifest update for all arguments | `RmForgets` |
| `DriveClient.restore` | `RestoreBegins`, `RestoreLooksUp`, `Restores` |
| `empty_trash` | `EmptyTrash` |
| pushes of this machine, other devices, a late listing, a kill | `PushAgain`, `OtherDevice`, `Appears`, `Killed` |

### `Turns` and `Schedule` (with `MCSchedule`, `ScheduleProofs`)

`Turns` is the abstract promise: the jobs of a repository take turns. `Schedule` is
the code, and implements it under `T == INSTANCE Turns WITH inside <- Turn`, where
`Turn` are the jobs past `flock -w`, including those whose wrapper was killed while a
command of theirs still runs.

| code | actions |
|---|---|
| `add_job`, `remove_job`, `remove_all` | `AddChecks`, `AddLoads`, `RemoveLoads`, `ReadsCrontab`, `WritesCrontab`, `SavesRecord`, `Unlinks`, `Dies` |
| `check_conflicts`, `scope_relation` | `Refused`, `Conflict`, `Scope_relation` |
| the wrapper script | `JobDue`, `TakesTurn`, `GivesUp`, `CommandStarts`, `CommandEnds`, `JobEnds` |
| a killed wrapper and the command it leaves | `WrapperDies`, `OrphanEnds` |
| a command the user types | `UserStarts`, `UserEnds` |

`cron`, `record` and `scripts` are the crontab, `schedule.local.json` and the wrapper
scripts. A behaviour either edits the schedule or runs it (`mode`): a job reads none
of the three once cron has started it.

### `IndexCheck` (with `MCIndexCheck`, `UpgradeProofs`)

`verify --index --repair` and upgrade's re-verification, on one path whose file and
node change at any step. `rest` stands for the other entries: whether their listings
have settled all of them so far.

| code | actions |
|---|---|
| the command reads the index, then takes the lock | `Load`, `Lock` |
| `check_index`, one directory at a time | `ListsPath`, `ListsOther` (`Verdict`) |
| `repair_index`, the level, the save | `Repairs` (`Repaired`, `Suspect`), `Saves` |
| an error, a kill | `CheckStops` |
| push, pull, offload, refresh before the lock | `Push`, `Pull`, `Offload`, `Seed` |

### `Setup` (with `UpgradeProofs`)

A store's files: `shared` and `local` configuration, `contract` (ignore and include
files), `control` (the git control files), `index`; and the files that move from
git-LFS to Drive, with git's three places for each rule, line and file, the LFS files
the index records (`entries`), and of each file the copy its last upload made: under
which root, and whether it is still there.

| code | actions |
|---|---|
| `run_setup` | `SetupBegins`, `ReadsConfig`, `InitsLocal`, `MintsDevice`, `Relocates`, `PopsShared`, `WritesContract`, `WritesControl` |
| `migrate_lfs` | `Materializes`, `Uploads`, `Untracks`, `Ignores`, `GitAdds`, `GitRemoves`, `GitCommits`, `GitFails`, `CleansStubs` |
| `run_upgrade`, `run_migrations` | `UpgradeBegins`, `AppliesIndex`, `AppliesOther`, `Marks` |
| `run_deinit` | `DeinitBegins`, `Removes` |
| a kill, a failing write | `Stops` |
| git and the user | `GitBrings`, `UserReverts`, `UserCommits`, `ConfigSets` |
| other commands of this machine, which push; another device | `OthersRecord`, `OtherDeviceTrashes` |

**How the modules compose.** `Diff` is shared by `FileSync`, `Offload`, `Moves`,
`IndexCheck` and `GitMove`; `Schedule` refines `Turns`, and `Offload` refines `Custody`. `FileProofs` extends both
`FileSync` and `Trash`, whose specification is therefore called `TrashSpec`. `upgrade` is `Setup`'s up to its
migrations and `IndexCheck`'s from there on; `UpgradeProofs` extends both, which is why
the specification of `IndexCheck` is called `CheckSpec`. The modules overlap on
purpose: what is one step in one of them has its steps in another (an upload in
`Moves` and `GitMove` is `FileSync`'s, a trash step in `GitMove` is `Offload`'s and
`Moves`'s, `rm`'s manifest update in `Trash` is `RemoteManifest`'s).

## 3. Runs

| run | checks | size |
|---|---|---|
| `refresh` | `FrontierNeverAhead`, `ReconciledIsSeeded`, `PruneDropsOnlyGone`, `ResumeCompletes` | two folders, a file in each, one manifest write, one fault |
| `filesync` | `PresentWasOnDrive`, `NoFalseDrift`, `PushReplacesNoOther` | contents `a`, `ab` (grew out of `a`), `xy` (as long as `ab`) |
| `push_converges` | `PushConverges` | `a` and `ab`, under fairness |
| `offload` | `OffloadedIsNotHeld`, `TrashSparesOffloaded`, `DeletesOnlySynced`, `DeletesOnlyCopies`, `OffloadKeepsCustody` | two files in two folders, two contents of one size |
| `manifest` | `ReconciledKnowsAll`, `OnlyRacersAreDropped`, `NeverStartedMidHistory` | two hosts, two files, three revisions, four commands, two attempts |
| `gitmove` | `NeverNeither`, `AllOrNothing`, `GitAgreesWithDrive`, `TrashSparesImported` | two files in one clone, or one file and a second clone; two contents, one fault, two edits (with two files, two of the three) |
| `moves` | `RecordsNameNodes`, `StraysAreKnown`, `KilledMovesAreRecorded`, `TrashKeepsMovedFiles`, `TrashLeavesSome`, `NothingRidesAlong` | two folders of two names, a file and an empty file; two edits and two mishaps, three of them together |
| `trash` | `RemovedIsForgotten`, `ForceDeletesItsOwn`, `RestoresTheAskedPath` | the root and a folder, one basename, five nodes, three commands, one act of another device, one mishap |
| `schedule` | `ScheduleIsRecorded`, `NoFightingJobs`, `JobsTakeTurns`, `JobsEnd` | three job ids, two editing processes, five patterns, two edits, one failure or kill |
| `indexcheck` | `LevelIsEarned`, `RepairSettles`, `RepairHidesNoLoss` | four contents, one a pointer stub; three kinds of listing |
| `setup` | `IndexBelongs`, `DeviceIdSurvives`, `GitGivesUpUploaded`, `SetupCompletes` | two remote roots, one LFS file, two minted device ids |
| `offload_stale` | `TrashSparesOffloaded`, violated | two files, one content, `Overlap = TRUE` |

Two are refinements: `JobsTakeTurns` says that every behaviour of `Schedule` is one of
`Turns`, `OffloadKeepsCustody` that every behaviour of `Offload` is one of `Custody`. No
run lists a type invariant: those of all modules are proved (section 4; `FileSync`'s is
part of its invariant).

**Why the bounds are enough.**
- `refresh`: two folders one below the other give a saved frontier that differs from
  the root, a folder that disappears under it, and a scoped refresh. One fault
  interrupts any step once; throttling and Ctrl-C (`WalkRaises`) are not bounded, nor
  is what listings leave out or what goes and comes back.
- `filesync`, `indexcheck`: nothing is counted, so sequences of commands are unbounded;
  three contents are the fewest with a prefix, an equal-sized rewrite and an unrelated
  file, and the check adds a pointer stub.
- `offload`: two files in two folders give batches that are saved between folders and
  together; nothing else is bounded.
- `manifest`: two attempts are the fewest with a lost one and a retry; three revisions
  allow a writer to be overtaken twice.
- `gitmove`: two files are the fewest with a move of several paths, a batch between two
  others and a second move that meets what an earlier one left staged; two clones the
  fewest with an import that is pulled. Both at once are too many states: the state
  constraint `Bounded` keeps to one file, or to one clone with at most two edits and
  faults together, and `OneOrOther` to one of the two through a behaviour. `MaxEdits`
  bounds edits, `git add`s and what other devices do, not commits, pulls or protonfs
  commands, whose sequences are unbounded.
- `moves`: two folders of two names have a move, a rename, both in one, a swap and a
  pair of candidates with the same content; two edits are the fewest with a new file
  beside a moved one; two mishaps the fewest with a move that fails and cannot be put back.
  No path is ignored and all files have one modification time: with either bound
  widened the search outgrows its time, so what rides along in a whole-folder upload
  (`NothingRidesAlong`) is a file written after the scan, and a settle window holds back
  all changed files or none.
- `trash`: five nodes are the fewest with three items of a name in the trash (in a
  folder, in the root, another device's) and a new upload at one of the paths.
- `schedule`: three ids and two processes are the fewest with an addition that overlaps
  a removal while a third job stays; the patterns are a literal, two globs of which one
  covers the other, a glob below a folder and `**`.
- `setup`: two roots tell an index of another root, and an upload under another root;
  two ids a second minting. One LFS file, which is uploaded or not, is enough to let a
  migration go on without one; with a second one, or one that setup leaves (`Left`), the
  search outgrows its time. The theorem `GivesUpUploaded` covers both.

`CHECK_DEADLOCK FALSE` is set where a system may rest: `filesync` and `push_converges`
(a path without a file on either side has nothing to do once it is calm), and the runs
whose environment is bounded and used up (`manifest`, `gitmove`, `moves`, `trash`,
`schedule`).

**Fairness.**
- `Refresh`: a refresh is started again whenever none runs (a schedule or a user,
  `WF(Start)`); a process that runs goes on (`WF(Progress)`, without faults and
  throttling); a listing that is tried again and again succeeds in the end
  (`SF(List)`: each resume tries it, and it is disabled in between).
  `ResumeCompletes` supposes that from some time on every run refreshes the
  whole root and persists, as a scheduled one does: a saved frontier is replaced
  by one for another root otherwise. It excepts a frontier with a folder that is
  gone from Drive, which the code never gets past.
- `FileSync`: `WF(PushGoesOn)`; `SF` of an upload that lands whole with its size
  reported, for Drive need not do so every time; `SF` of a name conflict
  reported outside the thumbnail round, because that round recognises no older
  copy. `CalmsDown` marks the time after which edits, other devices and hard
  failures cease; it may never come, and `PushConverges` says nothing then.
- `Schedule`: `WF` of a running job's next step and of the end of the user's command.
  A job that waits does so in `flock -w`, which ends by getting the lock or by its
  time limit (`TakesTurn`, `GivesUp`); no command it starts waits for the repo lock.
- `Setup`: `WF` of the running setup's next step, and of starting setup again.
  `calm` is the time after which nothing kills it and no other command runs.
- The other modules state safety only.

### Disagreements between the code and what is said of it

One has a run that ends in a **violation**, and is a finding in `PROJECT.json`:
`offload_stale`. A process that read the index before it got the lock writes it back
after an offload; the offloaded files then count as deleted here and their only copies
are trashed (`cli.py:1586`; `upgrade` and `verify --index --repair` load the index
before the lock as well).

The others were met while modelling. The passing runs except them explicitly, as the
comments of the properties say, or leave them out by a constant.

- *index and diff*: an entry that `refresh` seeds holds the encrypted size
  (`commands/refresh.py:122`) and is later compared with the plaintext size, and
  reported as smaller on Drive by `verify --index` (`docs/guarantees.rst:391-396`). The
  `filesync` run seeds such entries, and `NoFalseDrift` promises nothing of one where the
  listing reports the plaintext size, nor of a full entry where it reports only the
  encrypted one.
- *refresh*: `refresh --prune` drops the entry of a file that is on Drive when the pass
  did not see it: its name cannot be decrypted (`drive.py:1324-1328`), the answer for its
  folder was no list (`drive.py:1209-1210`), or it came back after its folder was listed.
  `PruneDropsOnlyGone` excepts exactly those files. A resumed pass returns without saving
  what it seeded since its last checkpoint (`commands/refresh.py:187`). Two manifests can have one generation, which
  `verify` then calls current (`cli.py:1874`).
- *push*: it may record another device's revision as its own short upload
  (`commands/push.py:1388`), and the next push then replaces that revision.
  `PushReplacesNoOther` excepts it (`"claimed"`), as well as a revision that came after the
  listing push decided by, and one the listing gives no digest of, which the comment at
  `commands/push.py:214-216` accepts. With `keep-both` it records the file as present although its
  copy lies under another name. The guard against an empty tree counts the held files of
  the whole index, so a scoped push of an unmounted folder passes it.
- *push, moves*: after a kill between a move and its rename, or a listing that fails
  after a move, the node lies where no entry names it; a stray that two entries share is
  resolved for one of them only. A node left at a stray path is recorded for the old
  path (`commands/push.py:952`); a new file that the user writes at that path, with the
  same content, is then uploaded onto it (the same node), and the trash step of that
  push takes it as the moved file's old copy, although it has just become the new
  file's (the comment at `commands/push.py:576-578` counts on the new path being on
  Drive, which it is). A file written at its old path again while its entry names a
  stray is recorded anew there, and nothing names the stray any more. `woes` marks the
  two as `"shared"` and `"orphaned"`.
- *pull*: a file that appears or is edited after pull's scan is overwritten by the
  download that is moved over it (`commands/pull.py:184`), although a plain pull "never
  overwrites a local file, so it cannot clobber a local edit"
  (`commands/pull.py:279`); the model does it (`DownloadLands`), and no property is
  stated of it. A download that never landed is indexed because the old file is there
  (`commands/pull.py:216`, constant `SilentDownloads`); `--resolve remote` never downloads a
  file that changed on Drive only (`commands/pull.py:381`).
- *rm*: when the listing of the trash or the deletion that `rm -f` adds fails, the command
  ends with the path trashed and still in the index and the manifest
  (`commands/rm.py:88`, `commands/rm.py:91`), although "the command removes the matching
  index entries locally regardless of whether the permanent-delete step below runs"
  (`docs/reference/index.rst:1005-1006`); `torn` excepts it. `rm -f` takes the item of the basename that is listed, though the listing may be
  late; a directory that is on Drive and not on disk needs no `-r`
  (`docs/reference/index.rst:1004`); a kill between the trash and the manifest's update
  leaves the manifest ahead.
- *import and export*: an import reads HEAD's blobs (`commands/gitmove.py:249`) before it
  lists Drive (`commands/gitmove.py:287`). A version committed between the two is never
  compared, and the import takes it out of git while Drive holds the one before it;
  `GitAgreesWithDrive` excepts that, and what is touched after the listing. The undo of an export resets `.gitignore` in git's index even if
  the export never edited it (`commands/gitmove.py:858`), so that an earlier import that
  is staged loses its line and keeps its `git rm --cached`. A git step that fails and
  whose undo is interrupted after `git reset` leaves a file that is not tracked and whose
  export line stops it being synced (`commands/gitmove.py:794-795`,
  `docs/guarantees.rst:290-291`).
- *upgrade*: the index migration and the markers are written without the lock.
- *setup and deinit*: `setup --dry-run` writes configuration and control files; a
  `deinit` killed after `config.json` is gone leaves an index that the next setup
  takes for its own; `config set remote_root` repoints a store without clearing its
  index. The LFS migration uploads "before any git tracking is touched"
  (`commands/setup.py:343-345`), but its push sends only what the index does not record
  and does not ask Drive about the rest (`commands/push.py:458-468`), and only a failed
  upload stops it (`commands/setup.py:379`): a file that an aborted migration uploaded and
  another device has trashed since, or that a repointed index recorded under another
  root, is given up by git. `GitGivesUpUploaded` promises that it was uploaded, under the
  store's root unless index and root had been left apart, not that it is still there.
  The migration also gives up files that were left as stubs or that protonfs
  ignores, and one that is killed between its untracking and its commit is not taken up
  again; the clones of an old layout share one device id.

## 4. Proofs

Eight modules prove, for every value of the constants that satisfies the named
assumptions of the modules (`TreeAssumption`, `BoundAssumption`, `ContentsAssumption`,
`OffloadAssumption`, `SyncAssumption`, `ManifestAssumption`, `CheckAssumption`,
`SetupAssumption`, `TrashAssumption`, `AbsentAssumption`, `ScheduleAssumption`, `MoveAssumption`,
`MovesAssumption`, `EntryAssumption`; the parts about `None` and `Absent` say only that
it is no other value):

| theorem | argument |
|---|---|
| `RefreshProofs!TypeCorrect` | by action |
| `RefreshProofs!FrontierIsNeverAhead` | invariant: at each phase, every file in `owed` still on Drive and outside what the queue (before the checkpoint: `pending`) covers is in `mem.entries`; between the two saves it is in `index.entries` as well. A checkpoint copies memory to disk before the frontier, so the property is preserved; pruning removes only gone files |
| `RefreshProofs!ReconciledIndexIsSeeded` | invariant: a file listed by `manifestSeen` that no listing has left out since is in memory or below the queue; an index entry disappears only for a file that is gone or `missed`, and neither is in `listed` (`ListedIsThere`, `MissedApart`) |
| `RefreshProofs!PruneIsSafe` | `FullPassSees`: in a full pass, a file of the scope that is on Drive and in memory is below the queue, `seen` or `missed` |
| `OffloadProofs!TypeCorrect` | by action |
| `OffloadProofs!OffloadedNotHeld` | invariant: what is being deleted is not `present` in the index on disk, nor in memory; needs `~Overlap` so that a stale index is the one on disk |
| `OffloadProofs!OffloadedAreSpared` | from `OffloadedNotHeld`: local deletions are paths the index holds |
| `OffloadProofs!OnlySyncedDeleted` | invariant: a `present` entry's content is the last synced one, and a cleared, unedited file has that content |
| `OffloadProofs!OnlyCopiesDeleted` | invariant: an unexcused cleared file is what Drive holds; needs no assumption on `Overlap` |
| `OffloadProofs!OffloadImplementsCustody` | `AsSynced` and `Shelved`: while a command runs, its index in memory differs from the saved one only in files it has given up, cleared files are given up in memory, and on disk too once they are being deleted; each action is then a step of `Custody` or a stutter. Assumes `~Overlap`: a second process that writes a stale index back (finding `offload_stale`) takes a label back that `Custody` never takes back |
| `FileProofs!IndexedWasDelivered` | `FileInv`: what a running push has sent, what a running pull has landed and what both indexes call present was on Drive. Assumed is `Delivering`: no download vanishes silently and push keeps no copy of both, the two disagreements of section 3 |
| `FileProofs!NothingSeemsChanged` | `DescribesInv`: the entry on disk, the one in memory and what a running pull or push is about to record describe the node as it was when both sides agreed, unless that is in `doubt`; `Delivering` again. Entries seeded from a listing are included: they have no digest, and are compared by the encrypted size where the listing reports no other |
| `FileProofs!ReplacesOnlyKnown` | `RevisionInv`: a planned push that would replace another device's revision of which its listing gave a digest has seen it to be what its index entry describes (`_revision_rels`, `_is_older_copy`) or what the file has grown out of, unless the node changed since (`raced`). No assumption: it holds with silent downloads and keep-both as well |
| `FileProofs!TrashTypeCorrect` | by action |
| `FileProofs!RemovedAreForgotten` | `ForgetInv`: every path of the index is on Drive or beneath the one just trashed (`Dropped`), every path of the manifest that, or beneath one the running `rm` removed; trashing a path's node, and what Drive deletes from its trash, leave every other path's nodes alone (lemmas `TrashedPath`, `RemovesHolds`) |
| `FileProofs!ForceIsExact`, `RestoresAreExact` | `SeenInv`: as long as nobody else acts, what a complete listing showed is what the trash has of the name, and the candidate is Drive's first; Drive restores only into a free place, so the asked path then resolves to the restored node |
| `RemoteManifestProofs!TypeCorrect`, `ReconciledIndexesKnow`, `WritersKeepOthers`, `StartedByRebuilds` | `ManifestInv`: what a running command knows (its view, its baseline, its replayed changes) against the revision it came from and the ones that followed; revisions are numbered in the order of uploads |
| `UpgradeProofs!CheckTypeCorrect`, `LevelsAreEarned`, `RepairsSettle`, `RepairsHideNoLoss` | `CheckInv`: an entry at the current level, on disk or in memory, is earned (`LevelInv`); a finding fits the node it was made from while nothing has touched the path (`FindingInv`, `StillInv`) |
| `UpgradeProofs!TypeCorrect`, `IndexesBelong`, `GivesUpUploaded`, `DeviceIdsSurvive` | `SetupInv`: at each place of each command, which files exist and agree (`Placed`, `IndexInv`), and that git's index and HEAD lack only files that were uploaded (`GivesUpInv`). `SentInv`: of what the index records, or a migration past its uploads gives up, an upload was made, and under the root of index and store unless they were left apart; another device's trashing leaves that as it is |
| `ScheduleProofs!TypeCorrect`, `TurnsAreTaken` | `TurnInv`: whoever is in its turn, killed wrapper or not, holds the shared flock; each step is then a step of `Turns` or a stutter |
| `ScheduleProofs!SchedulesAgree` | `Scheduled`: how far each editing process has got, what it read, and what crontab, record and wrappers have in common at that point |
| `ScheduleProofs!JobsDoNotFight` | `PeaceInv`: recorded jobs, and the one being added, do not fight; rests on `Scope_relation` being right about every two patterns that share a file |
| `MovesProofs!TypeCorrect`, `EntriesNameNodes`, `StraysAreNamed` | `MovesInv`: a planned move is one of the scan's pairs (`PlanInv`; `pair_moves` pairs each file at most once, lemma `PairsUp`); as long as nobody else writes and no listing fails, the places its node can be at (`Spots`) are out of reach of every other move and entry, and it waits, has passed through its folder or has arrived (`NodesInv`); every other entry names a node, every listed path is indexed where it is (`ListedInv`), every stray is named or on its way (`StrayInv`) |
| `MovesProofs!TrashKeepsFiles` | `TrashInv`: what is to be trashed has no unsettled file's content or is the old path of a move whose new path is verified; `DeliveredInv`: what is verified is on Drive; `ApartInv`: no two entries name one node unless that has been noted |
| `MovesProofs!NothingElseRides` | a folder goes up whole only while it holds exactly its chosen files, so what is sent is among the uploads |
| `MovesProofs!KilledMovesRecorded` | `KilledInv`: the property is about the first push after a kill and tells it by the bounds that are left, so the invariant describes every state with at most one edit and one kill: before the edit everything is in sync; after it, only what it took away or put in place can be a move (`Astir`), and for a move one call makes, the node is at its old place or its new one, each index (on disk, in memory) has it at the one or the other, at the new one only if the node is there, and everything else is in sync (`Sole`, `AtSole`) |
| `MovesProofs!TrashSparesSome` | `LeavesSome`: a file the index holds stays outside what is to be trashed from the guards to the last folder; its node is there (`NodesInv`), and no trashed entry names it. The guard compares cardinalities, so the theorem assumes that `Paths` is finite |
| `MovesProofs!MovesAreMatched` | of `pair_moves`' two rounds: pairs are one to one, of one key, never empty files; a move that keeps its basename is found when that name is unique for its key; no key is left with one gone and one new file |
| `GitMoveProofs!TypeCorrect` | by action |
| `GitMoveProofs!FilesChangeHandsWhole` | `Agree`: at each phase, what a move knows of a path that nobody else touched since the listing, and whose blob is still HEAD's when an import lists, (the listing, HEAD's blobs, the file) is what Drive holds |
| `GitMoveProofs!ImportedAreSpared` | `Gone`: a file that an import's commit took stays in a block of its clone; `Grows`: a commit takes no path out of both blocks, save for what an export has unignored and not yet added to its own block; `before` brings the rest back when a git step is undone |
| `GitMoveProofs!MovesKeepCustody` | `CustodyInv`: at each phase of a move, which of its paths are staged, committed, in a block or `owed`, and what `before` would bring back; a torn step, a half-made undo (`HalfUndone`) and a pulled export are excepted as the property says |
| `GitMoveProofs!GitStepsAreWhole` | from `CustodyInv`: where a git step ends, every path of its move has changed hands, or none |

An invariant is the conjunction of the type invariant with named parts; none of the
properties is inductive by itself, because each speaks of what is on disk, on Drive or
in git, while the steps that disturb it act on what a command remembers.

Only model-checked: `ResumeCompletes`, `PushConverges`, `JobsEnd` and `SetupCompletes`,
for liveness under fairness is beyond the prover, as is ENABLED. Every safety property
a run checks is stated by a theorem. Induction over data is out of reach as well; no
module here has recursive operators.

## 5. Abstractions

- A content is its digest; digests do not collide. Sizes are per content.
- A folder has one listing per visit; a listing is atomic, a walk is not.
- `FileSync` is about one path: batches, the settle window, `resolve=both` and folder
  creation are left out. `Prefixes` are the short uploads.
- `Offload`: settling is nondeterministic; the listing always reports the encrypted
  size, which offload does not use; `OtherLoads`/`OtherSaves` stand for a command
  that changes nothing of its own.
- `Refresh`: the fields of an entry are left to `FileSync`; local files are fixed
  during a run of TLC (`Local`). What a listing may leave out is any part of the folder,
  without the reason.
- `RemoteManifest`: an upload or trash by a client other than protonfs is a push
  or `rm` that stops before the manifest; refresh's `--prune` is in `Refresh` only;
  listings of the manifest always report its sha1 (without it the code compares
  sizes); files listed without a plaintext size are left out of a rebuild.
- `GitMove`: history is linear (a commit is at once the newest, nobody merges); users
  leave git alone during the git step and, after a torn one, repair it before they
  stage or commit; nobody edits the blocks by hand; push, pull and offload are
  single steps whose guards against mass deletion only refuse; a verification reads
  all of a move's files at one moment after the listing (`raced` excepts what others
  touched after the listing); refusals of special files are left out, and so are
  other git ignore rules, which only make the check in the git step fail (`GitFails`).
- `Moves`: a listing reports size and digest of every node; an upload is one step and
  lands whole or fails; the manifest is the set of the paths it lists; modification
  times are whole seconds, of which a run has one.
- `Trash`: folders are one level deep; `rm` has one or two arguments; a node keeps its id.
- `Schedule`: a pattern's segment is a name, a glob with the names it matches, or `**`;
  whether two globs' literal ends agree is a relation (`Ends`) at least as wide as
  sharing a name; cron's times, logs and their rotation are left out; a job starts when
  it is due or later.
- `IndexCheck`: of the other directories it only matters whether their listings settled
  all of their entries (`rest`).
- `Setup`: the layers below the shared configuration (the global file, the environment)
  and the defaults are left out; each file is written atomically, as `_atomic_write_json`
  does; the contract files are one, as are the two git control files. The LFS files do
  not change in content, and of a file only its last upload's copy is kept.
- Formatting, progress lines, prompts and logging are left out throughout.

## 6. Not modelled

Reasons are in `PROJECT.json`, `components`.

- `install.py` downloads one binary: one temporary file, a checksum, a rename. Two
  installs at once write the same `.part` file; whichever ends first renames it.
- Credentials and the keyring: helper processes of the operating system.
- Reports (`status`, `ls`, `doctor`, `storage-viz`, completions): they read and print.
- The hash cache (`--low-io`): every property takes a scan to read contents.
- The backoff schedule, the clock measurement and the splitting of argument lists of the
  drive client; prune's retention rule (a pure choice of paths); `resolve=both`;
  `verify`'s comparison of generations; push's folder creation; glob matching.

## 7. Plan

1. Done: the modules and proofs above.
2. `GitMove` as an implementation of an abstract custody specification (a file is
   tracked, synced, or both, and moves change that for all paths or none).
3. `FileSync` as an implementation of an abstract store, as `Offload` is of `Custody`,
   with the overwriting pull of section 3 as its one exception.
4. `DriveClient`: the backoff schedule and its time limits, `resolve=both`, prune's rule.
