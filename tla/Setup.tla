------------------------------- MODULE Setup -------------------------------
(***************************************************************************)
(* The life of a store on one machine: setup, which creates or completes   *)
(* its configuration and moves a repository from git-LFS to Drive; upgrade *)
(* and its migrations of what older releases left; deinit, which removes   *)
(* it all again.  Each writes several files one after the other, without   *)
(* a transaction, and may be killed between any two of them; git may       *)
(* replace the committed ones in between.                                  *)
(*                                                                         *)
(* The layers below the shared configuration (global file, environment)    *)
(* are left out, as are the defaults a configuration holds.                *)
(***************************************************************************)
EXTENDS Naturals

CONSTANTS
  Absent,
  Roots,       \* remote roots a store may have
  Files,       \* the files the repository keeps in git-LFS
  Left,        \* those git lfs pull leaves as stubs, or protonfs ignores
  MaxIds       \* how many device ids are minted at most

ASSUME SetupAssumption ==
  /\ Absent \notin Nat
  /\ Absent \notin Roots
  /\ Left \subseteq Files
  /\ MaxIds \in Nat

VARIABLES
  shared,     \* .protonfs/config.json, committed
  local,      \* .protonfs/config.local.json: the device id, the layout marker
  contract,   \* are .protonfs/ignore and include there?
  control,    \* .protonfs/.gitattributes and .gitignore: which lines they have
  index,      \* .protonfs/index.json: its schema, the root its entries name, the LFS files it records
  cmd,        \* the running command
  pc,         \* where it is
  todo,       \* upgrade: the migrations still to apply
  ids,        \* how many device ids were minted
  adrift,     \* history: a killed deinit or the user left index and root apart
  calm,       \* from now on only setup runs, and nothing kills it
  rules,      \* the LFS rules in .gitattributes: in the work tree, in git's index, in HEAD
  ignored,    \* the lines in .gitignore, in the same three places
  files       \* each LFS file: on disk, on Drive, in git's index, in HEAD

config == <<shared, local, contract, control, index>>
command == <<cmd, pc, todo>>
lfs == <<rules, ignored, files>>
vars == <<config, command, ids, adrift, calm, lfs>>

-----------------------------------------------------------------------------
(* Device ids: the one an old layout keeps in the shared configuration, and *)
(* the minted ones.                                                         *)
Old == 0
Devices == 0..MaxIds

(* config.json, config.local.json and index.json. *)
Shareds == [root : Roots, device : Devices \cup {Absent}]
Locals == [device : Devices \cup {Absent}, layout : BOOLEAN]
Indexes == [schema : {"old", "current"}, root : Roots, entries : SUBSET Files]

(* What a file's last upload made on Drive. *)
Copies == [root : Roots, there : BOOLEAN]

ASSUME AbsentAssumption == Absent \notin Shareds \cup Locals \cup Indexes \cup Copies

Migrations == {"index", "device", "control", "events"}

Places == [work : BOOLEAN, staged : BOOLEAN, head : BOOLEAN]

(* The managed files, in the order deinit removes them. *)
Removal == <<"rm_shared", "rm_contract", "rm_control", "rm_local", "rm_index">>

Steps == {"idle", "config", "mint", "init", "relocate", "pop", "contract",
          "control", "lfs_pull", "lfs_push", "untrack", "gitignore", "add", "rm", "commit",
          "stubs", "migrate"} \cup {Removal[i] : i \in 1..5}

TypeOK ==
  /\ shared \in Shareds \cup {Absent}
  /\ local \in Locals \cup {Absent}
  /\ contract \in BOOLEAN
  /\ control \in {"none", "old", "full"}
  /\ index \in Indexes \cup {Absent}
  /\ cmd \in [name : {"none", "setup", "upgrade", "deinit"}, root : Roots \cup {Absent},
              dry_run : BOOLEAN]
  /\ pc \in Steps
  /\ todo \subseteq Migrations \cup {"patterns"}
  /\ ids \in Devices
  /\ adrift \in BOOLEAN
  /\ calm \in BOOLEAN
  /\ rules \in Places
  /\ ignored \in Places
  /\ files \in [Files -> [work : {"real", "stub", "none"},
                          drive : Copies \cup {Absent},
                          staged : BOOLEAN, head : BOOLEAN]]

Idle == [name |-> "none", root |-> Absent, dry_run |-> FALSE]

Everywhere(there) == [work |-> there, staged |-> there, head |-> there]

(* A directory that is no store, a store of an older or of this release, a *)
(* fresh clone of one; a repository with or without git-LFS.               *)
Init ==
  /\ shared \in {Absent} \cup [root : Roots, device : {Old, Absent}]
  /\ local \in {Absent} \cup [device : {Old}, layout : BOOLEAN]
  /\ contract \in BOOLEAN
  /\ control \in {"none", "old", "full"}
  /\ index \in {Absent} \cup [schema : {"old", "current"}, root : Roots, entries : {{}}]
  /\ shared = Absent => local = Absent /\ index = Absent /\ ~contract /\ control = "none"
  /\ index # Absent => index.root = shared.root
  /\ cmd = Idle
  /\ pc = "idle"
  /\ todo = {}
  /\ ids = 0
  /\ adrift = FALSE
  /\ calm = FALSE
  /\ \E tracked \in BOOLEAN :
       /\ rules = Everywhere(tracked)
       /\ ignored = Everywhere(FALSE)
       /\ files \in [Files -> [work : {"real", "stub"}, drive : {Absent},
                               staged : {tracked}, head : {tracked}]]
       /\ ~tracked => \A f \in Files : files[f].work = "real"

(* load_layered_config: local wins over shared; None raises                *)
(* MissingDeviceIdError.                                                   *)
Device ==
  IF shared = Absent THEN Absent
  ELSE IF local # Absent /\ local.device # Absent THEN local.device ELSE shared.device

Goes_to(step) ==
  /\ pc' = step
  /\ UNCHANGED <<cmd, todo>>

(* The command is over, or refuses. *)
Ends ==
  /\ cmd' = Idle
  /\ pc' = "idle"
  /\ todo' = {}

-----------------------------------------------------------------------------
(* setup, to the configuration.                                            *)

(* check_remote_root: a store is not repointed, a new one needs a root.    *)
Root_accepted(root) ==
  IF shared = Absent THEN root # Absent ELSE root \in {Absent, shared.root}

(* The checks before anything is written; the keyring, the session and the *)
(* binary are preconditions that may fail.                                 *)
SetupBegins(root, dry_run) ==
  /\ pc = "idle"
  /\ calm \/ ids + 1 < MaxIds
  /\ Root_accepted(root)
  /\ cmd' = [name |-> "setup", root |-> root, dry_run |-> dry_run]
  /\ pc' = "config"
  /\ UNCHANGED <<config, todo, ids, adrift, calm, lfs>>

(* Mutant: a clone without a device id is refused. *)
ReadsConfig_refusing ==
  /\ pc = "config"
  /\ IF ~Root_accepted(cmd.root) \/ (shared # Absent /\ Device = Absent) THEN Ends
     ELSE Goes_to(IF shared = Absent THEN "init" ELSE "relocate")
  /\ IF shared = Absent /\ cmd.root # Absent THEN shared' = [root |-> cmd.root, device |-> Absent]
     ELSE UNCHANGED shared
  /\ UNCHANGED <<local, contract, control, index, ids, adrift, calm, lfs>>

(* ensure_config: a new store (init_config writes the shared file first), a *)
(* fresh clone, an existing store.                                          *)
ReadsConfig ==
  /\ pc = "config"
  /\ IF ~Root_accepted(cmd.root) THEN Ends
     ELSE Goes_to(CASE shared = Absent -> "init"
                    [] shared # Absent /\ Device = Absent -> "mint"
                    [] OTHER -> "relocate")
  /\ IF shared = Absent /\ cmd.root # Absent THEN shared' = [root |-> cmd.root, device |-> Absent]
     ELSE UNCHANGED shared
  /\ UNCHANGED <<local, contract, control, index, ids, adrift, calm, lfs>>

(* init_config: the local file, whatever an earlier store left in it. *)
InitsLocal ==
  /\ pc = "init"
  /\ ids < MaxIds
  /\ ids' = ids + 1
  /\ local' = [device |-> ids + 1, layout |-> FALSE]
  /\ Goes_to("contract")
  /\ UNCHANGED <<shared, contract, control, index, adrift, calm, lfs>>

Layout == local # Absent /\ local.layout

(* ensure_device_id: one any layer has by now, or a new one. *)
MintsDevice ==
  /\ pc = "mint"
  /\ IF Device # Absent
     THEN local' = [device |-> Device, layout |-> Layout] /\ UNCHANGED ids
     ELSE /\ ids < MaxIds
          /\ ids' = ids + 1
          /\ local' = [device |-> ids + 1, layout |-> Layout]
  /\ Goes_to("relocate")
  /\ UNCHANGED <<shared, contract, control, index, adrift, calm, lfs>>

(* The step after a relocation or the control files. *)
Continue == IF cmd.name = "setup" THEN "contract" ELSE "migrate"

(* Mutant: the shared file first. *)
Relocates_shared_first ==
  /\ pc = "relocate"
  /\ IF shared = Absent \/ shared.device = Absent
     THEN Goes_to(Continue) /\ UNCHANGED <<shared, local>>
     ELSE /\ shared' = [shared EXCEPT !.device = Absent]
          /\ UNCHANGED local
          /\ Goes_to("pop")
  /\ UNCHANGED <<contract, control, index, ids, adrift, calm, lfs>>

(* migrate_device_id_to_local: the local file, unless it has an id. *)
Relocates ==
  /\ pc = "relocate"
  /\ IF shared = Absent \/ shared.device = Absent
     THEN Goes_to(Continue) /\ UNCHANGED <<shared, local>>
     ELSE /\ local' = IF local # Absent /\ local.device # Absent THEN local
                      ELSE [device |-> shared.device, layout |-> Layout]
          /\ UNCHANGED shared
          /\ Goes_to("pop")
  /\ UNCHANGED <<contract, control, index, ids, adrift, calm, lfs>>

(* migrate_device_id_to_local: the shared file without its id. *)
PopsShared ==
  /\ pc = "pop"
  /\ shared' = [shared EXCEPT !.device = Absent]
  /\ Goes_to(Continue)
  /\ UNCHANGED <<local, contract, control, index, ids, adrift, calm, lfs>>

(* init_ignore, init_include. *)
WritesContract ==
  /\ pc = "contract"
  /\ contract' = TRUE
  /\ Goes_to("control")
  /\ UNCHANGED <<shared, local, control, index, ids, adrift, calm, lfs>>

Lfs_tracked == rules.work \/ \E f \in Files : files[f].head

(* write_git_control_files.  setup goes on to create the remote root and,  *)
(* in a repository with git-LFS, to the migration.                         *)
WritesControl(migrate) ==
  /\ pc = "control"
  /\ control' = "full"
  /\ CASE cmd.name = "upgrade" -> Goes_to("migrate")
       [] cmd.name = "setup" /\ migrate /\ ~cmd.dry_run /\ Lfs_tracked -> Goes_to("lfs_pull")
       [] OTHER -> Ends
  /\ UNCHANGED <<shared, local, contract, index, ids, adrift, calm, lfs>>

-----------------------------------------------------------------------------
(* setup: the migration from git-LFS.                                      *)

(* git lfs pull; if it fails, setup stops. *)
Materializes(succeeds) ==
  /\ pc = "lfs_pull"
  /\ files' = [f \in Files |-> IF succeeds /\ f \notin Left /\ files[f].work = "stub"
                               THEN [files[f] EXCEPT !.work = "real"] ELSE files[f]]
  /\ IF succeeds THEN Goes_to("lfs_push") ELSE Ends
  /\ UNCHANGED <<config, ids, adrift, calm, rules, ignored>>

(* What push leaves on disk, on Drive and in the index when it has sent    *)
(* these files; the entries of an index keep the root they were made under.*)
Pushed(uploaded) ==
  /\ files' = [f \in Files |-> IF f \in uploaded
                               THEN [files[f] EXCEPT !.drive = [root |-> shared.root, there |-> TRUE]] ELSE files[f]]
  /\ index' = IF index = Absent
              THEN [schema |-> "current", root |-> shared.root, entries |-> uploaded]
              ELSE [index EXCEPT !.schema = "current", !.entries = @ \cup uploaded]

(* push sends what the index does not record; it does not ask Drive whether *)
(* what the index does record is still there, or lies under this root.     *)
Recorded == IF index = Absent THEN {} ELSE index.entries
Sendable == {f \in Files : files[f].work = "real"} \ (Left \cup Recorded)

(* Mutant: files that failed to upload do not stop the migration. *)
Uploads_some(uploaded) ==
  /\ pc = "lfs_push"
  /\ Pushed(uploaded)
  /\ Goes_to("untrack")
  /\ UNCHANGED <<shared, local, contract, control, ids, adrift, calm, rules, ignored>>

(* push_files; any failed file aborts the migration, as does a user who    *)
(* does not confirm it.                                                    *)
Uploads(uploaded) ==
  /\ pc = "lfs_push"
  /\ Pushed(uploaded)
  /\ \/ uploaded = Sendable /\ Goes_to("untrack")
     \/ Ends
  /\ UNCHANGED <<shared, local, contract, control, ids, adrift, calm, rules, ignored>>

(* _untrack_lfs_patterns; without a rule there is no pattern to go on with. *)
Untracks ==
  /\ pc = "untrack"
  /\ rules' = [rules EXCEPT !.work = FALSE]
  /\ todo' = IF rules.work THEN {"patterns"} ELSE {}
  /\ pc' = "gitignore"
  /\ UNCHANGED <<config, cmd, ids, adrift, calm, ignored, files>>

(* _append_gitignore *)
Ignores ==
  /\ pc = "gitignore"
  /\ ignored' = [ignored EXCEPT !.work = @ \/ todo # {}]
  /\ Goes_to("add")
  /\ UNCHANGED <<config, ids, adrift, calm, rules, files>>

(* git add .gitattributes .gitignore, git rm --cached of each pattern and  *)
(* the commit; a step that fails leaves the rest to the user.              *)
GitAdds ==
  /\ pc = "add"
  /\ rules' = [rules EXCEPT !.staged = rules.work]
  /\ ignored' = [ignored EXCEPT !.staged = ignored.work]
  /\ Goes_to("rm")
  /\ UNCHANGED <<config, ids, adrift, calm, files>>
GitRemoves ==
  /\ pc = "rm"
  /\ files' = [f \in Files |-> [files[f] EXCEPT !.staged = @ /\ todo = {}]]
  /\ Goes_to("commit")
  /\ UNCHANGED <<config, ids, adrift, calm, rules, ignored>>

Staged_changes ==
  \/ rules.staged # rules.head
  \/ ignored.staged # ignored.head
  \/ \E f \in Files : files[f].staged # files[f].head

Committed == [f \in Files |-> [files[f] EXCEPT !.head = files[f].staged]]

GitCommits ==
  /\ pc = "commit"
  /\ IF Staged_changes THEN /\ rules' = [rules EXCEPT !.head = rules.staged]
                            /\ ignored' = [ignored EXCEPT !.head = ignored.staged]
                            /\ files' = Committed
                            /\ Goes_to("stubs")
     ELSE Ends /\ UNCHANGED lfs
  /\ UNCHANGED <<config, ids, adrift, calm>>
GitFails ==
  /\ pc \in {"add", "rm", "commit"}
  /\ Ends
  /\ UNCHANGED <<config, ids, adrift, calm, lfs>>

(* clean_pointer_stubs, wherever they are. *)
CleansStubs ==
  /\ pc = "stubs"
  /\ files' = [f \in Files |-> IF files[f].work = "stub"
                               THEN [files[f] EXCEPT !.work = "none"] ELSE files[f]]
  /\ Ends
  /\ UNCHANGED <<config, ids, adrift, calm, rules, ignored>>

-----------------------------------------------------------------------------
(* upgrade: the migrations of the store.                                   *)

(* What each migration's probe finds. *)
Pending ==
  {m \in Migrations :
     CASE m = "index" -> index # Absent /\ index.schema = "old"
       [] m = "device" -> shared.device # Absent
       [] m = "control" -> ~contract \/ control # "full"
       [] m = "events" -> control # "full"}

UpgradeBegins ==
  /\ pc = "idle"
  /\ ~calm
  /\ shared # Absent
  /\ Pending # {}
  /\ cmd' = [Idle EXCEPT !.name = "upgrade"]
  /\ pc' = "migrate"
  /\ todo' = Pending
  /\ UNCHANGED <<config, ids, adrift, calm, lfs>>

(* run_migrations, in the order of the registry. *)
AppliesIndex ==
  /\ pc = "migrate"
  /\ "index" \in todo
  /\ index' = IF index = Absent THEN Absent ELSE [index EXCEPT !.schema = "current"]
  /\ todo' = todo \ {"index"}
  /\ UNCHANGED <<shared, local, contract, control, cmd, pc, ids, adrift, calm, lfs>>
AppliesOther(m, step) ==
  /\ pc = "migrate"
  /\ m \in todo
  /\ "index" \notin todo
  /\ m = "control" => "device" \notin todo
  /\ m = "events" => todo = {"events"}
  /\ todo' = todo \ {m}
  /\ pc' = step
  /\ UNCHANGED <<config, cmd, ids, adrift, calm, lfs>>

(* The layout marker, once nothing is pending. *)
Marks ==
  /\ pc = "migrate"
  /\ todo = {}
  /\ local' = IF Pending # {} THEN local
              ELSE [device |-> IF local = Absent THEN Absent ELSE local.device, layout |-> TRUE]
  /\ Ends
  /\ UNCHANGED <<shared, contract, control, index, ids, adrift, calm, lfs>>

-----------------------------------------------------------------------------
(* deinit.                                                                 *)

DeinitBegins ==
  /\ pc = "idle"
  /\ ~calm
  /\ shared # Absent
  /\ cmd' = [Idle EXCEPT !.name = "deinit"]
  /\ pc' = Removal[1]
  /\ UNCHANGED <<config, todo, ids, adrift, calm, lfs>>

(* Mutant: the index is not among the managed files. *)
Removes_not_index(i) ==
  /\ pc = Removal[i]
  /\ shared' = IF i = 1 THEN Absent ELSE shared
  /\ contract' = (contract /\ i # 2)
  /\ control' = IF i = 3 THEN "none" ELSE control
  /\ local' = IF i = 4 THEN Absent ELSE local
  /\ adrift' = (adrift /\ i # 5)
  /\ IF i = 5 THEN Ends ELSE Goes_to(Removal[i + 1])
  /\ UNCHANGED <<index, ids, calm, lfs>>

(* One managed file after the other. *)
Removes(i) ==
  /\ pc = Removal[i]
  /\ shared' = IF i = 1 THEN Absent ELSE shared
  /\ contract' = (contract /\ i # 2)
  /\ control' = IF i = 3 THEN "none" ELSE control
  /\ local' = IF i = 4 THEN Absent ELSE local
  /\ index' = IF i = 5 THEN Absent ELSE index
  /\ adrift' = (adrift /\ i # 5)
  /\ IF i = 5 THEN Ends ELSE Goes_to(Removal[i + 1])
  /\ UNCHANGED <<ids, calm, lfs>>

-----------------------------------------------------------------------------
(* A kill, a failing write or an error of Drive. *)
Stops ==
  /\ pc # "idle"
  /\ ~calm
  /\ Ends
  /\ adrift' = (adrift \/ (shared = Absent /\ index # Absent))
  /\ UNCHANGED <<config, ids, calm, lfs>>

(* push, refresh and the like record entries under the root of the store:  *)
(* of other files, and of some of the LFS files, which push uploads.       *)
OthersRecord(uploaded) ==
  /\ pc = "idle"
  /\ ~calm
  /\ Device # Absent
  /\ Pushed(uploaded)
  /\ UNCHANGED <<shared, local, contract, control, command, ids, adrift, calm, rules, ignored>>

(* Another device, or another client, at any time. *)
OtherDeviceTrashes(f, root) ==
  /\ ~calm
  /\ files[f].drive = [root |-> root, there |-> TRUE]
  /\ files' = [files EXCEPT ![f].drive = [root |-> root, there |-> FALSE]]
  /\ UNCHANGED <<config, command, ids, adrift, calm, rules, ignored>>

(* config set remote_root: here the user does repoint the store. *)
ConfigSets(root) ==
  /\ pc = "idle"
  /\ ~calm
  /\ shared' = [root |-> root, device |-> IF shared = Absent THEN Absent ELSE shared.device]
  /\ adrift' = (adrift \/ (index # Absent /\ index.root # root))
  /\ UNCHANGED <<local, contract, control, index, command, ids, calm, lfs>>

(* git pull or git checkout: the committed files of an older layout, or of *)
(* a clone that has left it behind.  A store being created is not in git.  *)
GitBrings(older) ==
  /\ ~calm
  /\ pc # "init"
  /\ shared # Absent
  /\ shared' = [shared EXCEPT !.device = IF older THEN Old ELSE Absent]
  /\ contract' = ~older
  /\ control' = IF older THEN "old" ELSE "full"
  /\ UNCHANGED <<local, index, command, ids, adrift, calm, lfs>>

(* After a migration that stopped half-way the user takes git's state back *)
(* to HEAD, or commits what is staged.                                     *)
UserReverts ==
  /\ pc = "idle"
  /\ ~calm
  /\ rules' = Everywhere(rules.head)
  /\ ignored' = Everywhere(ignored.head)
  /\ files' = [f \in Files |-> [files[f] EXCEPT !.staged = files[f].head]]
  /\ UNCHANGED <<config, command, ids, adrift, calm>>
UserCommits ==
  /\ pc = "idle"
  /\ ~calm
  /\ rules' = [rules EXCEPT !.head = rules.staged]
  /\ ignored' = [ignored EXCEPT !.head = ignored.staged]
  /\ files' = Committed
  /\ UNCHANGED <<config, command, ids, adrift, calm>>

CalmsDown ==
  /\ pc = "idle"
  /\ ~calm
  /\ calm' = TRUE
  /\ UNCHANGED <<config, command, ids, adrift, lfs>>

-----------------------------------------------------------------------------
SetupGoesOn ==
  \/ ReadsConfig \/ InitsLocal \/ MintsDevice \/ Relocates \/ PopsShared \/ WritesContract
  \/ \E migrate \in BOOLEAN : WritesControl(migrate)
  \/ \E succeeds \in BOOLEAN : Materializes(succeeds)
  \/ \E uploaded \in SUBSET Sendable : Uploads(uploaded)
  \/ Untracks \/ Ignores \/ GitAdds \/ GitRemoves \/ GitCommits \/ GitFails \/ CleansStubs

SetupStarts == \E root \in Roots \cup {Absent}, dry_run \in BOOLEAN : SetupBegins(root, dry_run)

Upgrade ==
  \/ UpgradeBegins \/ AppliesIndex \/ Marks
  \/ AppliesOther("device", "relocate")
  \/ AppliesOther("control", "contract")
  \/ AppliesOther("events", "control")

Deinit == DeinitBegins \/ \E i \in 1..5 : Removes(i)

Environment ==
  \/ \E uploaded \in SUBSET Sendable : OthersRecord(uploaded)
  \/ \E f \in Files, root \in Roots : OtherDeviceTrashes(f, root)
  \/ \E root \in Roots : ConfigSets(root)
  \/ \E older \in BOOLEAN : GitBrings(older)
  \/ UserReverts \/ UserCommits

Next == SetupStarts \/ SetupGoesOn \/ Upgrade \/ Deinit \/ Environment \/ Stops \/ CalmsDown

Spec == Init /\ [][Next]_vars

(* A setup that has begun goes on; the user runs it again when it stopped. *)
FairSpec == Spec /\ WF_vars(SetupGoesOn) /\ WF_vars(SetupStarts)

-----------------------------------------------------------------------------
(* A machine keeps its device id: setup and upgrade, stopped anywhere and  *)
(* run again, never lose or replace the id that its configuration resolves *)
(* to.  Only git, which may take an old layout's id away, deinit and the   *)
(* creation of another store do.                                           *)
DeviceIdSurvives ==
  [][cmd.name \in {"setup", "upgrade"} /\ pc # "init" /\ Device # Absent
       => Device' = Device \/ \E older \in BOOLEAN : GitBrings(older)]_vars

(* The index describes the store it lies in: a store that was removed and  *)
(* set up again elsewhere does not take over entries of files that are     *)
(* under the old remote root, unless deinit was killed or the user         *)
(* repointed the store.                                                    *)
IndexBelongs ==
  index # Absent /\ ~adrift /\ cmd.name # "deinit"
    => shared # Absent /\ index.root = shared.root

(* git gives up an LFS file only once it was uploaded: not when its upload *)
(* failed, and not by a commit the user makes of a half-made migration.    *)
(* The migration gives it up only once it was uploaded under the root the  *)
(* store now has, unless index and root were left apart before.  That it   *)
(* is still there is not promised: a file the index records from an        *)
(* earlier, aborted migration is not sent again, though another device may *)
(* have trashed it since.  Left out are the files that protonfs does not   *)
(* upload and setup does not look for.                                     *)
Uploaded(f, roots) == \E root \in roots, there \in BOOLEAN :
                        files[f].drive = [root |-> root, there |-> there]

GitGivesUpUploaded ==
  [][\A f \in Files \ Left :
       /\ files[f].head /\ ~files'[f].head => Uploaded(f, Roots)
       /\ GitRemoves /\ files[f].staged /\ ~files'[f].staged /\ ~adrift
            => Uploaded(f, {shared.root})]_vars

Ready ==
  /\ shared # Absent /\ shared.device = Absent
  /\ local # Absent /\ local.device # Absent
  /\ contract
  /\ control = "full"

(* Wherever setup, upgrade or deinit was stopped, and whatever layout git  *)
(* brought, running setup again completes the store.                       *)
SetupCompletes == calm ~> Ready
=============================================================================
