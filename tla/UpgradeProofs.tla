---------------------------- MODULE UpgradeProofs ----------------------------
(***************************************************************************)
(* What a store of an earlier release becomes, and what setting one up and *)
(* removing it leaves: the promises of Setup wherever its commands are     *)
(* stopped, for every set of roots and files, and those of IndexCheck, the *)
(* last step of an upgrade, for every set of contents, stubs and reports;  *)
(* both for any number of commands and changes between them.               *)
(***************************************************************************)
EXTENDS Setup, IndexCheck, TLAPS

(* Setup *)
Removing == {"rm_shared", "rm_contract", "rm_control", "rm_local", "rm_index"}

(* Where a command is tells which command it is, and that there is a store. *)
Placed ==
  /\ pc \in Removing <=> cmd.name = "deinit"
  /\ pc = "idle" <=> cmd.name = "none"
  /\ pc \notin {"idle", "config"} \cup Removing => shared # Absent
  /\ pc = "pop" => local # Absent /\ local.device # Absent

(* The index lies in the store it was recorded for, or deinit is about to  *)
(* remove it.                                                              *)
IndexInv ==
  index # Absent /\ ~adrift =>
    \/ shared # Absent /\ index.root = shared.root
    \/ shared = Absent /\ cmd.name = "deinit"

GivingUp == {"untrack", "gitignore", "add", "rm", "commit", "stubs"}

(* A file that setup looks for is here, and its content from the push on. *)
GivesUpInv ==
  \A f \in Files \ Left :
    /\ files[f].work # "none"
    /\ pc \in GivingUp \cup {"lfs_push"} => files[f].work = "real"

(* It is uploaded before git is told to give it up; the index records only *)
(* uploaded files.  Unless index and root were left apart, both speak of   *)
(* the root that the index, and hence the store, is of.                    *)
Sent(f, root) == files[f].drive # Absent /\ files[f].drive.root = root
GivenUp(f) == files[f].head /\ ~files[f].staged

SentInv ==
  \A f \in Files \ Left :
    /\ f \in Recorded \/ pc \in GivingUp \/ GivenUp(f) => files[f].drive # Absent
    /\ ~adrift /\ f \in Recorded => Sent(f, index.root)
    /\ ~adrift /\ pc \in GivingUp => Sent(f, shared.root)

SetupInv == TypeOK /\ Placed /\ IndexInv /\ GivesUpInv

(* The parts of the type invariant. *)
ConfigTyped ==
  /\ shared \in Shareds \cup {Absent}
  /\ local \in Locals \cup {Absent}
  /\ contract \in BOOLEAN
  /\ control \in {"none", "old", "full"}
  /\ index \in Indexes \cup {Absent}
  /\ ids \in Devices
  /\ adrift \in BOOLEAN
  /\ calm \in BOOLEAN

CommandTyped ==
  /\ cmd \in [name : {"none", "setup", "upgrade", "deinit"}, root : Roots \cup {Absent},
              dry_run : BOOLEAN]
  /\ pc \in Steps
  /\ todo \subseteq Migrations \cup {"patterns"}

FileStates == [work : {"real", "stub", "none"}, drive : Copies \cup {Absent},
               staged : BOOLEAN, head : BOOLEAN]

LfsTyped ==
  /\ rules \in Places
  /\ ignored \in Places
  /\ files \in [Files -> FileStates]

LEMMA TypeParts == TypeOK <=> ConfigTyped /\ CommandTyped /\ LfsTyped
BY DEF TypeOK, ConfigTyped, CommandTyped, LfsTyped, FileStates

-----------------------------------------------------------------------------
LEMMA RemovalNames ==
  ASSUME NEW i \in 1..5
  PROVE  /\ Removal[i] \in Removing
         /\ i # 5 => Removal[i + 1] \in Removing
         /\ i = 1 <=> Removal[i] = "rm_shared"
<1>1. i = 1 \/ i = 2 \/ i = 3 \/ i = 4 \/ i = 5
  OBVIOUS
<1> QED
  BY <1>1 DEF Removal, Removing

LEMMA StepNames ==
  Steps = {"idle", "config", "mint", "init", "relocate", "pop", "contract",
           "control", "lfs_pull", "lfs_push", "untrack", "gitignore", "add", "rm", "commit",
           "stubs", "migrate"} \cup Removing
<1>1. {Removal[i] : i \in 1..5} \subseteq Removing
  BY RemovalNames
<1>2. ASSUME NEW r \in Removing PROVE \E i \in 1..5 : r = Removal[i]
  <2>1. /\ 1 \in 1..5 /\ 2 \in 1..5 /\ 3 \in 1..5 /\ 4 \in 1..5 /\ 5 \in 1..5
    OBVIOUS
  <2>2. /\ Removal[1] = "rm_shared" /\ Removal[2] = "rm_contract" /\ Removal[3] = "rm_control"
        /\ Removal[4] = "rm_local" /\ Removal[5] = "rm_index"
    BY DEF Removal
  <2> QED
    BY <2>1, <2>2 DEF Removing
<1> QED
  BY <1>1, <1>2 DEF Steps

LEMMA DeviceTyped ==
  ASSUME TypeOK
  PROVE  /\ Device \in Devices \cup {Absent}
         /\ Device # Absent => shared # Absent
         /\ Layout \in BOOLEAN
BY DEF TypeOK, Device, Layout, Shareds, Locals

LEMMA InitSetup == Init => SetupInv
<1> SUFFICES ASSUME Init PROVE SetupInv
  OBVIOUS
<1> USE SetupAssumption
<1>1. Old \in Devices /\ 0 \in Devices
  BY DEF Old, Devices
<1>2. \A b \in BOOLEAN : Everywhere(b) \in Places
  BY DEF Everywhere, Places
<1>3. rules \in Places /\ ignored \in Places /\ files \in [Files -> FileStates]
  <2>1. PICK tracked \in BOOLEAN :
          /\ rules = Everywhere(tracked) /\ ignored = Everywhere(FALSE)
          /\ files \in [Files -> [work : {"real", "stub"}, drive : {Absent},
                                 staged : {tracked}, head : {tracked}]]
    BY DEF Init
  <2>2. [work : {"real", "stub"}, drive : {Absent}, staged : {tracked}, head : {tracked}] \subseteq FileStates
    BY DEF FileStates
  <2> QED
    BY <1>2, <2>1, <2>2
<1>4. TypeOK
  <2>1. cmd \in [name : {"none", "setup", "upgrade", "deinit"}, root : Roots \cup {Absent},
                 dry_run : BOOLEAN]
    BY DEF Init, Idle
  <2>2. pc \in Steps
    BY StepNames DEF Init
  <2> QED
    BY <1>1, <1>3, <2>1, <2>2 DEF Init, TypeOK, FileStates, Shareds, Locals, Indexes, Devices
<1>5. Placed
  BY DEF Init, Placed, Idle, Removing
<1>6. IndexInv
  BY DEF Init, IndexInv
<1>7. GivesUpInv
  BY DEF Init, GivesUpInv, GivingUp
<1> QED
  BY <1>4, <1>5, <1>6, <1>7 DEF SetupInv

(* A step that leaves the files alone, and is not on the way to give them up. *)
LEMMA FilesStay ==
  ASSUME GivesUpInv, UNCHANGED files,
         pc' \in GivingUp \cup {"lfs_push"} => pc \in GivingUp \cup {"lfs_push"},
         pc' \in GivingUp => pc \in GivingUp
  PROVE  GivesUpInv'
BY DEF GivesUpInv

LEMMA SetupHolds == SetupInv /\ [Next]_vars => SetupInv'
<1> SUFFICES ASSUME SetupInv, [Next]_vars PROVE SetupInv'
  OBVIOUS
<1> USE SetupAssumption, AbsentAssumption
<1>a. TypeOK /\ Placed /\ IndexInv /\ GivesUpInv
  BY DEF SetupInv
<1>b. /\ shared # Absent => shared \in Shareds
      /\ local # Absent => local \in Locals
      /\ index # Absent => index \in Indexes
      /\ cmd.root \in Roots \cup {Absent}
      /\ files \in [Files -> FileStates]
      /\ Device \in Devices \cup {Absent} /\ Layout \in BOOLEAN
      /\ Device # Absent => shared # Absent
  BY <1>a, DeviceTyped DEF TypeOK, FileStates
<1>c. ConfigTyped /\ CommandTyped /\ LfsTyped
  BY <1>a, TypeParts
<1>g. \A step \in Steps : Goes_to(step) => CommandTyped'
  BY <1>c DEF Goes_to, CommandTyped
<1>h. Ends => CommandTyped'
  BY StepNames DEF Ends, Idle, CommandTyped
<1>1. ASSUME NEW root \in Roots \cup {Absent}, NEW dry_run \in BOOLEAN, SetupBegins(root, dry_run) PROVE SetupInv'
  <2>1. TypeOK'
    <3>1. ConfigTyped'
      BY <1>1, <1>a, <1>b, <1>c DEF SetupBegins, ConfigTyped, Placed, config
    <3>2. CommandTyped'
      BY <1>1, <1>b, <1>c, StepNames DEF SetupBegins, CommandTyped, Goes_to, Ends, Idle, command
    <3>3. LfsTyped'
      BY <1>1, <1>b, <1>c DEF SetupBegins, LfsTyped, lfs
    <3> QED
      BY <3>1, <3>2, <3>3 DEF TypeOK, ConfigTyped, CommandTyped, LfsTyped, FileStates
  <2>2. Placed'
    BY <1>1, <1>a, <1>b DEF SetupBegins, Placed, Removing, Goes_to, Ends, Idle, config, command, lfs
  <2>3. IndexInv'
    BY <1>1, <1>a, <1>b DEF SetupBegins, IndexInv, Placed, Removing, Goes_to, Ends, Idle, config, command, lfs
  <2>4. GivesUpInv'
    BY <1>1, <1>a, FilesStay DEF SetupBegins, Goes_to, Ends, GivingUp, command, lfs
  <2> QED
    BY <2>1, <2>2, <2>3, <2>4 DEF SetupInv
<1>2. CASE ReadsConfig
  <2>a. shared = Absent /\ cmd.root # Absent => shared' \in Shareds
    BY <1>2, <1>b DEF ReadsConfig, Shareds
  <2>1. TypeOK'
    <3>1. ConfigTyped'
      BY <1>2, <1>a, <1>b, <1>c, <2>a DEF ReadsConfig, ConfigTyped, Placed, config, Shareds, Root_accepted
    <3>2. CommandTyped'
      BY <1>2, <1>g, <1>h, StepNames, <2>a DEF ReadsConfig
    <3>3. LfsTyped'
      BY <1>2, <1>b, <1>c, <2>a DEF ReadsConfig, LfsTyped, lfs
    <3> QED
      BY <3>1, <3>2, <3>3 DEF TypeOK, ConfigTyped, CommandTyped, LfsTyped, FileStates
  <2>2. Placed'
    BY <1>2, <1>a, <1>b, <2>a DEF ReadsConfig, Placed, Removing, Goes_to, Ends, Idle, config, command, lfs, Root_accepted
  <2>3. IndexInv'
    BY <1>2, <1>a, <1>b, <2>a DEF ReadsConfig, IndexInv, Placed, Removing, Goes_to, Ends, Idle, config, command, lfs, Root_accepted
  <2>4. GivesUpInv'
    BY <1>2, <1>a, <2>a, FilesStay DEF ReadsConfig, Goes_to, Ends, GivingUp, command, lfs
  <2> QED
    BY <2>1, <2>2, <2>3, <2>4 DEF SetupInv
<1>3. CASE InitsLocal
  <2>1. TypeOK'
    <3>1. ConfigTyped'
      BY <1>3, <1>a, <1>b, <1>c DEF InitsLocal, ConfigTyped, Placed, config, Devices, Locals
    <3>2. CommandTyped'
      BY <1>3, <1>b, <1>c, StepNames DEF InitsLocal, CommandTyped, Goes_to, Ends, Idle, command
    <3>3. LfsTyped'
      BY <1>3, <1>b, <1>c DEF InitsLocal, LfsTyped, lfs
    <3> QED
      BY <3>1, <3>2, <3>3 DEF TypeOK, ConfigTyped, CommandTyped, LfsTyped, FileStates
  <2>2. Placed'
    BY <1>3, <1>a, <1>b DEF InitsLocal, Placed, Removing, Goes_to, Ends, Idle, config, command, lfs
  <2>3. IndexInv'
    BY <1>3, <1>a, <1>b DEF InitsLocal, IndexInv, Placed, Removing, Goes_to, Ends, Idle, config, command, lfs
  <2>4. GivesUpInv'
    BY <1>3, <1>a, FilesStay DEF InitsLocal, Goes_to, Ends, GivingUp, command, lfs
  <2> QED
    BY <2>1, <2>2, <2>3, <2>4 DEF SetupInv
<1>4. CASE MintsDevice
  <2>1. TypeOK'
    <3>1. ConfigTyped'
      BY <1>4, <1>a, <1>b, <1>c DEF MintsDevice, ConfigTyped, Placed, config, Devices, Locals
    <3>2. CommandTyped'
      BY <1>4, <1>b, <1>c, StepNames DEF MintsDevice, CommandTyped, Goes_to, Ends, Idle, command
    <3>3. LfsTyped'
      BY <1>4, <1>b, <1>c DEF MintsDevice, LfsTyped, lfs
    <3> QED
      BY <3>1, <3>2, <3>3 DEF TypeOK, ConfigTyped, CommandTyped, LfsTyped, FileStates
  <2>2. Placed'
    BY <1>4, <1>a, <1>b DEF MintsDevice, Placed, Removing, Goes_to, Ends, Idle, config, command, lfs
  <2>3. IndexInv'
    BY <1>4, <1>a, <1>b DEF MintsDevice, IndexInv, Placed, Removing, Goes_to, Ends, Idle, config, command, lfs
  <2>4. GivesUpInv'
    BY <1>4, <1>a, FilesStay DEF MintsDevice, Goes_to, Ends, GivingUp, command, lfs
  <2> QED
    BY <2>1, <2>2, <2>3, <2>4 DEF SetupInv
<1>5. CASE Relocates
  <2>1. TypeOK'
    <3>1. ConfigTyped'
      BY <1>5, <1>a, <1>b, <1>c DEF Relocates, ConfigTyped, Placed, config, Shareds, Locals
    <3>2. CommandTyped'
      BY <1>5, <1>b, <1>c, StepNames DEF Relocates, CommandTyped, Goes_to, Ends, Idle, command, Continue
    <3>3. LfsTyped'
      BY <1>5, <1>b, <1>c DEF Relocates, LfsTyped, lfs
    <3> QED
      BY <3>1, <3>2, <3>3 DEF TypeOK, ConfigTyped, CommandTyped, LfsTyped, FileStates
  <2>2. Placed'
    BY <1>5, <1>a, <1>b DEF Relocates, Placed, Removing, Goes_to, Ends, Idle, config, command, lfs, Continue, Shareds, Locals
  <2>3. IndexInv'
    BY <1>5, <1>a, <1>b DEF Relocates, IndexInv, Placed, Removing, Goes_to, Ends, Idle, config, command, lfs, Continue
  <2>4. GivesUpInv'
    BY <1>5, <1>a, FilesStay DEF Relocates, Goes_to, Ends, GivingUp, command, lfs, Continue
  <2> QED
    BY <2>1, <2>2, <2>3, <2>4 DEF SetupInv
<1>6. CASE PopsShared
  <2>a. shared' \in Shareds \cup {Absent} /\ (shared # Absent => shared' # Absent /\ shared'.root = shared.root)
    BY <1>6, <1>a, <1>b, <1>c DEF PopsShared, ConfigTyped, Placed, Removing, Shareds
  <2>1. TypeOK'
    <3>1. ConfigTyped'
      BY <1>6, <1>a, <1>b, <1>c, <2>a DEF PopsShared, ConfigTyped, Placed, config, Shareds
    <3>2. CommandTyped'
      BY <1>6, <1>b, <1>c, StepNames, <2>a DEF PopsShared, CommandTyped, Goes_to, Ends, Idle, command, Continue
    <3>3. LfsTyped'
      BY <1>6, <1>b, <1>c, <2>a DEF PopsShared, LfsTyped, lfs
    <3> QED
      BY <3>1, <3>2, <3>3 DEF TypeOK, ConfigTyped, CommandTyped, LfsTyped, FileStates
  <2>2. Placed'
    BY <1>6, <1>a, <1>b, <2>a DEF PopsShared, Placed, Removing, Goes_to, Ends, Idle, config, command, lfs, Continue, Shareds
  <2>3. IndexInv'
    BY <1>6, <1>a, <1>b, <2>a DEF PopsShared, IndexInv, Placed, Removing, Goes_to, Ends, Idle, config, command, lfs, Continue, Shareds
  <2>4. GivesUpInv'
    BY <1>6, <1>a, <2>a, FilesStay DEF PopsShared, Goes_to, Ends, GivingUp, command, lfs, Continue
  <2> QED
    BY <2>1, <2>2, <2>3, <2>4 DEF SetupInv
<1>7. CASE WritesContract
  <2>1. TypeOK'
    <3>1. ConfigTyped'
      BY <1>7, <1>a, <1>b, <1>c DEF WritesContract, ConfigTyped, Placed, config
    <3>2. CommandTyped'
      BY <1>7, <1>b, <1>c, StepNames DEF WritesContract, CommandTyped, Goes_to, Ends, Idle, command
    <3>3. LfsTyped'
      BY <1>7, <1>b, <1>c DEF WritesContract, LfsTyped, lfs
    <3> QED
      BY <3>1, <3>2, <3>3 DEF TypeOK, ConfigTyped, CommandTyped, LfsTyped, FileStates
  <2>2. Placed'
    BY <1>7, <1>a, <1>b DEF WritesContract, Placed, Removing, Goes_to, Ends, Idle, config, command, lfs
  <2>3. IndexInv'
    BY <1>7, <1>a, <1>b DEF WritesContract, IndexInv, Placed, Removing, Goes_to, Ends, Idle, config, command, lfs
  <2>4. GivesUpInv'
    BY <1>7, <1>a, FilesStay DEF WritesContract, Goes_to, Ends, GivingUp, command, lfs
  <2> QED
    BY <2>1, <2>2, <2>3, <2>4 DEF SetupInv
<1>8. ASSUME NEW migrate \in BOOLEAN, WritesControl(migrate) PROVE SetupInv'
  <2>1. TypeOK'
    <3>1. ConfigTyped'
      BY <1>8, <1>a, <1>b, <1>c DEF WritesControl, ConfigTyped, Placed, config
    <3>2. CommandTyped'
      BY <1>8, <1>g, <1>h, StepNames DEF WritesControl
    <3>3. LfsTyped'
      BY <1>8, <1>b, <1>c DEF WritesControl, LfsTyped, lfs
    <3> QED
      BY <3>1, <3>2, <3>3 DEF TypeOK, ConfigTyped, CommandTyped, LfsTyped, FileStates
  <2>2. Placed'
    BY <1>8, <1>a, <1>b DEF WritesControl, Placed, Removing, Goes_to, Ends, Idle, config, command, lfs
  <2>3. IndexInv'
    BY <1>8, <1>a, <1>b DEF WritesControl, IndexInv, Placed, Removing, Goes_to, Ends, Idle, config, command, lfs
  <2>4. GivesUpInv'
    BY <1>8, <1>a, FilesStay DEF WritesControl, Goes_to, Ends, GivingUp, command, lfs
  <2> QED
    BY <2>1, <2>2, <2>3, <2>4 DEF SetupInv
<1>9. ASSUME NEW succeeds \in BOOLEAN, Materializes(succeeds) PROVE SetupInv'
  <2>a. files' \in [Files -> FileStates]
    BY <1>9, <1>b DEF Materializes, FileStates
  <2>1. TypeOK'
    <3>1. ConfigTyped'
      BY <1>9, <1>a, <1>b, <1>c, <2>a DEF Materializes, ConfigTyped, Placed, config
    <3>2. CommandTyped'
      BY <1>9, <1>g, <1>h, StepNames, <2>a DEF Materializes
    <3>3. LfsTyped'
      BY <1>9, <1>b, <1>c, <2>a DEF Materializes, LfsTyped, lfs
    <3> QED
      BY <3>1, <3>2, <3>3 DEF TypeOK, ConfigTyped, CommandTyped, LfsTyped, FileStates
  <2>2. Placed'
    BY <1>9, <1>a, <1>b, <2>a DEF Materializes, Placed, Removing, Goes_to, Ends, Idle, config, command, lfs
  <2>3. IndexInv'
    BY <1>9, <1>a, <1>b, <2>a DEF Materializes, IndexInv, Placed, Removing, Goes_to, Ends, Idle, config, command, lfs
  <2>4. GivesUpInv'
    BY <1>9, <1>a, <1>b DEF Materializes, Goes_to, Ends, GivesUpInv, GivingUp, FileStates
  <2> QED
    BY <2>1, <2>2, <2>3, <2>4 DEF SetupInv
<1>10. ASSUME NEW uploaded \in SUBSET Sendable, Uploads(uploaded) PROVE SetupInv'
  <2>a. files' \in [Files -> FileStates]
    BY <1>10, <1>a, <1>b DEF Uploads, Pushed, FileStates, Copies, Placed, Removing, Shareds
  <2>1. TypeOK'
    <3>1. ConfigTyped'
      BY <1>10, <1>a, <1>b, <1>c, <2>a DEF Uploads, Pushed, Sendable, ConfigTyped, Placed, config, Indexes, Shareds, Removing
    <3>2. CommandTyped'
      BY <1>10, <1>g, <1>h, StepNames, <2>a DEF Uploads
    <3>3. LfsTyped'
      BY <1>10, <1>b, <1>c, <2>a DEF Uploads, LfsTyped, lfs
    <3> QED
      BY <3>1, <3>2, <3>3 DEF TypeOK, ConfigTyped, CommandTyped, LfsTyped, FileStates
  <2>2. Placed'
    BY <1>10, <1>a, <1>b, <2>a DEF Uploads, Placed, Removing, Goes_to, Ends, Idle, config, command, lfs
  <2>3. IndexInv'
    BY <1>10, <1>a, <1>b, <2>a DEF Uploads, Pushed, IndexInv, Placed, Removing, Goes_to, Ends, Idle, config, command, lfs, Indexes
  <2>4. GivesUpInv'
    BY <1>10, <1>a, <1>b DEF Uploads, Pushed, Sendable, Goes_to, Ends, GivesUpInv, GivingUp, FileStates
  <2> QED
    BY <2>1, <2>2, <2>3, <2>4 DEF SetupInv
<1>11. CASE Untracks
  <2>1. TypeOK'
    <3>1. ConfigTyped'
      BY <1>11, <1>a, <1>b, <1>c DEF Untracks, ConfigTyped, Placed, config
    <3>2. CommandTyped'
      BY <1>11, <1>b, <1>c, StepNames DEF Untracks, CommandTyped, Goes_to, Ends, Idle, command
    <3>3. LfsTyped'
      BY <1>11, <1>b, <1>c DEF Untracks, LfsTyped, lfs, Places
    <3> QED
      BY <3>1, <3>2, <3>3 DEF TypeOK, ConfigTyped, CommandTyped, LfsTyped, FileStates
  <2>2. Placed'
    BY <1>11, <1>a, <1>b DEF Untracks, Placed, Removing, Goes_to, Ends, Idle, config, command, lfs
  <2>3. IndexInv'
    BY <1>11, <1>a, <1>b DEF Untracks, IndexInv, Placed, Removing, Goes_to, Ends, Idle, config, command, lfs
  <2>4. GivesUpInv'
    BY <1>11, <1>a, FilesStay DEF Untracks, Goes_to, Ends, GivingUp, command, lfs
  <2> QED
    BY <2>1, <2>2, <2>3, <2>4 DEF SetupInv
<1>12. CASE Ignores
  <2>1. TypeOK'
    <3>1. ConfigTyped'
      BY <1>12, <1>a, <1>b, <1>c DEF Ignores, ConfigTyped, Placed, config
    <3>2. CommandTyped'
      BY <1>12, <1>b, <1>c, StepNames DEF Ignores, CommandTyped, Goes_to, Ends, Idle, command
    <3>3. LfsTyped'
      BY <1>12, <1>b, <1>c DEF Ignores, LfsTyped, lfs, Places
    <3> QED
      BY <3>1, <3>2, <3>3 DEF TypeOK, ConfigTyped, CommandTyped, LfsTyped, FileStates
  <2>2. Placed'
    BY <1>12, <1>a, <1>b DEF Ignores, Placed, Removing, Goes_to, Ends, Idle, config, command, lfs
  <2>3. IndexInv'
    BY <1>12, <1>a, <1>b DEF Ignores, IndexInv, Placed, Removing, Goes_to, Ends, Idle, config, command, lfs
  <2>4. GivesUpInv'
    BY <1>12, <1>a, FilesStay DEF Ignores, Goes_to, Ends, GivingUp, command, lfs
  <2> QED
    BY <2>1, <2>2, <2>3, <2>4 DEF SetupInv
<1>13. CASE GitAdds
  <2>1. TypeOK'
    <3>1. ConfigTyped'
      BY <1>13, <1>a, <1>b, <1>c DEF GitAdds, ConfigTyped, Placed, config
    <3>2. CommandTyped'
      BY <1>13, <1>b, <1>c, StepNames DEF GitAdds, CommandTyped, Goes_to, Ends, Idle, command
    <3>3. LfsTyped'
      BY <1>13, <1>b, <1>c DEF GitAdds, LfsTyped, lfs, Places
    <3> QED
      BY <3>1, <3>2, <3>3 DEF TypeOK, ConfigTyped, CommandTyped, LfsTyped, FileStates
  <2>2. Placed'
    BY <1>13, <1>a, <1>b DEF GitAdds, Placed, Removing, Goes_to, Ends, Idle, config, command, lfs
  <2>3. IndexInv'
    BY <1>13, <1>a, <1>b DEF GitAdds, IndexInv, Placed, Removing, Goes_to, Ends, Idle, config, command, lfs
  <2>4. GivesUpInv'
    BY <1>13, <1>a, FilesStay DEF GitAdds, Goes_to, Ends, GivingUp, command, lfs
  <2> QED
    BY <2>1, <2>2, <2>3, <2>4 DEF SetupInv
<1>14. CASE GitRemoves
  <2>1. TypeOK'
    <3>1. ConfigTyped'
      BY <1>14, <1>a, <1>b, <1>c DEF GitRemoves, ConfigTyped, Placed, config
    <3>2. CommandTyped'
      BY <1>14, <1>b, <1>c, StepNames DEF GitRemoves, CommandTyped, Goes_to, Ends, Idle, command
    <3>3. LfsTyped'
      BY <1>14, <1>b, <1>c DEF GitRemoves, LfsTyped, lfs, FileStates
    <3> QED
      BY <3>1, <3>2, <3>3 DEF TypeOK, ConfigTyped, CommandTyped, LfsTyped, FileStates
  <2>2. Placed'
    BY <1>14, <1>a, <1>b DEF GitRemoves, Placed, Removing, Goes_to, Ends, Idle, config, command, lfs
  <2>3. IndexInv'
    BY <1>14, <1>a, <1>b DEF GitRemoves, IndexInv, Placed, Removing, Goes_to, Ends, Idle, config, command, lfs
  <2>4. GivesUpInv'
    BY <1>14, <1>a, <1>b DEF GitRemoves, Goes_to, GivesUpInv, GivingUp, FileStates
  <2> QED
    BY <2>1, <2>2, <2>3, <2>4 DEF SetupInv
<1>15. CASE GitCommits
  <2>1. TypeOK'
    <3>1. ConfigTyped'
      BY <1>15, <1>a, <1>b, <1>c DEF GitCommits, ConfigTyped, Placed, config
    <3>2. CommandTyped'
      BY <1>15, <1>g, <1>h, StepNames DEF GitCommits
    <3>3. LfsTyped'
      BY <1>15, <1>b, <1>c DEF GitCommits, LfsTyped, lfs, Places, Committed, FileStates
    <3> QED
      BY <3>1, <3>2, <3>3 DEF TypeOK, ConfigTyped, CommandTyped, LfsTyped, FileStates
  <2>2. Placed'
    BY <1>15, <1>a, <1>b DEF GitCommits, Placed, Removing, Goes_to, Ends, Idle, config, command, lfs
  <2>3. IndexInv'
    BY <1>15, <1>a, <1>b DEF GitCommits, IndexInv, Placed, Removing, Goes_to, Ends, Idle, config, command, lfs
  <2>4. GivesUpInv'
    BY <1>15, <1>a, <1>b DEF GitCommits, lfs, Committed, Goes_to, Ends, GivesUpInv, GivingUp, FileStates
  <2> QED
    BY <2>1, <2>2, <2>3, <2>4 DEF SetupInv
<1>16. CASE GitFails
  <2>1. TypeOK'
    <3>1. ConfigTyped'
      BY <1>16, <1>a, <1>b, <1>c DEF GitFails, ConfigTyped, Placed, config
    <3>2. CommandTyped'
      BY <1>16, <1>b, <1>c, StepNames DEF GitFails, CommandTyped, Goes_to, Ends, Idle, command
    <3>3. LfsTyped'
      BY <1>16, <1>b, <1>c DEF GitFails, LfsTyped, lfs
    <3> QED
      BY <3>1, <3>2, <3>3 DEF TypeOK, ConfigTyped, CommandTyped, LfsTyped, FileStates
  <2>2. Placed'
    BY <1>16, <1>a, <1>b DEF GitFails, Placed, Removing, Goes_to, Ends, Idle, config, command, lfs
  <2>3. IndexInv'
    BY <1>16, <1>a, <1>b DEF GitFails, IndexInv, Placed, Removing, Goes_to, Ends, Idle, config, command, lfs
  <2>4. GivesUpInv'
    BY <1>16, <1>a, FilesStay DEF GitFails, Goes_to, Ends, GivingUp, command, lfs
  <2> QED
    BY <2>1, <2>2, <2>3, <2>4 DEF SetupInv
<1>17. CASE CleansStubs
  <2>1. TypeOK'
    <3>1. ConfigTyped'
      BY <1>17, <1>a, <1>b, <1>c DEF CleansStubs, ConfigTyped, Placed, config
    <3>2. CommandTyped'
      BY <1>17, <1>b, <1>c, StepNames DEF CleansStubs, CommandTyped, Goes_to, Ends, Idle, command
    <3>3. LfsTyped'
      BY <1>17, <1>b, <1>c DEF CleansStubs, LfsTyped, lfs, FileStates
    <3> QED
      BY <3>1, <3>2, <3>3 DEF TypeOK, ConfigTyped, CommandTyped, LfsTyped, FileStates
  <2>2. Placed'
    BY <1>17, <1>a, <1>b DEF CleansStubs, Placed, Removing, Goes_to, Ends, Idle, config, command, lfs
  <2>3. IndexInv'
    BY <1>17, <1>a, <1>b DEF CleansStubs, IndexInv, Placed, Removing, Goes_to, Ends, Idle, config, command, lfs
  <2>4. GivesUpInv'
    BY <1>17, <1>a, <1>b DEF CleansStubs, Ends, GivesUpInv, GivingUp, FileStates
  <2> QED
    BY <2>1, <2>2, <2>3, <2>4 DEF SetupInv
<1>18. CASE UpgradeBegins
  <2>1. TypeOK'
    <3>1. ConfigTyped'
      BY <1>18, <1>a, <1>b, <1>c DEF UpgradeBegins, ConfigTyped, Placed, config
    <3>2. CommandTyped'
      BY <1>18, <1>b, <1>c, StepNames DEF UpgradeBegins, CommandTyped, Goes_to, Ends, Idle, command, Pending
    <3>3. LfsTyped'
      BY <1>18, <1>b, <1>c DEF UpgradeBegins, LfsTyped, lfs
    <3> QED
      BY <3>1, <3>2, <3>3 DEF TypeOK, ConfigTyped, CommandTyped, LfsTyped, FileStates
  <2>2. Placed'
    BY <1>18, <1>a, <1>b DEF UpgradeBegins, Placed, Removing, Goes_to, Ends, Idle, config, command, lfs
  <2>3. IndexInv'
    BY <1>18, <1>a, <1>b DEF UpgradeBegins, IndexInv, Placed, Removing, Goes_to, Ends, Idle, config, command, lfs
  <2>4. GivesUpInv'
    BY <1>18, <1>a, FilesStay DEF UpgradeBegins, Goes_to, Ends, GivingUp, command, lfs
  <2> QED
    BY <2>1, <2>2, <2>3, <2>4 DEF SetupInv
<1>19. CASE AppliesIndex
  <2>1. TypeOK'
    <3>1. ConfigTyped'
      BY <1>19, <1>a, <1>b, <1>c DEF AppliesIndex, ConfigTyped, Placed, config, Indexes
    <3>2. CommandTyped'
      BY <1>19, <1>b, <1>c, StepNames DEF AppliesIndex, CommandTyped, Goes_to, Ends, Idle, command
    <3>3. LfsTyped'
      BY <1>19, <1>b, <1>c DEF AppliesIndex, LfsTyped, lfs
    <3> QED
      BY <3>1, <3>2, <3>3 DEF TypeOK, ConfigTyped, CommandTyped, LfsTyped, FileStates
  <2>2. Placed'
    BY <1>19, <1>a, <1>b DEF AppliesIndex, Placed, Removing, Goes_to, Ends, Idle, config, command, lfs
  <2>3. IndexInv'
    BY <1>19, <1>a, <1>b DEF AppliesIndex, IndexInv, Placed, Removing, Goes_to, Ends, Idle, config, command, lfs, Indexes
  <2>4. GivesUpInv'
    BY <1>19, <1>a, FilesStay DEF AppliesIndex, Goes_to, Ends, GivingUp, command, lfs
  <2> QED
    BY <2>1, <2>2, <2>3, <2>4 DEF SetupInv
<1>20. ASSUME NEW m \in Migrations, NEW step \in {"relocate", "contract", "control"}, AppliesOther(m, step) PROVE SetupInv'
  <2>1. TypeOK'
    <3>1. ConfigTyped'
      BY <1>20, <1>a, <1>b, <1>c DEF AppliesOther, ConfigTyped, Placed, config
    <3>2. CommandTyped'
      BY <1>20, <1>b, <1>c, StepNames DEF AppliesOther, CommandTyped, Goes_to, Ends, Idle, command
    <3>3. LfsTyped'
      BY <1>20, <1>b, <1>c DEF AppliesOther, LfsTyped, lfs
    <3> QED
      BY <3>1, <3>2, <3>3 DEF TypeOK, ConfigTyped, CommandTyped, LfsTyped, FileStates
  <2>2. Placed'
    BY <1>20, <1>a, <1>b DEF AppliesOther, Placed, Removing, Goes_to, Ends, Idle, config, command, lfs
  <2>3. IndexInv'
    BY <1>20, <1>a, <1>b DEF AppliesOther, IndexInv, Placed, Removing, Goes_to, Ends, Idle, config, command, lfs
  <2>4. GivesUpInv'
    BY <1>20, <1>a, FilesStay DEF AppliesOther, Goes_to, Ends, GivingUp, command, lfs
  <2> QED
    BY <2>1, <2>2, <2>3, <2>4 DEF SetupInv
<1>21. CASE Marks
  <2>1. TypeOK'
    <3>1. ConfigTyped'
      BY <1>21, <1>a, <1>b, <1>c DEF Marks, ConfigTyped, Placed, config, Locals
    <3>2. CommandTyped'
      BY <1>21, <1>b, <1>c, StepNames DEF Marks, CommandTyped, Goes_to, Ends, Idle, command
    <3>3. LfsTyped'
      BY <1>21, <1>b, <1>c DEF Marks, LfsTyped, lfs
    <3> QED
      BY <3>1, <3>2, <3>3 DEF TypeOK, ConfigTyped, CommandTyped, LfsTyped, FileStates
  <2>2. Placed'
    BY <1>21, <1>a, <1>b DEF Marks, Placed, Removing, Goes_to, Ends, Idle, config, command, lfs
  <2>3. IndexInv'
    BY <1>21, <1>a, <1>b DEF Marks, IndexInv, Placed, Removing, Goes_to, Ends, Idle, config, command, lfs
  <2>4. GivesUpInv'
    BY <1>21, <1>a, FilesStay DEF Marks, Goes_to, Ends, GivingUp, command, lfs
  <2> QED
    BY <2>1, <2>2, <2>3, <2>4 DEF SetupInv
<1>22. CASE DeinitBegins
  <2>a. Removal[1] \in Removing
    BY RemovalNames
  <2>1. TypeOK'
    <3>1. ConfigTyped'
      BY <1>22, <1>a, <1>b, <1>c, <2>a DEF DeinitBegins, ConfigTyped, Placed, config
    <3>2. CommandTyped'
      BY <1>22, <1>b, <1>c, StepNames, <2>a DEF DeinitBegins, CommandTyped, Goes_to, Ends, Idle, command
    <3>3. LfsTyped'
      BY <1>22, <1>b, <1>c, <2>a DEF DeinitBegins, LfsTyped, lfs
    <3> QED
      BY <3>1, <3>2, <3>3 DEF TypeOK, ConfigTyped, CommandTyped, LfsTyped, FileStates
  <2>2. Placed'
    BY <1>22, <1>a, <1>b, <2>a DEF DeinitBegins, Placed, Removing, Goes_to, Ends, Idle, config, command, lfs
  <2>3. IndexInv'
    BY <1>22, <1>a, <1>b, <2>a DEF DeinitBegins, IndexInv, Placed, Removing, Goes_to, Ends, Idle, config, command, lfs
  <2>4. GivesUpInv'
    BY <1>22, <1>a, <2>a, FilesStay DEF DeinitBegins, Goes_to, Ends, GivingUp, command, lfs, Removing
  <2> QED
    BY <2>1, <2>2, <2>3, <2>4 DEF SetupInv
<1>23. ASSUME NEW i \in 1..5, Removes(i) PROVE SetupInv'
  <2>a. /\ Removal[i] \in Removing
        /\ i # 5 => Removal[i + 1] \in Removing
        /\ i = 1 <=> Removal[i] = "rm_shared"
    BY RemovalNames
  <2>1. TypeOK'
    <3>1. ConfigTyped'
      BY <1>23, <1>a, <1>b, <1>c, <2>a DEF Removes, ConfigTyped, Placed, config
    <3>2. CommandTyped'
      BY <1>23, <1>g, <1>h, StepNames, <2>a DEF Removes
    <3>3. LfsTyped'
      BY <1>23, <1>b, <1>c, <2>a DEF Removes, LfsTyped, lfs
    <3> QED
      BY <3>1, <3>2, <3>3 DEF TypeOK, ConfigTyped, CommandTyped, LfsTyped, FileStates
  <2>2. Placed'
    BY <1>23, <1>a, <1>b, <2>a DEF Removes, Placed, Removing, Goes_to, Ends, Idle, config, command, lfs
  <2>3. IndexInv'
    BY <1>23, <1>a, <1>b, <2>a DEF Removes, IndexInv, Placed, Removing, Goes_to, Ends, Idle, config, command, lfs
  <2>4. GivesUpInv'
    BY <1>23, <1>a, <2>a, FilesStay DEF Removes, Goes_to, Ends, GivingUp, command, lfs, Removing
  <2> QED
    BY <2>1, <2>2, <2>3, <2>4 DEF SetupInv
<1>24. CASE Stops
  <2>1. TypeOK'
    <3>1. ConfigTyped'
      BY <1>24, <1>a, <1>b, <1>c DEF Stops, ConfigTyped, Placed, config
    <3>2. CommandTyped'
      BY <1>24, <1>b, <1>c, StepNames DEF Stops, CommandTyped, Goes_to, Ends, Idle, command
    <3>3. LfsTyped'
      BY <1>24, <1>b, <1>c DEF Stops, LfsTyped, lfs
    <3> QED
      BY <3>1, <3>2, <3>3 DEF TypeOK, ConfigTyped, CommandTyped, LfsTyped, FileStates
  <2>2. Placed'
    BY <1>24, <1>a, <1>b DEF Stops, Placed, Removing, Goes_to, Ends, Idle, config, command, lfs
  <2>3. IndexInv'
    BY <1>24, <1>a, <1>b DEF Stops, IndexInv, Placed, Removing, Goes_to, Ends, Idle, config, command, lfs
  <2>4. GivesUpInv'
    BY <1>24, <1>a, FilesStay DEF Stops, Goes_to, Ends, GivingUp, command, lfs
  <2> QED
    BY <2>1, <2>2, <2>3, <2>4 DEF SetupInv
<1>25. ASSUME NEW uploaded \in SUBSET Sendable, OthersRecord(uploaded) PROVE SetupInv'
  <2>a. files' \in [Files -> FileStates]
    BY <1>25, <1>a, <1>b DEF OthersRecord, Pushed, FileStates, Copies, Shareds
  <2>1. TypeOK'
    <3>1. ConfigTyped'
      BY <1>25, <1>a, <1>b, <1>c DEF OthersRecord, Pushed, Sendable, ConfigTyped, Placed, config, Indexes, Shareds
    <3>2. CommandTyped'
      BY <1>25, <1>b, <1>c, StepNames DEF OthersRecord, CommandTyped, Goes_to, Ends, Idle, command
    <3>3. LfsTyped'
      BY <1>25, <1>b, <1>c, <2>a DEF OthersRecord, LfsTyped, lfs
    <3> QED
      BY <3>1, <3>2, <3>3 DEF TypeOK, ConfigTyped, CommandTyped, LfsTyped, FileStates
  <2>2. Placed'
    BY <1>25, <1>a, <1>b DEF OthersRecord, Placed, Removing, Goes_to, Ends, Idle, config, command, lfs
  <2>3. IndexInv'
    BY <1>25, <1>a, <1>b DEF OthersRecord, Pushed, IndexInv, Placed, Removing, Goes_to, Ends, Idle, config, command, lfs, Indexes
  <2>4. GivesUpInv'
    BY <1>25, <1>a, <1>b DEF OthersRecord, Pushed, command, GivesUpInv, GivingUp, FileStates
  <2> QED
    BY <2>1, <2>2, <2>3, <2>4 DEF SetupInv
<1>26. ASSUME NEW root \in Roots, ConfigSets(root) PROVE SetupInv'
  <2>a. shared' \in Shareds /\ shared'.root = root
    BY <1>26, <1>b DEF ConfigSets, Shareds
  <2>1. TypeOK'
    <3>1. ConfigTyped'
      BY <1>26, <1>a, <1>b, <1>c, <2>a DEF ConfigSets, ConfigTyped, Placed, config, Shareds
    <3>2. CommandTyped'
      BY <1>26, <1>b, <1>c, StepNames, <2>a DEF ConfigSets, CommandTyped, Goes_to, Ends, Idle, command
    <3>3. LfsTyped'
      BY <1>26, <1>b, <1>c, <2>a DEF ConfigSets, LfsTyped, lfs
    <3> QED
      BY <3>1, <3>2, <3>3 DEF TypeOK, ConfigTyped, CommandTyped, LfsTyped, FileStates
  <2>2. Placed'
    BY <1>26, <1>a, <1>b, <2>a DEF ConfigSets, Placed, Removing, Goes_to, Ends, Idle, config, command, lfs
  <2>3. IndexInv'
    BY <1>26, <1>a, <1>b, <2>a DEF ConfigSets, IndexInv, Placed, Removing, Goes_to, Ends, Idle, config, command, lfs
  <2>4. GivesUpInv'
    BY <1>26, <1>a, <2>a, FilesStay DEF ConfigSets, Goes_to, Ends, GivingUp, command, lfs
  <2> QED
    BY <2>1, <2>2, <2>3, <2>4 DEF SetupInv
<1>27. ASSUME NEW older \in BOOLEAN, GitBrings(older) PROVE SetupInv'
  <2>a. shared' \in Shareds \cup {Absent} /\ (shared # Absent => shared' # Absent /\ shared'.root = shared.root)
    BY <1>27, <1>b, <1>c DEF GitBrings, ConfigTyped, Placed, Shareds, Old, Devices
  <2>1. TypeOK'
    <3>1. ConfigTyped'
      BY <1>27, <1>a, <1>b, <1>c, <2>a DEF GitBrings, ConfigTyped, Placed, config, Shareds, Old, Devices
    <3>2. CommandTyped'
      BY <1>27, <1>b, <1>c, StepNames, <2>a DEF GitBrings, CommandTyped, Goes_to, Ends, Idle, command
    <3>3. LfsTyped'
      BY <1>27, <1>b, <1>c, <2>a DEF GitBrings, LfsTyped, lfs
    <3> QED
      BY <3>1, <3>2, <3>3 DEF TypeOK, ConfigTyped, CommandTyped, LfsTyped, FileStates
  <2>2. Placed'
    BY <1>27, <1>a, <1>b, <2>a DEF GitBrings, Placed, Removing, Goes_to, Ends, Idle, config, command, lfs
  <2>3. IndexInv'
    BY <1>27, <1>a, <1>b, <2>a DEF GitBrings, IndexInv, Placed, Removing, Goes_to, Ends, Idle, config, command, lfs, Shareds
  <2>4. GivesUpInv'
    BY <1>27, <1>a, <2>a, FilesStay DEF GitBrings, Goes_to, Ends, GivingUp, command, lfs
  <2> QED
    BY <2>1, <2>2, <2>3, <2>4 DEF SetupInv
<1>28. CASE UserReverts
  <2>1. TypeOK'
    <3>1. ConfigTyped'
      BY <1>28, <1>a, <1>b, <1>c DEF UserReverts, ConfigTyped, Placed, config
    <3>2. CommandTyped'
      BY <1>28, <1>b, <1>c, StepNames DEF UserReverts, CommandTyped, Goes_to, Ends, Idle, command
    <3>3. LfsTyped'
      BY <1>28, <1>b, <1>c DEF UserReverts, LfsTyped, lfs, Everywhere, Places, FileStates
    <3> QED
      BY <3>1, <3>2, <3>3 DEF TypeOK, ConfigTyped, CommandTyped, LfsTyped, FileStates
  <2>2. Placed'
    BY <1>28, <1>a, <1>b DEF UserReverts, Placed, Removing, Goes_to, Ends, Idle, config, command, lfs
  <2>3. IndexInv'
    BY <1>28, <1>a, <1>b DEF UserReverts, IndexInv, Placed, Removing, Goes_to, Ends, Idle, config, command, lfs
  <2>4. GivesUpInv'
    BY <1>28, <1>a, <1>b DEF UserReverts, command, GivesUpInv, GivingUp, FileStates
  <2> QED
    BY <2>1, <2>2, <2>3, <2>4 DEF SetupInv
<1>29. CASE UserCommits
  <2>1. TypeOK'
    <3>1. ConfigTyped'
      BY <1>29, <1>a, <1>b, <1>c DEF UserCommits, ConfigTyped, Placed, config
    <3>2. CommandTyped'
      BY <1>29, <1>b, <1>c, StepNames DEF UserCommits, CommandTyped, Goes_to, Ends, Idle, command
    <3>3. LfsTyped'
      BY <1>29, <1>b, <1>c DEF UserCommits, LfsTyped, lfs, Committed, Places, FileStates
    <3> QED
      BY <3>1, <3>2, <3>3 DEF TypeOK, ConfigTyped, CommandTyped, LfsTyped, FileStates
  <2>2. Placed'
    BY <1>29, <1>a, <1>b DEF UserCommits, Placed, Removing, Goes_to, Ends, Idle, config, command, lfs
  <2>3. IndexInv'
    BY <1>29, <1>a, <1>b DEF UserCommits, IndexInv, Placed, Removing, Goes_to, Ends, Idle, config, command, lfs
  <2>4. GivesUpInv'
    BY <1>29, <1>a, <1>b DEF UserCommits, command, Committed, GivesUpInv, GivingUp, FileStates
  <2> QED
    BY <2>1, <2>2, <2>3, <2>4 DEF SetupInv
<1>30. CASE CalmsDown
  <2>1. TypeOK'
    <3>1. ConfigTyped'
      BY <1>30, <1>a, <1>b, <1>c DEF CalmsDown, ConfigTyped, Placed, config
    <3>2. CommandTyped'
      BY <1>30, <1>b, <1>c, StepNames DEF CalmsDown, CommandTyped, Goes_to, Ends, Idle, command
    <3>3. LfsTyped'
      BY <1>30, <1>b, <1>c DEF CalmsDown, LfsTyped, lfs
    <3> QED
      BY <3>1, <3>2, <3>3 DEF TypeOK, ConfigTyped, CommandTyped, LfsTyped, FileStates
  <2>2. Placed'
    BY <1>30, <1>a, <1>b DEF CalmsDown, Placed, Removing, Goes_to, Ends, Idle, config, command, lfs
  <2>3. IndexInv'
    BY <1>30, <1>a, <1>b DEF CalmsDown, IndexInv, Placed, Removing, Goes_to, Ends, Idle, config, command, lfs
  <2>4. GivesUpInv'
    BY <1>30, <1>a, FilesStay DEF CalmsDown, Goes_to, Ends, GivingUp, command, lfs
  <2> QED
    BY <2>1, <2>2, <2>3, <2>4 DEF SetupInv
<1>31. ASSUME NEW f \in Files, NEW root \in Roots, OtherDeviceTrashes(f, root) PROVE SetupInv'
  <2>a. files' \in [Files -> FileStates]
    BY <1>31, <1>b DEF OtherDeviceTrashes, FileStates, Copies
  <2>1. TypeOK'
    BY <1>31, <1>a, <2>a DEF OtherDeviceTrashes, TypeOK, FileStates, config, command
  <2>2. Placed' /\ IndexInv'
    BY <1>31, <1>a DEF OtherDeviceTrashes, Placed, IndexInv, config, command
  <2>3. GivesUpInv'
    BY <1>31, <1>a, <1>b DEF OtherDeviceTrashes, command, GivesUpInv, FileStates
  <2> QED
    BY <2>1, <2>2, <2>3 DEF SetupInv
<1>32. CASE UNCHANGED vars
  BY <1>32, <1>a DEF vars, config, command, lfs, TypeOK, Placed, IndexInv, GivesUpInv, SetupInv
<1>m. {"device", "control", "events"} \subseteq Migrations
  BY DEF Migrations
<1> QED
  BY <1>1, <1>2, <1>3, <1>4, <1>5, <1>6, <1>7, <1>8, <1>9, <1>10, <1>11, <1>12, <1>13, <1>14, <1>15, <1>16, <1>17, <1>18, <1>19, <1>20, <1>21, <1>22, <1>23, <1>24, <1>25, <1>26, <1>27, <1>28, <1>29, <1>30, <1>31, <1>32, <1>m
     DEF Next, SetupStarts, SetupGoesOn, Upgrade, Deinit, Environment

LEMMA SetupAlways == Spec => []SetupInv
<1> QED
  BY InitSetup, SetupHolds, PTL DEF Spec

(* Every reachable state is well typed. *)
THEOREM TypeCorrect == Spec => []TypeOK
<1> QED
  BY SetupAlways, PTL DEF SetupInv

(* The index describes the store it lies in, wherever deinit and setup are *)
(* stopped, unless a killed deinit left it behind or the user repointed    *)
(* the store.                                                              *)
THEOREM IndexesBelong == Spec => []IndexBelongs
<1>1. SetupInv => IndexBelongs
  BY DEF SetupInv, IndexInv, IndexBelongs
<1> QED
  BY SetupAlways, <1>1, PTL

(* A step that uploads nothing and records nothing. *)
LEMMA SentStays ==
  ASSUME SentInv,
         \A f \in Files \ Left :
           /\ files[f].drive # Absent =>
                files'[f].drive # Absent /\ files'[f].drive.root = files[f].drive.root
           /\ GivenUp(f)' => GivenUp(f) \/ pc \in GivingUp,
         index' # Absent => /\ index # Absent /\ index'.entries = index.entries
                            /\ index'.root = index.root,
         pc' \in GivingUp => pc \in GivingUp /\ shared'.root = shared.root,
         ~adrift' => ~adrift \/ (index' = Absent /\ pc' \notin GivingUp)
  PROVE  SentInv'
<1>1. ASSUME NEW f \in Files \ Left, f \in Recorded'
      PROVE  f \in Recorded /\ index' # Absent /\ index'.root = index.root
  BY <1>1 DEF Recorded
<1> QED
  BY <1>1 DEF SentInv, Sent

(* A push records what it uploads, under the root of the store. *)
LEMMA PushedSends ==
  ASSUME SetupInv, SentInv, NEW uploaded \in SUBSET Sendable, Pushed(uploaded),
         shared # Absent, shared' = shared, adrift' = adrift, pc \notin Removing,
         pc \notin GivingUp,
         pc' \in GivingUp => pc = "lfs_push" /\ uploaded = Sendable
  PROVE  SentInv'
<1> USE SetupAssumption, AbsentAssumption
<1>1. /\ files \in [Files -> FileStates] /\ shared \in Shareds
      /\ index # Absent => index \in Indexes
      /\ index # Absent /\ ~adrift => index.root = shared.root
  BY DEF SetupInv, TypeOK, FileStates, IndexInv, Placed
<1>2. index' # Absent /\ index'.entries = Recorded \cup uploaded
      /\ (~adrift => index'.root = shared.root)
  <2>1. CASE index = Absent
    <3>1. [schema |-> "current", root |-> shared.root, entries |-> uploaded] \in Indexes
      BY <1>1 DEF Indexes, Shareds, Sendable
    <3> QED
      BY <2>1, <3>1 DEF Pushed, Recorded
  <2>2. CASE index # Absent
    <3>1. [index EXCEPT !.schema = "current", !.entries = @ \cup uploaded] \in Indexes
      BY <1>1, <2>2 DEF Indexes, Sendable
    <3> QED
      BY <1>1, <2>2, <3>1 DEF Pushed, Recorded, Indexes
  <2> QED
    BY <2>1, <2>2
<1>3. ASSUME NEW f \in Files \ Left
      PROVE  /\ f \in uploaded => Sent(f, shared.root)'
             /\ f \notin uploaded => files'[f] = files[f]
             /\ files'[f].head = files[f].head /\ files'[f].staged = files[f].staged
  <2>1. [root |-> shared.root, there |-> TRUE] \in Copies
    BY <1>1 DEF Copies, Shareds
  <2>2. CASE f \in uploaded
    <3> DEFINE sent == [root |-> shared.root, there |-> TRUE]
    <3>1. files'[f] = [files[f] EXCEPT !.drive = sent]
      BY <2>2 DEF Pushed
    <3>2. sent # Absent /\ sent.root = shared.root /\ shared'.root = shared.root
      BY <2>1
    <3> HIDE DEF sent
    <3>3. /\ files'[f].drive = sent /\ files'[f].head = files[f].head
          /\ files'[f].staged = files[f].staged
      BY <1>1, <3>1 DEF FileStates
    <3> QED
      BY <2>2, <3>2, <3>3 DEF Sent
  <2>3. CASE f \notin uploaded
    BY <2>3 DEF Pushed
  <2> QED
    BY <2>2, <2>3
<1>4. ASSUME NEW f \in Files \ Left
      PROVE  /\ (f \in Recorded \/ pc \in GivingUp \/ GivenUp(f) => files[f].drive # Absent)'
             /\ (~adrift /\ f \in Recorded => Sent(f, index.root))'
             /\ (~adrift /\ pc \in GivingUp => Sent(f, shared.root))'
  <2>1. Recorded' = Recorded \cup uploaded
    BY <1>2 DEF Recorded
  <2>2. pc' \in GivingUp => f \in Recorded'
    <3>1. pc' \in GivingUp => f \in Sendable \cup Recorded
      BY DEF SetupInv, GivesUpInv, Sendable
    <3> QED
      BY <2>1, <3>1
  <2>3. CASE f \in uploaded
    BY <1>2, <1>3, <2>3 DEF Sent
  <2>4. CASE f \notin uploaded
    <3>1. f \in Recorded' => f \in Recorded
      BY <2>1, <2>4
    <3>2. f \in Recorded => /\ files[f].drive # Absent
                            /\ ~adrift => Sent(f, shared.root)
      BY <1>1 DEF SentInv, Recorded
    <3>3. GivenUp(f)' => files[f].drive # Absent
      BY <1>3, <2>4 DEF SentInv, GivenUp
    <3>4. (Sent(f, shared.root) => Sent(f, shared.root)') /\ files'[f].drive = files[f].drive
      BY <1>3, <2>4 DEF Sent
    <3> QED
      BY <1>2, <2>2, <3>1, <3>2, <3>3, <3>4 DEF Sent
  <2> QED
    BY <2>3, <2>4
<1> QED
  BY <1>4 DEF SentInv

LEMMA SentHolds == SetupInv /\ SentInv /\ [Next]_vars => SentInv'
<1> SUFFICES ASSUME SetupInv, SentInv, [Next]_vars PROVE SentInv'
  OBVIOUS
<1> USE SetupAssumption, AbsentAssumption
<1>a. /\ files \in [Files -> FileStates]
      /\ shared # Absent => shared \in Shareds
      /\ index # Absent => index \in Indexes
      /\ pc \in GivingUp => shared # Absent
      /\ pc \in Removing <=> cmd.name = "deinit"
  BY DEF SetupInv, TypeOK, FileStates, Placed, GivingUp, Removing
<1>1. CASE SetupStarts \/ UpgradeBegins \/ DeinitBegins \/ CalmsDown \/ UNCHANGED vars
  <2>1. UNCHANGED <<files, index, adrift, shared>> /\ (pc' \in GivingUp => pc \in GivingUp)
    BY <1>1, RemovalNames DEF SetupStarts, SetupBegins, UpgradeBegins, DeinitBegins, CalmsDown, vars,
       config, command, lfs, GivingUp, Removal
  <2> QED
    BY <2>1, SentStays DEF GivenUp
<1>2. CASE ReadsConfig \/ InitsLocal \/ MintsDevice \/ Relocates \/ PopsShared \/ WritesContract
           \/ (\E migrate \in BOOLEAN : WritesControl(migrate))
           \/ AppliesOther("device", "relocate") \/ AppliesOther("control", "contract")
           \/ AppliesOther("events", "control") \/ Marks
  <2>1. UNCHANGED <<files, index, adrift>> /\ pc' \notin GivingUp
    BY <1>2 DEF ReadsConfig, InitsLocal, MintsDevice, Relocates, PopsShared, WritesContract,
       WritesControl, AppliesOther, Marks, Goes_to, Ends, Continue, config, lfs, GivingUp
  <2> QED
    BY <2>1, SentStays DEF GivenUp
<1>3. CASE AppliesIndex
  <2>1. UNCHANGED <<files, adrift, shared, pc>>
    BY <1>3 DEF AppliesIndex, lfs
  <2>2. index' # Absent => index # Absent /\ index'.entries = index.entries /\ index'.root = index.root
    BY <1>3, <1>a DEF AppliesIndex, Indexes
  <2> QED
    BY <2>1, <2>2, SentStays DEF GivenUp
<1>4. ASSUME NEW succeeds \in BOOLEAN, Materializes(succeeds) PROVE SentInv'
  <2>1. UNCHANGED <<index, adrift, shared>> /\ pc' \notin GivingUp
    BY <1>4 DEF Materializes, Goes_to, Ends, config, GivingUp
  <2>2. \A f \in Files : /\ files'[f].drive = files[f].drive /\ files'[f].head = files[f].head
                         /\ files'[f].staged = files[f].staged
    BY <1>4, <1>a DEF Materializes, FileStates
  <2> QED
    BY <2>1, <2>2, SentStays DEF GivenUp
<1>5. ASSUME NEW uploaded \in SUBSET Sendable, Uploads(uploaded) PROVE SentInv'
  <2>1. /\ Pushed(uploaded) /\ shared' = shared /\ adrift' = adrift /\ pc = "lfs_push"
        /\ pc' \in GivingUp => uploaded = Sendable
    BY <1>5 DEF Uploads, Goes_to, Ends, GivingUp
  <2>2. shared # Absent /\ pc \notin Removing /\ pc \notin GivingUp
    BY <2>1 DEF SetupInv, Placed, Removing, GivingUp
  <2> QED
    BY <2>1, <2>2, PushedSends
<1>6. CASE Untracks \/ Ignores \/ GitAdds \/ GitFails
  <2>1. UNCHANGED <<files, index, adrift, shared>> /\ pc \in GivingUp
    BY <1>6 DEF Untracks, Ignores, GitAdds, GitFails, config, lfs, GivingUp
  <2> QED
    BY <2>1, SentStays DEF GivenUp
<1>7. CASE GitRemoves \/ GitCommits \/ CleansStubs
  <2>1. UNCHANGED <<index, adrift, shared>> /\ pc \in GivingUp
    BY <1>7 DEF GitRemoves, GitCommits, CleansStubs, config, GivingUp
  <2>2. \A f \in Files : files'[f].drive = files[f].drive
    BY <1>7, <1>a DEF GitRemoves, GitCommits, CleansStubs, Committed, FileStates, lfs
  <2> QED
    BY <2>1, <2>2, SentStays
<1>8. ASSUME NEW i \in 1..5, Removes(i) PROVE SentInv'
  <2>1. /\ Removal[i] \in Removing /\ (i # 5 => Removal[i + 1] \in Removing)
    BY RemovalNames
  <2>2. files' = files /\ pc' \notin GivingUp
    BY <1>8, <2>1 DEF Removes, Goes_to, Ends, lfs, GivingUp, Removing
  <2>3. CASE i = 5
    <3>1. index' = Absent
      BY <1>8, <2>3 DEF Removes
    <3> QED
      BY <2>2, <3>1, SentStays DEF GivenUp
  <2>4. CASE i # 5
    <3>1. index' = index /\ (~adrift' => ~adrift)
      BY <1>8, <2>4 DEF Removes
    <3> QED
      BY <2>2, <3>1, SentStays DEF GivenUp
  <2> QED
    BY <2>3, <2>4
<1>9. CASE Stops
  <2>1. UNCHANGED <<files, index, shared>> /\ pc' \notin GivingUp /\ (~adrift' => ~adrift)
    BY <1>9 DEF Stops, Ends, config, lfs, GivingUp
  <2> QED
    BY <2>1, SentStays DEF GivenUp
<1>10. ASSUME NEW uploaded \in SUBSET Sendable, OthersRecord(uploaded) PROVE SentInv'
  <2>1. Pushed(uploaded) /\ shared' = shared /\ adrift' = adrift /\ pc = "idle" /\ pc' = pc
    BY <1>10 DEF OthersRecord, command
  <2>2. shared # Absent
    BY <1>10, DeviceTyped DEF OthersRecord, SetupInv
  <2> QED
    BY <2>1, <2>2, PushedSends DEF Removing, GivingUp
<1>11. ASSUME NEW root \in Roots, ConfigSets(root) PROVE SentInv'
  <2>1. UNCHANGED <<files, index>> /\ pc' \notin GivingUp /\ (~adrift' => ~adrift)
    BY <1>11 DEF ConfigSets, command, lfs, GivingUp
  <2> QED
    BY <2>1, SentStays DEF GivenUp
<1>12. ASSUME NEW older \in BOOLEAN, GitBrings(older) PROVE SentInv'
  <2>1. UNCHANGED <<files, index, adrift, pc>> /\ shared'.root = shared.root
    BY <1>12, <1>a DEF GitBrings, command, lfs, Shareds
  <2> QED
    BY <2>1, SentStays DEF GivenUp
<1>13. CASE UserReverts \/ UserCommits
  <2>1. UNCHANGED <<index, adrift, shared>> /\ pc' \notin GivingUp
    BY <1>13 DEF UserReverts, UserCommits, config, command, GivingUp
  <2>2. \A f \in Files : files'[f].drive = files[f].drive /\ ~GivenUp(f)'
    BY <1>13, <1>a DEF UserReverts, UserCommits, Committed, FileStates, GivenUp
  <2> QED
    BY <2>1, <2>2, SentStays
<1>14. ASSUME NEW g \in Files, NEW root \in Roots, OtherDeviceTrashes(g, root) PROVE SentInv'
  <2>1. UNCHANGED <<index, adrift, shared, pc>>
    BY <1>14 DEF OtherDeviceTrashes, config, command
  <2>2. [root |-> root, there |-> FALSE] # Absent
    <3>1. [root |-> root, there |-> FALSE] \in Copies
      BY DEF Copies
    <3> QED
      BY <3>1
  <2>3. \A f \in Files : /\ files'[f].head = files[f].head /\ files'[f].staged = files[f].staged
                         /\ files[f].drive # Absent =>
                              files'[f].drive # Absent /\ files'[f].drive.root = files[f].drive.root
    BY <1>14, <1>a, <2>2 DEF OtherDeviceTrashes, FileStates
  <2> QED
    BY <2>1, <2>3, SentStays DEF GivenUp
<1> QED
  BY <1>1, <1>2, <1>3, <1>4, <1>5, <1>6, <1>7, <1>8, <1>9, <1>10, <1>11, <1>12, <1>13, <1>14
     DEF Next, SetupGoesOn, Upgrade, Deinit, Environment

LEMMA SentAlways == Spec => []SentInv
<1>1. Init => SentInv
  BY DEF Init, SentInv, Recorded, GivingUp, GivenUp
<1> QED
  BY <1>1, SetupAlways, SentHolds, PTL DEF Spec

(* Only a commit takes a file out of HEAD, and only one that is not staged. *)
LEMMA HeadMoves ==
  ASSUME SetupInv, Next, NEW f \in Files
  PROVE  files'[f].head = files[f].head \/ files'[f].head = files[f].staged
<1>1. files \in [Files -> FileStates]
  BY DEF SetupInv, TypeOK, FileStates
<1>c. Committed[f].head = files[f].staged
  BY <1>1 DEF Committed, FileStates
<1>3. CASE SetupStarts \/ Upgrade \/ Deinit \/ Stops \/ CalmsDown
  BY <1>3 DEF SetupStarts, SetupBegins, Upgrade, UpgradeBegins, AppliesIndex, AppliesOther, Marks,
     Deinit, DeinitBegins, Removes, Stops, CalmsDown, lfs
<1>4. CASE Environment
  <2>1. UserReverts => files'[f].head = files[f].head
    BY <1>1 DEF UserReverts, FileStates
  <2>2. ASSUME NEW uploaded \in SUBSET Sendable, OthersRecord(uploaded)
        PROVE  files'[f].head = files[f].head
    BY <1>1, <2>2 DEF OthersRecord, Pushed, FileStates
  <2>3. ASSUME NEW g \in Files, NEW root \in Roots, OtherDeviceTrashes(g, root)
        PROVE  files'[f].head = files[f].head
    BY <1>1, <2>3 DEF OtherDeviceTrashes, FileStates
  <2> QED
    BY <1>c, <1>4, <2>1, <2>2, <2>3 DEF Environment, ConfigSets, GitBrings, UserCommits, lfs
<1>5. CASE SetupGoesOn
  <2>1. CASE ReadsConfig \/ InitsLocal \/ MintsDevice \/ Relocates \/ PopsShared \/ WritesContract
             \/ (\E migrate \in BOOLEAN : WritesControl(migrate)) \/ GitFails
             \/ Untracks \/ Ignores \/ GitAdds
    BY <2>1 DEF ReadsConfig, InitsLocal, MintsDevice, Relocates, PopsShared, WritesContract,
       WritesControl, GitFails, Untracks, Ignores, GitAdds, lfs
  <2>2. ASSUME NEW succeeds \in BOOLEAN, Materializes(succeeds)
        PROVE  files'[f].head = files[f].head
    BY <1>1, <2>2 DEF Materializes, FileStates
  <2>3. ASSUME NEW uploaded \in SUBSET Sendable, Uploads(uploaded)
        PROVE  files'[f].head = files[f].head
    BY <1>1, <2>3 DEF Uploads, Pushed, FileStates
  <2>4. CASE GitRemoves \/ CleansStubs
    BY <1>1, <2>4 DEF GitRemoves, CleansStubs, FileStates
  <2>5. CASE GitCommits
    BY <1>c, <2>5 DEF GitCommits, lfs
  <2> QED
    BY <1>5, <2>1, <2>2, <2>3, <2>4, <2>5 DEF SetupGoesOn
<1> QED
  BY <1>3, <1>4, <1>5 DEF Next

(* git gives up an LFS file only once it was uploaded, whether setup or    *)
(* the user makes the commit; and the migration only once it was uploaded  *)
(* under the root the store now has, unless index and root were left apart.*)
THEOREM GivesUpUploaded == Spec => GitGivesUpUploaded
<1> DEFINE GivesUp(f) ==
      /\ files[f].head /\ ~files'[f].head => Uploaded(f, Roots)
      /\ GitRemoves /\ files[f].staged /\ ~files'[f].staged /\ ~adrift => Uploaded(f, {shared.root})
<1>1. SetupInv /\ SentInv /\ [Next]_vars => [\A f \in Files \ Left : GivesUp(f)]_vars
  <2> SUFFICES ASSUME SetupInv, SentInv, Next, NEW f \in Files \ Left PROVE GivesUp(f)
    OBVIOUS
  <2>1. files[f] \in FileStates
    BY DEF SetupInv, TypeOK, FileStates
  <2>2. ASSUME files[f].head, ~files'[f].head PROVE Uploaded(f, Roots)
    <3>1. files[f].drive # Absent
      BY <2>2, HeadMoves DEF SentInv, GivenUp
    <3> QED
      BY <2>1, <3>1 DEF FileStates, Copies, Uploaded
  <2>3. ASSUME GitRemoves, ~adrift PROVE Uploaded(f, {shared.root})
    <3>1. Sent(f, shared.root)
      BY <2>3 DEF GitRemoves, SentInv, GivingUp
    <3> QED
      BY <2>1, <3>1 DEF FileStates, Copies, Uploaded, Sent
  <2> QED
    BY <2>2, <2>3
<1> QED
  BY SetupAlways, SentAlways, <1>1, PTL DEF Spec, GitGivesUpUploaded

(* Setup and upgrade, stopped anywhere and run again, never lose or        *)
(* replace the device id that the machine's configuration resolves to.     *)
THEOREM DeviceIdsSurvive == Spec => DeviceIdSurvives
<1>1. SetupInv /\ [Next]_vars =>
        [cmd.name \in {"setup", "upgrade"} /\ pc # "init" /\ Device # Absent
           => Device' = Device \/ \E older \in BOOLEAN : GitBrings(older)]_vars
  <2> SUFFICES ASSUME SetupInv, Next, cmd.name \in {"setup", "upgrade"}, pc # "init", Device # Absent,
                      ~\E older \in BOOLEAN : GitBrings(older)
               PROVE  Device' = Device
    BY DEF vars, config, Device
  <2> USE SetupAssumption, AbsentAssumption
  <2>1. /\ shared \in Shareds /\ shared # Absent
        /\ local # Absent => local \in Locals
        /\ pc # "idle" /\ pc \notin Removing
        /\ pc = "pop" => local # Absent /\ local.device # Absent
    BY DeviceTyped DEF SetupInv, TypeOK, Placed
  <2>2. CASE UNCHANGED <<shared, local>>
    BY <2>2 DEF Device
  <2>3. CASE MintsDevice
    <3>1. local' = [device |-> Device, layout |-> Layout] /\ shared' = shared
      BY <2>3 DEF MintsDevice
    <3>2. local' \in Locals /\ local'.device = Device
      BY <3>1, DeviceTyped DEF SetupInv, Locals
    <3> QED
      BY <2>1, <3>1, <3>2 DEF Device
  <2>4. CASE Relocates
    <3>1. CASE local # Absent /\ local.device # Absent
      BY <2>1, <2>4, <3>1 DEF Relocates, Device
    <3>2. CASE ~(local # Absent /\ local.device # Absent)
      <4>1. CASE shared.device = Absent
        BY <2>1, <2>4, <4>1 DEF Relocates, Device
      <4>2. CASE shared.device # Absent
        <5>1. local' = [device |-> shared.device, layout |-> Layout] /\ shared' = shared
          BY <2>1, <2>4, <3>2, <4>2 DEF Relocates
        <5>2. local' \in Locals /\ local'.device = shared.device
          BY <2>1, <5>1, DeviceTyped DEF SetupInv, Locals, Shareds
        <5> QED
          BY <2>1, <3>2, <4>2, <5>1, <5>2 DEF Device
      <4> QED
        BY <4>1, <4>2
    <3> QED
      BY <3>1, <3>2
  <2>5. CASE PopsShared
    <3>1. local' = local /\ shared' \in Shareds
      BY <2>1, <2>5 DEF PopsShared, Shareds
    <3> QED
      BY <2>1, <2>5, <3>1 DEF PopsShared, Device
  <2>6. CASE Marks
    <3>1. shared' = shared
          /\ local' \in {local, [device |-> IF local = Absent THEN Absent ELSE local.device, layout |-> TRUE]}
      BY <2>6 DEF Marks
    <3>2. [device |-> IF local = Absent THEN Absent ELSE local.device, layout |-> TRUE] \in Locals
      BY <2>1 DEF Locals, Devices
    <3>3. \/ local' = local
          \/ /\ local' # Absent
             /\ local'.device = IF local = Absent THEN Absent ELSE local.device
      <4> DEFINE marked == [device |-> IF local = Absent THEN Absent ELSE local.device, layout |-> TRUE]
      <4>1. marked # Absent
        BY <3>2, AbsentAssumption
      <4>2. marked.device = IF local = Absent THEN Absent ELSE local.device
        OBVIOUS
      <4>3. local' \in {local, marked}
        BY <3>1
      <4> HIDE DEF marked
      <4> QED
        BY <4>1, <4>2, <4>3
    <3> QED
      BY <3>1, <3>3 DEF Device
  <2>7. UNCHANGED <<shared, local>> \/ MintsDevice \/ Relocates \/ PopsShared \/ Marks
    <3>1. CASE SetupStarts \/ Environment \/ CalmsDown \/ Deinit \/ UpgradeBegins
      <4>1. \A i \in 1..5 : pc # Removal[i]
        BY <2>1, RemovalNames
      <4> QED
        BY <2>1, <3>1, <4>1 DEF SetupStarts, SetupBegins, Environment, OthersRecord, ConfigSets,
           OtherDeviceTrashes, UserReverts, UserCommits, CalmsDown, Deinit, DeinitBegins, Removes,
           UpgradeBegins, config
    <3>2. CASE Stops \/ AppliesIndex \/ AppliesOther("device", "relocate")
               \/ AppliesOther("control", "contract") \/ AppliesOther("events", "control")
      BY <3>2 DEF Stops, AppliesIndex, AppliesOther, config
    <3>3. CASE ReadsConfig \/ InitsLocal \/ WritesContract
      BY <2>1, <3>3 DEF ReadsConfig, InitsLocal, WritesContract
    <3>4. CASE (\E migrate \in BOOLEAN : WritesControl(migrate))
               \/ (\E succeeds \in BOOLEAN : Materializes(succeeds))
               \/ (\E uploaded \in SUBSET Sendable : Uploads(uploaded))
               \/ Untracks \/ Ignores \/ GitAdds \/ GitRemoves \/ GitCommits \/ GitFails \/ CleansStubs
      BY <3>4 DEF WritesControl, Materializes, Uploads, Untracks, Ignores, GitAdds, GitRemoves,
         GitCommits, GitFails, CleansStubs, config
    <3> QED
      BY <3>1, <3>2, <3>3, <3>4 DEF Next, SetupGoesOn, Upgrade
  <2> QED
    BY <2>2, <2>3, <2>4, <2>5, <2>6, <2>7
<1> QED
  BY SetupAlways, <1>1, PTL DEF Spec, DeviceIdSurvives

-----------------------------------------------------------------------------
(* IndexCheck *)
(* A size an entry has in an index of the current level was on Drive. *)
Earned(store, sizes) ==
  store.current /\ store.entry # None /\ store.entry.local_state = "present" /\ ~store.suspect
    => store.entry.size \in sizes

LevelInv ==
  /\ node # None => Size[node.content] \in kept
  /\ Earned(disk, kept)
  /\ Earned(mem, kept)

(* A finding is about the loaded entry, and says what some listing did. *)
FindingInv ==
  /\ phase \in {"idle", "loaded"} => finding = None
  /\ phase = "checking" /\ finding # None =>
       /\ mem.entry # None
       /\ finding.verdict # "unlisted" => finding.verdict = Verdict(mem.entry, finding.ident)
       /\ finding.ident # None /\ finding.ident.claimed_size # None =>
            finding.ident.claimed_size \in kept

(* With nothing changed since the load, the command works on the saved     *)
(* index, what it found still holds, and it saves that entry repaired.     *)
StillInv ==
  ~touched =>
    /\ phase \in {"loaded", "checking"} => mem.entry = disk.entry
    /\ phase = "checking" /\ finding # None /\ finding.verdict # "unlisted" =>
         finding.ident = Ident
    /\ phase = "repaired" /\ disk.entry = None => mem.entry = None
    /\ phase = "repaired" /\ disk.entry # None =>
         /\ finding # None
         /\ mem.entry = Repaired(disk.entry, finding.verdict, finding.ident)
         /\ finding.verdict \in Mismatches /\ mem.entry = disk.entry => mem.suspect
         /\ finding.verdict # "unlisted" =>
              finding.ident = Ident /\ finding.verdict = Verdict(disk.entry, Ident)

CheckInv == CheckTypeOK /\ LevelInv /\ FindingInv /\ StillInv /\ RepairSettles

-----------------------------------------------------------------------------
(* What a verdict says of the sizes and the digests. *)
SameDigest(x, y) == x = None \/ y = None \/ x = y

LEMMA VerdictSays ==
  ASSUME NEW entry \in IndexEntries, NEW ident \in RemoteEntries \cup {None},
         NEW verdict, verdict = Verdict(entry, ident)
  PROVE  /\ verdict \in Verdicts \ {"unlisted"}
         /\ verdict = "ok" <=> /\ ident # None
                               /\ ident.claimed_size = entry.size
                               /\ SameDigest(ident.sha1, entry.sha1)
         /\ verdict = "remote-larger" => /\ ident # None
                                         /\ ident.claimed_size \in Nat
                                         /\ ident.claimed_size > entry.size
<1> USE ContentsAssumption
<1>1. entry.size \in Nat /\ entry.size # None
  BY DEF IndexEntries
<1>2. CASE ident = None
  BY <1>2 DEF Verdict, Verdicts, Mismatches
<1>3. CASE ident # None /\ ident.claimed_size = None
  BY <1>1, <1>3 DEF Verdict, Verdicts, Mismatches
<1>4. CASE ident # None /\ ident.claimed_size # None
  <2>1. ident.claimed_size \in Nat
    BY <1>4 DEF RemoteEntries
  <2> QED
    BY <1>1, <1>4, <2>1 DEF Verdict, Verdicts, Mismatches, SameDigest
<1> QED
  BY <1>2, <1>3, <1>4

(* What a listing tells of a node is what it says, or less. *)
LEMMA IdentTyped ==
  ASSUME CheckTypeOK
  PROVE  /\ Ident \in RemoteEntries \cup {None}
         /\ Ident # None => node # None /\ Ident.claimed_size \in {None, Size[node.content]}
BY ContentsAssumption, CheckAssumption DEF CheckTypeOK, Nodes, Ident, RemoteEntries, Digests

(* What a repair makes of an entry, by its verdict. *)
LEMMA RepairedTyped ==
  ASSUME NEW entry \in IndexEntries, NEW ident \in RemoteEntries \cup {None},
         NEW verdict \in Verdicts,
         verdict # "unlisted" => verdict = Verdict(entry, ident)
  PROVE  /\ Repaired(entry, verdict, ident) \in IndexEntries \cup {None}
         /\ verdict \in {"unsized", "unlisted"} => Repaired(entry, verdict, ident) = entry
         /\ Repaired(entry, verdict, ident) # None =>
              \/ Repaired(entry, verdict, ident) = entry
              \/ Repaired(entry, verdict, ident).local_state = "metadata-only"
<1> USE ContentsAssumption
<1>1. CASE verdict = "ok"
  <2>1. ident \in RemoteEntries
    BY <1>1, VerdictSays
  <2> QED
    BY <1>1, <2>1 DEF Repaired, Mismatches, IndexEntries, RemoteEntries
<1>2. CASE verdict \in Mismatches
  <2>1. verdict = "remote-larger" => ident \in RemoteEntries /\ ident.claimed_size \in Nat
    BY <1>2, VerdictSays
  <2>2. verdict = "remote-larger" => Drive_copy(entry, ident) \in IndexEntries
    BY <2>1 DEF Drive_copy, IndexEntries, RemoteEntries, Digests
  <2>3. Drive_copy(entry, ident).local_state = "metadata-only"
    BY DEF Drive_copy
  <2> QED
    BY <1>2, <2>2, <2>3 DEF Repaired, Mismatches
<1>3. CASE verdict \in {"unsized", "unlisted"}
  BY <1>3 DEF Repaired, Mismatches
<1> QED
  BY <1>1, <1>2, <1>3 DEF Verdicts

(* A repaired entry is right, or stays as it is and reported. *)
LEMMA RepairSettlesEntry ==
  ASSUME NEW entry \in IndexEntries, NEW ident \in RemoteEntries \cup {None},
         NEW next, next # None, NEW v, v = Verdict(entry, ident), v \in {"ok"} \cup Mismatches,
         next = Repaired(entry, v, ident), NEW w, w = Verdict(next, ident)
  PROVE  /\ w = "ok" \/ (w \in Mismatches /\ next = entry /\ v \in Mismatches)
         /\ Repaired(next, w, ident) = next
<1> USE ContentsAssumption
<1>1. CASE v = "ok"
  <2>1. /\ ident \in RemoteEntries /\ ident # None /\ ident.claimed_size = entry.size
        /\ SameDigest(ident.sha1, entry.sha1)
    BY <1>1, VerdictSays
  <2>2. next = IF entry.local_state = "metadata-only" /\ entry.sha1 = None
               THEN [entry EXCEPT !.sha1 = ident.sha1] ELSE entry
    BY <1>1 DEF Repaired, Mismatches
  <2>3. /\ next \in IndexEntries /\ next.size = entry.size /\ next.local_state = entry.local_state
        /\ SameDigest(ident.sha1, next.sha1)
        /\ next.local_state = "metadata-only" /\ next.sha1 = None => ident.sha1 = None
    BY <2>1, <2>2 DEF IndexEntries, RemoteEntries, SameDigest
  <2>4. w = "ok"
    BY <2>1, <2>3, VerdictSays
  <2>5. [next EXCEPT !.sha1 = next.sha1] = next
    BY <2>3 DEF IndexEntries
  <2> QED
    BY <2>3, <2>4, <2>5 DEF Repaired
<1>2. CASE v \in Mismatches
  <2>1. CASE v = "remote-larger" /\ ~(entry.local_state = "present" /\ Here)
    <3>1. ident \in RemoteEntries /\ ident # None /\ ident.claimed_size \in Nat
      BY <2>1, VerdictSays
    <3>2. next = Drive_copy(entry, ident)
      BY <2>1 DEF Repaired, Mismatches
    <3>3. /\ next \in IndexEntries /\ next.size = ident.claimed_size /\ next.sha1 = ident.sha1
          /\ next.local_state = "metadata-only"
      BY <3>1, <3>2 DEF Drive_copy, IndexEntries, RemoteEntries, Digests
    <3>4. w = "ok"
      BY <3>1, <3>3, VerdictSays DEF SameDigest
    <3>5. [next EXCEPT !.sha1 = next.sha1] = next
      BY <3>3 DEF IndexEntries
    <3> QED
      BY <3>3, <3>4, <3>5 DEF Repaired
  <2>2. CASE ~(v = "remote-larger" /\ ~(entry.local_state = "present" /\ Here))
    BY <1>2, <2>2 DEF Repaired, Mismatches
  <2> QED
    BY <2>1, <2>2
<1> QED
  BY <1>1, <1>2

-----------------------------------------------------------------------------
LEMMA EntryTyped ==
  ASSUME NEW c \in Contents, NEW state \in {"present", "metadata-only"}
  PROVE  Entry(c, state) \in IndexEntries /\ Entry(c, state).size = Size[c]
BY ContentsAssumption DEF Entry, IndexEntries, Digests

LEMMA InitCheck == CheckInit => CheckInv
<1> SUFFICES ASSUME CheckInit PROVE CheckInv
  OBVIOUS
<1> USE ContentsAssumption, CheckAssumption
<1>1. Old_entries \subseteq IndexEntries
  <2>1. ASSUME NEW c \in Contents, NEW state \in {"present", "metadata-only"}, NEW e,
               e = Entry(c, state) \/ e = [Entry(c, state) EXCEPT !.sha1 = None]
        PROVE  e \in IndexEntries
    <3>1. Entry(c, state) = [size |-> Size[c], sha256 |-> c, sha1 |-> c, local_state |-> state]
      BY DEF Entry
    <3>2. [Entry(c, state) EXCEPT !.sha1 = None] =
            [size |-> Size[c], sha256 |-> c, sha1 |-> None, local_state |-> state]
      BY <3>1
    <3>3. Size[c] \in Nat /\ c \in Digests /\ None \in Digests
      BY DEF Digests
    <3> QED
      BY <2>1, <3>1, <3>2, <3>3 DEF IndexEntries
  <2>2. \A e \in Old_entries : \E c \in Contents, state \in {"present", "metadata-only"} :
          e = Entry(c, state) \/ e = [Entry(c, state) EXCEPT !.sha1 = None]
    BY DEF Old_entries
  <2> QED
    BY <2>1, <2>2
<1>2. Empty \in Stores /\ Old_indexes \subseteq Stores
  BY <1>1 DEF Empty, Stores, Old_indexes
<1>3. kept \subseteq Nat
  BY DEF CheckInit, Nodes
<1>4. CheckTypeOK
  BY <1>2, <1>3 DEF CheckInit, CheckTypeOK
<1>5. LevelInv
  <2>1. /\ disk.current => disk.entry = None
        /\ mem.entry = None
    <3>1. CASE disk \in Old_indexes
      BY <3>1 DEF CheckInit, Old_indexes, Empty
    <3>2. CASE disk = Empty
      BY <3>2 DEF CheckInit, Empty
    <3> QED
      BY <3>1, <3>2 DEF CheckInit
  <2>2. node # None => Size[node.content] \in kept
    BY DEF CheckInit
  <2> QED
    BY <2>1, <2>2 DEF LevelInv, Earned
<1> QED
  BY <1>4, <1>5 DEF CheckInit, CheckInv, FindingInv, StillInv, RepairSettles

LEMMA CheckHolds == CheckInv /\ [CheckNext]_checkVars => CheckInv'
<1> SUFFICES ASSUME CheckInv, [CheckNext]_checkVars PROVE CheckInv'
  OBVIOUS
<1> USE ContentsAssumption, CheckAssumption
<1>a. CheckTypeOK /\ LevelInv /\ FindingInv /\ StillInv /\ RepairSettles
  BY DEF CheckInv
<1>b. /\ disk.entry # None => disk.entry \in IndexEntries
      /\ mem.entry # None => mem.entry \in IndexEntries
  BY <1>a DEF CheckTypeOK, Stores
<1>1. ASSUME NEW c \in Contents, UserWrites(c) PROVE CheckInv'
  BY <1>1, <1>a DEF UserWrites, Touches, CheckTypeOK, Digests, CheckInv, LevelInv, FindingInv, StillInv,
     RepairSettles
<1>2. CASE UserDeletes
  BY <1>2, <1>a DEF UserDeletes, Touches, CheckTypeOK, Digests, CheckInv, LevelInv, FindingInv, StillInv,
     RepairSettles
<1>3. ASSUME NEW c \in Contents, NEW report \in Reports, OtherUploads(c, report) PROVE CheckInv'
  <2>1. CheckTypeOK'
    BY <1>3, <1>a DEF OtherUploads, Touches, CheckTypeOK, Nodes
  <2>2. LevelInv'
    BY <1>3, <1>a DEF OtherUploads, LevelInv, Earned
  <2> QED
    BY <2>1, <2>2, <1>3, <1>a DEF OtherUploads, Touches, CheckInv, FindingInv, StillInv,
       RepairSettles
<1>4. CASE OtherTrashes
  BY <1>4, <1>a DEF OtherTrashes, Touches, CheckTypeOK, CheckInv, LevelInv, Earned, FindingInv, StillInv,
     RepairSettles
<1>5. ASSUME NEW entry \in IndexEntries, Records(entry), UNCHANGED <<node, kept>>,
             file' \in Digests,
             entry.local_state = "present" => entry.size \in kept
      PROVE  CheckInv'
  BY <1>5, <1>a DEF Records, Touches, CheckTypeOK, Stores, CheckInv, LevelInv, Earned, FindingInv, StillInv,
     RepairSettles
<1>6. ASSUME NEW report \in Reports, Push(report) PROVE CheckInv'
  <2>1. file \in Contents /\ Entry(file, "present") \in IndexEntries
        /\ Entry(file, "present").size = Size[file]
    BY <1>6, <1>a, EntryTyped DEF Push, Here, CheckTypeOK, Digests
  <2> DEFINE entry == Entry(file, "present")
  <2>2. /\ disk' = [disk EXCEPT !.entry = entry, !.suspect = FALSE]
        /\ node' = [content |-> file, report |-> report]
        /\ kept' = kept \cup {Size[file]}
        /\ phase \in {"idle", "loaded"} /\ touched' = (phase # "idle") /\ settled' = FALSE
        /\ UNCHANGED <<file, mem, phase, finding, rest>>
    BY <1>6 DEF Push, Records, Touches
  <2> HIDE DEF entry
  <2>3. disk'.entry = entry
    BY <2>2, <1>a DEF CheckTypeOK, Stores
  <2>4. CheckTypeOK'
    BY <2>1, <2>2, <1>a DEF CheckTypeOK, Stores, Nodes, entry
  <2>5. LevelInv'
    BY <2>1, <2>2, <2>3, <1>a DEF LevelInv, Earned, entry
  <2>6. FindingInv' /\ StillInv' /\ RepairSettles'
    BY <2>2, <1>a DEF FindingInv, StillInv, RepairSettles
  <2> QED
    BY <2>4, <2>5, <2>6 DEF CheckInv
<1>7. CASE Pull
  <2>1. node # None /\ node.content \in Contents
    BY <1>7, <1>a DEF Pull, CheckTypeOK, Nodes
  <2>2. /\ Entry(node.content, "present") \in IndexEntries
        /\ Entry(node.content, "present").size = Size[node.content]
    BY <2>1, EntryTyped
  <2>3. Size[node.content] \in kept
    BY <2>1, <1>a DEF LevelInv
  <2>4. /\ Records(Entry(node.content, "present")) /\ file' = node.content
        /\ UNCHANGED <<node, kept>>
    BY <1>7 DEF Pull
  <2> QED
    BY <2>1, <2>2, <2>3, <2>4, <1>5 DEF Digests
<1>8. ASSUME NEW verify \in BOOLEAN, Offload(verify) PROVE CheckInv'
  <2>1. /\ disk.entry \in IndexEntries /\ disk' = [disk EXCEPT !.entry.local_state = "metadata-only"]
        /\ file' = None
        /\ phase \in {"idle", "loaded"} /\ touched' = (phase # "idle") /\ settled' = FALSE
        /\ UNCHANGED <<node, mem, phase, finding, rest, kept>>
    BY <1>8, <1>b DEF Offload, Touches
  <2>2. /\ disk'.entry = [disk.entry EXCEPT !.local_state = "metadata-only"]
        /\ disk' \in Stores /\ disk'.entry.local_state = "metadata-only"
    BY <2>1, <1>a DEF CheckTypeOK, Stores, IndexEntries
  <2>3. CheckTypeOK' /\ LevelInv'
    BY <2>1, <2>2, <1>a DEF CheckTypeOK, LevelInv, Earned, Digests
  <2>4. FindingInv' /\ StillInv' /\ RepairSettles'
    BY <2>1, <1>a DEF FindingInv, StillInv, RepairSettles
  <2> QED
    BY <2>3, <2>4 DEF CheckInv
<1>9. CASE Seed
  <2> DEFINE entry == [size |-> Ident.size, sha256 |-> None, sha1 |-> None,
                       local_state |-> "metadata-only"]
  <2>1. Ident.size \in Nat
    BY <1>9, <1>a DEF Seed, Ident, CheckTypeOK, Nodes
  <2>2. entry \in IndexEntries /\ entry.local_state = "metadata-only"
    BY <2>1 DEF IndexEntries, Digests
  <2>3. Records(entry) /\ UNCHANGED <<file, node, kept>>
    BY <1>9 DEF Seed
  <2> HIDE DEF entry
  <2> QED
    BY <2>2, <2>3, <1>5, <1>a DEF CheckTypeOK
<1>10. ASSUME NEW by \in {"upgrade", "verify"}, Load(by) PROVE CheckInv'
  <2>1. CheckTypeOK'
    BY <1>10, <1>a DEF Load, CheckTypeOK
  <2>2. LevelInv' /\ FindingInv'
    BY <1>10, <1>a DEF Load, LevelInv, Earned, FindingInv
  <2>3. StillInv'
    BY <1>10, <1>a DEF Load, StillInv, FindingInv, Ident, Repaired, Here
  <2>4. RepairSettles'
    BY <1>10, <1>a DEF Load, RepairSettles, Ident, Repaired, Here
  <2> QED
    BY <2>1, <2>2, <2>3, <2>4 DEF CheckInv
<1>11. CASE Lock
  <2>1. CheckTypeOK'
    BY <1>11, <1>a DEF Lock, CheckTypeOK
  <2>2. LevelInv' /\ FindingInv'
    BY <1>11, <1>a DEF Lock, LevelInv, Earned, FindingInv
  <2>3. StillInv'
    BY <1>11, <1>a DEF Lock, StillInv, FindingInv, Ident, Repaired, Here
  <2>4. RepairSettles'
    BY <1>11, <1>a DEF Lock, RepairSettles, Ident, Repaired, Here
  <2> QED
    BY <2>1, <2>2, <2>3, <2>4 DEF CheckInv
<1>12. ASSUME NEW fails \in BOOLEAN, ListsPath(fails) PROVE CheckInv'
  <2> DEFINE verdict == Verdict(mem.entry, Ident)
             found == IF fails THEN [verdict |-> "unlisted", ident |-> None]
                      ELSE [verdict |-> verdict, ident |-> Ident]
  <2>1. /\ phase = "checking" /\ mem.entry \in IndexEntries /\ mem.entry # None
        /\ finding' = found
        /\ UNCHANGED <<file, node, disk, mem, phase, rest, kept, touched, settled>>
    BY <1>12, <1>b DEF ListsPath
  <2>2. Ident \in RemoteEntries \cup {None} /\ verdict \in Verdicts
    BY <2>1, <1>a, IdentTyped, VerdictSays
  <2>3. Ident # None /\ Ident.claimed_size # None => Ident.claimed_size \in kept
    BY <1>a, IdentTyped DEF LevelInv
  <2>4. /\ found \in [verdict : Verdicts, ident : RemoteEntries \cup {None}]
        /\ found.verdict # "unlisted" => found.verdict = verdict /\ found.ident = Ident
        /\ found.ident \in {None, Ident}
    BY <2>2 DEF Verdicts
  <2> HIDE DEF found, verdict
  <2>5. Ident' = Ident
    BY <2>1 DEF Ident
  <2>6. CheckTypeOK' /\ LevelInv'
    BY <2>1, <2>4, <1>a DEF CheckTypeOK, LevelInv
  <2>7. FindingInv' /\ StillInv'
    BY <2>1, <2>3, <2>4, <2>5, <1>a DEF FindingInv, StillInv, verdict
  <2>8. RepairSettles'
    BY <2>1, <1>a DEF RepairSettles, Ident, Repaired, Here
  <2> QED
    BY <2>6, <2>7, <2>8 DEF CheckInv
<1>13. CASE ListsOther
  <2>1. CheckTypeOK'
    BY <1>13, <1>a DEF ListsOther, CheckTypeOK
  <2>2. LevelInv' /\ FindingInv'
    BY <1>13, <1>a DEF ListsOther, LevelInv, Earned, FindingInv
  <2>3. StillInv'
    BY <1>13, <1>a DEF ListsOther, StillInv, FindingInv, Ident, Repaired, Here
  <2>4. RepairSettles'
    BY <1>13, <1>a DEF ListsOther, RepairSettles, Ident, Repaired, Here
  <2> QED
    BY <2>1, <2>2, <2>3, <2>4 DEF CheckInv
<1>14. CASE Repairs
  <2> DEFINE entry == IF finding = None THEN None
                      ELSE Repaired(mem.entry, finding.verdict, finding.ident)
  <2>1. /\ phase = "checking" /\ phase' = "repaired"
        /\ mem' = [entry |-> entry, current |-> mem.current \/ Complete, suspect |-> Suspect]
        /\ mem.entry = None <=> finding = None
        /\ UNCHANGED <<file, node, disk, finding, rest, kept, touched, settled>>
    BY <1>14 DEF Repairs
  <2>2. finding # None => /\ finding.verdict \in Verdicts /\ finding.ident \in RemoteEntries \cup {None}
                          /\ mem.entry \in IndexEntries
                          /\ finding.verdict # "unlisted" => finding.verdict = Verdict(mem.entry, finding.ident)
    BY <2>1, <1>a, <1>b DEF CheckTypeOK, FindingInv
  <2>3. /\ entry \in IndexEntries \cup {None}
        /\ finding = None => entry = None
        /\ finding # None /\ finding.verdict \in {"unsized", "unlisted"} => entry = mem.entry
        /\ entry # None => entry = mem.entry \/ entry.local_state = "metadata-only"
    <3>1. CASE finding = None
      BY <3>1
    <3>2. CASE finding # None
      <4> DEFINE e == Repaired(mem.entry, finding.verdict, finding.ident)
      <4>1. /\ e \in IndexEntries \cup {None}
            /\ finding.verdict \in {"unsized", "unlisted"} => e = mem.entry
            /\ e # None => e = mem.entry \/ e.local_state = "metadata-only"
        BY <2>2, <3>2, RepairedTyped
      <4> QED
        BY <4>1, <3>2
    <3> QED
      BY <3>1, <3>2
  <2>4. Complete \in BOOLEAN /\ Suspect \in BOOLEAN
    BY <1>a DEF Complete, Suspect, CheckTypeOK, Stores
  <2>5. finding # None /\ finding.verdict \in Mismatches /\ entry = mem.entry => Suspect
    BY DEF Suspect, Mismatches
  <2>6. finding # None /\ finding.verdict \in {"unsized", "unlisted"} => ~Complete /\ Suspect = mem.suspect
    BY DEF Complete, Suspect, Mismatches
  <2>7. finding # None => entry = Repaired(mem.entry, finding.verdict, finding.ident)
    OBVIOUS
  <2> HIDE DEF entry
  <2>9. mem'.entry = entry /\ mem'.current = (mem.current \/ Complete) /\ mem'.suspect = Suspect
    BY <2>1
  <2>10. CheckTypeOK'
    BY <2>1, <2>3, <2>4, <1>a DEF CheckTypeOK, Stores
  <2>11. finding # None /\ finding.verdict = "ok" => mem.entry.size \in kept
    BY <2>1, <2>2, <1>a, VerdictSays DEF FindingInv, IndexEntries
  <2>12. LevelInv'
    <3>1. Earned(mem', kept)
      BY <2>2, <2>3, <2>5, <2>6, <2>9, <2>11, <1>a DEF LevelInv, Earned, Verdicts
    <3> QED
      BY <3>1, <2>1, <1>a DEF LevelInv
  <2>13. FindingInv'
    BY <2>1 DEF FindingInv
  <2>14. StillInv'
    <3> SUFFICES ASSUME ~touched' PROVE StillInv'
      BY DEF StillInv
    <3>1. mem.entry = disk.entry /\ (finding # None /\ finding.verdict # "unlisted" => finding.ident = Ident)
      BY <2>1, <1>a DEF StillInv
    <3>2. finding # None => entry = Repaired(disk.entry, finding.verdict, finding.ident)
      BY <3>1, <2>7
    <3>3. finding # None =>
            Repaired(disk.entry, finding.verdict, finding.ident)'
              = Repaired(disk.entry, finding.verdict, finding.ident)
      BY <2>1 DEF Repaired, Here
    <3>4. Ident' = Ident
      BY <2>1 DEF Ident
    <3> QED
      BY <2>1, <2>2, <2>3, <2>5, <2>9, <3>1, <3>2, <3>3, <3>4 DEF StillInv
  <2>15. RepairSettles'
    BY <2>1, <1>a DEF RepairSettles, Ident, Repaired, Here
  <2> QED
    BY <2>10, <2>12, <2>13, <2>14, <2>15 DEF CheckInv
<1>15. CASE Saves
  <2>1. /\ phase = "repaired" /\ disk' = mem /\ mem' = Empty /\ phase' = "idle" /\ finding' = None
        /\ rest' = TRUE /\ touched' = FALSE /\ settled' = (Complete /\ ~touched)
        /\ UNCHANGED <<file, node, kept>>
    BY <1>15 DEF Saves, CheckEnds
  <2>2. Empty \in Stores /\ Empty.entry = None
    BY DEF Empty, Stores
  <2>3. CheckTypeOK'
    BY <2>1, <2>2, <1>a DEF CheckTypeOK, Complete
  <2>4. LevelInv' /\ FindingInv' /\ StillInv'
    BY <2>1, <2>2, <1>a DEF LevelInv, Earned, FindingInv, StillInv
  <2>5. RepairSettles'
    <3> SUFFICES ASSUME Complete, ~touched, mem.entry # None PROVE RepairSettles'
      BY <2>1 DEF RepairSettles
    <3> DEFINE v == Verdict(disk.entry, Ident)
    <3>1. /\ disk.entry \in IndexEntries /\ finding # None
          /\ finding.verdict \in Verdicts
          /\ mem.entry = Repaired(disk.entry, finding.verdict, finding.ident)
          /\ finding.verdict \in Mismatches /\ mem.entry = disk.entry => mem.suspect
          /\ finding.verdict # "unlisted" => finding.ident = Ident /\ finding.verdict = v
      BY <2>1, <1>a, <1>b DEF StillInv, CheckTypeOK
    <3>2. finding.verdict \notin {"unlisted", "unsized"}
      BY <3>1 DEF Complete
    <3>3. /\ mem.entry = Repaired(disk.entry, v, Ident) /\ v \in {"ok"} \cup Mismatches
          /\ v \in Mismatches /\ mem.entry = disk.entry => mem.suspect
      BY <3>1, <3>2 DEF Verdicts
    <3>4. Ident \in RemoteEntries \cup {None}
      BY <1>a, IdentTyped
    <3> DEFINE w == Verdict(mem.entry, Ident)
    <3>5. /\ w = "ok" \/ (w \in Mismatches /\ mem.suspect)
          /\ Repaired(mem.entry, w, Ident) = mem.entry
      BY <3>1, <3>3, <3>4, RepairSettlesEntry DEF Verdicts
    <3> QED
      BY <2>1, <3>5 DEF RepairSettles, Ident, Repaired, Here
  <2> QED
    BY <2>3, <2>4, <2>5 DEF CheckInv
<1>16. CASE CheckStops
  <2>1. CheckTypeOK'
    BY <1>16, <1>a DEF CheckStops, CheckTypeOK, CheckEnds, Empty, Stores
  <2>2. LevelInv' /\ FindingInv'
    BY <1>16, <1>a DEF CheckStops, LevelInv, Earned, FindingInv, CheckEnds, Empty, Stores
  <2>3. StillInv'
    BY <1>16, <1>a DEF CheckStops, StillInv, FindingInv, Ident, Repaired, Here, CheckEnds, Empty, Stores
  <2>4. RepairSettles'
    BY <1>16, <1>a DEF CheckStops, RepairSettles, Ident, Repaired, Here, CheckEnds, Empty, Stores
  <2> QED
    BY <2>1, <2>2, <2>3, <2>4 DEF CheckInv
<1>17. CASE UNCHANGED checkVars
  <2>1. CheckTypeOK'
    BY <1>17, <1>a DEF checkVars, CheckTypeOK
  <2>2. LevelInv' /\ FindingInv'
    BY <1>17, <1>a DEF checkVars, LevelInv, Earned, FindingInv
  <2>3. StillInv'
    BY <1>17, <1>a DEF checkVars, StillInv, FindingInv, Ident, Repaired, Here
  <2>4. RepairSettles'
    BY <1>17, <1>a DEF checkVars, RepairSettles, Ident, Repaired, Here
  <2> QED
    BY <2>1, <2>2, <2>3, <2>4 DEF CheckInv
<1> QED
  BY <1>1, <1>2, <1>3, <1>4, <1>6, <1>7, <1>8, <1>9, <1>10, <1>11, <1>12, <1>13, <1>14, <1>15,
     <1>16, <1>17 DEF CheckNext, Surroundings, Others, Command

LEMMA CheckAlways == CheckSpec => []CheckInv
<1> QED
  BY InitCheck, CheckHolds, PTL DEF CheckSpec

(* Every reachable state is well typed: a repair records a size only when  *)
(* the listing gave one.                                                   *)
THEOREM CheckTypeCorrect == CheckSpec => []CheckTypeOK
<1> QED
  BY CheckAlways, PTL DEF CheckInv

(* An index at the current level holds no present entry of a size that was *)
(* never on Drive, unless it reported it: whatever changed while it was    *)
(* checked.                                                                *)
THEOREM LevelsAreEarned == CheckSpec => []LevelIsEarned
<1>1. CheckInv => LevelIsEarned
  BY DEF CheckInv, LevelInv, Earned, LevelIsEarned
<1> QED
  BY CheckAlways, <1>1, PTL

(* A repair leaves nothing for the next one. *)
THEOREM RepairsSettle == CheckSpec => []RepairSettles
<1> QED
  BY CheckAlways, PTL DEF CheckInv

(* A repair hides no loss: the entry of a file that is not really here     *)
(* stays, and keeps what was recorded unless Drive's copy is larger.       *)
THEOREM RepairsHideNoLoss == CheckSpec => RepairHidesNoLoss
<1>1. CheckInv /\ [CheckNext]_checkVars =>
        [Saves /\ ~touched /\ ~Here /\ disk.entry # None
           => /\ disk'.entry # None
              /\ node = None \/ Size[node.content] <= disk.entry.size
                   => /\ disk'.entry.size = disk.entry.size
                      /\ disk'.entry.local_state = disk.entry.local_state
                      /\ disk.entry.sha1 \in {None, disk'.entry.sha1}]_checkVars
  <2> SUFFICES ASSUME CheckInv, Saves, ~touched, ~Here, disk.entry # None
               PROVE  /\ disk'.entry # None
                      /\ node = None \/ Size[node.content] <= disk.entry.size
                           => /\ disk'.entry.size = disk.entry.size
                              /\ disk'.entry.local_state = disk.entry.local_state
                              /\ disk.entry.sha1 \in {None, disk'.entry.sha1}
    OBVIOUS
  <2>1. /\ disk'.entry = mem.entry /\ disk.entry \in IndexEntries
        /\ mem.entry = Repaired(disk.entry, finding.verdict, finding.ident)
        /\ finding.verdict \in Verdicts
        /\ finding.verdict # "unlisted" =>
             finding.ident = Ident /\ finding.verdict = Verdict(disk.entry, Ident)
    BY DEF Saves, CheckInv, StillInv, CheckTypeOK, Stores
  <2>2. CASE finding.verdict = "ok"
    <3>1. mem.entry = IF disk.entry.local_state = "metadata-only" /\ disk.entry.sha1 = None
                      THEN [disk.entry EXCEPT !.sha1 = finding.ident.sha1] ELSE disk.entry
      BY <2>1, <2>2 DEF Repaired, Mismatches
    <3>2. Ident \in RemoteEntries
      BY <2>1, <2>2, IdentTyped, VerdictSays DEF CheckInv
    <3>3. mem.entry \in IndexEntries /\ mem.entry # None
      <4>1. finding.ident.sha1 \in Digests
        BY <2>1, <2>2, <3>2 DEF RemoteEntries
      <4> QED
        BY <2>1, <3>1, <4>1, CheckAssumption DEF IndexEntries
    <3> QED
      BY <2>1, <3>1, <3>3 DEF IndexEntries
  <2>3. CASE finding.verdict = "remote-larger"
    <3>1. mem.entry = Drive_copy(disk.entry, Ident)
      BY <2>1, <2>3 DEF Repaired, Mismatches
    <3>2. Ident # None /\ Ident.claimed_size \in Nat /\ Ident.claimed_size > disk.entry.size
      BY <2>1, <2>3, IdentTyped, VerdictSays DEF CheckInv
    <3>3. node # None /\ Ident.claimed_size = Size[node.content]
      BY <3>2, IdentTyped, ContentsAssumption DEF CheckInv
    <3>4. disk.entry.size \in Nat
      BY <2>1 DEF IndexEntries
    <3>5. mem.entry # None
      <4>1. Ident.sha1 \in Digests
        BY <3>2, IdentTyped DEF CheckInv, RemoteEntries
      <4>2. mem.entry \in IndexEntries
        BY <3>1, <3>2, <4>1 DEF Drive_copy, IndexEntries, Digests
      <4> QED
        BY <4>2, CheckAssumption
    <3> QED
      BY <2>1, <3>2, <3>3, <3>4, <3>5
  <2>4. CASE finding.verdict \notin {"ok", "remote-larger"}
    BY <2>1, <2>4 DEF Repaired, Mismatches, Verdicts
  <2> QED
    BY <2>2, <2>3, <2>4
<1> QED
  BY CheckAlways, <1>1, PTL DEF CheckSpec, RepairHidesNoLoss
=============================================================================
