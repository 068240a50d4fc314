----------------------------- MODULE FileProofs -----------------------------
(***************************************************************************)
(* What FileSync and Trash promise of files, proved for every set of       *)
(* contents and of paths.                                                  *)
(*                                                                         *)
(* FileSync: a push replaces no revision of another device that it does    *)
(* not know; what the index calls present was on Drive, and a node that    *)
(* did not change is not called changed.  The latter two need a Drive      *)
(* whose downloads land when it says so, and a push that keeps no second   *)
(* node beside the first.                                                  *)
(*                                                                         *)
(* Trash: what rm takes away is forgotten, rm -f deletes and restore       *)
(* brings back the node that was meant.                                    *)
(***************************************************************************)
EXTENDS FileSync, Trash, FiniteSetTheorems, TLAPS


Delivering == ~SilentDownloads /\ "keep-both" \notin PushStrategies

Pushing == {"scanned", "planned", "sent"}

(* What a push knows of the file it scanned. *)
PushInv ==
  phase \in Pushing =>
    /\ scanned \in Contents
    /\ raced = "no" => file = scanned
    /\ cmd.strategy # "keep-both"

(* A call push takes for its own, and that went through, left on Drive     *)
(* what was scanned, or the first bytes of it.                             *)
SentInv ==
  (/\ phase = "sent" /\ raced = "no" /\ node # None
   /\ ~cmd.silent /\ ~cmd.adopt /\ ~cmd.unattributed)
    => node.content \in Prefixes[scanned] \cup {scanned}

PullInv ==
  /\ phase = "pulling" /\ raced = "no" /\ cmd.strategy = None => file = None
  /\ phase = "landed" /\ raced = "no" => file = landed /\ landed \in kept

FileInv ==
  /\ TypeOK
  /\ node # None => node.content \in kept
  /\ PushInv
  /\ SentInv
  /\ PullInv
  /\ PresentWasOnDrive

(* The parts of the type invariant. *)
NodeForms == [content : Contents, report : Reports, by : {"here", "other", "claimed"}]
RaceForms == {"no", "before", "since"}
Commands == [op : {"none", "push", "pull"},
             strategy : PushStrategies \cup PullResolves \cup {None, "merge"},
             asked : BOOLEAN, adopt : BOOLEAN, unattributed : BOOLEAN, retry : BOOLEAN,
             thumbnails : BOOLEAN, silent : BOOLEAN]

-----------------------------------------------------------------------------
LEMMA EmptyTyped == Empty \in Stores /\ Empty.entry = None
BY DEF Empty, Stores, Digests

LEMMA IdleTyped == Idle \in Commands
BY DEF Idle, Commands

LEMMA EntryTyped ==
  ASSUME NEW c \in Contents, NEW state \in {"present", "metadata-only"}
  PROVE  /\ Entry(c, state) \in IndexEntries
         /\ Entry(c, state).sha256 = c
         /\ Entry(c, state).local_state = state
BY ContentsAssumption DEF Entry, IndexEntries, Digests

LEMMA InitInv == Init => FileInv
<1> SUFFICES ASSUME Init PROVE FileInv
  OBVIOUS
<1>1. TypeOK
  BY EmptyTyped, IdleTyped DEF Init, TypeOK, Commands, Digests, Phases
<1>2. PresentWasOnDrive
  BY EmptyTyped DEF Init, PresentWasOnDrive
<1> QED
  BY <1>1, <1>2 DEF Init, FileInv, PushInv, SentInv, PullInv, Pushing

(* The types, for the step of a command. *)
LEMMA TypedAgain ==
  ASSUME TypeOK,
         file' \in Digests, node' \in NodeForms \cup {None}, disk' \in Stores, mem' \in Stores,
         own' \subseteq {"disk", "mem"}, phase' \in Phases, cmd' \in Commands,
         scanned' \in Digests, landed' \in Digests, kept' \subseteq Contents, raced' \in RaceForms,
         calm' = calm
  PROVE  TypeOK'
BY DEF TypeOK, NodeForms, Commands, RaceForms

LEMMA Parts ==
  ASSUME TypeOK
  PROVE  /\ file \in Digests /\ node \in NodeForms \cup {None} /\ disk \in Stores /\ mem \in Stores
         /\ own \subseteq {"disk", "mem"} /\ phase \in Phases /\ cmd \in Commands
         /\ scanned \in Digests /\ landed \in Digests /\ kept \subseteq Contents
         /\ raced \in RaceForms
BY DEF TypeOK, NodeForms, Commands, RaceForms

(* The types hold whatever Drive does, and so does that push scanned a     *)
(* file.                                                                   *)
TypeInv == TypeOK /\ (phase \in Pushing => scanned \in Contents)

LEMMA FinishTyped ==
  ASSUME TypeInv, Finish, UNCHANGED <<file, disk, calm, kept>>, node' \in NodeForms \cup {None},
         mem' \in Stores, own' \subseteq {"disk", "mem"}
  PROVE  TypeInv'
BY Parts, TypedAgain, IdleTyped DEF TypeInv, Finish, Phases, Digests, RaceForms, Pushing

LEMMA EnvironmentTyped == TypeInv /\ (Environment \/ CalmsDown) => TypeInv'
<1> SUFFICES ASSUME TypeInv, Environment \/ CalmsDown PROVE TypeInv'
  OBVIOUS
<1>1. /\ TypeOK /\ kept \subseteq Contents
      /\ UNCHANGED <<disk, mem, phase, cmd, scanned, landed>>
  BY DEF TypeInv, TypeOK, Environment, UserWrites, UserDeletes, OtherUploads, OtherTrashes,
     CalmsDown, command
<1>2. raced' \in RaceForms
  BY DEF Environment, UserWrites, UserDeletes, OtherUploads, OtherTrashes, CalmsDown, Races,
     RaceForms
<1>3. /\ disk \in Stores /\ mem \in Stores /\ phase \in Phases /\ cmd \in Commands
      /\ scanned \in Digests /\ landed \in Digests
      /\ node \in NodeForms \cup {None} /\ file \in Digests /\ own \subseteq {"disk", "mem"}
      /\ calm \in BOOLEAN
  BY <1>1 DEF TypeOK, NodeForms, Commands
<1>4. node' \in NodeForms \cup {None} /\ kept' \subseteq Contents
  <2>1. CASE Environment
    BY <1>1, <1>3, <2>1 DEF Environment, UserWrites, UserDeletes, OtherUploads, OtherTrashes,
       Becomes, Written, NodeForms
  <2>2. CASE CalmsDown
    BY <1>3, <2>2 DEF CalmsDown
  <2> QED
    BY <2>1, <2>2
<1>5. file' \in Digests /\ own' \subseteq {"disk", "mem"} /\ calm' \in BOOLEAN
  BY <1>1, <1>3 DEF Environment, UserWrites, UserDeletes, OtherUploads, OtherTrashes, CalmsDown,
     Becomes, Digests
<1> QED
  BY <1>1, <1>2, <1>3, <1>4, <1>5 DEF TypeInv, TypeOK, NodeForms, Commands, RaceForms

LEMMA PushTyped ==
  ASSUME TypeInv, Push
  PROVE  TypeInv'
<1>1. /\ file \in Digests /\ node \in NodeForms \cup {None} /\ disk \in Stores /\ mem \in Stores
      /\ own \subseteq {"disk", "mem"} /\ phase \in Phases /\ cmd \in Commands
      /\ scanned \in Digests /\ landed \in Digests /\ kept \subseteq Contents
      /\ raced \in RaceForms /\ TypeOK
  BY Parts DEF TypeInv
<1>2. ASSUME NEW strategy \in PushStrategies, PushScan(strategy) PROVE TypeInv'
  <2>1. /\ UNCHANGED <<file, node, disk, landed, calm, kept>> /\ Loads /\ file # None
        /\ scanned' = file /\ phase' = "scanned" /\ raced' = "no"
        /\ cmd' = [Idle EXCEPT !.op = "push", !.strategy = strategy, !.asked = strategy # None]
    BY <1>2 DEF PushScan
  <2>2. cmd' \in Commands
    <3> DEFINE asked == strategy # None
    <3>1. cmd' = [Idle EXCEPT !.op = "push", !.strategy = strategy, !.asked = asked]
      BY <2>1
    <3>2. asked \in BOOLEAN
      OBVIOUS
    <3> HIDE DEF asked
    <3> QED
      BY <3>1, <3>2 DEF Commands, Idle
  <2> QED
    BY <1>1, <2>1, <2>2, TypedAgain DEF TypeInv, Loads, Phases, RaceForms, Digests
<1>3. CASE PushPlan
  <2>1. /\ UNCHANGED <<own, file, node, disk, mem, scanned, landed, calm, kept>>
        /\ phase = "scanned" /\ phase' = "planned" /\ raced' \in RaceForms
        /\ cmd' \in {cmd, [cmd EXCEPT !.strategy = "merge"]}
    BY <1>3 DEF PushPlan, Decides, RaceForms
  <2>2. cmd' \in Commands
    BY <1>1, <2>1 DEF Commands
  <2> QED
    BY <1>1, <2>1, <2>2, TypedAgain DEF TypeInv, Phases, Pushing
<1>4. ASSUME NEW c \in Contents, NEW report \in Reports, NEW conflict \in BOOLEAN,
             NEW skip \in BOOLEAN, UploadLands(c, report, conflict, skip)
      PROVE  TypeInv'
  <2>1. /\ UNCHANGED <<file, disk, mem, scanned, landed, calm, raced>>
        /\ phase = "planned" /\ phase' = "sent"
        /\ kept' = kept \cup {c} /\ node' = Written(c, report, "here") /\ own' = {}
        /\ cmd' = [cmd EXCEPT !.adopt = conflict, !.unattributed = skip /\ ~conflict]
    BY <1>4 DEF UploadLands, Becomes
  <2>2. node' \in NodeForms
    BY <2>1 DEF Written, NodeForms
  <2>3. cmd' \in Commands
    BY <1>1, <2>1 DEF Commands
  <2> QED
    BY <1>1, <2>1, <2>2, <2>3, TypedAgain DEF TypeInv, Phases, Pushing
<1>5. ASSUME NEW skip \in BOOLEAN, UploadLeavesNode(skip) PROVE TypeInv'
  <2> DEFINE silent == cmd.strategy \in {"merge", "replace"}
  <2>1. /\ UNCHANGED <<own, file, node, disk, mem, scanned, landed, calm, kept, raced>>
        /\ phase = "planned" /\ phase' = "sent"
        /\ cmd' = [cmd EXCEPT !.adopt = FALSE, !.unattributed = skip, !.silent = silent]
    BY <1>5 DEF UploadLeavesNode
  <2>2. silent \in BOOLEAN
    OBVIOUS
  <2> HIDE DEF silent
  <2>3. cmd' \in Commands
    BY <1>1, <2>1, <2>2 DEF Commands
  <2> QED
    BY <1>1, <2>1, <2>3, TypedAgain DEF TypeInv, Phases, Pushing
<1>6. CASE UploadConflicts
  <2>1. /\ UNCHANGED <<own, file, node, disk, mem, scanned, landed, calm, kept, raced>>
        /\ phase = "planned" /\ phase' = "sent"
        /\ cmd' = [cmd EXCEPT !.adopt = TRUE, !.unattributed = FALSE]
    BY <1>6 DEF UploadConflicts
  <2>2. cmd' \in Commands
    BY <1>1, <2>1 DEF Commands
  <2> QED
    BY <1>1, <2>1, <2>2, TypedAgain DEF TypeInv, Phases, Pushing
<1>7. CASE UploadLacksThumbnail
  <2>1. /\ UNCHANGED <<own, file, node, disk, mem, phase, scanned, landed, calm, kept, raced>>
        /\ cmd' = [cmd EXCEPT !.thumbnails = FALSE, !.retry = TRUE]
    BY <1>7 DEF UploadLacksThumbnail
  <2>2. cmd' \in Commands
    BY <1>1, <2>1 DEF Commands
  <2> QED
    BY <1>1, <2>1, <2>2, TypedAgain DEF TypeInv
<1>8. CASE UploadFails \/ PushReports
  BY <1>1, <1>8, FinishTyped DEF UploadFails, PushReports
<1>9. CASE PushIndexes
  <2> DEFINE doubt == \/ raced # "no"
                      \/ cmd.silent
                      \/ (cmd.adopt \/ cmd.unattributed) /\ Ident.sha1 = None
  <2>1. mem' = [entry |-> Entry(scanned, "present"), agreed |-> scanned, doubt |-> doubt]
    BY <1>9 DEF PushIndexes, Sets
  <2>2. doubt \in BOOLEAN
    BY <1>1 DEF Commands
  <2> HIDE DEF doubt
  <2>3. scanned \in Contents
    BY <1>9 DEF PushIndexes, TypeInv, Pushing
  <2>4. mem' \in Stores
    BY <1>1, <2>1, <2>2, <2>3, EntryTyped DEF Stores
  <2> QED
    BY <1>1, <1>9, <2>4, FinishTyped DEF PushIndexes, Sets
<1>10. CASE PushSendsRevision
  <2>1. /\ UNCHANGED <<own, file, node, disk, mem, scanned, landed, calm, kept>>
        /\ phase = "sent" /\ phase' = "planned" /\ raced' \in RaceForms
        /\ cmd' = [Idle EXCEPT !.op = "push", !.strategy = "merge", !.retry = TRUE]
    BY <1>10 DEF PushSendsRevision, Decides, RaceForms
  <2>2. cmd' \in Commands
    BY <2>1 DEF Idle, Commands
  <2> QED
    BY <1>1, <2>1, <2>2, TypedAgain DEF TypeInv, Phases, Pushing
<1>11. CASE PushMarksUnderdelivered
  <2>1. node # None /\ node \in NodeForms
    BY <1>1, <1>11 DEF PushMarksUnderdelivered, IsShort
  <2>2. node' \in NodeForms
    BY <1>11, <2>1 DEF PushMarksUnderdelivered, NodeForms
  <2> QED
    BY <1>1, <1>11, <2>2, FinishTyped DEF PushMarksUnderdelivered
<1> QED
  BY <1>2, <1>3, <1>4, <1>5, <1>6, <1>7, <1>8, <1>9, <1>10, <1>11 DEF Push, UploadReturns

LEMMA PullTyped ==
  ASSUME TypeInv, Pull
  PROVE  TypeInv'
<1>1. /\ file \in Digests /\ node \in NodeForms \cup {None} /\ disk \in Stores /\ mem \in Stores
      /\ own \subseteq {"disk", "mem"} /\ phase \in Phases /\ cmd \in Commands
      /\ scanned \in Digests /\ landed \in Digests /\ kept \subseteq Contents
      /\ raced \in RaceForms /\ TypeOK
  BY Parts DEF TypeInv
<1>2. ASSUME NEW resolve \in PullResolves, NEW no_restore \in BOOLEAN,
             PullScan(resolve, no_restore)
      PROVE  TypeInv'
  <2>1. /\ UNCHANGED <<file, node, disk, calm, kept>> /\ mem' = disk
        /\ own' \subseteq {"disk", "mem"}
    BY <1>2 DEF PullScan, Loads
  <2>2. CASE Finish
    BY <1>1, <2>1, <2>2, FinishTyped
  <2>3. CASE /\ phase' = "pulling"
             /\ cmd' = [Idle EXCEPT !.op = "pull", !.strategy = resolve]
             /\ UNCHANGED <<scanned, landed, raced>>
    <3>1. cmd' \in Commands
      BY <2>3 DEF Idle, Commands
    <3> QED
      BY <1>1, <2>1, <2>3, <3>1, TypedAgain DEF TypeInv, Phases, Pushing
  <2> QED
    BY <1>2, <2>2, <2>3 DEF PullScan
<1>3. CASE DownloadLands
  BY <1>1, <1>3, TypedAgain DEF DownloadLands, TypeInv, NodeForms, Phases, Digests, Pushing
<1>4. CASE DownloadVanishes
  BY <1>1, <1>4, TypedAgain DEF DownloadVanishes, TypeInv, Phases, Pushing
<1>5. CASE DownloadFails \/ PullFindsNothing
  BY <1>1, <1>5, FinishTyped DEF DownloadFails, PullFindsNothing
<1>6. CASE PullIndexes
  <2>1. file \in Contents
    BY <1>1, <1>6 DEF PullIndexes, Digests
  <2>2. mem' \in Stores
    BY <1>1, <1>6, <2>1, EntryTyped DEF PullIndexes, Sets, Stores
  <2> QED
    BY <1>1, <1>6, <2>2, FinishTyped DEF PullIndexes, Sets
<1> QED
  BY <1>2, <1>3, <1>4, <1>5, <1>6 DEF Pull

LEMMA EndsTyped ==
  ASSUME TypeInv, Saves \/ Stops
  PROVE  TypeInv'
<1>1. /\ UNCHANGED <<file, node, calm, kept>> /\ Ends /\ disk' \in {disk, mem}
      /\ own' \subseteq {"disk", "mem"}
  BY Parts DEF TypeInv, Saves, Stops, Persists
<1> QED
  BY <1>1, Parts, TypedAgain, IdleTyped, EmptyTyped
  DEF TypeInv, Ends, Phases, Digests, RaceForms, Pushing

LEMMA OthersTyped ==
  ASSUME TypeInv, Others
  PROVE  TypeInv'
<1>1. /\ file \in Digests /\ node \in NodeForms \cup {None} /\ disk \in Stores /\ mem \in Stores
      /\ own \subseteq {"disk", "mem"} /\ phase \in Phases /\ cmd \in Commands
      /\ scanned \in Digests /\ landed \in Digests /\ kept \subseteq Contents
      /\ raced \in RaceForms /\ TypeOK
  BY Parts DEF TypeInv
<1>2. /\ UNCHANGED <<command, calm, kept, raced>> /\ own' = {}
      /\ node' \in {node, None} /\ file' \in {file, None}
  BY DEF Others, Seed, Offload, TrashDeleted, Becomes
<1>3. disk' \in Stores
  <2>1. CASE \E source \in SeedSources : Seed(source)
    <3>1. CASE /\ node # None
               /\ disk' = [entry |-> [size |-> Ident.size, sha256 |-> None, sha1 |-> None,
                                      local_state |-> "metadata-only"],
                           agreed |-> node.content, doubt |-> FALSE]
      <4>1. node.content \in Contents /\ Ident.size = EncSize[node.content]
        BY <1>1, <3>1 DEF NodeForms, Ident
      <4>2. Ident.size \in Nat
        BY <4>1, SyncAssumption
      <4> QED
        BY <3>1, <4>1, <4>2 DEF Stores, IndexEntries, Digests
    <3>2. CASE \E c \in kept : disk' = [entry |-> Entry(c, "metadata-only"),
                                        agreed |-> c, doubt |-> FALSE]
      BY <1>1, <3>2, EntryTyped DEF Stores, Digests
    <3> QED
      BY <2>1, <3>1, <3>2 DEF Seed
  <2>2. CASE \E verify \in BOOLEAN : Offload(verify)
    <3>1. disk.entry # None /\ disk' = [disk EXCEPT !.entry.local_state = "metadata-only"]
      BY <2>2 DEF Offload
    <3> QED
      BY <1>1, <3>1 DEF Stores, IndexEntries
  <2>3. CASE TrashDeleted
    BY <2>3, EmptyTyped DEF TrashDeleted
  <2> QED
    BY <2>1, <2>2, <2>3 DEF Others
<1> QED
  BY <1>1, <1>2, <1>3, TypedAgain DEF TypeInv, command, Digests

LEMMA TypeStep == TypeInv /\ [Next]_vars => TypeInv'
<1> SUFFICES ASSUME TypeInv, [Next]_vars PROVE TypeInv'
  OBVIOUS
<1>1. CASE UNCHANGED vars
  BY <1>1 DEF vars, command, TypeInv, TypeOK
<1>2. CASE Next
  BY <1>2, EnvironmentTyped, PushTyped, PullTyped, EndsTyped, OthersTyped DEF Next
<1> QED
  BY <1>1, <1>2

-----------------------------------------------------------------------------
(* The user and the other devices. *)
LEMMA EnvironmentHolds ==
  ASSUME FileInv, TypeOK', Environment \/ CalmsDown
  PROVE  FileInv'
<1>1. /\ TypeOK /\ kept \subseteq Contents /\ kept \subseteq kept'
      /\ UNCHANGED <<disk, mem, phase, cmd, scanned, landed>>
  BY DEF FileInv, TypeOK, Environment, UserWrites, UserDeletes, OtherUploads, OtherTrashes,
     CalmsDown, command
<1>2. raced' \in RaceForms /\ (phase \in Pushing \cup {"pulling", "landed"} => raced' = "since")
  BY DEF Environment, UserWrites, UserDeletes, OtherUploads, OtherTrashes, CalmsDown, Races,
     Pushing, RaceForms
<1>4. (node # None => node.content \in kept)'
  BY <1>1 DEF FileInv, Environment, UserWrites, UserDeletes, OtherUploads, OtherTrashes,
     CalmsDown, Becomes, Written
<1>5. PresentWasOnDrive'
  BY <1>1 DEF FileInv, PresentWasOnDrive
<1> QED
  BY <1>1, <1>2, <1>4, <1>5 DEF FileInv, PushInv, SentInv, PullInv, Pushing

(* Once a command is through, nothing is left to know of it. *)
LEMMA FinishHolds ==
  ASSUME FileInv, TypeOK', Finish, UNCHANGED <<file, disk, calm, kept>>,
         node' # None => node # None /\ node'.content = node.content, PresentWasOnDrive'
  PROVE  FileInv'
<1> QED
  BY DEF FileInv, Finish, PushInv, SentInv, PullInv, Pushing

LEMMA PresentAgain ==
  ASSUME PresentWasOnDrive, kept \subseteq kept', disk' \in {disk, mem}, mem' \in {disk, mem}
  PROVE  PresentWasOnDrive'
BY DEF PresentWasOnDrive

LEMMA PushHolds ==
  ASSUME Delivering, FileInv, TypeOK', Push
  PROVE  FileInv'
<1>1. /\ file \in Digests /\ node \in NodeForms \cup {None} /\ disk \in Stores /\ mem \in Stores
      /\ own \subseteq {"disk", "mem"} /\ phase \in Phases /\ cmd \in Commands
      /\ scanned \in Digests /\ landed \in Digests /\ kept \subseteq Contents
      /\ raced \in RaceForms /\ TypeOK
  BY Parts DEF FileInv
<1>2. CASE \E strategy \in PushStrategies : PushScan(strategy)
  <2>1. PICK strategy \in PushStrategies : PushScan(strategy)
    BY <1>2
  <2>2. /\ UNCHANGED <<file, node, disk, landed, calm, kept>> /\ Loads /\ file # None
        /\ scanned' = file /\ phase' = "scanned" /\ raced' = "no"
        /\ cmd' = [Idle EXCEPT !.op = "push", !.strategy = strategy,
                             !.asked = strategy # None]
    BY <2>1 DEF PushScan
  <2>3. cmd' \in Commands /\ cmd'.strategy # "keep-both"
    BY <2>2 DEF Commands, Idle, Delivering
  <2>4. mem' = disk /\ own' \subseteq {"disk", "mem"}
    BY <2>2 DEF Loads
  <2>6. PresentWasOnDrive'
    BY <2>2, <2>4, PresentAgain DEF FileInv
  <2> QED
    BY <1>1, <2>2, <2>3, <2>6 DEF FileInv, PushInv, SentInv, PullInv, Pushing, Digests
<1>3. CASE PushPlan
  <2>1. /\ UNCHANGED <<own, file, node, disk, mem, scanned, landed, calm, kept>>
        /\ raced' = IF raced = "no" THEN "no" ELSE "before"
        /\ phase = "scanned" /\ phase' = "planned"
        /\ cmd' \in {cmd, [cmd EXCEPT !.strategy = "merge"]}
    BY <1>3 DEF PushPlan, Decides
  <2>2. cmd' \in Commands /\ (cmd'.strategy # "keep-both" \/ cmd' = cmd)
    BY <1>1, <2>1 DEF Commands
  <2>4. PresentWasOnDrive'
    BY <2>1, PresentAgain DEF FileInv
  <2> QED
    BY <1>1, <2>1, <2>2, <2>4 DEF FileInv, PushInv, SentInv, PullInv, Pushing
<1>4. CASE \E c \in Contents, report \in Reports, conflict, skip \in BOOLEAN :
             UploadLands(c, report, conflict, skip)
  <2>1. PICK c \in Contents, report \in Reports, conflict \in BOOLEAN, skip \in BOOLEAN :
          UploadLands(c, report, conflict, skip)
    BY <1>4
  <2>2. /\ UNCHANGED <<file, disk, mem, scanned, landed, calm, raced>>
        /\ phase = "planned" /\ phase' = "sent" /\ c \in Prefixes[file] \cup {file}
        /\ kept' = kept \cup {c} /\ node' = Written(c, report, "here") /\ own' = {}
        /\ cmd' = [cmd EXCEPT !.adopt = conflict, !.unattributed = skip /\ ~conflict]
    BY <2>1 DEF UploadLands, Becomes
  <2>3. node' \in NodeForms /\ node'.content = c
    BY <2>2 DEF Written, NodeForms
  <2>4. cmd' \in Commands /\ cmd'.strategy = cmd.strategy
    BY <1>1, <2>2 DEF Commands
  <2>6. PresentWasOnDrive'
    BY <2>2, PresentAgain DEF FileInv
  <2> QED
    BY <1>1, <2>2, <2>3, <2>4, <2>6 DEF FileInv, PushInv, SentInv, PullInv, Pushing
<1>5. CASE \E skip \in BOOLEAN : UploadLeavesNode(skip)
  <2>1. PICK skip \in BOOLEAN : UploadLeavesNode(skip)
    BY <1>5
  <2>2. /\ UNCHANGED <<own, file, node, disk, mem, scanned, landed, calm, kept, raced>>
        /\ phase = "planned" /\ phase' = "sent"
        /\ cmd' = [cmd EXCEPT !.adopt = FALSE, !.unattributed = skip,
                              !.silent = cmd.strategy \in {"merge", "replace"}]
    BY <2>1 DEF UploadLeavesNode
  <2>3. /\ cmd' \in Commands /\ cmd'.strategy = cmd.strategy
        /\ cmd'.unattributed = skip /\ (cmd.strategy \in {"merge", "replace"} => cmd'.silent)
    <3> DEFINE silent == cmd.strategy \in {"merge", "replace"}
    <3>1. cmd' = [cmd EXCEPT !.adopt = FALSE, !.unattributed = skip, !.silent = silent]
      BY <2>2
    <3>2. silent \in BOOLEAN
      OBVIOUS
    <3>3. cmd.strategy \in {"merge", "replace"} => silent
      OBVIOUS
    <3> HIDE DEF silent
    <3> QED
      BY <1>1, <3>1, <3>2, <3>3 DEF Commands
  <2>4. node = None \/ cmd'.silent \/ cmd'.unattributed
    BY <2>1, <2>2, <2>3 DEF UploadLeavesNode, FileInv, PushInv, Pushing
  <2>6. PresentWasOnDrive'
    BY <2>2, PresentAgain DEF FileInv
  <2> QED
    BY <1>1, <2>2, <2>3, <2>4, <2>6 DEF FileInv, PushInv, SentInv, PullInv, Pushing
<1>6. CASE UploadConflicts
  <2>1. /\ UNCHANGED <<own, file, node, disk, mem, scanned, landed, calm, kept, raced>>
        /\ phase = "planned" /\ phase' = "sent"
        /\ cmd' = [cmd EXCEPT !.adopt = TRUE, !.unattributed = FALSE]
    BY <1>6 DEF UploadConflicts
  <2>2. cmd' \in Commands /\ cmd'.strategy = cmd.strategy /\ cmd'.adopt
    BY <1>1, <2>1 DEF Commands
  <2>4. PresentWasOnDrive'
    BY <2>1, PresentAgain DEF FileInv
  <2> QED
    BY <1>1, <2>1, <2>2, <2>4 DEF FileInv, PushInv, SentInv, PullInv, Pushing
<1>7. CASE UploadLacksThumbnail
  <2>1. /\ UNCHANGED <<own, file, node, disk, mem, phase, scanned, landed, calm, kept, raced>>
        /\ phase = "planned"
        /\ cmd' = [cmd EXCEPT !.thumbnails = FALSE, !.retry = TRUE]
    BY <1>7 DEF UploadLacksThumbnail
  <2>2. cmd' \in Commands /\ cmd'.strategy = cmd.strategy
    BY <1>1, <2>1 DEF Commands
  <2>4. PresentWasOnDrive'
    BY <2>1, PresentAgain DEF FileInv
  <2> QED
    BY <1>1, <2>1, <2>2, <2>4 DEF FileInv, PushInv, SentInv, PullInv, Pushing
<1>8. CASE UploadFails \/ PushReports
  <2>1. /\ UNCHANGED <<own, file, node, disk, mem, calm, kept>> /\ Finish
    BY <1>8 DEF UploadFails, PushReports
  <2>2. PresentWasOnDrive'
    BY <2>1, PresentAgain DEF FileInv
  <2> QED
    BY <1>1, <2>1, <2>2, FinishHolds
<1>9. CASE PushIndexes
  <2> DEFINE doubt == \/ raced # "no"
                      \/ cmd.silent
                      \/ (cmd.adopt \/ cmd.unattributed) /\ Ident.sha1 = None
  <2>1. /\ UNCHANGED <<file, node, disk, calm, kept>> /\ Finish
        /\ phase = "sent" /\ Verdict = "verified"
        /\ mem' = [entry |-> Entry(scanned, "present"), agreed |-> scanned, doubt |-> doubt]
        /\ own' \subseteq {"disk", "mem"}
    BY <1>1, <1>9 DEF PushIndexes, Sets
  <2>2. scanned \in Contents
    BY <2>1 DEF FileInv, PushInv, Pushing
  <2>3. node # None /\ node \in NodeForms /\ node.content \in Contents /\ node.content \in kept
    BY <1>1, <2>1 DEF FileInv, Verdict, Verify_remote, Ident, NodeForms
  <2>4. Ident = [claimed_size |-> IF node.report = "nothing" THEN None ELSE Size[node.content],
                 sha1 |-> IF node.report = "full" THEN node.content ELSE None,
                 size |-> EncSize[node.content]]
    BY <2>3 DEF Ident
  <2>5. ASSUME ~doubt PROVE scanned \in kept
    <3>1. CASE cmd.adopt \/ cmd.unattributed
      <4>1. Ident.sha1 # None
        BY <2>5, <3>1
      <4>2. Ident.sha1 \in {None, scanned}
        BY <2>1, <2>4, <3>1 DEF Verdict, Verify_remote
      <4> QED
        BY <2>3, <2>4, <4>1, <4>2
    <3>2. CASE ~(cmd.adopt \/ cmd.unattributed)
      <4>1. node.content \in Prefixes[scanned] \cup {scanned}
        BY <2>1, <2>3, <2>5, <3>2 DEF FileInv, SentInv
      <4>2. Ident # None /\ Ident.claimed_size = Size[scanned] /\ Ident.claimed_size # None
        BY <2>1, <2>4, <3>2 DEF Verdict, Verify_remote
      <4>3. Size[node.content] = Size[scanned]
        BY <2>4, <4>2
      <4>4. ~(Size[node.content] < Size[scanned])
        BY <2>2, <2>3, <4>3, ContentsAssumption
      <4> QED
        BY <2>2, <2>3, <4>1, <4>4, SyncAssumption
    <3> QED
      BY <3>1, <3>2
  <2>6. /\ Entry(scanned, "present") \in IndexEntries
        /\ Entry(scanned, "present").sha256 = scanned
    BY <2>2, EntryTyped
  <2>7. doubt \in BOOLEAN
    BY <1>1 DEF Commands
  <2>8. mem' \in Stores
    BY <1>1, <2>1, <2>6, <2>7 DEF Stores
  <2>9. PresentWasOnDrive'
    BY <2>1, <2>5, <2>6 DEF FileInv, PresentWasOnDrive
  <2> QED
    BY <2>1, <2>8, <2>9, FinishHolds
<1>10. CASE PushSendsRevision
  <2>1. /\ UNCHANGED <<own, file, node, disk, mem, scanned, landed, calm, kept>>
        /\ raced' = IF raced = "no" THEN "no" ELSE "before"
        /\ phase = "sent" /\ phase' = "planned"
        /\ cmd' = [Idle EXCEPT !.op = "push", !.strategy = "merge", !.retry = TRUE]
    BY <1>10 DEF PushSendsRevision, Decides
  <2>2. cmd' \in Commands /\ cmd'.strategy # "keep-both"
    BY <2>1 DEF Idle, Commands
  <2>4. PresentWasOnDrive'
    BY <2>1, PresentAgain DEF FileInv
  <2> QED
    BY <1>1, <2>1, <2>2, <2>4 DEF FileInv, PushInv, SentInv, PullInv, Pushing
<1>11. CASE PushMarksUnderdelivered
  <2>1. /\ UNCHANGED <<file, disk, mem, calm, kept>> /\ Finish /\ node # None
        /\ node' = IF node.by = "other" THEN [node EXCEPT !.by = "claimed"] ELSE node
    BY <1>11 DEF PushMarksUnderdelivered, IsShort
  <2>2. node \in NodeForms /\ node'.content = node.content
    BY <1>1, <2>1 DEF NodeForms
  <2>3. PresentWasOnDrive'
    BY <2>1, PresentAgain DEF FileInv
  <2> QED
    BY <2>1, <2>2, <2>3, FinishHolds
<1> QED
  BY <1>2, <1>3, <1>4, <1>5, <1>6, <1>7, <1>8, <1>9, <1>10, <1>11 DEF Push, UploadReturns

LEMMA PullHolds ==
  ASSUME Delivering, FileInv, TypeOK', Pull
  PROVE  FileInv'
<1>1. /\ file \in Digests /\ node \in NodeForms \cup {None} /\ disk \in Stores /\ mem \in Stores
      /\ own \subseteq {"disk", "mem"} /\ phase \in Phases /\ cmd \in Commands
      /\ scanned \in Digests /\ landed \in Digests /\ kept \subseteq Contents
      /\ raced \in RaceForms /\ TypeOK
  BY Parts DEF FileInv
<1>2. CASE \E resolve \in PullResolves, no_restore \in BOOLEAN : PullScan(resolve, no_restore)
  <2>1. PICK resolve \in PullResolves, no_restore \in BOOLEAN : PullScan(resolve, no_restore)
    BY <1>2
  <2>2. /\ UNCHANGED <<file, node, disk, calm, kept>> /\ mem' = disk
        /\ own' \subseteq {"disk", "mem"}
    BY <2>1 DEF PullScan, Loads
  <2>3. PresentWasOnDrive'
    BY <2>2, PresentAgain DEF FileInv
  <2>4. CASE Finish
    BY <1>1, <2>2, <2>3, <2>4, FinishHolds
  <2>5. CASE /\ To_pull(resolve, no_restore)
             /\ phase' = "pulling"
             /\ cmd' = [Idle EXCEPT !.op = "pull", !.strategy = resolve]
             /\ UNCHANGED <<scanned, landed, raced>>
    <3>1. cmd' \in Commands /\ cmd'.strategy = resolve
      BY <2>5 DEF Idle, Commands
    <3>3. resolve = None => file = None
      BY <2>5, SyncAssumption DEF To_pull
    <3> QED
      BY <2>2, <2>3, <2>5, <3>1, <3>3 DEF FileInv, PushInv, SentInv, PullInv, Pushing
  <2> QED
    BY <2>1, <2>4, <2>5 DEF PullScan
<1>3. CASE DownloadLands
  <2>1. /\ UNCHANGED <<own, node, disk, mem, cmd, scanned, calm, kept, raced>>
        /\ node # None /\ file' = node.content /\ landed' = node.content /\ phase' = "landed"
    BY <1>3 DEF DownloadLands
  <2>2. node.content \in Contents
    BY <1>1, <2>1 DEF NodeForms
  <2>4. PresentWasOnDrive'
    BY <2>1, PresentAgain DEF FileInv
  <2> QED
    BY <2>1, <2>4 DEF FileInv, PushInv, SentInv, PullInv, Pushing
<1>4. CASE DownloadVanishes
  BY <1>4 DEF DownloadVanishes, Delivering
<1>5. CASE DownloadFails \/ PullFindsNothing
  <2>1. /\ UNCHANGED <<own, file, node, disk, mem, calm, kept>> /\ Finish
    BY <1>5 DEF DownloadFails, PullFindsNothing
  <2>2. PresentWasOnDrive'
    BY <2>1, PresentAgain DEF FileInv
  <2> QED
    BY <1>1, <2>1, <2>2, FinishHolds
<1>6. CASE PullIndexes
  <2>1. /\ UNCHANGED <<file, node, disk, calm, kept>> /\ Finish /\ file # None
        /\ phase = "landed"
        /\ mem' = [entry |-> Entry(file, "present"), agreed |-> landed, doubt |-> (raced # "no")]
        /\ own' \subseteq {"disk", "mem"}
    BY <1>1, <1>6 DEF PullIndexes, Sets
  <2>2. file \in Contents
    BY <1>1, <2>1 DEF Digests
  <2>3. Entry(file, "present") \in IndexEntries /\ Entry(file, "present").sha256 = file
    BY <2>2, EntryTyped
  <2>4. raced = "no" => file \in kept
    BY <2>1 DEF FileInv, PullInv
  <2>5. PresentWasOnDrive'
    <3> DEFINE doubt == raced # "no"
    <3>1. mem' = [entry |-> Entry(file, "present"), agreed |-> landed, doubt |-> doubt]
      BY <2>1
    <3>2. ~doubt => file \in kept
      BY <2>4
    <3> HIDE DEF doubt
    <3> QED
      BY <2>1, <2>3, <3>1, <3>2 DEF FileInv, PresentWasOnDrive
  <2>6. Finish /\ UNCHANGED <<file, node, disk, calm, kept>>
    BY <2>1
  <2> QED
    BY <2>5, <2>6, FinishHolds
<1> QED
  BY <1>2, <1>3, <1>4, <1>5, <1>6 DEF Pull

LEMMA EndsHold ==
  ASSUME FileInv, TypeOK', Saves \/ Stops
  PROVE  FileInv'
<1>1. /\ UNCHANGED <<file, node, calm, kept>> /\ Ends /\ disk' \in {disk, mem}
      /\ own' \subseteq {"disk", "mem"}
  BY Parts DEF FileInv, Saves, Stops, Persists
<1>3. PresentWasOnDrive'
  BY <1>1, EmptyTyped DEF FileInv, Ends, PresentWasOnDrive
<1> QED
  BY <1>1, <1>3 DEF FileInv, Ends, PushInv, SentInv, PullInv, Pushing

LEMMA OthersHold ==
  ASSUME FileInv, TypeOK', Others
  PROVE  FileInv'
<1>1. /\ file \in Digests /\ node \in NodeForms \cup {None} /\ disk \in Stores /\ mem \in Stores
      /\ own \subseteq {"disk", "mem"} /\ phase \in Phases /\ cmd \in Commands
      /\ scanned \in Digests /\ landed \in Digests /\ kept \subseteq Contents
      /\ raced \in RaceForms /\ TypeOK
  BY Parts DEF FileInv
<1>2. /\ phase = "idle" /\ UNCHANGED <<command, calm, kept, raced>> /\ own' = {}
      /\ node' \in {node, None}
  BY DEF Others, Seed, Offload, TrashDeleted, Becomes
<1>3. ASSUME file' \in Digests, disk' \in Stores,
             disk'.entry # None /\ disk'.entry.local_state = "present" => disk' = disk
      PROVE  FileInv'
  <2>2. PresentWasOnDrive'
    BY <1>2, <1>3 DEF FileInv, PresentWasOnDrive, command
  <2> QED
    BY <1>2, <2>2 DEF FileInv, PushInv, SentInv, PullInv, Pushing, command
<1>4. CASE \E source \in SeedSources : Seed(source)
  <2>1. file' = file
    BY <1>4 DEF Seed
  <2>2. CASE /\ node # None
             /\ disk' = [entry |-> [size |-> Ident.size, sha256 |-> None, sha1 |-> None,
                                    local_state |-> "metadata-only"],
                         agreed |-> node.content, doubt |-> FALSE]
    <3>1. node.content \in Contents /\ Ident.size = EncSize[node.content]
      BY <1>1, <2>2 DEF NodeForms, Ident
    <3>2. Ident.size \in Nat
      BY <3>1, SyncAssumption
    <3>3. disk' \in Stores /\ disk'.entry.local_state = "metadata-only"
      BY <2>2, <3>1, <3>2 DEF Stores, IndexEntries, Digests
    <3> QED
      BY <1>1, <1>3, <2>1, <3>3
  <2>3. CASE \E c \in kept : disk' = [entry |-> Entry(c, "metadata-only"),
                                      agreed |-> c, doubt |-> FALSE]
    <3>1. PICK c \in kept : disk' = [entry |-> Entry(c, "metadata-only"),
                                     agreed |-> c, doubt |-> FALSE]
      BY <2>3
    <3>2. /\ c \in Contents /\ Entry(c, "metadata-only") \in IndexEntries
          /\ Entry(c, "metadata-only").local_state = "metadata-only"
      BY <1>1, EntryTyped
    <3>3. disk' \in Stores /\ disk'.entry.local_state = "metadata-only"
      BY <3>1, <3>2 DEF Stores, Digests
    <3> QED
      BY <1>1, <1>3, <2>1, <3>3
  <2> QED
    BY <1>4, <2>2, <2>3 DEF Seed
<1>5. CASE \E verify \in BOOLEAN : Offload(verify)
  <2>1. /\ disk.entry # None /\ file' = None
        /\ disk' = [disk EXCEPT !.entry.local_state = "metadata-only"]
    BY <1>5 DEF Offload
  <2>2. disk' \in Stores /\ disk'.entry.local_state = "metadata-only"
    BY <1>1, <2>1 DEF Stores, IndexEntries
  <2> QED
    BY <1>3, <2>1, <2>2 DEF Digests
<1>6. CASE TrashDeleted
  <2>1. file' = file /\ disk' = Empty
    BY <1>6 DEF TrashDeleted
  <2> QED
    BY <1>1, <1>3, <2>1, EmptyTyped
<1> QED
  BY <1>4, <1>5, <1>6 DEF Others

LEMMA StepInv ==
  ASSUME Delivering, FileInv, [Next]_vars
  PROVE  FileInv'
<1>1. CASE UNCHANGED vars
  BY <1>1 DEF vars, command, FileInv, TypeOK, PushInv, SentInv, PullInv, PresentWasOnDrive, Pushing
<1>2. CASE Next
  <2>1. TypeOK'
    BY TypeStep DEF FileInv, PushInv, TypeInv
  <2> QED
    BY <1>2, <2>1, EnvironmentHolds, PushHolds, PullHolds, EndsHold, OthersHold DEF Next
<1> QED
  BY <1>1, <1>2

-----------------------------------------------------------------------------
(* What an entry that is not in doubt says of the content it was recorded  *)
(* from: its size and its digest, or if a listing seeded it the encrypted  *)
(* size and no digest.                                                     *)
Describes(store) ==
  store.entry # None /\ ~store.doubt =>
    /\ store.agreed \in Contents
    /\ \/ store.entry.sha1 = store.agreed /\ store.entry.size = Size[store.agreed]
       \/ store.entry.sha1 = None /\ store.entry.size = EncSize[store.agreed]

DescribesInv == Describes(disk) /\ Describes(mem)

LEMMA EntryDescribes ==
  ASSUME NEW c \in Contents, NEW state, NEW doubt,
         NEW store, store = [entry |-> Entry(c, state), agreed |-> c, doubt |-> doubt]
  PROVE  Describes(store)
BY DEF Describes, Entry

LEMMA DescribesAgain ==
  ASSUME DescribesInv, disk' \in {disk, mem, Empty}, mem' \in {disk, mem, Empty}
  PROVE  DescribesInv'
BY EmptyTyped DEF DescribesInv, Describes

(* The two steps that record what was transferred. *)
LEMMA RecordsDescribe ==
  ASSUME FileInv, DescribesInv, PushIndexes \/ PullIndexes
  PROVE  DescribesInv'
<1>1. disk' = disk
  BY DEF PushIndexes, PullIndexes
<1>2. Describes(mem')
  <2>1. CASE PushIndexes
    <3>1. PICK doubt : mem' = [entry |-> Entry(scanned, "present"), agreed |-> scanned,
                               doubt |-> doubt]
      BY <2>1 DEF PushIndexes, Sets
    <3>2. scanned \in Contents
      BY <2>1 DEF PushIndexes, FileInv, PushInv, Pushing
    <3> QED
      BY <3>1, <3>2, EntryDescribes
  <2>2. CASE PullIndexes
    <3>1. mem' = [entry |-> Entry(file, "present"), agreed |-> landed, doubt |-> (raced # "no")]
      BY <2>2 DEF PullIndexes, Sets
    <3>2. CASE raced # "no"
      BY <3>1, <3>2 DEF Describes
    <3>3. CASE raced = "no"
      <4>1. file = landed /\ file \in Contents
        BY <2>2, <3>3 DEF PullIndexes, FileInv, PullInv, TypeOK
      <4> QED
        BY <3>1, <4>1, EntryDescribes
    <3> QED
      BY <3>2, <3>3
  <2> QED
    BY <2>1, <2>2
<1> QED
  BY <1>1, <1>2 DEF DescribesInv, Describes

(* A seeded entry, an offloaded one, and one that is given up. *)
LEMMA OthersDescribe ==
  ASSUME FileInv, DescribesInv, Others
  PROVE  DescribesInv'
<1>1. mem' = mem
  BY DEF Others, Seed, Offload, TrashDeleted, command
<1>2. CASE \E source \in SeedSources : Seed(source)
  <2>1. CASE \E c \in kept : disk' = [entry |-> Entry(c, "metadata-only"),
                                      agreed |-> c, doubt |-> FALSE]
    <3>1. Describes(disk')
      BY <2>1, Parts, EntryDescribes DEF FileInv
    <3> QED
      BY <1>1, <3>1 DEF DescribesInv, Describes
  <2>2. CASE /\ node # None
             /\ disk' = [entry |-> [size |-> Ident.size, sha256 |-> None, sha1 |-> None,
                                    local_state |-> "metadata-only"],
                         agreed |-> node.content, doubt |-> FALSE]
    <3>1. node.content \in Contents /\ Ident.size = EncSize[node.content]
      BY <2>2, Parts DEF FileInv, NodeForms, Ident
    <3> QED
      BY <1>1, <2>2, <3>1 DEF DescribesInv, Describes
  <2> QED
    BY <1>2, <2>1, <2>2 DEF Seed
<1>3. CASE \E verify \in BOOLEAN : Offload(verify)
  <2>1. disk.entry # None /\ disk' = [disk EXCEPT !.entry.local_state = "metadata-only"]
    BY <1>3 DEF Offload
  <2>2. disk \in Stores
    BY Parts DEF FileInv
  <2>3. /\ disk'.agreed = disk.agreed /\ disk'.doubt = disk.doubt
        /\ disk'.entry.size = disk.entry.size /\ disk'.entry.sha1 = disk.entry.sha1
    BY <2>1, <2>2 DEF Stores, IndexEntries
  <2>4. Describes(disk')
    BY <2>1, <2>3 DEF DescribesInv, Describes
  <2> QED
    BY <1>1, <2>4 DEF DescribesInv, Describes
<1>4. CASE TrashDeleted
  BY <1>1, <1>4, DescribesAgain DEF TrashDeleted
<1> QED
  BY <1>2, <1>3, <1>4 DEF Others

LEMMA StepDescribes ==
  ASSUME FileInv, DescribesInv, [Next]_vars
  PROVE  DescribesInv'
<1>1. CASE \/ UNCHANGED vars \/ Environment \/ CalmsDown
  <2>1. UNCHANGED <<disk, mem>>
    BY <1>1 DEF vars, command, Environment, UserWrites, UserDeletes, OtherUploads, OtherTrashes,
       CalmsDown
  <2> QED
    BY <2>1, DescribesAgain
<1>2. CASE Push
  <2>1. CASE PushIndexes
    BY <2>1, RecordsDescribe
  <2>2. CASE ~PushIndexes
    <3>1. disk' = disk /\ mem' \in {disk, mem}
      BY <1>2, <2>2 DEF Push, PushScan, Loads, PushPlan, UploadReturns, UploadLands,
         UploadLeavesNode, UploadConflicts, UploadLacksThumbnail, UploadFails,
         PushSendsRevision, PushMarksUnderdelivered, PushReports
    <3> QED
      BY <3>1, DescribesAgain
  <2> QED
    BY <2>1, <2>2
<1>3. CASE Pull
  <2>1. CASE PullIndexes
    BY <2>1, RecordsDescribe
  <2>2. CASE ~PullIndexes
    <3>1. disk' = disk /\ mem' \in {disk, mem}
      BY <1>3, <2>2 DEF Pull, PullScan, Loads, DownloadLands, DownloadVanishes, DownloadFails,
         PullFindsNothing
    <3> QED
      BY <3>1, DescribesAgain
  <2> QED
    BY <2>1, <2>2
<1>4. CASE Saves \/ Stops
  <2>1. disk' \in {disk, mem} /\ mem' = Empty
    BY <1>4 DEF Saves, Stops, Persists, Ends
  <2> QED
    BY <2>1, DescribesAgain
<1>5. CASE Others
  BY <1>5, OthersDescribe
<1> QED
  BY <1>1, <1>2, <1>3, <1>4, <1>5 DEF Next

(* A node that still holds the content an entry describes has not diverged *)
(* from it, when entry and listing speak of the same size.                 *)
LEMMA SameContentAgrees ==
  ASSUME FileInv, DescribesInv, disk.entry # None, node # None, ~disk.doubt,
         node.content = disk.agreed, disk.entry.sha1 = None <=> node.report = "nothing"
  PROVE  ~Remote_diverged(Ident, disk.entry)
<1>1. /\ disk.agreed \in Contents
      /\ \/ disk.entry.sha1 = disk.agreed /\ disk.entry.size = Size[disk.agreed]
         \/ disk.entry.sha1 = None /\ disk.entry.size = EncSize[disk.agreed]
  BY DEF DescribesInv, Describes
<1>2. /\ Ident.claimed_size = IF node.report = "nothing" THEN None ELSE Size[disk.agreed]
      /\ Ident.sha1 = IF node.report = "full" THEN disk.agreed ELSE None
      /\ Ident.size = EncSize[disk.agreed]
  BY DEF Ident
<1>3. Size[disk.agreed] # None /\ disk.agreed # None
  BY <1>1, ContentsAssumption
<1> QED
  BY <1>1, <1>2, <1>3 DEF Remote_diverged

-----------------------------------------------------------------------------
(* What the index of a store calls present was on Drive, however uploads   *)
(* and downloads fail, are cut short or are answered wrongly.              *)
THEOREM IndexedWasDelivered ==
  ASSUME Delivering
  PROVE  Spec => [](TypeOK /\ PresentWasOnDrive)
<1>1. FileInv /\ [Next]_vars => FileInv'
  BY StepInv
<1>2. FileInv => TypeOK /\ PresentWasOnDrive
  BY DEF FileInv
<1> QED
  BY <1>1, <1>2, InitInv, PTL DEF Spec

(* A file that Drive still holds as it was recorded is not called changed, *)
(* when entry and listing speak of the same size, whatever failed before:  *)
(* a full entry and a size Drive reports, or an entry a listing seeded and *)
(* a file of which it reports nothing.                                     *)
THEOREM NothingSeemsChanged ==
  ASSUME Delivering
  PROVE  Spec => []NoFalseDrift
<1> DEFINE Inv == FileInv /\ DescribesInv
<1>1. Init => Inv
  BY InitInv, EmptyTyped DEF Init, DescribesInv, Describes
<1>2. Inv /\ [Next]_vars => Inv'
  BY StepInv, StepDescribes
<1>3. Inv => NoFalseDrift
  <2> SUFFICES ASSUME Inv, disk.entry # None, node # None, ~disk.doubt,
                      node.content = disk.agreed,
                      disk.entry.sha1 = None <=> node.report = "nothing"
               PROVE  RemoteVerdict \notin {"remote-modified", "both-modified", "remote-changed"}
    BY DEF NoFalseDrift
  <2>1. ~Remote_diverged(Ident, disk.entry)
    BY SameContentAgrees
  <2> QED
    BY <2>1 DEF RemoteVerdict, Classify, Classify_present, Classify_absent
<1> QED
  BY <1>1, <1>2, <1>3, PTL DEF Spec

----------------------------------------------------------------------------------------------
(* What push knows of the revision it is about to replace.                 *)
Known ==
  \/ node.by # "other"
  \/ node.report # "full"
  \/ mem.entry # None /\ node.content = mem.entry.sha1
  \/ node.content \in Prefixes[file] \cup {file}

(* A push chose to send a revision by what its listing said of the node,   *)
(* which is no other device's when the underdelivered record names it; and *)
(* an entry for a present file has its digest.                             *)
RevisionInv ==
  /\ TypeInv
  /\ own # {} => node.by # "other"
  /\ \A store \in {disk, mem} :
       store.entry # None /\ store.entry.local_state = "present" => store.entry.sha1 # None
  /\ phase = "scanned" => (cmd.asked <=> cmd.strategy # None)
  /\ (/\ phase = "planned" /\ cmd.strategy \in {"merge", "replace"}
      /\ ~cmd.asked /\ raced # "since" /\ node # None) => Known

LEMMA RevisionInit == Init => RevisionInv
BY InitInv, EmptyTyped DEF Init, RevisionInv, TypeInv, FileInv, Pushing

(* Steps that leave the node, the records and the choice as they are. *)
LEMMA RevisionAgain ==
  ASSUME RevisionInv, TypeInv', own' \subseteq own \/ (own # {} /\ own' # {}), node' = node,
         disk' \in {disk, mem}, mem' \in {disk, mem, Empty}, phase' \notin {"scanned", "planned"}
  PROVE  RevisionInv'
BY EmptyTyped DEF RevisionInv

LEMMA RevisionPush ==
  ASSUME RevisionInv, TypeInv', Push
  PROVE  RevisionInv'
<1>1. TypeOK
  BY DEF RevisionInv, TypeInv
<1>2. ASSUME NEW strategy \in PushStrategies, PushScan(strategy) PROVE RevisionInv'
  <2>1. /\ UNCHANGED <<node, disk>> /\ mem' = disk /\ phase' = "scanned"
        /\ own' = IF "disk" \in own THEN {"disk", "mem"} ELSE {}
        /\ cmd' = [Idle EXCEPT !.op = "push", !.strategy = strategy, !.asked = strategy # None]
    BY <1>2 DEF PushScan, Loads
  <2>2. cmd'.strategy = strategy /\ (cmd'.asked <=> strategy # None)
    <3> DEFINE asked == strategy # None
    <3>1. cmd' = [Idle EXCEPT !.op = "push", !.strategy = strategy, !.asked = asked]
      BY <2>1
    <3>2. asked <=> strategy # None
      OBVIOUS
    <3> HIDE DEF asked
    <3> QED
      BY <3>1, <3>2 DEF Idle
  <2> QED
    BY <2>1, <2>2 DEF RevisionInv
<1>3. CASE PushPlan
  <2>1. /\ UNCHANGED <<own, file, node, disk, mem>> /\ phase' = "planned"
        /\ cmd' = IF cmd.strategy = None /\ Is_revision THEN [cmd EXCEPT !.strategy = "merge"]
                                                        ELSE cmd
    BY <1>3 DEF PushPlan, Decides
  <2>2. ASSUME Is_revision, node.report = "full" PROVE Known
    <3>1. node # None /\ node \in NodeForms /\ mem.entry # None
      BY <1>1, <2>2, Parts DEF Is_revision
    <3>2. Ident.sha1 = node.content /\ node.content # None
      BY <2>2, <3>1, ContentsAssumption DEF Ident, NodeForms
    <3>3. mem.entry.sha1 # None
      BY <2>2 DEF Is_revision, RevisionInv
    <3> QED
      BY <2>2, <3>1, <3>2, <3>3 DEF Is_revision, Known
  <2>3. ASSUME cmd'.strategy \in {"merge", "replace"}, ~cmd'.asked, node # None PROVE Known
    <3>1. Is_revision
      BY <1>3, <2>1, <2>3, SyncAssumption DEF RevisionInv, PushPlan
    <3> QED
      BY <2>2, <3>1 DEF Known
  <2> QED
    BY <2>1, <2>3 DEF RevisionInv, Known
<1>4. ASSUME NEW c \in Contents, NEW report \in Reports, NEW conflict \in BOOLEAN,
             NEW skip \in BOOLEAN, UploadLands(c, report, conflict, skip)
      PROVE  RevisionInv'
  BY <1>4 DEF UploadLands, Becomes, RevisionInv
<1>5. CASE (\E skip \in BOOLEAN : UploadLeavesNode(skip)) \/ UploadConflicts
  BY <1>5, RevisionAgain DEF UploadLeavesNode, UploadConflicts
<1>6. CASE UploadLacksThumbnail
  <2>1. cmd'.strategy = cmd.strategy /\ cmd'.asked = cmd.asked
    BY <1>1, <1>6, Parts DEF UploadLacksThumbnail, Commands
  <2> QED
    BY <1>6, <2>1 DEF UploadLacksThumbnail, RevisionInv, Known
<1>7. CASE UploadFails \/ PushReports
  BY <1>7, RevisionAgain DEF UploadFails, PushReports, Finish
<1>8. CASE PushIndexes
  <2>1. /\ UNCHANGED <<node, disk>> /\ phase' = "done" /\ own' = own \ {"mem"}
        /\ mem'.entry = Entry(scanned, "present") /\ scanned \in Contents
    BY <1>8 DEF PushIndexes, Sets, Finish, RevisionInv, TypeInv, Pushing
  <2>2. mem'.entry.sha1 = scanned /\ scanned # None
    BY <2>1, ContentsAssumption DEF Entry
  <2> QED
    BY <2>1, <2>2 DEF RevisionInv
<1>9. CASE PushSendsRevision
  <2>1. UNCHANGED <<own, file, node, disk, mem>> /\ IsOlder /\ phase' = "planned"
    BY <1>9 DEF PushSendsRevision
  <2>2. ASSUME node # None PROVE Known
    <3>1. node \in NodeForms
      BY <1>1, <2>2, Parts
    <3>2. CASE Is_older_copy
      <4>1. node.content = Ident.sha1
        BY <2>2, <3>2 DEF Is_older_copy, Ident
      <4> QED
        BY <3>2, <4>1 DEF Is_older_copy, Known
    <3>3. CASE Is_own_upload
      BY <3>3 DEF Is_own_upload, RevisionInv, Known
    <3> QED
      BY <2>1, <3>2, <3>3 DEF IsOlder
  <2> QED
    BY <2>1, <2>2 DEF RevisionInv, Known
<1>10. CASE PushMarksUnderdelivered
  <2>1. /\ UNCHANGED <<disk, mem>> /\ phase' = "done" /\ node \in NodeForms
        /\ node' = IF node.by = "other" THEN [node EXCEPT !.by = "claimed"] ELSE node
    BY <1>1, <1>10, Parts DEF PushMarksUnderdelivered, Finish, IsShort
  <2>2. node'.by # "other"
    BY <2>1 DEF NodeForms
  <2> QED
    BY <2>1, <2>2 DEF RevisionInv
<1> QED
  BY <1>2, <1>3, <1>4, <1>5, <1>6, <1>7, <1>8, <1>9, <1>10 DEF Push, UploadReturns

LEMMA RevisionPull ==
  ASSUME RevisionInv, TypeInv', Pull
  PROVE  RevisionInv'
<1>1. CASE \E resolve \in PullResolves, no_restore \in BOOLEAN : PullScan(resolve, no_restore)
  BY <1>1, RevisionAgain DEF PullScan, Loads, Finish
<1>2. CASE DownloadLands \/ DownloadVanishes \/ DownloadFails \/ PullFindsNothing
  BY <1>2, RevisionAgain DEF DownloadLands, DownloadVanishes, DownloadFails, PullFindsNothing,
     Finish
<1>3. CASE PullIndexes
  <2>1. /\ UNCHANGED <<node, disk>> /\ phase' = "done" /\ own' = own \ {"mem"}
        /\ mem'.entry = Entry(file, "present") /\ file \in Contents
    BY <1>3, Parts DEF PullIndexes, Sets, Finish, RevisionInv, TypeInv, Digests
  <2>2. mem'.entry.sha1 = file /\ file # None
    BY <2>1, ContentsAssumption DEF Entry
  <2> QED
    BY <2>1, <2>2 DEF RevisionInv
<1> QED
  BY <1>1, <1>2, <1>3 DEF Pull

LEMMA RevisionRest ==
  ASSUME RevisionInv, TypeInv', Environment \/ CalmsDown \/ Saves \/ Stops \/ Others
  PROVE  RevisionInv'
<1>1. CASE Environment \/ CalmsDown
  <2>1. UNCHANGED <<disk, mem, phase, cmd>>
    BY <1>1 DEF Environment, UserWrites, UserDeletes, OtherUploads, OtherTrashes, CalmsDown, command
  <2>2. phase = "planned" => raced' = "since"
    BY <1>1 DEF Environment, UserWrites, UserDeletes, OtherUploads, OtherTrashes, CalmsDown, Races
  <2>3. own' = {} \/ (own' = own /\ node' = node)
    BY <1>1 DEF Environment, UserWrites, UserDeletes, OtherUploads, OtherTrashes, CalmsDown, Becomes
  <2> QED
    BY <2>1, <2>2, <2>3 DEF RevisionInv
<1>2. CASE Saves \/ Stops
  <2>1. /\ node' = node /\ disk' \in {disk, mem} /\ mem' = Empty /\ phase' = "idle"
        /\ own # {} \/ own' = {}
    BY <1>2 DEF Saves, Stops, Persists, Ends
  <2> QED
    BY <2>1, EmptyTyped DEF RevisionInv
<1>3. CASE Others
  <2>1. phase = "idle" /\ UNCHANGED <<mem, phase>> /\ own' = {}
    BY <1>3 DEF Others, Seed, Offload, TrashDeleted, Becomes, command
  <2>2. disk'.entry # None => disk'.entry.local_state = "metadata-only"
    <3>1. CASE \E source \in SeedSources : Seed(source)
      BY <3>1 DEF Seed, Entry
    <3>2. CASE \E verify \in BOOLEAN : Offload(verify)
      BY <3>2, Parts DEF Offload, Stores, IndexEntries, RevisionInv, TypeInv
    <3>3. CASE TrashDeleted
      BY <3>3, EmptyTyped DEF TrashDeleted
    <3> QED
      BY <1>3, <3>1, <3>2, <3>3 DEF Others
  <2> QED
    BY <2>1, <2>2 DEF RevisionInv
<1> QED
  BY <1>1, <1>2, <1>3

LEMMA RevisionStep == RevisionInv /\ [Next]_vars => RevisionInv'
<1> SUFFICES ASSUME RevisionInv, [Next]_vars PROVE RevisionInv'
  OBVIOUS
<1>1. TypeInv'
  BY TypeStep DEF RevisionInv
<1>2. CASE UNCHANGED vars
  BY <1>1, <1>2 DEF vars, command, RevisionInv, Known
<1>3. CASE Next
  BY <1>1, <1>3, RevisionPush, RevisionPull, RevisionRest DEF Next
<1> QED
  BY <1>2, <1>3

(* However pushes were cut short, killed, retried or answered wrongly, and *)
(* however entries came into the index: a push nobody asked to resolve     *)
(* conflicts replaces another device's revision only if its listing showed *)
(* it as what this host last had in sync or the file has grown out of.     *)
THEOREM ReplacesOnlyKnown == Spec => PushReplacesNoOther
<1> DEFINE Promise ==
      (/\ phase = "planned" /\ phase' = "sent" /\ node' # node
       /\ node # None /\ ~cmd.asked /\ raced # "since") => Known
<1>1. ASSUME RevisionInv, [Next]_vars PROVE [Promise]_vars
  <2> SUFFICES ASSUME Next, phase = "planned", phase' = "sent", node' # node, node # None,
                      ~cmd.asked, raced # "since"
               PROVE  Known
    BY <1>1
  <2>1. \E c \in Contents, report \in Reports, conflict, skip \in BOOLEAN :
          UploadLands(c, report, conflict, skip)
    BY DEF Next, Environment, UserWrites, UserDeletes, OtherUploads, OtherTrashes, CalmsDown,
       Push, PushScan, PushPlan, UploadReturns, UploadLeavesNode, UploadConflicts,
       UploadLacksThumbnail, UploadFails, PushIndexes, PushSendsRevision,
       PushMarksUnderdelivered, PushReports, Pull, PullScan, DownloadLands, DownloadVanishes,
       DownloadFails, PullIndexes, PullFindsNothing, Saves, Stops, Ends, Others, Seed, Offload,
       TrashDeleted, Finish, command
  <2>2. cmd.strategy \in {"merge", "replace"}
    BY <2>1 DEF UploadLands
  <2> QED
    BY <1>1, <2>2 DEF RevisionInv
<1>2. [Promise]_vars =>
        [(/\ phase = "planned" /\ phase' = "sent" /\ node' # node
          /\ node # None /\ ~cmd.asked /\ raced # "since") =>
           \/ node.by # "other"
           \/ node.report # "full"
           \/ mem.entry # None /\ node.content = mem.entry.sha1
           \/ node.content \in Prefixes[file] \cup {file}]_vars
  BY DEF Known
<1> QED
  BY <1>1, <1>2, RevisionInit, RevisionStep, PTL DEF Spec, PushReplacesNoOther

------------------------------------------------------------
(* Trash.                                                                  *)
(* The first trashed item of a name is one, if there is one.               *)
FirstInv ==
  \A name \in Names : IF Trashed(name) = {} THEN first[name] = Absent
                      ELSE first[name] \in Trashed(name)

(* The path between whose trashing and its entry's end a command is. *)
Dropping == {"list", "delete", "drop"}
Dropped(rel) == run.phase \in Dropping /\ Beneath(rel, run.path)

(* A command's place tells what it is and which fields it uses. *)
PlaceInv ==
  /\ run.phase \in Dropping \cup {"rm", "manifest"} => run.op = "rm"
  /\ run.phase \in Dropping \cup {"info", "restore"} => run.path \in Paths
  /\ run.phase \in {"idle", "info", "restore"} => run.removed = {}
  /\ run.phase = "info" => run.from # Absent

(* What an index or the manifest has and Drive has not, the running rm     *)
(* took away and will drop.                                                *)
ForgetInv ==
  ~torn => /\ \A rel \in index : rel \in Live \/ Dropped(rel)
           /\ \A rel \in listed : \/ rel \in Live \/ Dropped(rel)
                                  \/ \E path \in run.removed : Beneath(rel, path)

(* A complete listing that still holds is what the trash has. *)
SeenInv ==
  ~stale =>
    /\ run.phase = "delete" => run.seen = Trashed(Name(run.path))
    /\ run.phase \in {"info", "restore"} =>
         /\ first[Name(run.path)] # Absent
         /\ run.from = nodes[first[Name(run.path)]].parent
    /\ run.phase = "restore" => run.parent = FolderId(run.path)

TrashInv == TrashTypeOK /\ FirstInv /\ PlaceInv /\ ForgetInv /\ SeenInv
-----------------------------------------------------------------------------
(* A path is a folder, a file beside the folders, or a file in one.        *)
LEMMA PathForms ==
  ASSUME NEW path \in Paths
  PROVE  \/ \E x \in Names : path = <<x>>
         \/ path \in Folders \X Files
BY DEF Paths, FilePaths, Names

LEMMA SinglePaths ==
  ASSUME NEW x \in Names
  PROVE  <<x>> \in Paths /\ Name(<<x>>) = x /\ FolderId(<<x>>) = 0
BY DEF Paths, FilePaths, Names, Name, FolderId

LEMMA DoublePaths ==
  ASSUME NEW path \in Folders \X Files
  PROVE  /\ path \in Paths /\ Name(path) = path[2] /\ Name(path) \in Files
         /\ FolderId(path) = Child(0, path[1]) /\ path[1] \in Folders /\ path[2] \in Files
         /\ path = <<path[1], path[2]>> /\ path[1] \in Names /\ path[2] \in Names
<1>1. PICK d \in Folders, f \in Files : path = <<d, f>>
  OBVIOUS
<1>2. path[1] = d /\ path[2] = f /\ Len(path) = 2
  BY <1>1
<1>3. Name(path) = path[2] /\ FolderId(path) = Child(0, path[1])
  BY <1>2 DEF Name, FolderId
<1> QED
  BY <1>1, <1>2, <1>3 DEF Paths, FilePaths, Names

LEMMA NamesOf ==
  ASSUME NEW path \in Paths
  PROVE  Name(path) \in Names
BY PathForms, SinglePaths, DoublePaths DEF Names

(* Which paths are beneath which. *)
LEMMA BeneathForms ==
  ASSUME NEW rel \in FilePaths, NEW path
  PROVE  /\ (\E x \in Names : rel = <<x>>) => (Beneath(rel, path) <=> path = rel)
         /\ rel \in Folders \X Files => (Beneath(rel, path) <=> path \in {rel, <<rel[1]>>})
BY DEF Beneath

(* A child is a node that is not in the trash, with this parent and name.  *)
LEMMA ChildIs ==
  ASSUME NEW parent, NEW name
  PROVE  /\ Child(parent, name) = Absent <=> Children(parent, name) = {}
         /\ Child(parent, name) # Absent => Child(parent, name) \in Children(parent, name)
<1>1. Children(parent, name) \subseteq Ids /\ Absent \notin Ids
  BY AbsentAssumption DEF Children, Ids
<1>2. CASE Children(parent, name) = {}
  BY <1>2 DEF Child
<1>3. CASE Children(parent, name) # {}
  <2>1. Child(parent, name) \in Children(parent, name)
    BY <1>3 DEF Child
  <2> QED
    BY <1>1, <1>3, <2>1
<1> QED
  BY <1>2, <1>3

(* Where the same nodes have a parent and a name, the same is their child. *)
LEMMA SameChild ==
  ASSUME NEW parent, NEW name, Children(parent, name)' = Children(parent, name)
  PROVE  Child(parent, name)' = Child(parent, name)
BY DEF Child

LEMMA LiveForms ==
  ASSUME NEW rel \in FilePaths
  PROVE  /\ rel \in Live <=> Node(rel) # Absent
         /\ \A x \in Names : rel = <<x>> => Node(rel) = Child(0, x)
         /\ rel \in Folders \X Files => Node(rel) = Child(Child(0, rel[1]), rel[2])
<1>1. rel \in Paths
  BY DEF Paths
<1>2. rel \in Live <=> Node(rel) # Absent
  BY <1>1 DEF Live
<1>3. ASSUME NEW x \in Names, rel = <<x>> PROVE Node(rel) = Child(0, x)
  BY <1>3, SinglePaths DEF Node
<1>4. ASSUME rel \in Folders \X Files PROVE Node(rel) = Child(Child(0, rel[1]), rel[2])
  BY <1>4, DoublePaths DEF Node
<1> QED
  BY <1>2, <1>3, <1>4

(* A step that takes no live node of a path away, and adds none to its     *)
(* folder's, leaves the path on Drive.                                     *)
LEMMA StaysLive ==
  ASSUME NEW rel \in FilePaths, rel \in Live,
         \A x \in Names : rel = <<x>> => Children(0, x) \subseteq Children(0, x)',
         rel \in Folders \X Files =>
           /\ Children(0, rel[1])' = Children(0, rel[1])
           /\ \A k : k = Child(0, rel[1]) => Children(k, rel[2]) \subseteq Children(k, rel[2])'
  PROVE  rel \in Live'
<1>0. rel \in Paths
  BY DEF Paths
<1>1. Node(rel) # Absent
  BY LiveForms
<1>2. CASE \E x \in Names : rel = <<x>>
  <2>1. PICK x \in Names : rel = <<x>>
    BY <1>2
  <2>2. Node(rel) = Child(0, x) /\ Node(rel)' = Child(0, x)'
    BY <2>1, SinglePaths DEF Node, FolderId
  <2>3. Children(0, x) # {}
    BY <1>1, <2>2, ChildIs
  <2>4. Children(0, x)' # {}
    BY <2>1, <2>3
  <2> QED
    BY <1>0, <2>2, <2>4, ChildIs, AbsentAssumption DEF Child, Live, Children, Ids
<1>3. CASE rel \in Folders \X Files
  <2> PICK k : k = Child(0, rel[1])
    OBVIOUS
  <2>1. Child(0, rel[1])' = k
    BY <1>3, SameChild
  <2>2. Node(rel) = Child(k, rel[2]) /\ Node(rel)' = Child(k, rel[2])'
    <3>1. FolderId(rel)' = k
      BY <1>3, <2>1, DoublePaths DEF FolderId
    <3> QED
      BY <1>3, <2>1, <3>1, DoublePaths DEF Node
  <2>3. Children(k, rel[2])' # {}
    BY <1>1, <1>3, <2>2, ChildIs
  <2>4. Child(k, rel[2])' \in Children(k, rel[2])'
    BY <2>3 DEF Child
  <2> QED
    BY <1>0, <2>2, <2>4, AbsentAssumption DEF Live, Children, Ids
<1> QED
  BY <1>0, <1>2, <1>3, PathForms

-----------------------------------------------------------------------------
LEMMA RestingTyped ==
  Resting \in [op : {Absent, "rm", "restore"},
               phase : {"idle", "rm", "list", "delete", "drop", "manifest", "info", "restore"},
               todo : SUBSET Paths, path : Paths \cup {Absent}, force : BOOLEAN,
               recursive : BOOLEAN, seen : SUBSET Ids, from : (0 .. MaxIds) \cup {Absent},
               parent : (0 .. MaxIds) \cup {Absent}, own : Ids \cup {Absent},
               removed : SUBSET Paths]
BY DEF Resting

LEMMA SpendTyped ==
  ASSUME TrashTypeOK, NEW what \in {"commands", "others", "mishaps"}, NEW n \in Nat,
         Spend(what, n)
  PROVE  left' \in [commands : Nat, others : Nat, mishaps : Nat]
BY DEF TrashTypeOK, Spend

LEMMA ListsHolds ==
  ASSUME Lists
  PROVE  FirstInv' /\ first' \in [Names -> Ids \cup {Absent}]
BY DEF Lists, FirstInv

(* Where nothing of this changes, the invariant stays. *)
LEMMA NodesAgain ==
  ASSUME FirstInv, UNCHANGED <<nodes, first>>
  PROVE  FirstInv' /\ Live' = Live
BY DEF FirstInv, Trashed, Live, Node, FolderId, Child, Children

LEMMA InitHolds == TrashInit => TrashInv
<1> SUFFICES ASSUME NEW d \in Folders, NEW f \in Files,
                    here \in SUBSET Folders,
                    nodes = [i \in Ids |-> CASE i = 1 -> [name |-> d, parent |-> 0, trashed |-> FALSE]
                                [] i = 2 -> [name |-> f, parent |-> 1, trashed |-> FALSE]
                                [] i = 3 -> [name |-> f, parent |-> 0, trashed |-> FALSE]
                                [] OTHER -> Absent],
                    first = [name \in Names |-> Absent], hidden = {},
                    index = {<<d, f>>, <<f>>}, listed = index, run = Resting,
                    left = [commands |-> MaxCommands, others |-> MaxOthers,
                            mishaps |-> MaxMishaps],
                    stale = FALSE, torn = FALSE
             PROVE  TrashInv
  BY DEF TrashInit
<1>1. {1, 2, 3} \subseteq Ids /\ d \in Names /\ f \in Names /\ d # f
  BY TrashAssumption DEF Ids, Names
<1>2. nodes \in [Ids -> Nodes \cup {Absent}]
  BY <1>1, TrashAssumption DEF Nodes, Ids
<1>3. TrashTypeOK
  <2>1. index \subseteq FilePaths /\ listed \subseteq FilePaths
    BY DEF FilePaths
  <2>2. left \in [commands : Nat, others : Nat, mishaps : Nat]
    BY TrashAssumption
  <2>3. first \in [Names -> Ids \cup {Absent}]
    OBVIOUS
  <2>4. run.phase # "restore"
    BY DEF Resting
  <2> QED
    BY <1>2, <2>1, <2>2, <2>3, <2>4, RestingTyped DEF TrashTypeOK
<1>4. FirstInv
  <2>1. \A i \in Ids : nodes[i] # Absent => ~nodes[i].trashed
    OBVIOUS
  <2> QED
    BY <2>1 DEF FirstInv, Trashed
<1>5. Children(0, d) = {1} /\ Children(1, f) = {2} /\ Children(0, f) = {3}
  <2>1. /\ nodes[1] = [name |-> d, parent |-> 0, trashed |-> FALSE]
        /\ nodes[2] = [name |-> f, parent |-> 1, trashed |-> FALSE]
        /\ nodes[3] = [name |-> f, parent |-> 0, trashed |-> FALSE]
        /\ \A i \in Ids \ {1, 2, 3} : nodes[i] = Absent
    BY <1>1
  <2>2. /\ \A x \in {1, 2, 3} : nodes[x] \in Nodes
        /\ \A x \in {1, 2, 3} : nodes[x] # Absent
    <3>1. {0, 1} \subseteq 0 .. MaxIds
      BY TrashAssumption
    <3>2. \A x \in {1, 2, 3} : nodes[x] \in Nodes
      BY <1>1, <2>1, <3>1 DEF Nodes
    <3> QED
      BY <3>2, AbsentAssumption
  <2> QED
    BY <1>1, <2>1, <2>2 DEF Children
<1>6. index \subseteq Live
  <2>1. Child(0, d) = 1 /\ Child(1, f) # Absent /\ Child(0, f) # Absent
    BY <1>5, ChildIs DEF Child
  <2>2. <<f>> \in FilePaths /\ <<d, f>> \in FilePaths /\ <<d, f>> \in Folders \X Files
    BY DEF FilePaths
  <2>3. <<d, f>>[1] = d /\ <<d, f>>[2] = f
    OBVIOUS
  <2> QED
    BY <1>1, <2>1, <2>2, <2>3, LiveForms
<1> QED
  BY <1>3, <1>4, <1>6 DEF TrashInv, PlaceInv, ForgetInv, SeenInv, Resting, Dropping

-----------------------------------------------------------------------------
(* A new node takes no other's place. *)
LEMMA UploadsHolds ==
  ASSUME TrashInv, NEW path \in FilePaths, Uploads(path)
  PROVE  /\ nodes' \in [Ids -> Nodes \cup {Absent}]
         /\ FirstInv' /\ UNCHANGED <<first, hidden>>
         /\ Live \cap FilePaths \subseteq Live'
         /\ path \in Live'
         /\ \A i \in Ids : nodes[i] # Absent => nodes'[i] = nodes[i]
<1>1. PICK id \in Ids :
        /\ Node(path) = Absent /\ Fresh(id)
        /\ FolderId(path) = Absent => id + 1 \in Ids
        /\ nodes' = IF FolderId(path) = Absent
                    THEN [nodes EXCEPT ![id] = [name |-> path[1], parent |-> 0, trashed |-> FALSE],
                            ![id + 1] = [name |-> Name(path), parent |-> id, trashed |-> FALSE]]
                    ELSE [nodes EXCEPT ![id] = [name |-> Name(path), parent |-> FolderId(path),
                                                trashed |-> FALSE]]
        /\ UNCHANGED <<first, hidden>>
  BY DEF Uploads
<1> DEFINE folder == FolderId(path)
           new == [name |-> Name(path), parent |-> IF folder = Absent THEN id ELSE folder,
                   trashed |-> FALSE]
           top == [name |-> path[1], parent |-> 0, trashed |-> FALSE]
<1>2. path \in Paths /\ Name(path) \in Names
  BY NamesOf DEF Paths
<1>3. nodes \in [Ids -> Nodes \cup {Absent}]
  BY DEF TrashInv, TrashTypeOK
<1>4. nodes[id] = Absent /\ (folder = Absent => nodes[id + 1] = Absent)
  BY <1>1 DEF Fresh, Ids
<1>5. folder \in 0 .. MaxIds \/ (folder = Absent /\ path \in Folders \X Files)
  <2>1. CASE \E x \in Names : path = <<x>>
    BY <2>1, SinglePaths, TrashAssumption
  <2>2. CASE path \in Folders \X Files
    BY <2>2, DoublePaths, ChildIs DEF Children, Ids
  <2> QED
    BY <1>2, <2>1, <2>2, PathForms
<1>6. new \in Nodes /\ (folder = Absent => top \in Nodes)
  <2>1. id \in 0 .. MaxIds /\ 0 \in 0 .. MaxIds
    BY TrashAssumption DEF Ids
  <2>2. folder = Absent => path[1] \in Names
    BY <1>5, DoublePaths, AbsentAssumption
  <2>3. folder # Absent => folder \in 0 .. MaxIds
    BY <1>5
  <2> QED
    BY <1>2, <2>1, <2>2, <2>3 DEF Nodes
<1>7. nodes' \in [Ids -> Nodes \cup {Absent}]
  BY <1>1, <1>3, <1>6
<1>8. \A i \in Ids : nodes[i] # Absent => nodes'[i] = nodes[i]
  BY <1>1, <1>3, <1>4
<1>9. \A i \in Ids : nodes[i] = Absent /\ nodes'[i] # Absent =>
        ~nodes'[i].trashed /\ nodes'[i] \in {new, top}
  BY <1>1, <1>3, <1>4
<1>10. \A name \in Names : Trashed(name)' = Trashed(name)
  BY <1>8, <1>9 DEF Trashed
<1>11. FirstInv'
  BY <1>1, <1>10 DEF FirstInv, TrashInv
<1>12. \A parent, name : Children(parent, name) \subseteq Children(parent, name)'
  BY <1>8 DEF Children
<1>13. ASSUME NEW d \in Folders, Children(0, d) # {} PROVE Children(0, d)' = Children(0, d)
  <2>1. ASSUME NEW i \in Children(0, d)', i \notin Children(0, d) PROVE FALSE
    <3>1. i \in Ids /\ nodes'[i] # Absent /\ nodes'[i].name = d /\ nodes'[i].parent = 0
      BY <2>1 DEF Children
    <3>2. nodes[i] = Absent
      BY <1>8, <2>1, <3>1 DEF Children
    <3>3. nodes'[i] \in {new, top}
      BY <1>9, <3>1, <3>2
    <3>4. CASE \E x \in Names : path = <<x>>
      <4>1. nodes'[i] = new
        <5>1. folder = 0 /\ 0 # Absent
          BY <3>4, SinglePaths, AbsentAssumption, TrashAssumption
        <5> QED
          BY <1>1, <1>3, <3>1, <3>2, <5>1
      <4>2. Name(path) \in Files
        BY <3>4 DEF FilePaths, Name
      <4> QED
        BY <3>1, <4>1, <4>2, TrashAssumption
    <3>5. CASE path \in Folders \X Files
      <4>1. nodes'[i] # new
        BY <3>1, <3>5, DoublePaths, TrashAssumption
      <4>2. path[1] = d
        <5>1. nodes'[i] = top
          BY <3>3, <4>1
        <5>2. top.name = path[1]
          OBVIOUS
        <5> QED
          BY <3>1, <5>1, <5>2
      <4>3. folder # Absent
        BY <1>13, <3>5, <4>2, DoublePaths, ChildIs
      <4> QED
        BY <1>1, <1>3, <3>1, <3>2, <4>1, <4>3
    <3> QED
      BY <1>2, <3>4, <3>5, PathForms
  <2> QED
    BY <1>12, <2>1
<1>14. Live \cap FilePaths \subseteq Live'
  <2> SUFFICES ASSUME NEW rel \in FilePaths, rel \in Live PROVE rel \in Live'
    OBVIOUS
  <2>1. rel \in Folders \X Files => Children(0, rel[1]) # {}
    <3> SUFFICES ASSUME rel \in Folders \X Files, Children(0, rel[1]) = {} PROVE FALSE
      OBVIOUS
    <3>1. Child(Child(0, rel[1]), rel[2]) # Absent
      BY LiveForms
    <3>2. Child(0, rel[1]) = Absent
      BY ChildIs
    <3>3. PICK i \in Ids : nodes[i] # Absent /\ nodes[i].parent = Absent
      BY <3>1, <3>2, ChildIs DEF Children
    <3> QED
      BY <1>3, <3>3, AbsentAssumption DEF Nodes
  <2>2. rel \in Folders \X Files => Children(0, rel[1])' = Children(0, rel[1])
    BY <1>13, <2>1, DoublePaths
  <2>3. /\ \A x \in Names : Children(0, x) \subseteq Children(0, x)'
        /\ \A k : Children(k, rel[2]) \subseteq Children(k, rel[2])'
    BY <1>12
  <2> QED
    BY <2>2, <2>3, StaysLive
<1>15. path \in Live'
  <2>1. CASE folder # Absent
    <3> PICK k : k = folder
      OBVIOUS
    <3>1. id \in Children(k, Name(path))'
      <4>1. nodes'[id] = new /\ new.parent = k /\ new.name = Name(path) /\ ~new.trashed
        BY <1>1, <1>3, <2>1
      <4>2. new # Absent
        BY <1>6, AbsentAssumption
      <4> QED
        BY <4>1, <4>2 DEF Children
    <3>2. FolderId(path)' = k
      <4>1. CASE \E x \in Names : path = <<x>>
        BY <4>1 DEF FolderId
      <4>2. CASE path \in Folders \X Files
        <5>1. Children(0, path[1]) # {}
          BY <2>1, <4>2, DoublePaths, ChildIs
        <5> QED
          BY <1>13, <4>2, <5>1, SameChild, DoublePaths DEF FolderId
      <4> QED
        BY <1>2, <4>1, <4>2, PathForms
    <3>3. Child(k, Name(path))' \in Ids
      BY <3>1 DEF Child, Children
    <3> QED
      BY <1>2, <3>2, <3>3, AbsentAssumption DEF Live, Node, Ids
  <2>2. CASE folder = Absent
    <3>1. /\ id \in Ids /\ id + 1 \in Ids /\ id # id + 1
          /\ nodes'[id] = top /\ nodes'[id + 1] = new
      <4>1. id + 1 \in Ids /\ id # id + 1
        BY <1>1, <2>2 DEF Ids
      <4> QED
        BY <1>1, <1>3, <2>2, <4>1
    <3>2. path \in Folders \X Files /\ Children(0, path[1]) = {}
      BY <1>5, <2>2, AbsentAssumption, DoublePaths, ChildIs
    <3>3. Children(0, path[1])' = {id}
      <4>1. id \in Children(0, path[1])'
        BY <1>6, <2>2, <3>1, AbsentAssumption DEF Children
      <4>2. ASSUME NEW i \in Children(0, path[1])' PROVE i = id
        <5>1. i \in Ids /\ nodes'[i] # Absent /\ nodes'[i].parent = 0
          BY <4>2 DEF Children
        <5>2. nodes[i] = Absent
          BY <1>8, <3>2, <4>2, <5>1 DEF Children
        <5> QED
          BY <1>1, <1>3, <2>2, <3>1, <5>1, <5>2 DEF Ids
      <4> QED
        BY <4>1, <4>2
    <3>4. FolderId(path)' = id
      BY <3>2, <3>3, DoublePaths DEF FolderId, Child
    <3>5. id + 1 \in Children(id, Name(path))'
      BY <1>6, <2>2, <3>1, AbsentAssumption DEF Children
    <3>6. Child(id, Name(path))' \in Ids
      BY <3>5 DEF Child, Children
    <3> QED
      BY <1>2, <3>4, <3>6, AbsentAssumption DEF Live, Node, Ids
  <2> QED
    BY <2>1, <2>2
<1> QED
  BY <1>1, <1>7, <1>8, <1>11, <1>14, <1>15

-----------------------------------------------------------------------------
(* The node of a path is on Drive, with its name, in its folder. *)
LEMMA NodeIs ==
  ASSUME NEW path \in Paths, Node(path) # Absent
  PROVE  /\ Node(path) \in Ids /\ nodes[Node(path)] # Absent /\ ~nodes[Node(path)].trashed
         /\ nodes[Node(path)].name = Name(path) /\ nodes[Node(path)].parent = FolderId(path)
         /\ FolderId(path) = 0 => path = <<Name(path)>>
         /\ FolderId(path) # 0 =>
              /\ path \in Folders \X Files
              /\ FolderId(path) = Absent \/ FolderId(path) \in Children(0, path[1])
<1>1. Node(path) \in Children(FolderId(path), Name(path))
  BY ChildIs DEF Node
<1>2. CASE \E x \in Names : path = <<x>>
  BY <1>1, <1>2, SinglePaths DEF Children
<1>3. CASE path \in Folders \X Files
  <2>1. FolderId(path) = Absent \/ FolderId(path) \in Children(0, path[1])
    BY <1>3, DoublePaths, ChildIs
  <2>2. FolderId(path) # 0
    BY <2>1, AbsentAssumption, TrashAssumption DEF Children, Ids
  <2> QED
    BY <1>1, <1>3, <2>1, <2>2 DEF Children
<1> QED
  BY <1>2, <1>3, PathForms

LEMMA TrashesHolds ==
  ASSUME TrashInv, NEW n \in Ids, nodes[n] # Absent, ~nodes[n].trashed, Trashes(n)
  PROVE  /\ nodes' \in [Ids -> Nodes \cup {Absent}]
         /\ first' \in [Names -> Ids \cup {Absent}] /\ FirstInv'
         /\ \A parent, name : nodes[n].parent # parent \/ nodes[n].name # name =>
              Children(parent, name)' = Children(parent, name)
<1>1. nodes \in [Ids -> Nodes \cup {Absent}] /\ nodes[n] \in Nodes
  BY DEF TrashInv, TrashTypeOK
<1>2. nodes' = [nodes EXCEPT ![n].trashed = TRUE] /\ Lists
  BY DEF Trashes
<1>3. nodes'[n] \in Nodes /\ nodes'[n].trashed /\ \A i \in Ids \ {n} : nodes'[i] = nodes[i]
  BY <1>1, <1>2 DEF Nodes
<1>4. nodes' \in [Ids -> Nodes \cup {Absent}]
  BY <1>1, <1>2, <1>3
<1>5. ASSUME NEW parent, NEW name, nodes[n].parent # parent \/ nodes[n].name # name
      PROVE  Children(parent, name)' = Children(parent, name)
  BY <1>3, <1>5 DEF Children
<1> QED
  BY <1>2, <1>4, <1>5, ListsHolds

(* Trashing a path's node leaves what is not beneath the path.             *)
LEMMA TrashedPath ==
  ASSUME TrashInv, NEW path \in Paths, Node(path) # Absent, Trashes(Node(path)),
         NEW rel \in FilePaths, rel \in Live, ~Beneath(rel, path)
  PROVE  rel \in Live'
<1> DEFINE n == Node(path)
<1>1. \A parent, name : nodes[n].parent # parent \/ nodes[n].name # name =>
        Children(parent, name)' = Children(parent, name)
  BY NodeIs, TrashesHolds
<1>2. ASSUME NEW x \in Names, rel = <<x>> PROVE Children(0, x) \subseteq Children(0, x)'
  <2>1. nodes[n].parent # 0 \/ nodes[n].name # x
    BY <1>2, NodeIs, BeneathForms
  <2> QED
    BY <1>1, <2>1
<1>3. ASSUME rel \in Folders \X Files
      PROVE  /\ Children(0, rel[1])' = Children(0, rel[1])
             /\ \A k : k = Child(0, rel[1]) => Children(k, rel[2]) \subseteq Children(k, rel[2])'
  <2>1. nodes[n].parent # 0 \/ nodes[n].name # rel[1]
    BY <1>3, NodeIs, BeneathForms
  <2>2. ASSUME NEW k, k = Child(0, rel[1]) PROVE Children(k, rel[2]) \subseteq Children(k, rel[2])'
    <3>1. k \in Children(0, rel[1])
      <4>1. CASE k = Absent
        <5>1. Child(Absent, rel[2]) # Absent
          BY <1>3, <2>2, <4>1, LiveForms
        <5>2. PICK i \in Ids : nodes[i] # Absent /\ nodes[i].parent = Absent
          BY <5>1, ChildIs DEF Children
        <5> QED
          BY <5>2, AbsentAssumption DEF TrashInv, TrashTypeOK, Nodes
      <4> QED
        BY <2>2, <4>1, ChildIs
    <3>2. nodes[n].parent # k \/ nodes[n].name # rel[2]
      <4> SUFFICES ASSUME nodes[n].parent = k, nodes[n].name = rel[2] PROVE FALSE
        OBVIOUS
      <4>1. k \in Ids /\ k # 0 /\ k # Absent /\ nodes[k].name = rel[1]
        BY <3>1, AbsentAssumption DEF Children, Ids
      <4>2. path \in Folders \X Files /\ k \in Children(0, path[1])
        BY <4>1, NodeIs
      <4>3. path[1] = rel[1]
        BY <4>1, <4>2 DEF Children
      <4>4. path[2] = rel[2]
        BY <4>2, NodeIs, DoublePaths
      <4> QED
        BY <1>3, <4>2, <4>3, <4>4, BeneathForms
    <3> QED
      BY <1>1, <3>2
  <2> QED
    BY <1>1, <2>1, <2>2
<1> QED
  BY <1>2, <1>3, StaysLive

(* What goes for good from the trash takes nothing live with it. *)
LEMMA RemovesHolds ==
  ASSUME TrashInv, NEW ids \in SUBSET Ids, \A i \in ids : nodes[i] # Absent /\ nodes[i].trashed,
         Removes(ids)
  PROVE  /\ nodes' \in [Ids -> Nodes \cup {Absent}]
         /\ first' \in [Names -> Ids \cup {Absent}] /\ FirstInv' /\ hidden' \subseteq Ids
         /\ Live \cap FilePaths \subseteq Live'
<1> DEFINE gone == {i \in Ids : nodes[i] # Absent /\ (i \in ids \/ nodes[i].parent \in ids)}
<1>1. nodes' = [i \in Ids |-> IF i \in gone THEN Absent ELSE nodes[i]]
      /\ hidden' = hidden \ gone /\ Lists
  BY DEF Removes
<1>2. nodes' \in [Ids -> Nodes \cup {Absent}] /\ hidden' \subseteq Ids
  BY <1>1 DEF TrashInv, TrashTypeOK
<1>3. \A parent, name : parent \notin ids => Children(parent, name)' = Children(parent, name)
  BY <1>1 DEF Children
<1>4. 0 \notin ids
  BY DEF Ids
<1>5. \A d : Child(0, d) \notin ids
  <2> SUFFICES ASSUME NEW d, Child(0, d) \in ids PROVE FALSE
    OBVIOUS
  <2>1. Child(0, d) # Absent
    <3>1. Absent \notin Ids
      BY AbsentAssumption DEF Ids
    <3> QED
      BY <3>1
  <2> QED
    BY <2>1, ChildIs DEF Children
<1>6. ASSUME NEW rel \in FilePaths, rel \in Live PROVE rel \in Live'
  <2>1. \A x \in Names : Children(0, x) \subseteq Children(0, x)'
    BY <1>3, <1>4
  <2>2. /\ Children(0, rel[1])' = Children(0, rel[1])
        /\ \A k : k = Child(0, rel[1]) => Children(k, rel[2]) \subseteq Children(k, rel[2])'
    BY <1>3, <1>4, <1>5
  <2> QED
    BY <1>6, <2>1, <2>2, StaysLive
<1> QED
  BY <1>1, <1>2, <1>6, ListsHolds

-----------------------------------------------------------------------------
(* The parts of the type invariant that a step of a command changes. *)
Runs == [op : {Absent, "rm", "restore"},
         phase : {"idle", "rm", "list", "delete", "drop", "manifest", "info", "restore"},
         todo : SUBSET Paths, path : Paths \cup {Absent}, force : BOOLEAN,
         recursive : BOOLEAN, seen : SUBSET Ids, from : (0 .. MaxIds) \cup {Absent},
         parent : (0 .. MaxIds) \cup {Absent}, own : Ids \cup {Absent},
         removed : SUBSET Paths]
Lefts == [commands : Nat, others : Nat, mishaps : Nat]

LEMMA TrashTypedAgain ==
  ASSUME TrashTypeOK, here' = here, nodes' \in [Ids -> Nodes \cup {Absent}],
         first' \in [Names -> Ids \cup {Absent}], hidden' \subseteq Ids,
         index' \subseteq FilePaths, listed' \subseteq FilePaths, run' \in Runs,
         run'.phase = "restore" => run'.from # Absent /\ run'.parent # Absent,
         left' \in Lefts, stale' \in BOOLEAN, torn' \in BOOLEAN
  PROVE  TrashTypeOK'
BY DEF TrashTypeOK, Runs, Lefts

LEMMA PushAgainHolds == TrashInv /\ PushAgain => TrashInv'
<1> SUFFICES ASSUME TrashInv, PushAgain PROVE TrashInv'
  OBVIOUS
<1>1. PICK path \in FilePaths : /\ Uploads(path)
                                /\ index' = index \cup {path}
                                /\ listed' = listed \cup {path}
  BY DEF PushAgain
<1>2. UNCHANGED <<here, run, stale, torn>> /\ Spend("others", 1) /\ run.phase = "idle"
  BY DEF PushAgain
<1>3. left' \in Lefts
  BY <1>2, SpendTyped DEF TrashInv, Lefts
<1>4. /\ nodes' \in [Ids -> Nodes \cup {Absent}]
      /\ FirstInv' /\ UNCHANGED <<first, hidden>>
      /\ Live \cap FilePaths \subseteq Live' /\ path \in Live'
  BY <1>1, UploadsHolds
<1>5. TrashTypeOK'
  BY <1>1, <1>2, <1>3, <1>4, TrashTypedAgain DEF TrashInv, TrashTypeOK, Runs
<1>6. PlaceInv' /\ SeenInv'
  BY <1>2 DEF TrashInv, PlaceInv, SeenInv, Dropping
<1>7. ForgetInv'
  <2>1. run.removed = {} /\ ~Dropped(path) /\ \A rel : ~Dropped(rel)
    BY <1>2 DEF TrashInv, PlaceInv, Dropped, Dropping
  <2> QED
    BY <1>1, <1>2, <1>4, <2>1 DEF TrashInv, ForgetInv, TrashTypeOK
<1> QED
  BY <1>4, <1>5, <1>6, <1>7 DEF TrashInv

(* What is alive of an index stays so if every live path of it does. *)
LEMMA ForgetsAgain ==
  ASSUME TrashInv, UNCHANGED <<index, listed, run, torn>>,
         \A rel \in index \cup listed : rel \in Live => rel \in Live'
  PROVE  ForgetInv'
BY DEF TrashInv, ForgetInv, Dropped

LEMMA OtherDeviceHolds == TrashInv /\ OtherDevice => TrashInv'
<1> SUFFICES ASSUME TrashInv, OtherDevice PROVE TrashInv'
  OBVIOUS
<1>1. /\ UNCHANGED <<here, index, listed, run, torn>>
      /\ Spend("others", 1) /\ stale' = TRUE
  BY DEF OtherDevice
<1>2. left' \in Lefts
  BY <1>1, SpendTyped DEF TrashInv, Lefts
<1>3. PlaceInv' /\ SeenInv'
  BY <1>1 DEF TrashInv, PlaceInv, SeenInv, Dropping
<1>4. SUFFICES /\ nodes' \in [Ids -> Nodes \cup {Absent}]
               /\ first' \in [Names -> Ids \cup {Absent}] /\ FirstInv' /\ hidden' \subseteq Ids
               /\ \A rel \in index \cup listed : rel \in Live => rel \in Live'
  <2>1. TrashTypeOK'
    BY <1>1, <1>2, <1>4, TrashTypedAgain DEF TrashInv, TrashTypeOK, Runs
  <2> QED
    BY <1>1, <1>3, <1>4, <2>1, ForgetsAgain DEF TrashInv
<1>5. index \cup listed \subseteq FilePaths /\ hidden \subseteq Ids
      /\ first \in [Names -> Ids \cup {Absent}]
  BY DEF TrashInv, TrashTypeOK
<1>6. CASE \E f \in Files : <<f>> \notin index \cup listed /\ Uploads(<<f>>)
  <2>1. PICK f \in Files : Uploads(<<f>>)
    BY <1>6
  <2>2. <<f>> \in FilePaths
    BY DEF FilePaths
  <2> QED
    BY <1>5, <2>1, <2>2, UploadsHolds
<1>7. CASE \E i \in Ids : /\ Foreign(i) /\ ~nodes[i].trashed
                          /\ <<nodes[i].name>> \notin index \cup listed
                          /\ Trashes(i) /\ UNCHANGED hidden
  <2>1. PICK i \in Ids : /\ Foreign(i) /\ ~nodes[i].trashed
                         /\ <<nodes[i].name>> \notin index \cup listed
                         /\ Trashes(i) /\ UNCHANGED hidden
    BY <1>7
  <2>2. nodes[i] # Absent /\ nodes[i].parent = 0 /\ nodes[i].name \in Files
    BY <2>1 DEF Foreign
  <2>3. /\ nodes' \in [Ids -> Nodes \cup {Absent}]
        /\ first' \in [Names -> Ids \cup {Absent}] /\ FirstInv'
        /\ \A parent, name : nodes[i].parent # parent \/ nodes[i].name # name =>
             Children(parent, name)' = Children(parent, name)
    BY <2>1, <2>2, TrashesHolds
  <2>4. ASSUME NEW rel \in index \cup listed, rel \in Live PROVE rel \in Live'
    <3>1. rel \in FilePaths
      BY <1>5, <2>4
    <3>2. \A x \in Names : rel = <<x>> => Children(0, x) \subseteq Children(0, x)'
      BY <2>1, <2>3, <2>4
    <3>3. ASSUME rel \in Folders \X Files
          PROVE  /\ Children(0, rel[1])' = Children(0, rel[1])
                 /\ \A k : k = Child(0, rel[1]) => Children(k, rel[2]) \subseteq Children(k, rel[2])'
      <4>1. rel[1] # nodes[i].name
        BY <2>2, <3>3, DoublePaths, TrashAssumption
      <4>2. Child(0, rel[1]) # 0
        BY ChildIs, AbsentAssumption, TrashAssumption DEF Children, Ids
      <4> QED
        BY <2>2, <2>3, <4>1, <4>2
    <3> QED
      BY <2>4, <3>1, <3>2, <3>3, StaysLive
  <2> QED
    BY <1>5, <2>1, <2>3, <2>4
<1>8. CASE \E i \in Ids : Foreign(i) /\ nodes[i].trashed /\ Removes({i})
  <2>1. PICK i \in Ids : Foreign(i) /\ nodes[i].trashed /\ Removes({i})
    BY <1>8
  <2>2. {i} \in SUBSET Ids /\ \A j \in {i} : nodes[j] # Absent /\ nodes[j].trashed
    BY <2>1 DEF Foreign
  <2> QED
    BY <1>5, <2>1, <2>2, RemovesHolds
<1> QED
  BY <1>6, <1>7, <1>8 DEF OtherDevice

LEMMA AppearsHolds == TrashInv /\ Appears => TrashInv'
<1> SUFFICES ASSUME TrashInv, Appears PROVE TrashInv'
  OBVIOUS
<1>1. UNCHANGED <<here, nodes, first, index, listed, run, left, stale, torn>>
      /\ hidden' \subseteq hidden
  BY DEF Appears
<1>2. FirstInv' /\ Live' = Live
  BY <1>1, NodesAgain DEF TrashInv
<1>3. TrashTypeOK'
  BY <1>1 DEF TrashInv, TrashTypeOK
<1>4. PlaceInv' /\ ForgetInv'
  BY <1>1, <1>2 DEF TrashInv, PlaceInv, ForgetInv, Dropped, Dropping
<1>5. SeenInv'
  BY <1>1 DEF TrashInv, SeenInv, Trashed, FolderId, Child, Children
<1> QED
  BY <1>2, <1>3, <1>4, <1>5 DEF TrashInv

-----------------------------------------------------------------------------
LEMMA RmBeginsHolds == TrashInv /\ RmBegins => TrashInv'
<1> SUFFICES ASSUME TrashInv, RmBegins PROVE TrashInv'
  OBVIOUS
<1>1. PICK paths \in SUBSET Paths, force \in BOOLEAN, recursive \in BOOLEAN :
        run' = [Resting EXCEPT !.op = "rm", !.phase = "rm", !.todo = paths, !.force = force,
                  !.recursive = recursive]
  BY DEF RmBegins
<1>2. UNCHANGED <<here, nodes, first, hidden, index, listed, torn>> /\ stale' = FALSE
      /\ Spend("commands", 1) /\ run.phase = "idle"
  BY DEF RmBegins
<1>3. left' \in Lefts
  BY <1>2, SpendTyped DEF TrashInv, Lefts
<1>4. run' \in Runs /\ run'.phase = "rm" /\ run'.op = "rm" /\ run'.removed = {}
  BY <1>1, RestingTyped DEF Resting, Runs
<1>5. TrashTypeOK'
  BY <1>2, <1>3, <1>4, TrashTypedAgain DEF TrashInv, TrashTypeOK
<1>6. FirstInv' /\ Live' = Live
  BY <1>2, NodesAgain DEF TrashInv
<1>7. PlaceInv' /\ SeenInv'
  BY <1>4 DEF PlaceInv, SeenInv, Dropping
<1>8. ForgetInv'
  <2>1. run.removed = {} /\ \A rel : ~Dropped(rel)
    BY <1>2 DEF TrashInv, PlaceInv, Dropped, Dropping
  <2> QED
    BY <1>2, <1>6, <2>1 DEF TrashInv, ForgetInv
<1> QED
  BY <1>5, <1>6, <1>7, <1>8 DEF TrashInv

LEMMA RmTrashesHolds == TrashInv /\ RmTrashes => TrashInv'
<1> SUFFICES ASSUME TrashInv, RmTrashes PROVE TrashInv'
  OBVIOUS
<1>1. PICK path \in run.todo, fails \in BOOLEAN, lands \in BOOLEAN :
        LET done == lands /\ ~Refused(path) /\ Node(path) # Absent
        IN /\ Spend("mishaps", IF fails THEN 1 ELSE 0)
           /\ ~fails => lands
           /\ IF done
              THEN /\ Trashes(Node(path))
                   /\ \/ hidden' = hidden \cup {Node(path)}
                      \/ hidden' = hidden
              ELSE UNCHANGED <<nodes, first, hidden>>
           /\ run' = IF done /\ ~fails
                     THEN [run EXCEPT !.phase = IF run.force THEN "list" ELSE "drop",
                             !.todo = @ \ {path}, !.path = path, !.own = Node(path)]
                     ELSE [run EXCEPT !.phase = "manifest", !.todo = {}]
           /\ torn' = (torn \/ (done /\ fails))
  BY DEF RmTrashes
<1>2. UNCHANGED <<here, index, listed, stale>> /\ run.phase = "rm"
  BY DEF RmTrashes
<1> DEFINE done == lands /\ ~Refused(path) /\ Node(path) # Absent
<1>3. left' \in Lefts
  BY <1>1, SpendTyped DEF TrashInv, Lefts
<1>4. run \in Runs /\ path \in Paths /\ run.op = "rm" /\ \A rel : ~Dropped(rel)
  BY <1>1, <1>2 DEF TrashInv, TrashTypeOK, PlaceInv, Dropped, Dropping, Runs
<1>0. torn \in BOOLEAN /\ torn' \in BOOLEAN
  BY <1>1 DEF TrashInv, TrashTypeOK
<1>5. CASE ~done
  <2>1. /\ run' = [run EXCEPT !.phase = "manifest", !.todo = {}]
        /\ UNCHANGED <<here, nodes, first, hidden>> /\ torn' = torn
    BY <1>0, <1>1, <1>2, <1>5
  <2>2. run' \in Runs /\ run'.phase = "manifest" /\ run'.op = "rm" /\ run'.removed = run.removed
    BY <1>4, <2>1 DEF Runs
  <2>3. TrashTypeOK'
    BY <1>0, <1>2, <1>3, <2>1, <2>2, TrashTypedAgain DEF TrashInv, TrashTypeOK
  <2>4. FirstInv' /\ Live' = Live
    BY <2>1, NodesAgain DEF TrashInv
  <2>5. PlaceInv' /\ SeenInv'
    BY <2>2 DEF PlaceInv, SeenInv, Dropping
  <2>6. ForgetInv'
    BY <1>2, <1>4, <2>1, <2>2, <2>4 DEF TrashInv, ForgetInv
  <2> QED
    BY <2>3, <2>4, <2>5, <2>6 DEF TrashInv
<1>6. CASE done
  <2> DEFINE n == Node(path)
  <2>1. /\ Trashes(n)
        /\ hidden' = hidden \cup {n} \/ hidden' = hidden
        /\ n \in Ids /\ nodes[n] # Absent /\ ~nodes[n].trashed
    BY <1>1, <1>4, <1>6, NodeIs
  <2>2. /\ run' \in Runs /\ run'.op = "rm" /\ run'.removed = run.removed
        /\ \/ run'.phase \in {"list", "drop"} /\ run'.path = path /\ torn' = torn
           \/ run'.phase = "manifest" /\ torn'
    <3>1. CASE fails
      BY <1>0, <1>1, <1>4, <1>6, <3>1 DEF Runs
    <3>2. CASE ~fails
      <4>1. /\ run' = [run EXCEPT !.phase = IF run.force THEN "list" ELSE "drop",
                          !.todo = @ \ {path}, !.path = path, !.own = n]
            /\ torn' = torn
        BY <1>0, <1>1, <1>6, <3>2
      <4> QED
        BY <1>4, <2>1, <4>1 DEF Runs
    <3> QED
      BY <3>1, <3>2
  <2>3. /\ nodes' \in [Ids -> Nodes \cup {Absent}]
        /\ first' \in [Names -> Ids \cup {Absent}] /\ FirstInv'
    BY <2>1, TrashesHolds
  <2>4. TrashTypeOK'
    <3>1. hidden' \subseteq Ids
      BY <2>1 DEF TrashInv, TrashTypeOK
    <3> QED
      BY <1>0, <1>2, <1>3, <2>2, <2>3, <3>1, TrashTypedAgain DEF TrashInv, TrashTypeOK
  <2>5. PlaceInv' /\ SeenInv'
    BY <1>4, <2>2 DEF PlaceInv, SeenInv, Dropping
  <2>6. ForgetInv'
    <3> SUFFICES ASSUME ~torn' PROVE ForgetInv'
      BY DEF ForgetInv
    <3>1. ~torn /\ \A rel : Dropped(rel)' <=> Beneath(rel, path)
      BY <2>2 DEF Dropped, Dropping, Beneath
    <3>2. \A rel \in FilePaths : rel \in Live /\ ~Beneath(rel, path) => rel \in Live'
      BY <1>4, <1>6, <2>1, TrashedPath
    <3>3. index \cup listed \subseteq FilePaths
      BY DEF TrashInv, TrashTypeOK
    <3> QED
      BY <1>2, <1>4, <2>2, <3>1, <3>2, <3>3 DEF TrashInv, ForgetInv
  <2> QED
    BY <2>3, <2>4, <2>5, <2>6 DEF TrashInv
<1> QED
  BY <1>5, <1>6

LEMMA AbandonsHolds == TrashInv /\ run.phase \in Dropping /\ Abandons => TrashInv'
<1> SUFFICES ASSUME TrashInv, run.phase \in Dropping, Abandons PROVE TrashInv'
  OBVIOUS
<1>1. /\ run' = [run EXCEPT !.phase = "manifest", !.todo = {}, !.path = Absent, !.own = Absent,
                   !.seen = {}]
      /\ torn' = TRUE /\ Spend("mishaps", 1)
      /\ UNCHANGED <<here, nodes, first, hidden, index, listed, stale>>
  BY DEF Abandons
<1>2. left' \in Lefts
  BY <1>1, SpendTyped DEF TrashInv, Lefts
<1>3. run' \in Runs /\ run'.phase = "manifest" /\ run'.op = "rm"
  BY <1>1 DEF TrashInv, TrashTypeOK, PlaceInv, Runs
<1>4. TrashTypeOK'
  BY <1>1, <1>2, <1>3, TrashTypedAgain DEF TrashInv, TrashTypeOK
<1>5. FirstInv'
  BY <1>1, NodesAgain DEF TrashInv
<1>6. PlaceInv' /\ SeenInv' /\ ForgetInv'
  BY <1>1, <1>3 DEF PlaceInv, SeenInv, ForgetInv, Dropping
<1> QED
  BY <1>4, <1>5, <1>6 DEF TrashInv

LEMMA RmListsHolds == TrashInv /\ RmLists => TrashInv'
<1> SUFFICES ASSUME TrashInv, RmLists PROVE TrashInv'
  OBVIOUS
<1>1. run.phase = "list" /\ run.phase \in Dropping
  BY DEF RmLists, Dropping
<1>2. CASE Abandons
  BY <1>1, <1>2, AbandonsHolds
<1>3. CASE /\ run' = [run EXCEPT !.phase = "delete", !.seen = Shown(Name(run.path))]
           /\ stale' = (hidden # {})
           /\ UNCHANGED <<here, nodes, first, hidden, index, listed, left, torn>>
  <2>1. Shown(Name(run.path)) \subseteq Ids
    BY DEF Shown, Trashed
  <2>2. /\ run' \in Runs /\ run'.phase = "delete" /\ run'.op = "rm" /\ run'.path = run.path
        /\ run.path \in Paths /\ run'.removed = run.removed
        /\ run'.seen = Shown(Name(run.path))
    BY <1>1, <1>3, <2>1 DEF TrashInv, TrashTypeOK, PlaceInv, Runs
  <2>3. TrashTypeOK'
    BY <1>3, <2>2, TrashTypedAgain DEF TrashInv, TrashTypeOK, Lefts
  <2>4. FirstInv' /\ Live' = Live
    BY <1>3, NodesAgain DEF TrashInv
  <2>5. PlaceInv' /\ ForgetInv'
    BY <1>1, <1>3, <2>2, <2>4 DEF TrashInv, PlaceInv, ForgetInv, Dropped, Dropping
  <2>6. SeenInv'
    BY <1>3, <2>2 DEF SeenInv, Shown, Trashed
  <2> QED
    BY <2>3, <2>4, <2>5, <2>6 DEF TrashInv
<1> QED
  BY <1>2, <1>3 DEF RmLists

LEMMA RmDeletesHolds == TrashInv /\ RmDeletes => TrashInv'
<1> SUFFICES ASSUME TrashInv, RmDeletes PROVE TrashInv'
  OBVIOUS
<1>1. run.phase = "delete" /\ run.phase \in Dropping
  BY DEF RmDeletes, Dropping
<1>2. CASE Abandons
  BY <1>1, <1>2, AbandonsHolds
<1>3. CASE /\ IF Single(run.seen) /\ first[Name(run.path)] # Absent
              THEN Removes({first[Name(run.path)]})
              ELSE UNCHANGED <<nodes, first, hidden>>
           /\ run' = [run EXCEPT !.phase = "drop", !.seen = {}]
           /\ UNCHANGED <<here, index, listed, left, stale, torn>>
  <2>1. /\ run' \in Runs /\ run'.phase = "drop" /\ run'.op = "rm" /\ run'.path = run.path
        /\ run.path \in Paths /\ run'.removed = run.removed
    BY <1>1, <1>3 DEF TrashInv, TrashTypeOK, PlaceInv, Runs
  <2>2. /\ nodes' \in [Ids -> Nodes \cup {Absent}]
        /\ first' \in [Names -> Ids \cup {Absent}] /\ FirstInv' /\ hidden' \subseteq Ids
        /\ Live \cap FilePaths \subseteq Live'
    <3>1. CASE Single(run.seen) /\ first[Name(run.path)] # Absent
      <4> DEFINE i == first[Name(run.path)]
      <4>1. Name(run.path) \in Names
        BY <2>1, NamesOf
      <4>2. i \in Trashed(Name(run.path))
        BY <3>1, <4>1 DEF TrashInv, FirstInv
      <4>3. {i} \in SUBSET Ids /\ \A j \in {i} : nodes[j] # Absent /\ nodes[j].trashed
        BY <4>2 DEF Trashed
      <4>4. Removes({i})
        BY <1>3, <3>1
      <4> QED
        BY <4>3, <4>4, RemovesHolds
    <3>2. CASE ~(Single(run.seen) /\ first[Name(run.path)] # Absent)
      BY <1>3, <3>2, NodesAgain DEF TrashInv, TrashTypeOK
    <3> QED
      BY <3>1, <3>2
  <2>3. TrashTypeOK'
    BY <1>3, <2>1, <2>2, TrashTypedAgain DEF TrashInv, TrashTypeOK, Lefts
  <2>4. PlaceInv' /\ SeenInv'
    BY <1>1, <2>1 DEF PlaceInv, SeenInv, Dropping
  <2>5. ForgetInv'
    <3>1. \A rel : Dropped(rel)' <=> Dropped(rel)
      BY <1>1, <2>1 DEF Dropped, Dropping, Beneath
    <3> QED
      BY <1>3, <2>1, <2>2, <3>1 DEF TrashInv, ForgetInv, TrashTypeOK
  <2> QED
    BY <2>2, <2>3, <2>4, <2>5 DEF TrashInv
<1> QED
  BY <1>2, <1>3 DEF RmDeletes

LEMMA RmDropsHolds == TrashInv /\ RmDrops => TrashInv'
<1> SUFFICES ASSUME TrashInv, RmDrops PROVE TrashInv'
  OBVIOUS
<1>1. /\ run.phase = "drop"
      /\ index' = {rel \in index : ~Beneath(rel, run.path)}
      /\ run' = [run EXCEPT !.phase = IF run.todo = {} THEN "manifest" ELSE "rm",
                   !.removed = @ \cup {run.path}, !.path = Absent, !.own = Absent]
      /\ UNCHANGED <<here, nodes, first, hidden, listed, left, stale, torn>>
  BY DEF RmDrops
<1>2. run \in Runs /\ run.op = "rm" /\ run.path \in Paths
  BY <1>1 DEF TrashInv, TrashTypeOK, PlaceInv, Runs, Dropping
<1>3. /\ run' \in Runs /\ run'.phase \in {"rm", "manifest"} /\ run'.op = "rm"
      /\ run'.removed = run.removed \cup {run.path}
  BY <1>1, <1>2 DEF Runs
<1>4. TrashTypeOK'
  BY <1>1, <1>3, TrashTypedAgain DEF TrashInv, TrashTypeOK, Lefts
<1>5. FirstInv' /\ Live' = Live
  BY <1>1, NodesAgain DEF TrashInv
<1>6. PlaceInv' /\ SeenInv'
  BY <1>3 DEF PlaceInv, SeenInv, Dropping
<1>7. ForgetInv'
  <2>1. \A rel : Dropped(rel) <=> Beneath(rel, run.path)
    BY <1>1 DEF Dropped, Dropping
  <2>2. torn' = torn /\ listed' = listed
    BY <1>1
  <2>3. ~torn => \A rel \in index' : rel \in Live
    BY <1>1, <2>1 DEF TrashInv, ForgetInv
  <2>4. ~torn => \A rel \in listed : rel \in Live \/ \E path \in run'.removed : Beneath(rel, path)
    BY <1>3, <2>1 DEF TrashInv, ForgetInv
  <2>5. \A rel, path : Beneath(rel, path)' <=> Beneath(rel, path)
    BY DEF Beneath
  <2> QED
    BY <1>5, <2>2, <2>3, <2>4, <2>5 DEF ForgetInv
<1> QED
  BY <1>4, <1>5, <1>6, <1>7 DEF TrashInv

LEMMA RmForgetsHolds == TrashInv /\ RmForgets => TrashInv'
<1> SUFFICES ASSUME TrashInv, RmForgets PROVE TrashInv'
  OBVIOUS
<1>1. PICK fails \in BOOLEAN :
        /\ Spend("mishaps", IF fails THEN 1 ELSE 0)
        /\ torn' = (torn \/ fails)
        /\ listed' = IF fails THEN listed
                     ELSE {rel \in listed : \A path \in run.removed : ~Beneath(rel, path)}
  BY DEF RmForgets
<1>2. run.phase = "manifest" /\ run' = Resting
      /\ UNCHANGED <<here, nodes, first, hidden, index, stale>>
  BY DEF RmForgets
<1>3. left' \in Lefts
  BY <1>1, SpendTyped DEF TrashInv, Lefts
<1>4. run' \in Runs /\ run'.phase = "idle" /\ run'.removed = {}
  BY <1>2, RestingTyped DEF Runs, Resting
<1>5. torn' \in BOOLEAN /\ (~torn' => ~torn /\ ~fails)
  BY <1>1 DEF TrashInv, TrashTypeOK
<1>6. TrashTypeOK'
  BY <1>1, <1>2, <1>3, <1>4, <1>5, TrashTypedAgain DEF TrashInv, TrashTypeOK
<1>7. FirstInv' /\ Live' = Live
  BY <1>2, NodesAgain DEF TrashInv
<1>8. PlaceInv' /\ SeenInv'
  BY <1>4 DEF PlaceInv, SeenInv, Dropping
<1>9. ForgetInv'
  <2>1. \A rel : ~Dropped(rel)
    BY <1>2 DEF Dropped, Dropping
  <2> QED
    BY <1>1, <1>2, <1>5, <1>7, <2>1 DEF TrashInv, ForgetInv
<1> QED
  BY <1>6, <1>7, <1>8, <1>9 DEF TrashInv

-----------------------------------------------------------------------------
(* Beginning or ending a restore drops nothing. *)
LEMMA RestoreForgets ==
  ASSUME TrashInv, run.phase \in {"idle", "info", "restore"}, torn' = torn,
         index' = index, listed' = listed,
         \A rel \in FilePaths : rel \in Live => rel \in Live'
  PROVE  ForgetInv'
<1>1. run.removed = {} /\ \A rel : ~Dropped(rel)
  BY DEF TrashInv, PlaceInv, Dropped, Dropping
<1>2. ~torn => \A rel \in index \cup listed : rel \in Live /\ rel \in FilePaths
  BY <1>1 DEF TrashInv, ForgetInv, TrashTypeOK
<1> QED
  BY <1>2 DEF ForgetInv

LEMMA RestoreBeginsHolds == TrashInv /\ RestoreBegins => TrashInv'
<1> SUFFICES ASSUME TrashInv, RestoreBegins PROVE TrashInv'
  OBVIOUS
<1>1. PICK path \in Paths : \E i \in Shown(Name(path)) :
        /\ first[Name(path)] \in Shown(Name(path)) => i = first[Name(path)]
        /\ run' = [Resting EXCEPT !.op = "restore", !.phase = "info", !.path = path,
                     !.from = nodes[i].parent]
  BY DEF RestoreBegins
<1>2. PICK i \in Shown(Name(path)) :
        /\ first[Name(path)] \in Shown(Name(path)) => i = first[Name(path)]
        /\ run' = [Resting EXCEPT !.op = "restore", !.phase = "info", !.path = path,
                     !.from = nodes[i].parent]
  BY <1>1
<1>3. run.phase = "idle" /\ Spend("commands", 1) /\ stale' = (hidden # {})
      /\ UNCHANGED <<here, nodes, first, hidden, index, listed, torn>>
  BY DEF RestoreBegins
<1>4. left' \in Lefts
  BY <1>3, SpendTyped DEF TrashInv, Lefts
<1>5. i \in Trashed(Name(path)) /\ nodes[i].parent \in 0 .. MaxIds
  <2>1. i \in Trashed(Name(path))
    BY DEF Shown
  <2>2. nodes[i] \in Nodes
    BY <2>1 DEF Trashed, TrashInv, TrashTypeOK
  <2> QED
    BY <2>1, <2>2 DEF Nodes
<1>6. /\ run' \in Runs /\ run'.phase = "info" /\ run'.op = "restore" /\ run'.path = path
      /\ run'.from = nodes[i].parent /\ run'.removed = {}
  BY <1>2, <1>5, RestingTyped DEF Resting, Runs
<1>7. TrashTypeOK'
  BY <1>3, <1>4, <1>6, TrashTypedAgain DEF TrashInv, TrashTypeOK
<1>8. FirstInv' /\ Live' = Live
  BY <1>3, NodesAgain DEF TrashInv
<1>9. PlaceInv'
  BY <1>5, <1>6, AbsentAssumption DEF PlaceInv, Dropping
<1>10. ForgetInv'
  BY <1>3, <1>8, RestoreForgets
<1>11. SeenInv'
  <2> SUFFICES ASSUME hidden = {} PROVE SeenInv'
    BY <1>3 DEF SeenInv
  <2>1. first[Name(path)] \in Trashed(Name(path))
    BY <1>5, NamesOf DEF TrashInv, FirstInv
  <2>2. i = first[Name(path)]
    BY <1>2, <2>1 DEF Shown
  <2>3. i # Absent
    BY <1>5, AbsentAssumption DEF Trashed, Ids
  <2> QED
    BY <1>3, <1>6, <2>2, <2>3 DEF SeenInv
<1> QED
  BY <1>7, <1>8, <1>9, <1>10, <1>11 DEF TrashInv

LEMMA RestoreLooksUpHolds == TrashInv /\ RestoreLooksUp => TrashInv'
<1> SUFFICES ASSUME TrashInv, RestoreLooksUp PROVE TrashInv'
  OBVIOUS
<1> DEFINE folder == FolderId(run.path)
<1>1. /\ run.phase = "info"
      /\ run' = IF folder = Absent THEN Resting
                ELSE [run EXCEPT !.phase = "restore", !.parent = folder]
      /\ UNCHANGED <<here, nodes, first, hidden, index, listed, left, stale, torn>>
  BY DEF RestoreLooksUp
<1>2. run \in Runs
  BY DEF TrashInv, TrashTypeOK, Runs
<1>3. run.path \in Paths /\ run.removed = {}
  BY <1>1 DEF TrashInv, PlaceInv
<1>4. folder \in 0 .. MaxIds \/ folder = Absent
  <2>1. CASE \E x \in Names : run.path = <<x>>
    <3>1. folder = 0
      BY <2>1, SinglePaths
    <3> QED
      BY <3>1, TrashAssumption
  <2>2. CASE run.path \in Folders \X Files
    BY <2>2, DoublePaths, ChildIs DEF Children, Ids
  <2> QED
    BY <1>3, <2>1, <2>2, PathForms
<1>5. FirstInv' /\ Live' = Live
  BY <1>1, NodesAgain DEF TrashInv
<1>6. ForgetInv'
  BY <1>1, <1>5, RestoreForgets
<1>7. CASE folder = Absent
  <2>1. run' \in Runs /\ run'.phase = "idle" /\ run'.removed = {}
    BY <1>1, <1>7, RestingTyped DEF Runs, Resting
  <2>2. TrashTypeOK'
    BY <1>1, <2>1, TrashTypedAgain DEF TrashInv, TrashTypeOK, Lefts
  <2> QED
    BY <1>5, <1>6, <2>1, <2>2 DEF TrashInv, PlaceInv, SeenInv, Dropping
<1>8. CASE folder # Absent
  <2>1. /\ run' \in Runs /\ run'.phase = "restore" /\ run'.path = run.path
        /\ run'.removed = {} /\ run'.parent = folder /\ run'.from = run.from
    BY <1>1, <1>2, <1>3, <1>4, <1>8 DEF Runs
  <2>2. run.from # Absent
    BY <1>1 DEF TrashInv, PlaceInv
  <2>3. TrashTypeOK'
    BY <1>1, <1>8, <2>1, <2>2, TrashTypedAgain DEF TrashInv, TrashTypeOK, Lefts
  <2>4. PlaceInv'
    BY <1>3, <2>1 DEF PlaceInv, Dropping
  <2>5. SeenInv'
    BY <1>1, <2>1 DEF TrashInv, SeenInv, FolderId, Child, Children
  <2> QED
    BY <1>5, <1>6, <2>3, <2>4, <2>5 DEF TrashInv
<1> QED
  BY <1>7, <1>8

(* What Drive restores takes a place that is free. *)
LEMMA RestoresNode ==
  ASSUME TrashInv, NEW id \in Ids, nodes[id] # Absent, nodes[id].trashed,
         Child(nodes[id].parent, nodes[id].name) = Absent,
         nodes' = [nodes EXCEPT ![id].trashed = FALSE], Lists
  PROVE  /\ nodes' \in [Ids -> Nodes \cup {Absent}]
         /\ \A rel \in FilePaths : rel \in Live => rel \in Live'
         /\ \A parent, name : parent = nodes[id].parent /\ name = nodes[id].name =>
              Children(parent, name)' = {id}
         /\ \A parent, name : parent # nodes[id].parent \/ name # nodes[id].name =>
              Children(parent, name)' = Children(parent, name)
<1>1. nodes \in [Ids -> Nodes \cup {Absent}] /\ nodes[id] \in Nodes
  BY DEF TrashInv, TrashTypeOK
<1>2. /\ nodes'[id] \in Nodes /\ ~nodes'[id].trashed
      /\ nodes'[id].parent = nodes[id].parent /\ nodes'[id].name = nodes[id].name
      /\ \A i \in Ids \ {id} : nodes'[i] = nodes[i]
  BY <1>1 DEF Nodes
<1>3. nodes' \in [Ids -> Nodes \cup {Absent}]
  BY <1>1, <1>2
<1>4. nodes'[id] # Absent
  BY <1>2, AbsentAssumption
<1>5. \A parent, name : Children(parent, name) \subseteq Children(parent, name)'
  BY <1>2, <1>4 DEF Children
<1>6. ASSUME NEW parent, NEW name, parent # nodes[id].parent \/ name # nodes[id].name
      PROVE  Children(parent, name)' = Children(parent, name)
  BY <1>2, <1>6 DEF Children
<1>7. Children(nodes[id].parent, nodes[id].name) = {}
  BY ChildIs
<1>8. ASSUME NEW parent, NEW name, parent = nodes[id].parent, name = nodes[id].name
      PROVE  Children(parent, name)' = {id}
  <2>1. id \in Children(parent, name)'
    BY <1>2, <1>4, <1>8 DEF Children
  <2>2. \A i \in Children(parent, name)' : i = id \/ i \in Children(parent, name)
    BY <1>2 DEF Children
  <2> QED
    BY <1>7, <1>8, <2>1, <2>2
<1>9. ASSUME NEW rel \in FilePaths, rel \in Live PROVE rel \in Live'
  <2>1. rel \in Folders \X Files => Children(0, rel[1])' = Children(0, rel[1])
    <3> SUFFICES ASSUME rel \in Folders \X Files, Children(0, rel[1]) = {} PROVE FALSE
      BY <1>6, <1>7
    <3>1. Child(Absent, rel[2]) # Absent
      BY <1>9, LiveForms, ChildIs
    <3>2. PICK i \in Ids : nodes[i] # Absent /\ nodes[i].parent = Absent
      BY <3>1, ChildIs DEF Children
    <3> QED
      BY <1>1, <3>2, AbsentAssumption DEF Nodes
  <2>2. /\ \A x \in Names : Children(0, x) \subseteq Children(0, x)'
        /\ \A k : Children(k, rel[2]) \subseteq Children(k, rel[2])'
    BY <1>5
  <2> QED
    BY <1>9, <2>1, <2>2, StaysLive
<1> QED
  BY <1>3, <1>6, <1>8, <1>9

LEMMA RestoresHolds == TrashInv /\ Restores => TrashInv'
<1> SUFFICES ASSUME TrashInv, Restores PROVE TrashInv'
  OBVIOUS
<1> DEFINE id == first[Name(run.path)]
           acts == /\ Candidate(run.from, run.parent)
                   /\ id # Absent
                   /\ Child(nodes[id].parent, nodes[id].name) = Absent
<1>1. /\ run.phase = "restore" /\ run' = Resting
      /\ UNCHANGED <<here, index, listed, left, stale, torn>>
      /\ IF acts
         THEN /\ nodes' = [nodes EXCEPT ![id].trashed = FALSE]
              /\ hidden' = hidden \ {id}
              /\ Lists
         ELSE UNCHANGED <<nodes, first, hidden>>
  BY DEF Restores
<1>2. run' \in Runs /\ run'.phase = "idle" /\ run'.removed = {}
  BY <1>1, RestingTyped DEF Runs, Resting
<1>3. PlaceInv' /\ SeenInv'
  BY <1>2 DEF PlaceInv, SeenInv, Dropping
<1>4. /\ nodes' \in [Ids -> Nodes \cup {Absent}]
      /\ first' \in [Names -> Ids \cup {Absent}] /\ FirstInv' /\ hidden' \subseteq Ids
      /\ \A rel \in FilePaths : rel \in Live => rel \in Live'
  <2>1. CASE acts
    <3>1. Name(run.path) \in Names
      BY <1>1, NamesOf DEF TrashInv, PlaceInv
    <3>2. id \in Trashed(Name(run.path))
      BY <2>1, <3>1 DEF TrashInv, FirstInv
    <3>3. id \in Ids /\ nodes[id] # Absent /\ nodes[id].trashed
      BY <3>2 DEF Trashed
    <3> QED
      BY <1>1, <2>1, <3>3, RestoresNode, ListsHolds DEF TrashInv, TrashTypeOK
  <2>2. CASE ~acts
    BY <1>1, <2>2, NodesAgain DEF TrashInv, TrashTypeOK
  <2> QED
    BY <2>1, <2>2
<1>5. TrashTypeOK'
  BY <1>1, <1>2, <1>4, TrashTypedAgain DEF TrashInv, TrashTypeOK, Lefts
<1>6. ForgetInv'
  BY <1>1, <1>4, RestoreForgets
<1> QED
  BY <1>3, <1>4, <1>5, <1>6 DEF TrashInv

LEMMA EmptyTrashHolds == TrashInv /\ EmptyTrash => TrashInv'
<1> SUFFICES ASSUME TrashInv, EmptyTrash PROVE TrashInv'
  OBVIOUS
<1> DEFINE items == {i \in Ids : nodes[i] # Absent /\ nodes[i].trashed}
<1>1. /\ run.phase = "idle" /\ Removes(items) /\ Spend("commands", 1)
      /\ UNCHANGED <<here, index, listed, run, stale, torn>>
  BY DEF EmptyTrash
<1>2. left' \in Lefts
  BY <1>1, SpendTyped DEF TrashInv, Lefts
<1>3. /\ nodes' \in [Ids -> Nodes \cup {Absent}]
      /\ first' \in [Names -> Ids \cup {Absent}] /\ FirstInv' /\ hidden' \subseteq Ids
      /\ Live \cap FilePaths \subseteq Live'
  BY <1>1, RemovesHolds
<1>4. TrashTypeOK'
  BY <1>1, <1>2, <1>3, TrashTypedAgain DEF TrashInv, TrashTypeOK, Runs
<1>5. PlaceInv' /\ SeenInv'
  BY <1>1 DEF TrashInv, PlaceInv, SeenInv, Dropping
<1>6. ForgetInv'
  BY <1>1, <1>3, RestoreForgets
<1> QED
  BY <1>3, <1>4, <1>5, <1>6 DEF TrashInv

LEMMA KilledHolds == TrashInv /\ Killed => TrashInv'
<1> SUFFICES ASSUME TrashInv, Killed PROVE TrashInv'
  OBVIOUS
<1>1. /\ run.phase # "idle" /\ Spend("mishaps", 1) /\ run' = Resting
      /\ torn' = (torn \/ run.op = "rm")
      /\ UNCHANGED <<here, nodes, first, hidden, index, listed, stale>>
  BY DEF Killed
<1>2. left' \in Lefts
  BY <1>1, SpendTyped DEF TrashInv, Lefts
<1>3. run' \in Runs /\ run'.phase = "idle" /\ run'.removed = {}
  BY <1>1, RestingTyped DEF Runs, Resting
<1>4. TrashTypeOK'
  BY <1>1, <1>2, <1>3, TrashTypedAgain DEF TrashInv, TrashTypeOK
<1>5. FirstInv' /\ Live' = Live
  BY <1>1, NodesAgain DEF TrashInv
<1>6. PlaceInv' /\ SeenInv'
  BY <1>3 DEF PlaceInv, SeenInv, Dropping
<1>7. ForgetInv'
  <2> SUFFICES ASSUME ~torn, run.op # "rm" PROVE ForgetInv'
    BY <1>1 DEF TrashInv, TrashTypeOK, ForgetInv
  <2>1. run.phase \in {"info", "restore"}
    BY <1>1 DEF TrashInv, TrashTypeOK, PlaceInv, Dropping
  <2>2. torn' = torn
    BY <1>1 DEF TrashInv, TrashTypeOK
  <2> QED
    BY <1>1, <1>5, <2>1, <2>2, RestoreForgets
<1> QED
  BY <1>4, <1>5, <1>6, <1>7 DEF TrashInv

-----------------------------------------------------------------------------
LEMMA TrashStep == TrashInv /\ [TrashNext]_trashVars => TrashInv'
<1>1. ASSUME TrashInv, UNCHANGED trashVars PROVE TrashInv'
  <2>1. FirstInv' /\ Live' = Live
    BY <1>1, NodesAgain DEF TrashInv, trashVars
  <2>2. TrashTypeOK' /\ PlaceInv' /\ ForgetInv'
    BY <1>1, <2>1 DEF TrashInv, trashVars, TrashTypeOK, PlaceInv, ForgetInv, Dropped, Dropping
  <2>3. SeenInv'
    BY <1>1 DEF TrashInv, trashVars, SeenInv, Trashed, FolderId, Child, Children
  <2> QED
    BY <2>1, <2>2, <2>3 DEF TrashInv
<1> QED
  BY <1>1, PushAgainHolds, OtherDeviceHolds, AppearsHolds, RmBeginsHolds, RmTrashesHolds,
     RmListsHolds, RmDeletesHolds, RmDropsHolds, RmForgetsHolds, RestoreBeginsHolds,
     RestoreLooksUpHolds, RestoresHolds, EmptyTrashHolds, KilledHolds DEF TrashNext

LEMMA TrashAlways == TrashSpec => []TrashInv
BY InitHolds, TrashStep, PTL DEF TrashSpec

(* Whatever rm, restore and trash empty are run on, in whatever trash,     *)
(* their state has its type.                                               *)
THEOREM TrashTypeCorrect == TrashSpec => []TrashTypeOK
<1>1. TrashInv => TrashTypeOK
  BY DEF TrashInv
<1> QED
  BY <1>1, TrashAlways, PTL

(* Between two commands the index and the manifest have only what is on    *)
(* Drive, unless a killed or failing command has left them behind.         *)
THEOREM RemovedAreForgotten == TrashSpec => []RemovedIsForgotten
<1>1. TrashInv => RemovedIsForgotten
  <2> SUFFICES ASSUME TrashInv, run.phase = "idle", ~torn
               PROVE  index \cup listed \subseteq Live
    BY DEF RemovedIsForgotten
  <2>1. run.removed = {} /\ \A rel : ~Dropped(rel)
    BY DEF TrashInv, PlaceInv, Dropped, Dropping
  <2> QED
    BY <2>1 DEF TrashInv, ForgetInv
<1> QED
  BY <1>1, TrashAlways, PTL

-----------------------------------------------------------------------------
LEMMA SingleIs ==
  ASSUME NEW seen \in SUBSET Ids, Single(seen), NEW i \in seen
  PROVE  seen = {i}
<1>1. IsFiniteSet(seen)
  <2>1. IsFiniteSet(Ids)
    BY FS_Interval, TrashAssumption DEF Ids
  <2> QED
    BY <2>1, FS_Subset
<1> QED
  BY <1>1, FS_Singleton DEF Single

(* rm -f deletes for good only what it trashed, as long as the listing it  *)
(* counted the items of the name in was complete and still holds.          *)
THEOREM ForceIsExact == TrashSpec => ForceDeletesItsOwn
<1> DEFINE Own ==
      (/\ run.phase = "delete" /\ run'.phase = "drop" /\ ~stale
       /\ run.own \in run.seen) =>
        \A i \in Ids : nodes[i] # Absent /\ nodes'[i] = Absent =>
          i = run.own \/ nodes[i].parent = run.own
<1>1. ASSUME TrashInv, [TrashNext]_trashVars PROVE [Own]_trashVars
  <2> SUFFICES ASSUME run.phase = "delete", run'.phase = "drop", ~stale, run.own \in run.seen,
                      NEW i \in Ids, nodes[i] # Absent, nodes'[i] = Absent
               PROVE  i = run.own \/ nodes[i].parent = run.own
    OBVIOUS
  <2>1. run' # run
    OBVIOUS
  <2>2. CASE RmDeletes
    <3>1. ~Abandons
      BY <1>1 DEF Abandons, TrashInv, TrashTypeOK
    <3>2. IF Single(run.seen) /\ first[Name(run.path)] # Absent
          THEN Removes({first[Name(run.path)]})
          ELSE UNCHANGED <<nodes, first, hidden>>
      BY <2>2, <3>1 DEF RmDeletes
    <3>3. Single(run.seen) /\ Removes({first[Name(run.path)]})
          /\ first[Name(run.path)] # Absent
      BY <3>2
    <3>4. run.seen \in SUBSET Ids /\ run.path \in Paths
      BY <1>1 DEF TrashInv, TrashTypeOK, PlaceInv, Dropping
    <3>5. run.seen = {run.own}
      BY <3>3, <3>4, SingleIs
    <3>6. first[Name(run.path)] \in Trashed(Name(run.path))
      BY <1>1, <3>3, <3>4, NamesOf DEF TrashInv, FirstInv
    <3>7. run.seen = Trashed(Name(run.path))
      BY <1>1 DEF TrashInv, SeenInv
    <3>8. first[Name(run.path)] = run.own
      BY <3>5, <3>6, <3>7
    <3>9. i \in {run.own} \/ nodes[i].parent \in {run.own}
      BY <3>3, <3>8 DEF Removes
    <3> QED
      BY <3>9
  <2>3. CASE ~RmDeletes
    <3>1. Killed
      BY <1>1, <2>1, <2>3 DEF TrashNext, trashVars, PushAgain, OtherDevice, Appears, RmBegins,
         RmTrashes, RmLists, RmDrops, RmForgets, RestoreBegins, RestoreLooksUp, Restores,
         EmptyTrash
    <3> QED
      BY <3>1 DEF Killed, Resting
  <2> QED
    BY <2>2, <2>3
<1> QED
  BY <1>1, TrashAlways, PTL DEF TrashSpec, ForceDeletesItsOwn

(* restore brings back the node trashed from the asked path or none, as    *)
(* long as the listing it chose by was complete and still holds.           *)
THEOREM RestoresAreExact == TrashSpec => RestoresTheAskedPath
<1> DEFINE Asked ==
      (run.phase = "restore" /\ ~stale) =>
        \A i \in Ids, path \in {run.path} :
          (nodes[i] # Absent /\ nodes[i].trashed /\ nodes'[i] # Absent /\ ~nodes'[i].trashed)
            => Node(path)' = i
<1>1. ASSUME TrashInv, [TrashNext]_trashVars PROVE [Asked]_trashVars
  <2> SUFFICES ASSUME run.phase = "restore", ~stale, NEW i \in Ids, NEW path, path = run.path,
                      nodes[i] # Absent, nodes[i].trashed, nodes'[i] # Absent, ~nodes'[i].trashed
               PROVE  Node(path)' = i
    OBVIOUS
  <2> DEFINE id == first[Name(path)]
  <2>1. path \in Paths /\ Name(path) \in Names
    BY <1>1, NamesOf DEF TrashInv, PlaceInv
  <2>2. CASE Restores
    <3>1. /\ run.from = run.parent /\ id # Absent
          /\ Child(nodes[id].parent, nodes[id].name) = Absent
          /\ nodes' = [nodes EXCEPT ![id].trashed = FALSE] /\ Lists
      BY <2>2 DEF Restores, Candidate
    <3>2. id \in Trashed(Name(path))
      BY <1>1, <2>1, <3>1 DEF TrashInv, FirstInv
    <3>3. id \in Ids /\ nodes[id] # Absent /\ nodes[id].trashed /\ nodes[id].name = Name(path)
      BY <3>2 DEF Trashed
    <3>4. nodes[id].parent = FolderId(path)
      BY <1>1, <3>1 DEF TrashInv, SeenInv
    <3>5. i = id
      BY <1>1, <3>1 DEF TrashInv, TrashTypeOK
    <3>6. /\ \A parent, name : parent = nodes[i].parent /\ name = nodes[i].name =>
               Children(parent, name)' = {i}
          /\ \A parent, name : parent # nodes[i].parent \/ name # nodes[i].name =>
               Children(parent, name)' = Children(parent, name)
      BY <1>1, <3>1, <3>3, <3>5, RestoresNode
    <3>7. PICK k : k = FolderId(path)
      OBVIOUS
    <3>8. Children(k, Name(path))' = {i}
      BY <3>3, <3>4, <3>5, <3>6, <3>7
    <3>9. FolderId(path)' = k
      <4>1. CASE \E x \in Names : path = <<x>>
        BY <3>7, <4>1 DEF FolderId
      <4>2. CASE path \in Folders \X Files
        <5>1. path[1] # nodes[i].name
          BY <3>3, <3>5, <4>2, DoublePaths, TrashAssumption
        <5> QED
          BY <3>6, <3>7, <4>2, <5>1, SameChild, DoublePaths DEF FolderId
      <4> QED
        BY <2>1, <4>1, <4>2, PathForms
    <3>10. Child(k, Name(path))' = i
      BY <3>8 DEF Child
    <3> QED
      BY <3>9, <3>10 DEF Node
  <2>3. CASE OtherDevice
    <3>1. nodes[i] \in Nodes
      BY <1>1 DEF TrashInv, TrashTypeOK
    <3>2. CASE \E f \in Files : Uploads(<<f>>)
      BY <1>1, <3>2, UploadsHolds DEF FilePaths
    <3>3. CASE \E j \in Ids : Trashes(j)
      <4>1. PICK j \in Ids : nodes' = [nodes EXCEPT ![j].trashed = TRUE]
        BY <3>3 DEF Trashes
      <4> QED
        BY <1>1, <3>1, <4>1 DEF TrashInv, TrashTypeOK, Nodes
    <3>4. CASE \E j \in Ids : Removes({j})
      BY <3>4 DEF Removes
    <3> QED
      BY <2>3, <3>2, <3>3, <3>4 DEF OtherDevice
  <2>4. CASE UNCHANGED nodes
    BY <2>4
  <2>5. UNCHANGED nodes \/ OtherDevice \/ Restores
    BY <1>1 DEF TrashNext, trashVars, PushAgain, Appears, RmBegins, RmTrashes, RmLists,
       RmDeletes, RmDrops, RmForgets, RestoreBegins, RestoreLooksUp, EmptyTrash, Killed
  <2> QED
    BY <2>2, <2>3, <2>4, <2>5
<1> QED
  BY <1>1, TrashAlways, PTL DEF TrashSpec, RestoresTheAskedPath

=============================================================================
