------------------------------- MODULE Moves -------------------------------
(***************************************************************************)
(* A push over a whole store: local moves and renames applied on Drive,    *)
(* uploads, and local deletions trashed there (protonfs.commands.push,     *)
(* protonfs.diff.pair_moves).  The user works on the files, another device *)
(* on Drive, a step on Drive fails and the process is killed, all of it    *)
(* between any two steps of the push.                                      *)
(*                                                                         *)
(* FileSync has the upload of one file in detail; here a listing reports   *)
(* the size and digest of every node, and an upload is one step.           *)
(***************************************************************************)
EXTENDS Diff, FiniteSets

CONSTANTS
  Dirs, Names,   \* a path is a folder and a basename
  Root,          \* the folder that is the root of the store
  Times,         \* whole-second modification times
  Ignored,       \* the paths .protonfs/ignore matches
  Spared,        \* the paths of the store's import block
  BatchSize,     \* defaults.batch_size
  MassLimit, MassFloor, MassShare,   \* MASS_DELETE_LIMIT, _FLOOR, 1 / _FRACTION
  MaxEdits, MaxMishaps, MaxEvents   \* bounds on what the user does, what goes
                                    \* wrong, and both

Paths == Dirs \X Names

ASSUME MovesAssumption ==
  /\ Root \in Dirs
  /\ Ignored \subseteq Paths /\ Spared \subseteq Paths
  /\ None \notin Paths
  /\ {BatchSize, MassLimit, MassFloor, MassShare} \subseteq Nat
  /\ {MaxEdits, MaxMishaps, MaxEvents} \subseteq Nat

VARIABLES
  local,    \* the files of this machine
  drive,    \* the nodes on Drive
  disk,     \* index.json
  mem,      \* the index of the running push
  listed,   \* the paths the remote manifest lists
  run,      \* the running push
  left,     \* how many edits, mishaps and events are left
  homes,    \* history: the paths a machine ever had a file at
  woes      \* history: what went wrong besides a call that moves or uploads

vars == <<local, drive, disk, mem, listed, run, left, homes, woes>>

Dir(p) == p[1]
Name(p) == p[2]

Files == [content : Contents, mtime : Times]

(* An index entry; at is its remote_path, held that it is not offloaded.   *)
Entries == [content : Contents, mtime : Times, at : Paths, held : BOOLEAN]
Entry(file, p) == [content |-> file.content, mtime |-> file.mtime, at |-> p, held |-> TRUE]

ASSUME EntryAssumption == None \notin Entries

(* A planned move: whether its node changes folder, and the name the node  *)
(* has before its rename.                                                  *)
Plans == [old : Paths, new : Paths, needs_move : BOOLEAN, old_name : Names]
Passes(m) == m.old_name # Name(m.new)

Phases == {"idle", "moves", "move", "rename", "back", "uploads", "trash", "trashed",
           "save", "manifest", "flush"}

Idle == [phase |-> "idle", trashing |-> FALSE, mass |-> FALSE,
         scan |-> [p \in Paths |-> None], held |-> {}, moves |-> {}, todo |-> {},
         target |-> Root, plan |-> {}, renames |-> {}, unmoved |-> {}, uploads |-> {},
         whole |-> {}, trash |-> {}, verified |-> {}, forgotten |-> {}]

Indexed(index) == {p \in Paths : index[p] # None}

-----------------------------------------------------------------------------
(* pair_moves: one file moved or renamed, of the files gone and the new    *)
(* ones whose keys are equal; in rounds, by basename, by folder, the last. *)
Unique_matches(olds, news, part) ==
  {m \in olds \X news :
     /\ m[1][part] = m[2][part]
     /\ \A o \in olds : o[part] = m[1][part] => o = m[1]
     /\ \A n \in news : n[part] = m[2][part] => n = m[2]}

Pair_group(olds, news) ==
  LET Olds(pairs) == olds \ {m[1] : m \in pairs}
      News(pairs) == news \ {m[2] : m \in pairs}
      named == Unique_matches(olds, news, 2)
      placed == named \cup Unique_matches(Olds(named), News(named), 1)
  IN placed \cup {m \in olds \X news : Olds(placed) = {m[1]} /\ News(placed) = {m[2]}}

Key(file) == <<file.content, file.mtime>>

Pair_moves(index, deleted, scan, added) ==
  UNION {Pair_group({p \in deleted : Key(index[p]) = k}, {p \in added : Key(scan[p]) = k}) :
           k \in {Key(scan[p]) : p \in {q \in added : Size[scan[q].content] # 0}}}

-----------------------------------------------------------------------------
(* What a push decides on its scan and its index.                          *)
Scan == [p \in Paths |-> IF p \in Ignored THEN None ELSE local[p]]

(* local-only and local-modified, as classify has them without a walk.     *)
Changed(index, scan) ==
  {p \in Paths : scan[p] # None /\ (index[p] # None => index[p].content # scan[p].content)}

(* held_and_gone; the disk is asked, an ignored file is not gone.          *)
Gone(index) == {p \in Indexed(index) : index[p].held /\ local[p] = None}

Plan_moves(index, scan, to_push) ==
  Pair_moves(index, Gone(index), scan, to_push \ Indexed(index))

Trash_candidates(index, scan, moving, unsettled) ==
  {p \in Gone(index) :
     /\ p \notin moving \cup Spared \cup Ignored
     /\ \A q \in unsettled : scan[q].content # index[p].content}

(* Mutant: --allow-mass-delete overrides the first guard as well. *)
Deletion_allowed(index, rels, vanished, allow) ==
  LET held == {p \in Indexed(index) : index[p].held}
      n == Cardinality(rels)
  IN /\ ~allow
     /\ \/ n >= Cardinality(held)
        \/ \E p \in rels : Dir(p) \in vanished
        \/ n > MassLimit
        \/ n > MassFloor /\ n * MassShare > Cardinality(held)

(* _deletion_refusal; vanished are the folders that are no longer on disk. *)
Deletion_refusal(index, rels, vanished, allow) ==
  LET held == {p \in Indexed(index) : index[p].held}
      n == Cardinality(rels)
  IN \/ n >= Cardinality(held)
     \/ /\ ~allow
        /\ \/ \E p \in rels : Dir(p) \in vanished
           \/ n > MassLimit
           \/ n > MassFloor /\ n * MassShare > Cardinality(held)

(* The files on disk beneath a folder. *)
Within(d) == {p \in Paths : Dir(p) = d /\ local[p] # None}

(* Mutant: the folder may hold more than the files that are pushed. *)
Holds_at_least(d, files) == files \subseteq Within(d)

(* _whole_dirs: every file of the folder, on disk, scanned and indexed, is *)
(* a new one that is being pushed.                                         *)
Holds_exactly(d, files) == Within(d) = files

Whole_dirs(index, scan, rels) ==
  {d \in Dirs \ {Root} :
     LET files == {p \in rels : Dir(p) = d}
     IN /\ files # {} /\ Cardinality(files) <= BatchSize
        /\ \A p \in Paths : Dir(p) = d /\ (scan[p] # None \/ index[p] # None)
                              => p \in files /\ index[p] = None
        /\ Holds_exactly(d, files)}

-----------------------------------------------------------------------------
Init ==
  \E on \in [Paths -> Files \cup {None}], off \in SUBSET Paths :
    LET synced == {p \in Paths : on[p] # None}
    IN /\ Cardinality(synced) <= 2 /\ off \subseteq synced /\ Cardinality(off) <= 1
       /\ local = [p \in Paths |-> IF p \in off THEN None ELSE on[p]]
       /\ drive = [p \in Paths |-> IF p \in synced THEN on[p].content ELSE None]
       /\ disk = [p \in Paths |-> IF p \notin synced THEN None
                                  ELSE [Entry(on[p], p) EXCEPT !.held = p \notin off]]
       /\ mem = disk
       /\ listed = synced
       /\ homes = synced
       /\ run = Idle
       /\ left = [edits |-> MaxEdits, mishaps |-> MaxMishaps, events |-> MaxEvents]
       /\ woes = {}

(* What surrounds the pushes takes from its bounds. *)
Spend(edits, mishaps) ==
  /\ left.edits >= edits /\ left.mishaps >= mishaps /\ left.events >= edits + mishaps
  /\ left' = [edits |-> left.edits - edits, mishaps |-> left.mishaps - mishaps,
               events |-> left.events - (edits + mishaps)]

Mark(happens, what) == IF happens THEN {what} ELSE {}
Woe(marks) == woes' = woes \cup marks

(* Two entries of an index are recorded at one node. *)
Shared(index) == \E p, q \in Indexed(index) : p # q /\ index[p].at = index[q].at

-----------------------------------------------------------------------------
(* The user writes a file, deletes one, or moves or renames one (which     *)
(* keeps its mtime): between two pushes, or while one uploads, for its     *)
(* other phases do not look at the files.                                  *)
Edits == run.phase \in {"idle", "uploads"} /\ Spend(1, 0)

UserWrites ==
  \E p \in Paths, file \in Files :
    /\ Edits
    /\ local[p] # file
    /\ local' = [local EXCEPT ![p] = file]
    /\ homes' = homes \cup {p}
    /\ UNCHANGED <<drive, disk, mem, listed, run, woes>>

UserDeletes ==
  \E p \in Paths :
    /\ Edits
    /\ local[p] # None
    /\ local' = [local EXCEPT ![p] = None]
    /\ UNCHANGED <<drive, disk, mem, listed, run, homes, woes>>

UserMoves ==
  \E p, q \in Paths :
    /\ Edits
    /\ local[p] # None /\ local[q] = None
    /\ local' = [local EXCEPT ![q] = local[p], ![p] = None]
    /\ homes' = homes \cup {q}
    /\ UNCHANGED <<drive, disk, mem, listed, run, woes>>

(* Another device uploads to a path, or trashes its node. *)
OtherWrites ==
  \E p \in Paths, c \in Contents \cup {None} :
    /\ Spend(0, 1)
    /\ drive[p] # c
    /\ drive' = [drive EXCEPT ![p] = c]
    /\ homes' = homes \cup {p}
    /\ Woe({"other"})
    /\ UNCHANGED <<local, disk, mem, listed, run>>

-----------------------------------------------------------------------------
(* The scan, the verdicts and the plan.  recent are the modification times *)
(* within the settle window.  A push with nothing to do returns at once;   *)
(* the deletion policy is told apart where there is something to trash.    *)
Start ==
  /\ run.phase = "idle"
  /\ mem' = disk
  /\ \E trashing, mass \in BOOLEAN, recent \in SUBSET Times :
       LET scan == Scan
           changed == Changed(disk, scan)
           held == {p \in changed : scan[p].mtime \in recent}
           moves == Plan_moves(disk, scan, changed \ held)
           uploads == (changed \ held) \ {m[2] : m \in moves}
           trash == IF trashing
                    THEN Trash_candidates(disk, scan, {m[1] : m \in moves}, held) ELSE {}
       IN /\ trashing => trash # {} \/ moves # {}
          /\ mass => trashing
          /\ moves # {} \/ uploads # {} \/ trash # {}
          /\ run' = [Idle EXCEPT !.phase = "moves", !.trashing = trashing, !.mass = mass,
                       !.scan = scan, !.held = held, !.moves = moves, !.uploads = uploads,
                       !.todo = {Dir(m[2]) : m \in moves}, !.trash = trash]
  /\ UNCHANGED <<local, drive, disk, listed, left, homes, woes>>

(* _same_content of a node listed at p. *)
Same(p, entry) == drive[p] # None /\ drive[p] = entry.content

(* Mutant: a taken name is never this file's. *)
Already_never(old, new, blind) == FALSE

(* The moves into a folder that its first listing lets through.  A node at *)
(* the new name that is the file's, with nothing left at the old path, was *)
(* moved by an earlier push that stopped before saving.  A name a node     *)
(* would pass through must be free, and is passed through by one only.     *)
Already(old, new, blind) ==
  /\ Same(new, mem[old])
  /\ drive[mem[old].at] = None
  /\ ~blind

Plan(t, group, kept, blind) ==
  LET At(m) == mem[m[1]].at
      moved == {m \in group : drive[m[2]] # None /\ Already(m[1], m[2], blind)}
      free == {m \in group : drive[m[2]] = None}
  IN {[old |-> m[1], new |-> m[2], needs_move |-> FALSE, old_name |-> Name(m[2])] : m \in moved}
     \cup
     {[old |-> m[1], new |-> m[2], needs_move |-> Dir(At(m)) # t, old_name |-> Name(At(m))] :
        m \in {k \in free : Dir(At(k)) = t \/ Name(At(k)) = Name(k[2]) \/ k \in kept}}

(* The moves that pass through another name, and which of them may. *)
Passing(t, group) ==
  {m \in group :
     LET at == mem[m[1]].at
     IN /\ drive[m[2]] = None /\ Dir(at) # t /\ Name(at) # Name(m[2])
        /\ drive[<<t, Name(at)>>] = None
        /\ \A k \in group : Name(k[2]) # Name(at)}
OnePerName(kept, passing) ==
  \A m \in passing : \E k \in kept :
    {j \in kept : Name(mem[j[1]].at) = Name(mem[m[1]].at)} = {k}

(* A planned node no longer holds what the index says: its file was        *)
(* written while it was uploaded.                                          *)
Raced(plan) == \E m \in plan : drive[mem[m.old].at] \notin {None, mem[m.old].content}

(* The first listing of a target folder, which may fail. *)
ListTarget ==
  /\ run.phase = "moves"
  /\ \E t \in run.todo, fails, blind \in BOOLEAN :
       LET group == {m \in run.moves : Dir(m[2]) = t}
       IN /\ fails => ~blind
          /\ Spend(0, IF fails \/ blind THEN 1 ELSE 0)
          /\ \E kept \in SUBSET Passing(t, group) :
               LET plan == IF fails THEN {} ELSE Plan(t, group, kept, blind)
               IN /\ OnePerName(kept, Passing(t, group))
                  /\ Woe(Mark(fails \/ blind, "blind") \cup Mark(Raced(plan), "raced"))
                  /\ run' = [run EXCEPT
                       !.phase = IF plan = {} THEN "moves" ELSE "move",
                       !.todo = @ \ {t}, !.target = t, !.plan = plan,
                       !.renames = {m \in plan : Passes(m)},
                       !.unmoved = @ \cup ({m[2] : m \in group} \ {m.new : m \in plan})]
  /\ UNCHANGED <<local, drive, disk, mem, listed, homes>>

(* Where the node of a planned move is once it is in its folder. *)
Placed(m) == IF m.needs_move THEN <<run.target, m.old_name>> ELSE mem[m.old].at

(* drive.move of the nodes that change folder: a node goes unless it is no *)
(* longer there, its place is taken, or the call fails for it.             *)
MoveNodes ==
  /\ run.phase = "move"
  /\ LET sources == {m \in run.plan : m.needs_move}
     IN \E failed \in SUBSET sources :
          LET gone == {m \in sources \ failed :
                         drive[mem[m.old].at] # None /\ drive[Placed(m)] = None}
          IN /\ Spend(0, IF failed = {} THEN 0 ELSE 1)
             /\ drive' = [p \in Paths |->
                  IF \E m \in gone : Placed(m) = p
                  THEN drive[mem[(CHOOSE m \in gone : Placed(m) = p).old].at]
                  ELSE IF \E m \in gone : mem[m.old].at = p THEN None ELSE drive[p]]
  /\ run' = [run EXCEPT !.phase = "rename"]
  /\ UNCHANGED <<local, disk, mem, listed, homes, woes>>

(* drive.rename of a node that changes name. *)
RenameNode ==
  /\ run.phase = "rename"
  /\ \E m \in run.renames, fails \in BOOLEAN :
       LET renamed == ~fails /\ drive[Placed(m)] # None /\ drive[m.new] = None
       IN /\ Spend(0, IF fails THEN 1 ELSE 0)
          /\ drive' = IF renamed THEN [drive EXCEPT ![m.new] = drive[Placed(m)], ![Placed(m)] = None]
                      ELSE drive
          /\ run' = [run EXCEPT !.renames = @ \ {m}]
  /\ UNCHANGED <<local, disk, mem, listed, homes, woes>>

(* Mutant: the old path stays indexed beside the new one. *)
Rekeyed_twice(index, done) ==
  [p \in Paths |->
     IF \E m \in done : m.new = p
     THEN LET m == CHOOSE m \in done : m.new = p
          IN [content |-> index[m.old].content, mtime |-> run.scan[p].mtime, at |-> p,
              held |-> TRUE]
     ELSE index[p]]

(* The entry of a moved file, under its new path. *)
Rekeyed(index, done) ==
  [p \in Paths |->
     IF \E m \in done : m.new = p
     THEN LET m == CHOOSE m \in done : m.new = p
          IN [content |-> index[m.old].content, mtime |-> run.scan[p].mtime, at |-> p,
              held |-> TRUE]
     ELSE IF \E m \in done : m.old = p THEN None ELSE index[p]]

(* The second listing decides: a file listed at its new name is re-keyed,  *)
(* one that arrived and kept its name is put back, the others are uploaded.*)
ListMoved ==
  /\ run.phase = "rename" /\ run.renames = {}
  /\ \E fails \in BOOLEAN :
       LET done == {m \in run.plan : ~fails /\ Same(m.new, mem[m.old])}
           strays == {m \in run.plan \ done : ~fails /\ m.needs_move /\ Passes(m)
                                              /\ drive[<<run.target, m.old_name>>] # None}
       IN /\ Spend(0, IF fails THEN 1 ELSE 0)
          /\ mem' = Rekeyed(mem, done)
          /\ Woe(Mark(fails, "blind") \cup Mark(Shared(mem'), "shared"))
          /\ run' = [run EXCEPT
               !.phase = IF strays = {} THEN "moves" ELSE "back", !.plan = strays,
               !.verified = @ \cup {m.new : m \in done},
               !.forgotten = @ \cup {m.old : m \in done},
               !.unmoved = @ \cup {m.new : m \in run.plan \ done}]
  /\ UNCHANGED <<local, drive, disk, listed, homes>>

(* Mutant: it keeps pointing at the old path. *)
Astray_unnamed(entry, p) == entry

(* Where the entry of a file that could not be put back points. *)
Astray(entry, p) == [entry EXCEPT !.at = p]

(* A node that arrived under its old name is moved back, and whether it is *)
(* gone is asked of a listing.                                             *)
PutBack ==
  /\ run.phase = "back"
  /\ \E m \in run.plan, fails, blind \in BOOLEAN :
       LET stray == <<run.target, m.old_name>>
           home == <<Dir(mem[m.old].at), m.old_name>>
           back == ~fails /\ drive[stray] # None /\ drive[home] = None
           gone == ~blind /\ (back \/ drive[stray] = None)
       IN /\ Spend(0, (IF fails THEN 1 ELSE 0) + (IF blind THEN 1 ELSE 0))
          /\ drive' = IF back THEN [drive EXCEPT ![home] = drive[stray], ![stray] = None]
                      ELSE drive
          /\ mem' = IF gone THEN mem ELSE [mem EXCEPT ![m.old] = Astray(@, stray)]
          /\ Woe(Mark(blind, "blind") \cup Mark(Shared(mem'), "shared"))
          /\ run' = [run EXCEPT
               !.phase = IF run.plan = {m} THEN "moves" ELSE "back", !.plan = @ \ {m},
               !.forgotten = IF gone THEN @ ELSE @ \cup {m.old}]
  /\ UNCHANGED <<local, disk, listed, homes>>

-----------------------------------------------------------------------------
(* The moves are through: what was not moved is uploaded, the index saved  *)
(* when a checkpoint is due.                                               *)
Checkpoint ==
  /\ run.phase = "moves" /\ run.todo = {}
  /\ \E due \in BOOLEAN :
       /\ due => run.moves # {}
       /\ disk' = IF due THEN mem ELSE disk
  /\ LET uploads == run.uploads \cup run.unmoved
     IN run' = [run EXCEPT !.phase = "uploads", !.uploads = uploads,
                  !.whole = Whole_dirs(mem, run.scan, uploads)]
  /\ UNCHANGED <<local, drive, mem, listed, left, homes, woes>>

(* What an upload of one path does: a node with the same content is        *)
(* adopted, this machine's own older copy gets a new revision, any other   *)
(* node is a conflict.  A file that changed since the scan is not verified.*)
Accepts(p) ==
  \/ drive[p] \in {None, local[p].content}
  \/ mem[p] # None /\ mem[p].content = drive[p]
Sends(rels) == {p \in rels : local[p] # None /\ Accepts(p)}
Verifies(rels) ==
  {p \in Sends(rels) : run.scan[p] # None /\ local[p].content = run.scan[p].content}
Uploaded(rels) ==
  /\ drive' = [p \in Paths |-> IF p \in Sends(rels) THEN local[p].content ELSE drive[p]]
  /\ mem' = [p \in Paths |-> IF p \in Verifies(rels) THEN Entry(run.scan[p], p) ELSE mem[p]]
  /\ Woe(Mark(Shared(mem'), "shared")
          \cup Mark(\E p \in Verifies(rels) : mem[p] # None /\ mem[p].at # p, "orphaned"))

(* A folder of new files goes up in one call, if it still holds just them. *)
UploadDir ==
  /\ run.phase = "uploads"
  /\ \E d \in run.whole, failed \in SUBSET run.uploads :
       LET files == {p \in run.uploads : Dir(p) = d}
           whole == Holds_exactly(d, files)
           rels == Within(d) \ failed
       IN /\ failed \subseteq files /\ ~whole => failed = {}
          /\ Spend(0, IF failed = {} THEN 0 ELSE 1)
          /\ IF whole
             THEN /\ Uploaded(rels)
                  /\ run' = [run EXCEPT !.whole = @ \ {d}, !.uploads = @ \ files,
                               !.verified = @ \cup (Verifies(rels) \cap files)]
             ELSE /\ run' = [run EXCEPT !.whole = @ \ {d}]
                  /\ UNCHANGED <<drive, mem, woes>>
  /\ UNCHANGED <<local, disk, listed, homes>>

Upload ==
  /\ run.phase = "uploads" /\ run.whole = {}
  /\ \E p \in run.uploads, fails \in BOOLEAN :
       LET rels == IF fails THEN {} ELSE {p}
       IN /\ Spend(0, IF fails THEN 1 ELSE 0)
          /\ Uploaded(rels)
          /\ run' = [run EXCEPT !.uploads = @ \ {p}, !.verified = @ \cup Verifies(rels)]
  /\ UNCHANGED <<local, disk, listed, homes>>

(* Mutant: whether or not the new path was uploaded. *)
Outlived_or_not(moves) ==
  {m[1] : m \in {k \in moves : k[2] \in run.unmoved /\ mem[k[1]] # None}}

(* The old path of a move that was uploaded instead is a deletion like any *)
(* other once its new path is on Drive.                                    *)
Outlived(moves) ==
  {m[1] : m \in {k \in moves : k[2] \in run.unmoved /\ mem[k[2]] # None /\ mem[k[1]] # None}}

(* What is left to do once the trash step is through or refused. *)
Ending(forgotten) ==
  [Idle EXCEPT !.phase = "save", !.verified = run.verified, !.forgotten = forgotten]

(* The uploads are through: the guards of the trash step are asked, of the *)
(* folders that are gone from disk (an emptied one may be there or not).   *)
Guard ==
  /\ run.phase = "uploads" /\ run.whole = {} /\ run.uploads = {}
  /\ \E vanished \in SUBSET {d \in Dirs \ {Root} : \A p \in Paths : Dir(p) = d => local[p] = None} :
       LET trash == run.trash \cup (IF run.trashing THEN Outlived(run.moves) ELSE {})
           refused == Deletion_refusal(mem, trash, vanished, run.mass)
       IN run' = IF refused \/ trash = {} THEN Ending(run.forgotten)
                 ELSE [run EXCEPT !.trash = trash, !.phase = "trash"]
  /\ UNCHANGED <<local, drive, disk, mem, listed, left, homes, woes>>

(* drive.trash of the files of one folder of Drive. *)
Trash ==
  /\ run.phase = "trash"
  /\ \E d \in {Dir(mem[p].at) : p \in run.trash}, failed \in SUBSET run.trash :
       LET group == {p \in run.trash : Dir(mem[p].at) = d}
       IN /\ failed \subseteq group
          /\ Spend(0, IF failed = {} THEN 0 ELSE 1)
          /\ drive' = [q \in Paths |->
               IF \E p \in group \ failed : mem[p].at = q THEN None ELSE drive[q]]
          /\ run' = [run EXCEPT !.phase = "trashed", !.target = d]
  /\ UNCHANGED <<local, disk, mem, listed, homes, woes>>

(* The listing after it drops the entries whose node is gone. *)
ListTrashed ==
  /\ run.phase = "trashed"
  /\ \E fails \in BOOLEAN :
       LET group == {p \in run.trash : Dir(mem[p].at) = run.target}
           gone == {p \in group : ~fails /\ drive[mem[p].at] = None}
       IN /\ Spend(0, IF fails THEN 1 ELSE 0)
          /\ Woe(Mark(fails, "blind"))
          /\ mem' = [p \in Paths |-> IF p \in gone THEN None ELSE mem[p]]
          /\ run' = IF run.trash = group THEN Ending(run.forgotten \cup gone)
                    ELSE [run EXCEPT !.phase = "trash", !.trash = @ \ group,
                            !.forgotten = @ \cup gone]
  /\ UNCHANGED <<local, drive, disk, listed, homes>>

Save ==
  /\ run.phase = "save"
  /\ disk' = mem
  /\ run' = [run EXCEPT !.phase = "manifest"]
  /\ UNCHANGED <<local, drive, mem, listed, left, homes, woes>>

(* manifest.update, if there is something to write, whose failure is a     *)
(* warning: after the save, or before it when the push was interrupted.    *)
WriteManifest ==
  /\ run.phase \in {"manifest", "flush"}
  /\ \E fails \in IF run.verified \cup run.forgotten = {} THEN {FALSE} ELSE BOOLEAN :
       /\ Spend(0, IF fails THEN 1 ELSE 0)
       /\ Woe(Mark(fails, "blind"))
       /\ listed' = IF fails THEN listed ELSE (listed \ run.forgotten) \cup run.verified
  /\ run' = IF run.phase = "manifest" THEN Idle ELSE [Idle EXCEPT !.phase = "save"]
  /\ UNCHANGED <<local, drive, disk, mem, homes>>

(* Ctrl-C: what was done so far is recorded, in the manifest and in the    *)
(* index (_resumable_on_interrupt).                                        *)
Interrupted ==
  /\ run.phase \notin {"idle", "save", "manifest", "flush"}
  /\ Spend(0, 1)
  /\ run' = [Ending(run.forgotten) EXCEPT !.phase = "flush"]
  /\ Woe({"killed"})
  /\ UNCHANGED <<local, drive, disk, mem, listed, homes>>

(* The process is killed: what was not saved is lost. *)
Killed ==
  /\ run.phase # "idle"
  /\ Spend(0, 1)
  /\ run' = Idle
  /\ mem' = disk
  /\ Woe({"killed"})
  /\ UNCHANGED <<local, drive, disk, listed, homes>>

Pushes ==
  \/ Start \/ ListTarget \/ MoveNodes \/ RenameNode \/ ListMoved \/ PutBack \/ Checkpoint
  \/ UploadDir \/ Upload \/ Guard \/ Trash \/ ListTrashed \/ WriteManifest \/ Save

Next ==
  \/ UserWrites \/ UserDeletes \/ UserMoves \/ OtherWrites \/ Interrupted \/ Killed
  \/ Pushes

Spec == Init /\ [][Next]_vars

-----------------------------------------------------------------------------
Runs ==
  [phase : Phases, trashing : BOOLEAN, mass : BOOLEAN,
   scan : [Paths -> Files \cup {None}], held : SUBSET Paths,
   moves : SUBSET (Paths \X Paths), todo : SUBSET Dirs,
   target : Dirs, plan : SUBSET Plans, renames : SUBSET Plans,
   unmoved : SUBSET Paths, uploads : SUBSET Paths, whole : SUBSET Dirs,
   trash : SUBSET Paths, verified : SUBSET Paths, forgotten : SUBSET Paths]

TypeOK ==
  /\ local \in [Paths -> Files \cup {None}]
  /\ drive \in [Paths -> Contents \cup {None}]
  /\ disk \in [Paths -> Entries \cup {None}]
  /\ mem \in [Paths -> Entries \cup {None}]
  /\ listed \subseteq Paths
  /\ run \in Runs
  /\ left \in [edits : Nat, mishaps : Nat, events : Nat]
  /\ woes \subseteq {"other", "killed", "blind", "raced", "shared", "orphaned"}
  /\ homes \subseteq Paths

(* Between two pushes every entry of the index names a node on Drive, and  *)
(* every path of the manifest has one: what was moved, uploaded or trashed *)
(* is recorded so, whatever calls fail but the listings, as long as no     *)
(* other device writes, no push is killed, and no two entries share a node *)
(* (push's re-keying and its checks by listing).                           *)
RecordsNameNodes ==
  (run.phase = "idle" /\ woes \subseteq {"orphaned"}) =>
    /\ \A p \in Indexed(disk) : drive[disk[p].at] # None
    /\ \A p \in listed : drive[p] # None

(* Drive keeps no node at a path no machine ever had a file at, unless an  *)
(* entry of the index names it: a node moved and not renamed is put back   *)
(* or recorded where it is, whatever calls fail but the listings.          *)
StraysAreKnown ==
  (run.phase = "idle" /\ woes = {}) =>
    \A p \in Paths \ homes : drive[p] # None => \E o \in Indexed(disk) : disk[o].at = p

(* Trashing the local deletions takes off Drive neither what this push     *)
(* moved or uploaded, nor a node with the indexed content of a file held   *)
(* back as unsettled, nor that of one moved here, unless its content is at *)
(* the new path (_trash_candidates, and the moves push had to upload       *)
(* instead), as long as no two entries name one node.                      *)
TrashSteps == run.phase = "trash" /\ run'.phase = "trashed"
TrashKeepsMovedFiles ==
  [][TrashSteps /\ "shared" \notin woes =>
       /\ \A p \in run.verified : drive'[p] = drive[p]
       /\ \A q \in run.held, p \in Indexed(mem) \ {m[1] : m \in run.moves} :
            mem[p].content = run.scan[q].content => drive'[mem[p].at] = drive[mem[p].at]
       /\ \A m \in run.moves :
            (/\ "other" \notin woes
             /\ mem[m[1]] # None /\ drive[mem[m[1]].at] = run.scan[m[2]].content) =>
              \/ drive'[mem[m[1]].at] = drive[mem[m[1]].at]
              \/ drive'[m[2]] = run.scan[m[2]].content]_vars

(* Trashing the local deletions never takes the last of the files that the *)
(* index holds off Drive, not even with --allow-mass-delete and in several *)
(* folders one after the other: a store that is empty because its disk is  *)
(* not mounted looks just like that (_deletion_refusal), as long as nobody *)
(* else writes, nothing is edited under the push, no listing fails, and no *)
(* two entries share a node.                                               *)
TrashLeavesSome ==
  [][TrashSteps /\ woes \subseteq {"orphaned"} =>
       \E p \in Indexed(mem) : mem[p].held /\ drive'[mem[p].at] # None]_vars

(* A push puts nothing on Drive it did not choose from its scan: a file    *)
(* that was written since, or that the scan left out, never rides along    *)
(* with the upload of its folder.                                          *)
NothingRidesAlong ==
  [][(run.phase = "uploads" /\ run'.phase = "uploads" /\ run' # run) =>
       \A p \in Paths : drive'[p] # drive[p] => p \in run.uploads]_vars

(* A move of one call that a killed push made and did not record is        *)
(* recorded by the next push: it leaves no entry at a path Drive no longer *)
(* has, as long as the user did not go on and nothing else failed.         *)
KilledMovesAreRecorded ==
  (/\ run.phase = "uploads" /\ woes = {"killed"} /\ left.mishaps + 1 >= MaxMishaps
   /\ left.edits + 1 >= MaxEdits) =>
    \A m \in run.moves :
      (Dir(m[1]) = Dir(m[2]) \/ Name(m[1]) = Name(m[2])) =>
        mem[m[1]] = None \/ drive[mem[m[1]].at] = mem[m[1]].content

=============================================================================
