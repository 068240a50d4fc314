--------------------------- MODULE GitMoveProofs ---------------------------
(***************************************************************************)
(* What GitMove promises, proved for every number of clones and files: the *)
(* types, that a file changes hands between git and Drive in one content,  *)
(* that no imported file is taken for a deleted one, that a file always    *)
(* stays with git or with protonfs, and that a git step is whole.          *)
(***************************************************************************)
EXTENDS GitMove, TLAPS

(* The invariant of one clone, of its state k, its move m, the newest      *)
(* commit o, its files g that an import's commit took, the paths r of the  *)
(* move that others touched, and the nodes on Drive.                       *)
Blocks(tree) == tree.imported \cup tree.exported

Looking == {"listing", "verifying"}

(* What a move knows of the paths nobody else touched. *)
Agree(k, m, r, nodes) ==
  /\ m.todo \subseteq m.paths
  /\ m.phase = "verifying" => \A f \in m.paths \ r : m.listing[f] = nodes[f]
  /\ m.op = "import" /\ m.phase = "verifying" =>
       \A f \in m.paths \ r : m.blobs[f] = k.head.tree[f]
  /\ m.op = "import" /\ m.phase \in {"ignoring", "untracking"} =>
       \A f \in m.paths \ r : nodes[f] = k.head.tree[f]
  /\ m.op = "export" /\ m.phase \in {"ignoring", "tracking"} =>
       \A f \in m.paths \ r : k.work.tree[f] = nodes[f]

(* A file an import's commit took stays in one of the blocks, whatever the *)
(* git step of another move does to them, and undoes.                      *)
Gone(k, m, g) ==
  /\ \A f \in g : k.work.tree[f] = None
  /\ g \subseteq Blocks(k.work) /\ g \subseteq Blocks(k.head)
  /\ m.phase \in GitPhases =>
       /\ g \subseteq Blocks(m.before)
       /\ m.before.exported \subseteq k.work.exported
       /\ m.op = "export" => g \cap m.paths = {}
       /\ m.phase = "restoringIgnore" => k.work.imported = m.before.imported

(* What the git step of an export has taken out of one block, and not yet  *)
(* put into the other.                                                     *)
Between(m) ==
  IF m.op = "export" /\ m.unignore /\ m.phase \in {"exporting", "sealing", "undoing"}
  THEN m.paths ELSE {}

(* A commit of what is staged takes no path out of both blocks. *)
Grows(k, m) ==
  /\ Blocks(k.head) \subseteq Blocks(k.staged) \cup Between(m)
  /\ m.op = "import" => k.staged.imported = k.head.imported
  /\ m.op = "import" /\ m.phase \in ImportPhases => k.head.imported \subseteq k.work.imported
  /\ m.op = "export" /\ m.phase \in {"pulling", "ignoring", "tracking", "exporting", "sealing"}
                                    \cup Looking =>
       /\ k.staged.exported = k.head.exported
       /\ k.head.exported \subseteq k.work.exported
  /\ m.op = "export" /\ m.unignore /\ m.phase \in {"pulling", "ignoring"} \cup Looking =>
       k.staged.imported = k.head.imported /\ k.work.imported = k.head.imported
  /\ m.op = "export" /\ m.unignore /\ m.phase = "tracking" =>
       k.head.imported \subseteq k.work.imported \cup m.paths
  /\ m.op = "export" /\ m.phase = "sealing" => m.paths \subseteq k.work.exported

Safe(k, m, o, g, r, nodes, isTorn) ==
  /\ m.op = "none" <=> m.phase = "idle"
  /\ Agree(k, m, r, nodes)
  /\ Gone(k, m, g)
  /\ Blocks(k.head) \subseteq Blocks(o)
  /\ ~isTorn => Grows(k, m)

SafeNow(c) == Safe(clone[c], cmd[c], origin, gitGone[c], raced[c], drive, c \in torn)

MoveInv == TypeOK /\ \A c \in Clones : SafeNow(c)

-----------------------------------------------------------------------------
(* Types.                                                                  *)

LEMMA InitTyped == Init => TypeOK
<1>1. Digests \subseteq Digests /\ None \in Digests
  BY DEF Digests
<1>2. Nothing \in [Files -> Digests] /\ Nothing \in [Files -> Entries \cup {None}]
  BY <1>1 DEF Nothing
<1>3. Idle \in Commands
  BY <1>2 DEF Idle, Commands
<1> QED
  BY <1>2, <1>3, MoveAssumption DEF Init, TypeOK, Trees, CloneStates

(* A content that is there makes an index entry. *)
LEMMA Recordable ==
  ASSUME NEW content \in Digests, content # None
  PROVE  Record(content) \in Entries
BY DEF Record, Entries, Digests

(* The fields of a clone, and how an edit of one keeps it one. *)
LEMMA Retyped ==
  ASSUME NEW k \in CloneStates, NEW t \in [Files -> Digests], NEW b \in SUBSET Files, NEW f \in Files,
         NEW d \in Digests, NEW i \in [Files -> Entries \cup {None}]
  PROVE  /\ [k EXCEPT !.work.tree = t] \in CloneStates
         /\ [k EXCEPT !.work.tree[f] = d] \in CloneStates
         /\ [k EXCEPT !.staged.tree = t] \in CloneStates
         /\ [k EXCEPT !.staged.tree[f] = d] \in CloneStates
         /\ [k EXCEPT !.work.imported = b] \in CloneStates
         /\ [k EXCEPT !.work.exported = b] \in CloneStates
         /\ [k EXCEPT !.staged.imported = b] \in CloneStates
         /\ [k EXCEPT !.staged.exported = b] \in CloneStates
         /\ [k EXCEPT !.index = i] \in CloneStates
<1>1. [k EXCEPT !.work.tree = t] \in CloneStates
  BY DEF CloneStates, Trees
<1>2. [k EXCEPT !.work.tree[f] = d] \in CloneStates
  BY DEF CloneStates, Trees
<1>3. [k EXCEPT !.staged.tree = t] \in CloneStates
  BY DEF CloneStates, Trees
<1>4. [k EXCEPT !.staged.tree[f] = d] \in CloneStates
  BY DEF CloneStates, Trees
<1>5. [k EXCEPT !.work.imported = b] \in CloneStates
  BY DEF CloneStates, Trees
<1>6. [k EXCEPT !.work.exported = b] \in CloneStates
  BY DEF CloneStates, Trees
<1>7. [k EXCEPT !.staged.imported = b] \in CloneStates
  BY DEF CloneStates, Trees
<1>8. [k EXCEPT !.staged.exported = b] \in CloneStates
  BY DEF CloneStates, Trees
<1>9. [k EXCEPT !.index = i] \in CloneStates
  BY DEF CloneStates, Trees
<1> QED
  BY <1>1, <1>2, <1>3, <1>4, <1>5, <1>6, <1>7, <1>8, <1>9

(* What a step of one clone may change, and how that keeps the types. *)
LEMMA Types ==
  ASSUME TypeOK, NEW c \in Clones,
         \/ clone' = clone
         \/ \E k \in CloneStates : Changes(c, k),
         \/ cmd' = cmd
         \/ \E m \in Commands : Goes(c, m),
         \/ drive' = drive
         \/ drive' \in [Files -> Digests],
         \/ raced' = raced
         \/ raced' \in [Clones -> SUBSET Files]
         \/ \E r \in SUBSET Files : raced' = [raced EXCEPT ![c] = r],
         \/ owed' = owed
         \/ \E r \in SUBSET Files : owed' = [owed EXCEPT ![c] = r],
         \/ gitGone' = gitGone
         \/ \E g \in SUBSET Files : gitGone' = [gitGone EXCEPT ![c] = g],
         torn' \subseteq Clones,
         faults' = faults \/ Fault,
         edits' = edits \/ Edit,
         origin' \in Trees
  PROVE  TypeOK'
<1>1. faults' \in 0 .. MaxFaults
  BY MoveAssumption DEF TypeOK, Fault
<1>2. edits' \in 0 .. MaxEdits
  BY MoveAssumption DEF TypeOK, Edit
<1>3. clone' \in [Clones -> CloneStates]
  BY DEF TypeOK, Changes
<1>4. cmd' \in [Clones -> Commands]
  BY DEF TypeOK, Goes
<1>5. drive' \in [Files -> Digests]
  BY DEF TypeOK
<1>6. raced' \in [Clones -> SUBSET Files]
  BY DEF TypeOK
<1>7. owed' \in [Clones -> SUBSET Files]
  BY DEF TypeOK
<1>8. gitGone' \in [Clones -> SUBSET Files]
  BY DEF TypeOK
<1> QED
  BY <1>1, <1>2, <1>3, <1>4, <1>5, <1>6, <1>7, <1>8 DEF TypeOK

(* What is written on Drive has its type, and so has whom it concerns. *)
LEMMA DriveTyped ==
  ASSUME TypeOK, NEW f \in Files, NEW content \in Digests, NEW who,
         DriveBecomes(f, content, who)
  PROVE  drive' \in [Files -> Digests] /\ raced' \in [Clones -> SUBSET Files]
<1>1. drive' \in [Files -> Digests]
  BY DEF DriveBecomes, TypeOK
<1>2. \A c \in Clones : raced[c] \cup ({f} \cap (IF c = who THEN {} ELSE cmd[c].paths)) \in SUBSET Files
  BY DEF TypeOK
<1> QED
  BY <1>1, <1>2 DEF DriveBecomes

LEMMA IdleTyped == Idle \in Commands /\ Nothing \in [Files -> Digests]
<1>1. Nothing \in [Files -> Digests]
  BY DEF Nothing, Digests
<1> QED
  BY <1>1 DEF Idle, Commands

LEMMA UserTyped ==
  ASSUME TypeOK, NEW c \in Clones, User(c)
  PROVE  TypeOK'
<1> DEFINE k == clone[c]
<1>k. k \in CloneStates /\ cmd[c] \in Commands
  BY DEF TypeOK
<1>t. k.work \in Trees /\ k.staged \in Trees /\ k.head \in Trees /\ k.work.tree \in [Files -> Digests]
      /\ k.index \in [Files -> Entries \cup {None}]
  BY <1>k DEF CloneStates, Trees
<1>o. torn \subseteq Clones /\ origin \in Trees /\ cmd[c].paths \subseteq Files /\ raced[c] \subseteq Files
      /\ owed[c] \subseteq Files /\ gitGone[c] \subseteq Files
  BY <1>k DEF TypeOK, Commands
<1>1. ASSUME NEW f \in Files, NEW content \in Digests, UserStages(c, f, content) PROVE TypeOK'
  <2>1. [k EXCEPT !.staged.tree[f] = content] \in CloneStates
    BY <1>k, <1>t, Retyped
  <2> QED
    BY <1>1, <2>1, <1>o, Types DEF UserStages, Disowns
<1>2. ASSUME NEW f \in Files, NEW content \in Digests, UserWrites(c, f, content) PROVE TypeOK'
  <2>1. [k EXCEPT !.work.tree[f] = content] \in CloneStates
    BY <1>k, <1>t, Retyped
  <2> QED
    BY <1>2, <2>1, <1>o, Types DEF UserWrites
<1>3. CASE GitCommits(c)
  <2>1. [k EXCEPT !.head = k.staged] \in CloneStates
    BY <1>k, <1>t DEF CloneStates
  <2>2. raced[c] \cup {f \in cmd[c].paths : k.staged.tree[f] # k.head.tree[f]} \subseteq Files
    BY <1>o
  <2> QED
    BY <1>3, <2>1, <2>2, <1>t, <1>o, Types DEF GitCommits
<1>4. CASE GitPulls(c)
  <2> DEFINE merged == [f \in Files |-> IF f \in Pulled(c) THEN origin.tree[f] ELSE k.work.tree[f]]
             taken == {f \in Pulled(c) : origin.tree[f] = None}
             to == [k EXCEPT !.work = [origin EXCEPT !.tree = merged], !.staged = origin, !.head = origin]
  <2>1. merged \in [Files -> Digests]
    BY <1>t, <1>o DEF Trees
  <2>2. to \in CloneStates
    BY <1>k, <1>o, <2>1 DEF CloneStates, Trees
  <2>3. Pulled(c) \subseteq Files
    BY DEF Pulled
  <2>4. Changes(c, to) /\ gitGone' = [gitGone EXCEPT ![c] = (@ \ Pulled(c)) \cup (taken \cap origin.imported)]
        /\ owed' = [owed EXCEPT ![c] = @ \ (Pulled(c) \cup (origin.exported \ k.head.exported))]
        /\ raced' = [raced EXCEPT ![c] = @ \cup (Pulled(c) \cap cmd[c].paths)]
        /\ UNCHANGED <<drive, origin, cmd, torn, faults, edits>>
    BY <1>4 DEF GitPulls
  <2> HIDE DEF merged, to
  <2> QED
    BY <2>2, <2>3, <2>4, <1>o, Types DEF Disowns
<1>5. CASE UserRepairs(c)
  <2>1. [k EXCEPT !.staged = k.head, !.work.imported = k.head.imported,
                  !.work.exported = k.head.exported] \in CloneStates
    BY <1>k, <1>t DEF CloneStates, Trees
  <2> QED
    BY <1>5, <2>1, <1>o, Types DEF UserRepairs
<1> QED
  BY <1>1, <1>2, <1>3, <1>4, <1>5 DEF User

LEMMA OthersTyped ==
  ASSUME TypeOK, NEW c \in Clones, OtherCommands(c)
  PROVE  TypeOK'
<1> DEFINE k == clone[c]
<1>k. k \in CloneStates
  BY DEF TypeOK
<1>t. k.work.tree \in [Files -> Digests] /\ k.index \in [Files -> Entries \cup {None}]
  BY <1>k DEF CloneStates, Trees
<1>o. torn \subseteq Clones /\ origin \in Trees /\ raced[c] \subseteq Files
      /\ owed[c] \subseteq Files /\ gitGone[c] \subseteq Files /\ drive \in [Files -> Digests]
  BY DEF TypeOK
<1>1. PICK f \in Files : Push(c, f) \/ PushTrashes(c, f) \/ Pull(c, f) \/ Offload(c, f)
  BY DEF OtherCommands
<1>2. CASE Push(c, f)
  <2>1. k.work.tree[f] \in Digests /\ k.work.tree[f] # None
    BY <1>2, <1>t DEF Push, OnDisk
  <2>2. [k.index EXCEPT ![f] = Record(k.work.tree[f])] \in [Files -> Entries \cup {None}]
    BY <1>t, <2>1, Recordable
  <2>3. [k EXCEPT !.index = [k.index EXCEPT ![f] = Record(k.work.tree[f])]] \in CloneStates
    BY <1>k, <1>t, <2>2 DEF CloneStates
  <2>4. [k EXCEPT !.index[f] = Record(k.work.tree[f])]
        = [k EXCEPT !.index = [k.index EXCEPT ![f] = Record(k.work.tree[f])]]
    OBVIOUS
  <2>5. drive' \in [Files -> Digests] /\ raced' \in [Clones -> SUBSET Files]
    BY <1>2, <2>1, DriveTyped DEF Push
  <2> QED
    BY <1>2, <2>3, <2>4, <2>5, <1>o, Types DEF Push
<1>3. CASE PushTrashes(c, f)
  <2>1. [k EXCEPT !.index[f] = None] \in CloneStates
    BY <1>k, <1>t DEF CloneStates
  <2>2. drive' \in [Files -> Digests] /\ raced' \in [Clones -> SUBSET Files]
    BY <1>3, DriveTyped DEF PushTrashes, Digests
  <2> QED
    BY <1>3, <2>1, <2>2, <1>o, Types DEF PushTrashes
<1>4. CASE Pull(c, f)
  <2>1. Downloads(c, {f}) \in CloneStates
    <3>1. drive[f] \in Digests /\ drive[f] # None
      BY <1>4, <1>o DEF Pull, Downloadable
    <3>2. Record(drive[f]) \in Entries
      BY <3>1, Recordable
    <3> QED
      BY <1>k, <1>t, <3>1, <3>2 DEF CloneStates, Trees, Downloads
  <2> QED
    BY <1>4, <2>1, <1>o, Types DEF Pull
<1>5. CASE Offload(c, f)
  <2>1. k.index[f] \in Entries
    BY <1>5, <1>t DEF Offload, Present, Held
  <2>2. [k EXCEPT !.work.tree[f] = None, !.index[f].local_state = "metadata-only"] \in CloneStates
    BY <1>k, <1>t, <2>1 DEF CloneStates, Trees, Entries, Digests
  <2> QED
    BY <1>5, <2>2, <1>o, Types DEF Offload, history
<1> QED
  BY <1>1, <1>2, <1>3, <1>4, <1>5

(* A command that goes on, or ends, is a command. *)
LEMMA CommandsTyped ==
  ASSUME TypeOK, NEW c \in Clones, NEW t \in SUBSET Files,
         NEW p \in {"idle"} \cup ImportPhases \cup ExportPhases \cup UndoPhases
  PROVE  /\ [cmd[c] EXCEPT !.phase = p] \in Commands
         /\ [cmd[c] EXCEPT !.todo = t, !.phase = p] \in Commands
         /\ cmd[c].paths \subseteq Files /\ cmd[c].todo \subseteq Files
<1> DEFINE m == cmd[c]
<1>1. m \in Commands
  BY DEF TypeOK
<1> HIDE DEF m
<1>2. [m EXCEPT !.phase = p] \in Commands
  BY <1>1 DEF Commands
<1>3. [m EXCEPT !.todo = t, !.phase = p] \in Commands
  BY <1>1 DEF Commands
<1>4. m.paths \subseteq Files /\ m.todo \subseteq Files
  BY <1>1 DEF Commands
<1> QED
  BY <1>2, <1>3, <1>4 DEF m

LEMMA ImportTyped ==
  ASSUME TypeOK, NEW c \in Clones, Import(c)
  PROVE  TypeOK'
<1> DEFINE k == clone[c]
           m == cmd[c]
<1>k. k \in CloneStates /\ m \in Commands
  BY DEF TypeOK
<1>t. k.work.tree \in [Files -> Digests] /\ k.index \in [Files -> Entries \cup {None}]
      /\ k.work.imported \subseteq Files /\ k.staged.tree \in [Files -> Digests]
  BY <1>k DEF CloneStates, Trees
<1>m. m.paths \subseteq Files /\ m.todo \subseteq Files
  BY <1>k DEF Commands
<1>o. torn \subseteq Clones /\ origin \in Trees /\ raced \in [Clones -> SUBSET Files]
      /\ owed[c] \subseteq Files /\ gitGone[c] \subseteq Files /\ drive \in [Files -> Digests]
  BY DEF TypeOK
<1>1. ASSUME NEW paths \in SUBSET Files, ImportBegins(c, paths) PROVE TypeOK'
  <2> DEFINE b == paths \cap k.work.imported # {}
             to == [Idle EXCEPT !.op = "import", !.phase = "pushing", !.paths = paths, !.trash = FALSE,
                                !.unignore = "import" = "export" /\ b]
  <2>1. to \in Commands
    BY IdleTyped DEF Commands, ImportPhases, Idle
  <2>2. {f \in paths : Kept(c, f)} \subseteq Files
    OBVIOUS
  <2>3. /\ Goes(c, to) /\ owed' = [owed EXCEPT ![c] = {f \in paths : Kept(c, f)}]
        /\ UNCHANGED <<drive, origin, clone, torn, faults, edits, gitGone, raced>>
    BY <1>1 DEF ImportBegins, Begins
  <2> HIDE DEF to
  <2> QED
    BY <2>1, <2>2, <2>3, <1>o, Types
<1>2. CASE ImportPushes(c)
  <2>1. PICK pushed \in SUBSET (m.paths \cap OnDisk(c)) :
          /\ drive' = [f \in Files |-> IF f \in pushed THEN k.work.tree[f] ELSE drive[f]]
          /\ Changes(c, [k EXCEPT !.index = [f \in Files |->
                           IF f \in pushed THEN Record(k.work.tree[f]) ELSE @[f]]])
          /\ raced' = [d \in Clones |-> IF d = c THEN {} ELSE raced[d] \cup (pushed \cap cmd[d].paths)]
    BY <1>2 DEF ImportPushes
  <2> DEFINE i == [f \in Files |-> IF f \in pushed THEN Record(k.work.tree[f]) ELSE k.index[f]]
  <2>2. \A f \in pushed : Record(k.work.tree[f]) \in Entries
    BY <1>t, Recordable DEF OnDisk
  <2>3. i \in [Files -> Entries \cup {None}]
    BY <1>t, <2>2
  <2>4. [k EXCEPT !.index = i] \in CloneStates
    BY <1>k, <2>3 DEF CloneStates
  <2>5. Changes(c, [k EXCEPT !.index = i])
    BY <2>1
  <2>6. drive' \in [Files -> Digests]
    BY <2>1, <1>o, <1>t
  <2>7. raced' \in [Clones -> SUBSET Files]
    BY <2>1, <1>o, <1>m
  <2>8. [m EXCEPT !.phase = "reading"] \in Commands
    BY CommandsTyped DEF ImportPhases
  <2> HIDE DEF i
  <2> QED
    BY <1>2, <2>4, <2>5, <2>6, <2>7, <2>8, <1>o, Types DEF ImportPushes, Enters
<1>3. CASE ImportIgnores(c)
  <2>1. [k EXCEPT !.work.imported = @ \cup m.paths] \in CloneStates
    BY <1>k, <1>m DEF CloneStates, Trees
  <2>2. [m EXCEPT !.phase = "untracking"] \in Commands
    BY CommandsTyped DEF ImportPhases
  <2> QED
    BY <1>3, <2>1, <2>2, <1>o, Types DEF ImportIgnores, GitStep, Enters, history
<1>4. ASSUME NEW batch \in SUBSET Files, ImportUntracks(c, batch) PROVE TypeOK'
  <2> DEFINE t == [f \in Files |-> IF f \in batch THEN None ELSE k.staged.tree[f]]
             p == IF batch = m.todo THEN "staging" ELSE m.phase
  <2>1. t \in [Files -> Digests]
    BY <1>t DEF Digests
  <2>2. [k EXCEPT !.staged.tree = t] \in CloneStates
    BY <1>k, <2>1 DEF CloneStates, Trees
  <2>3. [m EXCEPT !.todo = @ \ batch, !.phase = p] \in Commands
    BY <1>k DEF Commands, ImportPhases
  <2>4. /\ Changes(c, [k EXCEPT !.staged.tree = t]) /\ Goes(c, [m EXCEPT !.todo = @ \ batch, !.phase = p])
        /\ UNCHANGED <<drive, origin, torn, faults, edits, gitGone, owed, raced>>
    BY <1>4 DEF ImportUntracks, history
  <2> HIDE DEF t, p
  <2> QED
    BY <2>2, <2>3, <2>4, <1>o, Types
<1>5. CASE ImportStages(c)
  <2>1. [k EXCEPT !.staged.imported = k.work.imported] \in CloneStates
    BY <1>k, <1>t DEF CloneStates, Trees
  <2> QED
    BY <1>5, <2>1, <1>o, IdleTyped, Types DEF ImportStages, Quits
<1>6. CASE ReadsHead(c)
  <2>1. [m EXCEPT !.blobs = k.head.tree, !.phase = "listing"] \in Commands
    BY <1>k DEF Commands, ImportPhases, CloneStates, Trees
  <2> QED
    BY <1>6, <2>1, <1>o, Types DEF ReadsHead
<1> QED
  BY <1>1, <1>2, <1>3, <1>4, <1>5, <1>6 DEF Import

LEMMA ExportTyped ==
  ASSUME TypeOK, NEW c \in Clones, Export(c)
  PROVE  TypeOK'
<1> DEFINE k == clone[c]
           m == cmd[c]
<1>k. k \in CloneStates /\ m \in Commands
  BY DEF TypeOK
<1>t. k.work.tree \in [Files -> Digests] /\ k.index \in [Files -> Entries \cup {None}]
      /\ k.work.imported \subseteq Files /\ k.staged.tree \in [Files -> Digests]
      /\ k.staged.imported \subseteq Files /\ k.work.exported \subseteq Files
  BY <1>k DEF CloneStates, Trees
<1>m. m.paths \subseteq Files /\ m.todo \subseteq Files
  BY <1>k DEF Commands
<1>o. torn \subseteq Clones /\ origin \in Trees /\ raced \in [Clones -> SUBSET Files]
      /\ owed[c] \subseteq Files /\ gitGone[c] \subseteq Files /\ drive \in [Files -> Digests]
  BY DEF TypeOK
<1>1. ASSUME NEW paths \in SUBSET Files, NEW trash \in BOOLEAN, ExportBegins(c, paths, trash)
      PROVE  TypeOK'
  <2> DEFINE b == "export" = "export" /\ paths \cap k.work.imported # {}
             to == [Idle EXCEPT !.op = "export", !.phase = "pulling", !.paths = paths, !.trash = trash,
                                !.unignore = b]
  <2>1. b \in BOOLEAN
    OBVIOUS
  <2>2. {f \in paths : Kept(c, f)} \subseteq Files
    OBVIOUS
  <2>3. /\ Goes(c, to) /\ owed' = [owed EXCEPT ![c] = {f \in paths : Kept(c, f)}]
        /\ UNCHANGED <<drive, origin, clone, torn, faults, edits, gitGone, raced>>
    BY <1>1 DEF ExportBegins, Begins
  <2> HIDE DEF b
  <2>4. to \in Commands
    BY <2>1, IdleTyped DEF Commands, ExportPhases, Idle
  <2> HIDE DEF to
  <2> QED
    BY <2>2, <2>3, <2>4, <1>o, Types
<1>2. CASE ExportPulls(c)
  <2> DEFINE wanted == {f \in m.paths : f \notin Present(c) \cap OnDisk(c)}
             delivered == wanted \cap Downloadable(c)
  <2>1. \A f \in delivered : f \in Files /\ drive[f] \in Digests /\ Record(drive[f]) \in Entries
    BY <1>o, <1>m, Recordable DEF Downloadable
  <2>2. Downloads(c, delivered) \in CloneStates
    <3> DEFINE t == [f \in Files |-> IF f \in delivered THEN drive[f] ELSE k.work.tree[f]]
               i == [f \in Files |-> IF f \in delivered THEN Record(drive[f]) ELSE k.index[f]]
    <3>1. Downloads(c, delivered) = [k EXCEPT !.work.tree = t, !.index = i]
      BY DEF Downloads
    <3> HIDE DEF delivered
    <3>2. t \in [Files -> Digests] /\ i \in [Files -> Entries \cup {None}]
      BY <1>t, <2>1, <1>o
    <3>3. Downloads(c, delivered) = [[k EXCEPT !.work.tree = t] EXCEPT !.index = i]
      BY <1>k, <3>1 DEF CloneStates, Trees
    <3> HIDE DEF t, i
    <3>4. [k EXCEPT !.work.tree = t] \in CloneStates
      BY <1>k, <3>2 DEF CloneStates, Trees
    <3>5. \A j \in CloneStates : [j EXCEPT !.index = i] \in CloneStates
      BY <3>2 DEF CloneStates
    <3> QED
      BY <3>3, <3>4, <3>5
  <2>3. [m EXCEPT !.phase = "listing"] \in Commands
    BY CommandsTyped DEF ExportPhases
  <2>4. /\ Changes(c, Downloads(c, delivered)) /\ gitGone' = [gitGone EXCEPT ![c] = @ \ delivered]
        /\ (Enters(c, "listing") /\ UNCHANGED raced) \/ Quits(c)
        /\ UNCHANGED <<drive, origin, torn, faults, edits, owed>>
    BY <1>2 DEF ExportPulls
  <2> HIDE DEF delivered, wanted
  <2> QED
    BY <2>2, <2>3, <2>4, <1>o, IdleTyped, Types DEF Quits, Enters
<1>3. CASE ExportUnignores(c)
  <2>1. [k EXCEPT !.work.imported = IF m.unignore THEN @ \ m.paths ELSE @] \in CloneStates
    BY <1>k, <1>m DEF CloneStates, Trees
  <2>2. [m EXCEPT !.phase = "tracking"] \in Commands
    BY CommandsTyped DEF ExportPhases
  <2> QED
    BY <1>3, <2>1, <2>2, <1>o, Types DEF ExportUnignores, GitStep, Enters, history
<1>4. CASE ExportIgnores(c)
  <2>1. [k EXCEPT !.work.exported = @ \cup m.paths] \in CloneStates
    BY <1>k, <1>m DEF CloneStates, Trees
  <2>2. [m EXCEPT !.phase = "sealing"] \in Commands
    BY CommandsTyped DEF ExportPhases
  <2> QED
    BY <1>4, <2>1, <2>2, <1>o, Types DEF ExportIgnores, GitStep, Enters, history
<1>5. CASE ExportSeals(c)
  <2> DEFINE p == IF m.trash THEN "trashing" ELSE "forgetting"
  <2>1. [k EXCEPT !.staged.exported = k.work.exported] \in CloneStates
    BY <1>k, <1>t DEF CloneStates, Trees
  <2>2. p \in {"trashing", "forgetting"}
    OBVIOUS
  <2>3. GitStep(c, [k EXCEPT !.staged.exported = k.work.exported], p)
    BY <1>5 DEF ExportSeals
  <2> HIDE DEF p
  <2>4. [m EXCEPT !.phase = p] \in Commands
    BY <2>2, CommandsTyped DEF ExportPhases
  <2> QED
    BY <2>3, <2>1, <2>4, <1>o, Types DEF GitStep, Enters, history
<1>6. ASSUME NEW batch \in SUBSET Files, ExportTracks(c, batch) PROVE TypeOK'
  <2> DEFINE t == [f \in Files |-> IF f \in batch THEN k.work.tree[f] ELSE k.staged.tree[f]]
             i == IF m.unignore /\ batch = m.todo THEN k.work.imported ELSE k.staged.imported
             p == IF batch = m.todo THEN "exporting" ELSE m.phase
  <2>1. t \in [Files -> Digests]
    BY <1>t
  <2>2. i \subseteq Files
    BY <1>t
  <2>3. p \in {"idle"} \cup ImportPhases \cup ExportPhases \cup UndoPhases
    BY <1>k DEF Commands, ExportPhases
  <2>4. /\ Changes(c, [k EXCEPT !.staged.tree = t, !.staged.imported = i])
        /\ Goes(c, [m EXCEPT !.todo = @ \ batch, !.phase = p])
        /\ UNCHANGED <<drive, origin, torn, faults, edits, gitGone, owed, raced>>
    BY <1>6 DEF ExportTracks, history
  <2> HIDE DEF t, i, p
  <2>5. [k EXCEPT !.staged.tree = t, !.staged.imported = i] \in CloneStates
    BY <1>k, <2>1, <2>2 DEF CloneStates, Trees
  <2>6. [m EXCEPT !.todo = @ \ batch, !.phase = p] \in Commands
    BY <1>m, <2>3, CommandsTyped
  <2> QED
    BY <2>4, <2>5, <2>6, <1>o, Types
<1>7. ASSUME NEW gone \in SUBSET Files, ExportTrashes(c, gone) PROVE TypeOK'
  <2>1. drive' \in [Files -> Digests]
    BY <1>7, <1>o DEF ExportTrashes, Digests
  <2>2. raced' \in [Clones -> SUBSET Files]
    <3>1. \A d \in Clones : (IF d = c THEN raced[c] ELSE raced[d] \cup (gone \cap cmd[d].paths)) \in SUBSET Files
      BY <1>o
    <3> QED
      BY <1>7, <3>1 DEF ExportTrashes
  <2>3. [m EXCEPT !.phase = "forgetting"] \in Commands
    BY CommandsTyped DEF ExportPhases
  <2> QED
    BY <1>7, <2>1, <2>2, <2>3, <1>o, Types DEF ExportTrashes, Enters
<1>8. CASE ExportForgets(c)
  <2>1. [k EXCEPT !.index = [f \in Files |-> IF f \in m.paths THEN None ELSE @[f]]] \in CloneStates
    BY <1>k, <1>t DEF CloneStates
  <2> QED
    BY <1>8, <2>1, <1>o, IdleTyped, Types DEF ExportForgets, Quits
<1> QED
  BY <1>1, <1>2, <1>3, <1>4, <1>5, <1>6, <1>7, <1>8 DEF Export

LEMMA MoveTyped ==
  ASSUME TypeOK, NEW c \in Clones, Move(c)
  PROVE  TypeOK'
<1> DEFINE k == clone[c]
           m == cmd[c]
<1>k. k \in CloneStates /\ m \in Commands
  BY DEF TypeOK
<1>t. k.work \in Trees /\ k.staged \in Trees /\ k.head \in Trees /\ k.head.tree \in [Files -> Digests]
      /\ k.staged.tree \in [Files -> Digests] /\ k.head.imported \subseteq Files
      /\ k.head.exported \subseteq Files /\ k.staged.exported \subseteq Files
      /\ k.work.imported \subseteq Files /\ k.work.exported \subseteq Files
  BY <1>k DEF CloneStates, Trees
<1>m. m.paths \subseteq Files /\ m.todo \subseteq Files /\ m.before.imported \subseteq Files
      /\ m.before.exported \subseteq Files
  BY <1>k DEF Commands
<1>o. torn \subseteq Clones /\ origin \in Trees /\ drive \in [Files -> Digests]
  BY DEF TypeOK
<1>1. CASE Import(c) \/ Export(c)
  BY <1>1, ImportTyped, ExportTyped
<1>2. CASE Lists(c)
  <2>1. [m EXCEPT !.listing = drive, !.phase = "verifying"] \in Commands
    BY <1>k, <1>o DEF Commands, ImportPhases
  <2>2. HeadMoved(c) \subseteq Files
    BY <1>m DEF HeadMoved
  <2> QED
    BY <1>2, <2>1, <2>2, <1>o, Types DEF Lists
<1>3. CASE Verifies(c)
  <2> DEFINE before == [imported |-> k.work.imported, exported |-> k.work.exported]
             to == [m EXCEPT !.phase = "ignoring", !.todo = m.paths, !.listing = Nothing,
                             !.blobs = Nothing, !.before = before]
  <2>1. before \in [imported : SUBSET Files, exported : SUBSET Files]
    BY <1>t
  <2>2. (Goes(c, to) /\ UNCHANGED raced) \/ Quits(c)
    BY <1>3 DEF Verifies
  <2>3. UNCHANGED <<drive, origin, clone, torn, faults, edits, gitGone, owed>>
    BY <1>3 DEF Verifies
  <2> HIDE DEF before
  <2>4. to \in Commands
    BY <1>k, <1>m, <2>1, IdleTyped DEF Commands, ImportPhases
  <2> HIDE DEF to
  <2> QED
    BY <2>2, <2>3, <2>4, <1>o, IdleTyped, Types DEF Quits
<1>4. CASE Stops(c)
  BY <1>4, <1>o, IdleTyped, Types DEF Stops, Quits
<1>5. CASE GitFails(c)
  <2>1. [m EXCEPT !.phase = "undoing"] \in Commands
    BY CommandsTyped DEF UndoPhases
  <2> QED
    BY <1>5, <2>1, <1>o, Types DEF GitFails, Enters, history
<1>6. CASE UndoResets(c)
  <2> DEFINE t == [f \in Files |-> IF f \in m.paths THEN k.head.tree[f] ELSE k.staged.tree[f]]
             e == IF m.op = "export" THEN k.head.exported ELSE k.staged.exported
             to == [k EXCEPT !.staged.tree = t, !.staged.imported = k.head.imported,
                             !.staged.exported = e]
  <2>1. t \in [Files -> Digests] /\ e \subseteq Files
    BY <1>t
  <2>2. GitStep(c, to, "restoring")
    BY <1>6 DEF UndoResets
  <2> HIDE DEF t, e
  <2>3. to \in CloneStates
    BY <1>k, <1>t, <2>1 DEF CloneStates, Trees
  <2>4. [m EXCEPT !.phase = "restoring"] \in Commands
    BY CommandsTyped DEF UndoPhases
  <2> HIDE DEF to
  <2> QED
    BY <2>2, <2>3, <2>4, <1>o, Types DEF GitStep, Enters, history
<1>7. CASE UndoRestores(c)
  <2>1. [k EXCEPT !.work.imported = m.before.imported] \in CloneStates
    BY <1>k, <1>m DEF CloneStates, Trees
  <2>2. [m EXCEPT !.phase = "restoringIgnore"] \in Commands
    BY CommandsTyped DEF UndoPhases
  <2> QED
    BY <1>7, <2>1, <2>2, <1>o, IdleTyped, Types DEF UndoRestores, Quits, Enters
<1>8. CASE UndoRestoresIgnore(c)
  <2>1. [k EXCEPT !.work.exported = m.before.exported] \in CloneStates
    BY <1>k, <1>m DEF CloneStates, Trees
  <2> QED
    BY <1>8, <2>1, <1>o, IdleTyped, Types DEF UndoRestoresIgnore, Quits
<1>9. CASE Tears(c)
  <2>1. torn' \subseteq Clones
    BY <1>9, <1>o DEF Tears
  <2> QED
    BY <1>9, <2>1, <1>o, IdleTyped, Types DEF Tears, Quits
<1> QED
  BY <1>1, <1>2, <1>3, <1>4, <1>5, <1>6, <1>7, <1>8, <1>9 DEF Move

LEMMA StepTyped == TypeOK /\ [Next]_vars => TypeOK'
<1> SUFFICES ASSUME TypeOK, [Next]_vars PROVE TypeOK'
  OBVIOUS
<1>1. ASSUME NEW f \in Files, NEW content \in Digests, OtherDevice(f, content) PROVE TypeOK'
  <2>1. drive' \in [Files -> Digests] /\ raced' \in [Clones -> SUBSET Files]
    BY <1>1, DriveTyped DEF OtherDevice
  <2>2. edits' \in 0 .. MaxEdits
    BY <1>1, MoveAssumption DEF OtherDevice, Edit, TypeOK
  <2> QED
    BY <1>1, <2>1, <2>2 DEF OtherDevice, TypeOK
<1>2. ASSUME NEW c \in Clones, User(c) \/ OtherCommands(c) PROVE TypeOK'
  BY <1>2, UserTyped, OthersTyped
<1>3. ASSUME NEW c \in Movers, Move(c) PROVE TypeOK'
  BY <1>3, MoveAssumption, MoveTyped
<1>4. CASE UNCHANGED vars
  BY <1>4 DEF vars, history, TypeOK
<1> QED
  BY <1>1, <1>2, <1>3, <1>4 DEF Next

-----------------------------------------------------------------------------
(* Safety of every clone.                                                  *)

LEMMA InitSafe == Init => MoveInv
<1> SUFFICES ASSUME Init, NEW c \in Clones PROVE SafeNow(c)
  BY InitTyped DEF MoveInv
<1>1. cmd[c] = Idle /\ gitGone[c] = {} /\ torn = {}
  BY DEF Init
<1>2. clone[c].head = origin /\ clone[c].staged = origin
  BY DEF Init
<1>3. Idle.op = "none" /\ Idle.phase = "idle" /\ Idle.todo = {} /\ Idle.paths = {}
  BY DEF Idle
<1> QED
  BY <1>1, <1>2, <1>3 DEF SafeNow, Safe, Agree, Gone, Grows, GitPhases, UndoPhases, Looking

(* The safety of a clone that a step does not concern: Drive changes only  *)
(* where the clone's move is told so, and a commit's blocks only grow.     *)
LEMMA OthersKeep ==
  ASSUME NEW d \in Clones, SafeNow(d),
         clone'[d] = clone[d], cmd'[d] = cmd[d], gitGone'[d] = gitGone[d], d \in torn' <=> d \in torn,
         Blocks(origin) \subseteq Blocks(origin'),
         raced[d] \subseteq raced'[d], \A f \in cmd[d].paths \ raced'[d] : drive'[f] = drive[f]
  PROVE  SafeNow(d)'
<1> DEFINE k == clone[d]
           m == cmd[d]
<1>1. Safe(k, m, origin, gitGone[d], raced[d], drive, d \in torn)
  BY DEF SafeNow
<1>2. Agree(k, m, raced'[d], drive')
  <2>1. Agree(k, m, raced[d], drive)
    BY <1>1 DEF Safe
  <2> QED
    BY <2>1 DEF Agree
<1>3. Gone(k, m, gitGone[d]) /\ (m.op = "none" <=> m.phase = "idle") /\ (d \notin torn => Grows(k, m))
  BY <1>1 DEF Safe
<1>4. Blocks(k.head) \subseteq Blocks(origin')
  BY <1>1 DEF Safe
<1> HIDE DEF k, m
<1>5. Safe(k, m, origin', gitGone[d], raced'[d], drive', d \in torn)
  BY <1>2, <1>3, <1>4 DEF Safe
<1> QED
  BY <1>5 DEF SafeNow, k, m

(* A step of one clone that leaves it safe leaves all safe. *)
LEMMA Settles ==
  ASSUME MoveInv, TypeOK', NEW c \in Clones,
         clone' = clone \/ \E k : Changes(c, k),
         cmd' = cmd \/ \E m : Goes(c, m),
         gitGone' = gitGone \/ \E g : gitGone' = [gitGone EXCEPT ![c] = g],
         torn' \ {c} = torn \ {c},
         Blocks(origin) \subseteq Blocks(origin'),
         \/ drive' = drive /\ raced' = raced
         \/ drive' = drive /\ \E r : raced' = [raced EXCEPT ![c] = r]
         \/ \A d \in Clones \ {c} : /\ raced[d] \subseteq raced'[d]
                                    /\ \A f \in cmd[d].paths \ raced'[d] : drive'[f] = drive[f],
         SafeNow(c)'
  PROVE  MoveInv'
<1> SUFFICES ASSUME NEW d \in Clones \ {c} PROVE SafeNow(d)'
  BY DEF MoveInv
<1>1. TypeOK /\ SafeNow(d)
  BY DEF MoveInv
<1>2. clone'[d] = clone[d]
  BY <1>1 DEF TypeOK, Changes
<1>3. cmd'[d] = cmd[d]
  BY <1>1 DEF TypeOK, Goes
<1>4. gitGone'[d] = gitGone[d]
  BY <1>1 DEF TypeOK
<1>5. raced[d] \subseteq raced'[d] /\ \A f \in cmd[d].paths \ raced'[d] : drive'[f] = drive[f]
  <2>1. (\E r : raced' = [raced EXCEPT ![c] = r]) => raced'[d] = raced[d]
    BY <1>1 DEF TypeOK
  <2> QED
    BY <2>1
<1>6. d \in torn' <=> d \in torn
  OBVIOUS
<1> QED
  BY <1>1, <1>2, <1>3, <1>4, <1>5, <1>6, OthersKeep

(* A command that is not in the git step and ends leaves its clone safe. *)
LEMMA QuitsSafe ==
  ASSUME NEW k, NEW m, NEW o, NEW g, NEW r, NEW nodes, NEW t, NEW k2, NEW r2, NEW nodes2, NEW t2,
         Safe(k, m, o, g, r, nodes, t),
         k2.work = k.work, k2.staged = k.staged, k2.head = k.head, t => t2,
         t2 \/ Between(m) = {}
  PROVE  Safe(k2, Idle, o, g, r2, nodes2, t2)
<1> USE DEF Idle
<1>1. Agree(k2, Idle, r2, nodes2)
  BY DEF Agree
<1>2. Gone(k2, Idle, g)
  BY DEF Safe, Gone, GitPhases, UndoPhases
<1>3. ~t2 => Grows(k2, Idle)
  BY DEF Safe, Grows, Looking, Between
<1> QED
  BY <1>1, <1>2, <1>3 DEF Safe

(* What is left of safety while no move runs. *)
LEMMA RestSafe ==
  ASSUME NEW k, NEW o, NEW g, NEW r, NEW nodes, NEW t,
         \A f \in g : k.work.tree[f] = None,
         g \subseteq Blocks(k.work), g \subseteq Blocks(k.head),
         Blocks(k.head) \subseteq Blocks(o),
         t \/ Blocks(k.head) \subseteq Blocks(k.staged)
  PROVE  Safe(k, Idle, o, g, r, nodes, t)
<1> USE DEF Idle
<1>1. Agree(k, Idle, r, nodes)
  BY DEF Agree
<1>2. Gone(k, Idle, g)
  BY DEF Gone, GitPhases, UndoPhases
<1>3. ~t => Grows(k, Idle)
  BY DEF Grows, Looking
<1> QED
  BY <1>1, <1>2, <1>3 DEF Safe

LEMMA UserSafe ==
  ASSUME MoveInv, TypeOK', NEW c \in Clones, User(c)
  PROVE  MoveInv'
<1> DEFINE k == clone[c]
           m == cmd[c]
           k2 == clone'[c]
<1>k. k \in CloneStates /\ m \in Commands
  BY DEF TypeOK, MoveInv
<1>t. k.work \in Trees /\ k.staged \in Trees /\ k.head \in Trees /\ origin \in Trees
      /\ clone \in [Clones -> CloneStates] /\ raced \in [Clones -> SUBSET Files]
      /\ gitGone \in [Clones -> SUBSET Files] /\ torn \subseteq Clones
  BY <1>k DEF CloneStates, TypeOK, MoveInv
<1>s. Safe(k, m, origin, gitGone[c], raced[c], drive, c \in torn)
  BY DEF MoveInv, SafeNow
<1>1. ASSUME NEW f \in Files, NEW content \in Digests, UserStages(c, f, content) PROVE MoveInv'
  <2>1. k2.work = k.work /\ k2.head = k.head /\ k2.staged.imported = k.staged.imported
        /\ k2.staged.exported = k.staged.exported
    BY <1>1, <1>t DEF UserStages, Changes, CloneStates, Trees
  <2>2. raced[c] \subseteq raced'[c] /\ cmd' = cmd /\ origin' = origin /\ gitGone' = gitGone
        /\ drive' = drive /\ torn' = torn
    BY <1>1, <1>t DEF UserStages, Disowns
  <2>3. Safe(k2, m, origin, gitGone[c], raced'[c], drive, c \in torn)
    <3> HIDE DEF k, m, k2
    <3>1. Agree(k2, m, raced'[c], drive)
      BY <1>s, <2>1, <2>2 DEF Safe, Agree
    <3>2. Gone(k2, m, gitGone[c])
      BY <1>s, <2>1 DEF Safe, Gone, Blocks
    <3>3. Grows(k, m) => Grows(k2, m)
      BY <2>1 DEF Grows, Blocks
    <3> QED
      BY <1>s, <3>1, <3>2, <3>3, <2>1 DEF Safe
  <2>4. SafeNow(c)'
    BY <2>2, <2>3 DEF SafeNow
  <2> QED
    BY <1>1, <2>2, <2>4, Settles DEF UserStages, Disowns
<1>2. ASSUME NEW f \in Files, NEW content \in Digests, UserWrites(c, f, content) PROVE MoveInv'
  <2>1. k2.staged = k.staged /\ k2.head = k.head /\ k2.work.imported = k.work.imported
        /\ k2.work.exported = k.work.exported /\ \A e \in Files \ {f} : k2.work.tree[e] = k.work.tree[e]
    BY <1>2, <1>t DEF UserWrites, Changes, CloneStates, Trees
  <2>2. raced'[c] = raced[c] \cup ({f} \cap m.paths) /\ cmd' = cmd /\ origin' = origin
        /\ gitGone'[c] = gitGone[c] \ {f} /\ drive' = drive /\ torn' = torn
    BY <1>2, <1>t DEF UserWrites
  <2>p. m.paths \subseteq Files /\ gitGone[c] \subseteq Files
    BY <1>k, <1>t DEF Commands
  <2>3. Safe(k2, m, origin, gitGone'[c], raced'[c], drive, c \in torn)
    <3> HIDE DEF k, m, k2
    <3>1. Agree(k2, m, raced'[c], drive)
      BY <1>s, <2>1, <2>2, <2>p DEF Safe, Agree
    <3>2. Gone(k2, m, gitGone'[c])
      BY <1>s, <2>1, <2>2, <2>p DEF Safe, Gone, Blocks
    <3>3. Grows(k, m) => Grows(k2, m)
      BY <2>1 DEF Grows, Blocks
    <3> QED
      BY <1>s, <3>1, <3>2, <3>3, <2>1 DEF Safe
  <2>4. SafeNow(c)'
    BY <2>2, <2>3 DEF SafeNow
  <2> QED
    BY <1>2, <2>2, <2>4, Settles DEF UserWrites
<1>3. CASE GitCommits(c)
  <2>1. k2.staged = k.staged /\ k2.head = k.staged /\ k2.work = k.work /\ origin' = k.staged
        /\ k.head = origin
    BY <1>3, <1>t DEF GitCommits, Changes, CloneStates
  <2>2. raced'[c] = raced[c] \cup {f \in m.paths : k.staged.tree[f] # k.head.tree[f]}
        /\ cmd' = cmd /\ gitGone' = gitGone /\ drive' = drive /\ torn' = torn
        /\ m.phase \notin GitPhases /\ c \notin torn
    BY <1>3, <1>t DEF GitCommits, UserMayGit
  <2>3. Between(m) = {} /\ Grows(k, m)
    BY <1>s, <2>2 DEF Between, Safe, GitPhases, UndoPhases
  <2>4. Blocks(k.head) \subseteq Blocks(k.staged)
    BY <2>3 DEF Grows
  <2>5. Safe(k2, m, origin', gitGone[c], raced'[c], drive, c \in torn)
    <3> HIDE DEF k, m, k2
    <3>1. Agree(k2, m, raced'[c], drive)
      BY <1>s, <2>1, <2>2 DEF Safe, Agree
    <3>2. Gone(k2, m, gitGone[c])
      BY <1>s, <2>1, <2>2, <2>4 DEF Safe, Gone
    <3>3. Grows(k2, m)
      BY <2>1, <2>2, <2>3 DEF Grows, Blocks, GitPhases, UndoPhases
    <3> QED
      BY <1>s, <3>1, <3>2, <3>3, <2>1 DEF Safe
  <2>6. SafeNow(c)'
    BY <2>2, <2>5 DEF SafeNow
  <2>7. Blocks(origin) \subseteq Blocks(origin')
    BY <2>1, <2>4
  <2> QED
    BY <1>3, <2>2, <2>6, <2>7, Settles DEF GitCommits
<1>4. CASE GitPulls(c)
  <2> DEFINE merged == [f \in Files |-> IF f \in Pulled(c) THEN origin.tree[f] ELSE k.work.tree[f]]
             taken == {f \in Pulled(c) : origin.tree[f] = None}
             to == [k EXCEPT !.work = [origin EXCEPT !.tree = merged], !.staged = origin, !.head = origin]
  <2>1. Changes(c, to) /\ gitGone' = [gitGone EXCEPT ![c] = (@ \ Pulled(c)) \cup (taken \cap origin.imported)]
        /\ owed' = [owed EXCEPT ![c] = @ \ (Pulled(c) \cup (origin.exported \ k.head.exported))]
        /\ raced' = [raced EXCEPT ![c] = @ \cup (Pulled(c) \cap cmd[c].paths)]
        /\ UNCHANGED <<drive, origin, cmd, torn, faults, edits>>
        /\ UserMayGit(c) /\ k.staged = k.head /\ k.work.imported = k.head.imported
        /\ k.work.exported = k.head.exported
    BY <1>4 DEF GitPulls
  <2>2. to.work.tree = merged /\ to.work.imported = origin.imported /\ to.work.exported = origin.exported
        /\ to.staged = origin /\ to.head = origin
    BY <1>k, <1>t DEF CloneStates, Trees
  <2> HIDE DEF to
  <2>3. k2 = to
    BY <2>1, <1>t DEF Changes
  <2>4. raced'[c] = raced[c] \cup (Pulled(c) \cap m.paths) /\ gitGone'[c] = (gitGone[c] \ Pulled(c)) \cup (taken \cap origin.imported)
        /\ m.phase \notin GitPhases /\ c \notin torn
    BY <2>1, <1>t DEF Disowns, UserMayGit
  <2>p. m.paths \subseteq Files /\ gitGone[c] \subseteq Files /\ Pulled(c) \subseteq Files
        /\ \A f \in Files \ Pulled(c) : k.head.tree[f] = origin.tree[f]
    BY <1>k, <1>t DEF Commands, Pulled
  <2>5. Safe(k2, m, origin, gitGone'[c], raced'[c], drive, c \in torn)
    <3>m. \A f \in Files : merged[f] = IF f \in Pulled(c) THEN origin.tree[f] ELSE k.work.tree[f]
      OBVIOUS
    <3>g. \A f \in taken : f \in Pulled(c) /\ origin.tree[f] = None
      OBVIOUS
    <3> HIDE DEF k, m, k2, merged, taken
    <3>1. Agree(k2, m, raced'[c], drive)
      BY <1>s, <2>2, <2>3, <2>4, <2>p DEF Safe, Agree, GitPhases
    <3>2. Gone(k2, m, gitGone'[c])
      <4>1. \A f \in gitGone'[c] : k2.work.tree[f] = None
        BY <1>s, <2>2, <2>3, <2>4, <2>p, <3>m, <3>g DEF Safe, Gone
      <4>2. gitGone'[c] \subseteq Blocks(origin)
        BY <1>s, <2>4 DEF Safe, Gone, Blocks
      <4>3. Blocks(k2.work) = Blocks(origin) /\ Blocks(k2.head) = Blocks(origin)
        BY <2>2, <2>3 DEF Blocks
      <4> QED
        BY <4>1, <4>2, <4>3, <2>4 DEF Gone
    <3>3. Grows(k2, m)
      BY <2>2, <2>3, <2>4 DEF Grows, Blocks, GitPhases, UndoPhases
    <3> QED
      BY <1>s, <3>1, <3>2, <3>3, <2>2, <2>3 DEF Safe
  <2>6. SafeNow(c)'
    BY <2>1, <2>5 DEF SafeNow
  <2> HIDE DEF merged, taken
  <2>7. \E g : gitGone' = [gitGone EXCEPT ![c] = g]
    BY <2>1
  <2>8. \E r : raced' = [raced EXCEPT ![c] = r]
    BY <2>1 DEF Disowns
  <2> QED
    BY <2>1, <2>6, <2>7, <2>8, Settles
<1>5. CASE UserRepairs(c)
  <2>1. k2.staged = k.head /\ k2.head = k.head /\ k2.work.tree = k.work.tree
        /\ k2.work.imported = k.head.imported /\ k2.work.exported = k.head.exported
    BY <1>5, <1>t DEF UserRepairs, Changes, CloneStates, Trees
  <2>2. raced' = raced /\ cmd' = cmd /\ origin' = origin /\ gitGone' = gitGone /\ drive' = drive
        /\ torn' = torn \ {c} /\ m.phase = "idle"
    BY <1>5 DEF UserRepairs
  <2>3. Safe(k2, m, origin, gitGone[c], raced[c], drive, c \in torn')
    <3> HIDE DEF k, m, k2
    <3>1. Agree(k2, m, raced[c], drive)
      BY <1>s, <2>1, <2>2 DEF Safe, Agree
    <3>2. Gone(k2, m, gitGone[c])
      BY <1>s, <2>1, <2>2 DEF Safe, Gone, Blocks, GitPhases, UndoPhases
    <3>3. Grows(k2, m)
      BY <1>s, <2>1, <2>2 DEF Grows, Blocks, Safe, Looking
    <3> QED
      BY <1>s, <3>1, <3>2, <3>3, <2>1 DEF Safe
  <2>4. SafeNow(c)'
    BY <2>2, <2>3 DEF SafeNow
  <2> QED
    BY <1>5, <2>2, <2>4, Settles DEF UserRepairs
<1> QED
  BY <1>1, <1>2, <1>3, <1>4, <1>5 DEF User

LEMMA OtherCommandsSafe ==
  ASSUME MoveInv, TypeOK', NEW c \in Clones, OtherCommands(c)
  PROVE  MoveInv'
<1> DEFINE k == clone[c]
           k2 == clone'[c]
<1>k. k \in CloneStates /\ k.work \in Trees /\ drive \in [Files -> Digests] /\ gitGone[c] \subseteq Files
      /\ gitGone \in [Clones -> SUBSET Files] /\ clone \in [Clones -> CloneStates]
      /\ raced \in [Clones -> SUBSET Files] /\ torn \subseteq Clones
  BY DEF TypeOK, MoveInv, CloneStates
<1>s. Safe(k, cmd[c], origin, gitGone[c], raced[c], drive, c \in torn)
  BY DEF MoveInv, SafeNow
<1>1. PICK f \in Files : Push(c, f) \/ PushTrashes(c, f) \/ Pull(c, f) \/ Offload(c, f)
  BY DEF OtherCommands
<1>2. cmd[c].phase = "idle" /\ cmd' = cmd /\ torn' = torn /\ origin' = origin
  BY <1>1 DEF Push, PushTrashes, Pull, Offload, Free
<1>3. k2.head = k.head /\ k2.staged = k.staged /\ k2.work.imported = k.work.imported
      /\ k2.work.exported = k.work.exported
  <2>1. CASE Push(c, f)
    BY <2>1, <1>k DEF Push, Changes, CloneStates
  <2>4. CASE PushTrashes(c, f)
    BY <2>4, <1>k DEF PushTrashes, Changes, CloneStates
  <2>2. CASE Pull(c, f)
    BY <2>2, <1>k DEF Pull, Changes, Downloads, CloneStates, Trees
  <2>3. CASE Offload(c, f)
    BY <2>3, <1>k DEF Offload, Changes, CloneStates, Trees
  <2> QED
    BY <1>1, <2>1, <2>2, <2>3, <2>4
<1>4. \A e \in gitGone'[c] : k2.work.tree[e] = None /\ e \in gitGone[c]
  <2>s. \A e \in gitGone[c] : k.work.tree[e] = None
    BY <1>s DEF Safe, Gone
  <2>1. CASE Push(c, f)
    BY <2>1, <2>s, <1>k DEF Push, Changes, CloneStates
  <2>4. CASE PushTrashes(c, f)
    BY <2>4, <2>s, <1>k DEF PushTrashes, Changes, CloneStates
  <2>2. CASE Pull(c, f)
    BY <2>2, <2>s, <1>k DEF Pull, Changes, Downloads, CloneStates, Trees
  <2>3. CASE Offload(c, f)
    BY <2>3, <2>s, <1>k DEF Offload, Changes, CloneStates, Trees, history
  <2> QED
    BY <1>1, <2>1, <2>2, <2>3, <2>4
<1>5. \/ drive' = drive /\ raced' = raced
      \/ \A d \in Clones \ {c} : /\ raced[d] \subseteq raced'[d]
                                 /\ \A e \in cmd[d].paths \ raced'[d] : drive'[e] = drive[e]
  <2>p. \A d \in Clones : cmd[d].paths \subseteq Files
    BY DEF MoveInv, TypeOK, Commands
  <2>1. CASE Pull(c, f) \/ Offload(c, f)
    BY <2>1 DEF Pull, Offload, history
  <2>2. ASSUME NEW content, DriveBecomes(f, content, c), NEW d \in Clones \ {c}
        PROVE  /\ raced[d] \subseteq raced'[d]
               /\ \A e \in cmd[d].paths \ raced'[d] : drive'[e] = drive[e]
    <3>1. raced'[d] = raced[d] \cup ({f} \cap cmd[d].paths)
      BY <2>2 DEF DriveBecomes
    <3>2. \A e \in Files \ {f} : drive'[e] = drive[e]
      BY <2>2, <1>k DEF DriveBecomes
    <3> QED
      BY <2>p, <3>1, <3>2
  <2> QED
    BY <1>1, <2>1, <2>2 DEF Push, PushTrashes
<1>6. SafeNow(c)'
  <2> DEFINE m == cmd[c]
  <2>1. gitGone'[c] \subseteq gitGone[c]
    BY <1>4
  <2>2. Safe(k2, m, origin, gitGone'[c], raced'[c], drive', c \in torn)
    <3>0. m.phase = "idle"
      BY <1>2
    <3> HIDE DEF k, m, k2
    <3>1. Agree(k2, m, raced'[c], drive')
      BY <1>s, <3>0 DEF Safe, Agree, m
    <3>2. Gone(k2, m, gitGone'[c])
      BY <1>s, <3>0, <2>1, <1>3, <1>4 DEF Safe, Gone, Blocks, GitPhases, UndoPhases, m
    <3>3. Grows(k, m) => Grows(k2, m)
      BY <1>3 DEF Grows, Blocks
    <3>4. c \notin torn => Grows(k, m)
      BY <1>s DEF Safe, m
    <3>5. (m.op = "none" <=> m.phase = "idle") /\ Blocks(k.head) \subseteq Blocks(origin)
      BY <1>s DEF Safe, m
    <3> QED
      BY <3>1, <3>2, <3>3, <3>4, <3>5, <1>3 DEF Safe
  <2> QED
    BY <1>2, <2>2 DEF SafeNow
<1>7. clone' = clone \/ \E to : Changes(c, to)
  BY <1>1 DEF Push, PushTrashes, Pull, Offload
<1>8. gitGone' = gitGone \/ \E g : gitGone' = [gitGone EXCEPT ![c] = g]
  BY <1>1 DEF Push, PushTrashes, Pull, Offload, history
<1> QED
  BY <1>2, <1>5, <1>6, <1>7, <1>8, Settles

LEMMA OtherDeviceSafe ==
  ASSUME MoveInv, TypeOK', NEW f \in Files, NEW content \in Digests, OtherDevice(f, content)
  PROVE  MoveInv'
<1> SUFFICES ASSUME NEW d \in Clones PROVE SafeNow(d)'
  BY DEF MoveInv
<1>1. DriveBecomes(f, content, None) /\ UNCHANGED <<origin, clone, cmd, torn, gitGone>>
  BY DEF OtherDevice
<1>2. raced'[d] = raced[d] \cup ({f} \cap cmd[d].paths)
  BY <1>1, MoveAssumption DEF DriveBecomes
<1>3. \A e \in Files \ {f} : drive'[e] = drive[e]
  BY <1>1 DEF DriveBecomes, MoveInv, TypeOK
<1>4. cmd[d].paths \subseteq Files
  BY DEF MoveInv, TypeOK, Commands
<1>5. SafeNow(d)
  BY DEF MoveInv
<1> QED
  BY <1>1, <1>2, <1>3, <1>4, <1>5, OthersKeep

(* A step of a running move keeps what is safe of the paths, by parts. *)
LEMMA ImportSafe ==
  ASSUME MoveInv, TypeOK', NEW c \in Clones, Import(c)
  PROVE  MoveInv'
<1> DEFINE k == clone[c]
           m == cmd[c]
           k2 == clone'[c]
           m2 == cmd'[c]
<1>k. k \in CloneStates /\ m \in Commands
  BY DEF TypeOK, MoveInv
<1>t. k.work \in Trees /\ k.staged \in Trees /\ k.head \in Trees /\ clone \in [Clones -> CloneStates]
      /\ cmd \in [Clones -> Commands] /\ raced \in [Clones -> SUBSET Files]
      /\ gitGone \in [Clones -> SUBSET Files] /\ drive \in [Files -> Digests] /\ torn \subseteq Clones
  BY <1>k DEF CloneStates, TypeOK, MoveInv
<1>s. Safe(k, m, origin, gitGone[c], raced[c], drive, c \in torn)
  BY DEF MoveInv, SafeNow
<1>1. ASSUME NEW paths \in SUBSET Files, ImportBegins(c, paths) PROVE MoveInv'
  <2> DEFINE to == [Idle EXCEPT !.op = "import", !.phase = "pushing", !.paths = paths, !.trash = FALSE,
                                !.unignore = "import" = "export" /\ paths \cap k.work.imported # {}]
  <2>1. Goes(c, to) /\ UNCHANGED <<drive, origin, clone, torn, gitGone, raced>>
        /\ m.phase = "idle" /\ Clean(c, "imported")
    BY <1>1 DEF ImportBegins, Begins, Free
  <2>2. m2.op = "import" /\ m2.phase = "pushing" /\ m2.todo = {} /\ m2.paths = paths
    BY <2>1, <1>t DEF Goes, Idle
  <2>3. k.work.imported = k.head.imported /\ k.staged.imported = k.head.imported
    BY <2>1 DEF Clean
  <2>4. Safe(k, m2, origin, gitGone[c], raced[c], drive, c \in torn)
    <3> HIDE DEF k, m, k2, m2
    <3>1. Agree(k, m2, raced[c], drive)
      BY <2>2 DEF Agree
    <3>2. Gone(k, m2, gitGone[c])
      BY <1>s, <2>2 DEF Safe, Gone, GitPhases, UndoPhases
    <3>3. Grows(k, m) => Grows(k, m2)
      BY <2>1, <2>2, <2>3 DEF Grows, Between
    <3> QED
      BY <1>s, <3>1, <3>2, <3>3, <2>2 DEF Safe
  <2>5. SafeNow(c)'
    BY <2>1, <2>4 DEF SafeNow
  <2> HIDE DEF to
  <2> QED
    BY <2>1, <2>5, Settles
<1>2. CASE ImportPushes(c)
  <2>1. k2.work = k.work /\ k2.staged = k.staged /\ k2.head = k.head
    BY <1>2, <1>t DEF ImportPushes, Changes, CloneStates
  <2>2. m2.op = "import" /\ m2.phase = "reading" /\ m2.todo = m.todo /\ m2.paths = m.paths
        /\ m.op = "import" /\ m.phase = "pushing"
    BY <1>2, <1>t DEF ImportPushes, Enters, Goes, On, Commands
  <2>3. UNCHANGED <<origin, torn, gitGone>>
    BY <1>2 DEF ImportPushes
  <2>4. Safe(k2, m2, origin, gitGone[c], raced'[c], drive', c \in torn)
    <3> HIDE DEF k, m, k2, m2
    <3>1. Agree(k2, m2, raced'[c], drive')
      BY <1>s, <2>2 DEF Safe, Agree
    <3>2. Gone(k2, m2, gitGone[c])
      BY <1>s, <2>1, <2>2 DEF Safe, Gone, GitPhases, UndoPhases
    <3>3. Grows(k, m) => Grows(k2, m2)
      BY <2>1, <2>2 DEF Grows, Between, ImportPhases
    <3> QED
      BY <1>s, <3>1, <3>2, <3>3, <2>1, <2>2 DEF Safe
  <2>5. SafeNow(c)'
    BY <2>3, <2>4 DEF SafeNow
  <2>6. ASSUME NEW d \in Clones \ {c}
        PROVE  raced[d] \subseteq raced'[d] /\ \A f \in cmd[d].paths \ raced'[d] : drive'[f] = drive[f]
    <3>1. PICK pushed \in SUBSET Files :
            /\ drive' = [f \in Files |-> IF f \in pushed THEN clone[c].work.tree[f] ELSE drive[f]]
            /\ raced' = [e \in Clones |-> IF e = c THEN {} ELSE raced[e] \cup (pushed \cap cmd[e].paths)]
      BY <1>2 DEF ImportPushes, OnDisk
    <3>2. cmd[d].paths \subseteq Files
      BY <1>t DEF Commands
    <3> QED
      BY <3>1, <3>2
  <2> QED
    BY <1>2, <2>3, <2>5, <2>6, Settles DEF ImportPushes, Enters
<1>3. CASE ImportIgnores(c)
  <2>1. k2.work.tree = k.work.tree /\ k2.work.imported = k.work.imported \cup m.paths
        /\ k2.work.exported = k.work.exported /\ k2.staged = k.staged /\ k2.head = k.head
    BY <1>3, <1>t DEF ImportIgnores, GitStep, Changes, CloneStates, Trees
  <2>2. m2.op = "import" /\ m2.phase = "untracking" /\ m2.todo = m.todo /\ m2.paths = m.paths
        /\ m2.before = m.before /\ m.op = "import" /\ m.phase = "ignoring"
    BY <1>3, <1>t DEF ImportIgnores, GitStep, Enters, Goes, On, Commands
  <2>3. UNCHANGED <<drive, origin, torn, gitGone, raced>>
    BY <1>3 DEF ImportIgnores, GitStep, history
  <2>4. Safe(k2, m2, origin, gitGone[c], raced[c], drive, c \in torn)
    <3> HIDE DEF k, m, k2, m2
    <3>1. Agree(k2, m2, raced[c], drive)
      BY <1>s, <2>1, <2>2 DEF Safe, Agree
    <3>2. Gone(k2, m2, gitGone[c])
      BY <1>s, <2>1, <2>2 DEF Safe, Gone, Blocks, GitPhases, UndoPhases
    <3>3. Grows(k, m) => Grows(k2, m2)
      BY <2>1, <2>2 DEF Grows, Between, ImportPhases, Blocks
    <3> QED
      BY <1>s, <3>1, <3>2, <3>3, <2>1, <2>2 DEF Safe
  <2>5. SafeNow(c)'
    BY <2>3, <2>4 DEF SafeNow
  <2> QED
    BY <1>3, <2>3, <2>5, Settles DEF ImportIgnores, GitStep, Enters
<1>4. ASSUME NEW batch \in SUBSET Files, ImportUntracks(c, batch) PROVE MoveInv'
  <2>1. k2.work = k.work /\ k2.staged.imported = k.staged.imported
        /\ k2.staged.exported = k.staged.exported /\ k2.head = k.head
    BY <1>4, <1>t DEF ImportUntracks, Changes, CloneStates, Trees
  <2>2. m2.op = "import" /\ m2.phase \in {"untracking", "staging"} /\ m2.todo \subseteq m.todo
        /\ m2.paths = m.paths /\ m2.before = m.before /\ m.op = "import" /\ m.phase = "untracking"
    BY <1>4, <1>t DEF ImportUntracks, Goes, On, Commands
  <2>3. UNCHANGED <<drive, origin, torn, gitGone, raced>>
    BY <1>4 DEF ImportUntracks, history
  <2>4. Safe(k2, m2, origin, gitGone[c], raced[c], drive, c \in torn)
    <3> HIDE DEF k, m, k2, m2
    <3>1. Agree(k2, m2, raced[c], drive)
      BY <1>s, <2>1, <2>2 DEF Safe, Agree
    <3>2. Gone(k2, m2, gitGone[c])
      BY <1>s, <2>1, <2>2 DEF Safe, Gone, GitPhases, UndoPhases
    <3>3. Grows(k, m) => Grows(k2, m2)
      BY <2>1, <2>2 DEF Grows, Between, ImportPhases, Blocks
    <3> QED
      BY <1>s, <3>1, <3>2, <3>3, <2>1, <2>2 DEF Safe
  <2>5. SafeNow(c)'
    BY <2>3, <2>4 DEF SafeNow
  <2> QED
    BY <1>4, <2>3, <2>5, Settles DEF ImportUntracks
<1>5. CASE ImportStages(c)
  <2>1. k2.work = k.work /\ k2.staged.imported = k.work.imported
        /\ k2.staged.exported = k.staged.exported /\ k2.head = k.head
    BY <1>5, <1>t DEF ImportStages, Changes, CloneStates, Trees
  <2>2. m2 = Idle /\ m.op = "import" /\ m.phase = "staging"
    BY <1>5, <1>t DEF ImportStages, Quits, Goes, On
  <2>3. UNCHANGED <<drive, origin, torn, gitGone>>
    BY <1>5 DEF ImportStages
  <2>4. Safe(k2, Idle, origin, gitGone[c], raced'[c], drive, c \in torn)
    <3> HIDE DEF k, m, k2, m2
    <3>1. c \in torn \/ Blocks(k2.head) \subseteq Blocks(k2.staged)
      BY <1>s, <2>1, <2>2 DEF Safe, Grows, Between, Blocks, ImportPhases
    <3>2. /\ \A f \in gitGone[c] : k2.work.tree[f] = None
          /\ gitGone[c] \subseteq Blocks(k2.work) /\ gitGone[c] \subseteq Blocks(k2.head)
          /\ Blocks(k2.head) \subseteq Blocks(origin)
      BY <1>s, <2>1 DEF Safe, Gone
    <3> QED
      BY <3>1, <3>2, RestSafe
  <2>5. SafeNow(c)'
    BY <2>2, <2>3, <2>4 DEF SafeNow
  <2> QED
    BY <1>5, <2>3, <2>5, Settles DEF ImportStages, Quits
<1>6. CASE ReadsHead(c)
  <2>1. m2.op = "import" /\ m2.phase = "listing" /\ m2.todo = m.todo /\ m2.paths = m.paths
        /\ m.op = "import" /\ m.phase = "reading"
    BY <1>6, <1>t DEF ReadsHead, Goes, On, Commands
  <2>2. UNCHANGED <<drive, origin, clone, torn, gitGone>>
    BY <1>6 DEF ReadsHead
  <2>3. Safe(k, m2, origin, gitGone[c], raced'[c], drive, c \in torn)
    <3> HIDE DEF k, m, m2
    <3>1. Agree(k, m2, raced'[c], drive)
      BY <1>s, <2>1 DEF Safe, Agree
    <3>2. Gone(k, m2, gitGone[c])
      BY <1>s, <2>1 DEF Safe, Gone, GitPhases, UndoPhases
    <3>3. Grows(k, m) => Grows(k, m2)
      BY <2>1 DEF Grows, Between, ImportPhases
    <3> QED
      BY <1>s, <3>1, <3>2, <3>3, <2>1 DEF Safe
  <2>4. SafeNow(c)'
    BY <2>2, <2>3 DEF SafeNow
  <2> QED
    BY <1>6, <2>2, <2>4, Settles DEF ReadsHead
<1> QED
  BY <1>1, <1>2, <1>3, <1>4, <1>5, <1>6 DEF Import

LEMMA ExportSafe ==
  ASSUME MoveInv, TypeOK', NEW c \in Clones, Export(c)
  PROVE  MoveInv'
<1> DEFINE k == clone[c]
           m == cmd[c]
           k2 == clone'[c]
           m2 == cmd'[c]
<1>k. k \in CloneStates /\ m \in Commands
  BY DEF TypeOK, MoveInv
<1>t. k.work \in Trees /\ k.staged \in Trees /\ k.head \in Trees /\ clone \in [Clones -> CloneStates]
      /\ cmd \in [Clones -> Commands] /\ raced \in [Clones -> SUBSET Files]
      /\ gitGone \in [Clones -> SUBSET Files] /\ drive \in [Files -> Digests] /\ torn \subseteq Clones
  BY <1>k DEF CloneStates, TypeOK, MoveInv
<1>s. Safe(k, m, origin, gitGone[c], raced[c], drive, c \in torn)
  BY DEF MoveInv, SafeNow
<1>1. ASSUME NEW paths \in SUBSET Files, NEW trash \in BOOLEAN, ExportBegins(c, paths, trash)
      PROVE  MoveInv'
  <2> DEFINE b == "export" = "export" /\ paths \cap k.work.imported # {}
             to == [Idle EXCEPT !.op = "export", !.phase = "pulling", !.paths = paths, !.trash = trash,
                                !.unignore = b]
  <2>1. Goes(c, to) /\ UNCHANGED <<drive, origin, clone, torn, gitGone, raced>>
        /\ m.phase = "idle" /\ Clean(c, "exported") /\ (b => Clean(c, "imported"))
    BY <1>1 DEF ExportBegins, Begins, Free
  <2>2. m2.op = "export" /\ m2.phase = "pulling" /\ m2.todo = {} /\ m2.paths = paths /\ m2.unignore = b
    BY <2>1, <1>t DEF Goes, Idle
  <2>3. /\ k.work.exported = k.head.exported /\ k.staged.exported = k.head.exported
        /\ b => k.work.imported = k.head.imported /\ k.staged.imported = k.head.imported
    BY <2>1 DEF Clean
  <2> HIDE DEF b, to
  <2>4. Safe(k, m2, origin, gitGone[c], raced[c], drive, c \in torn)
    <3> HIDE DEF k, m, k2, m2
    <3>1. Agree(k, m2, raced[c], drive)
      BY <2>2 DEF Agree
    <3>2. Gone(k, m2, gitGone[c])
      BY <1>s, <2>2 DEF Safe, Gone, GitPhases, UndoPhases
    <3>3. Grows(k, m) => Grows(k, m2)
      BY <2>1, <2>2, <2>3 DEF Grows, Between, Looking
    <3> QED
      BY <1>s, <3>1, <3>2, <3>3, <2>2 DEF Safe
  <2>5. SafeNow(c)'
    BY <2>1, <2>4 DEF SafeNow
  <2> QED
    BY <2>1, <2>5, Settles
<1>2. CASE ExportPulls(c)
  <2> DEFINE wanted == {f \in m.paths : f \notin Present(c) \cap OnDisk(c)}
             delivered == wanted \cap Downloadable(c)
  <2>1. /\ Changes(c, Downloads(c, delivered)) /\ gitGone' = [gitGone EXCEPT ![c] = @ \ delivered]
        /\ (Enters(c, "listing") /\ UNCHANGED raced) \/ Quits(c)
        /\ UNCHANGED <<drive, origin, torn, faults, edits, owed>>
        /\ m.op = "export" /\ m.phase = "pulling"
    BY <1>2 DEF ExportPulls, On
  <2> HIDE DEF delivered, wanted
  <2>2. k2.staged = k.staged /\ k2.head = k.head /\ k2.work.imported = k.work.imported
        /\ k2.work.exported = k.work.exported /\ \A f \in Files \ delivered : k2.work.tree[f] = k.work.tree[f]
    BY <2>1, <1>t DEF Changes, Downloads, CloneStates, Trees
  <2>3. gitGone'[c] = gitGone[c] \ delivered /\ gitGone[c] \subseteq Files
    BY <2>1, <1>t
  <2>4. /\ \A f \in gitGone'[c] : k2.work.tree[f] = None
        /\ gitGone'[c] \subseteq Blocks(k2.work) /\ gitGone'[c] \subseteq Blocks(k2.head)
        /\ Blocks(k2.head) \subseteq Blocks(origin)
    BY <1>s, <2>2, <2>3 DEF Safe, Gone, Blocks
  <2>5. ASSUME Enters(c, "listing"), UNCHANGED raced PROVE SafeNow(c)'
    <3>1. m2.op = "export" /\ m2.phase = "listing" /\ m2.todo = m.todo /\ m2.paths = m.paths
          /\ m2.unignore = m.unignore
      BY <2>1, <2>5, <1>t DEF Enters, Goes, Commands
    <3>2. Safe(k2, m2, origin, gitGone'[c], raced[c], drive, c \in torn)
      <4> HIDE DEF k, m, k2, m2
      <4>1. Agree(k2, m2, raced[c], drive)
        BY <1>s, <3>1 DEF Safe, Agree
      <4>2. Gone(k2, m2, gitGone'[c])
        BY <2>4, <3>1 DEF Gone, GitPhases, UndoPhases
      <4>3. Grows(k, m) => Grows(k2, m2)
        BY <2>1, <2>2, <3>1 DEF Grows, Between, Looking, Blocks
      <4> QED
        BY <1>s, <2>4, <4>1, <4>2, <4>3, <3>1 DEF Safe
    <3> QED
      BY <2>1, <2>5, <3>2 DEF SafeNow
  <2>6. ASSUME Quits(c) PROVE SafeNow(c)'
    <3>1. m2 = Idle
      BY <2>6, <1>t DEF Quits, Goes
    <3>2. c \in torn \/ Blocks(k2.head) \subseteq Blocks(k2.staged)
      <4> HIDE DEF k, m, k2, m2
      <4> QED
        BY <1>s, <2>1, <2>2 DEF Safe, Grows, Between
    <3>3. Safe(k2, Idle, origin, gitGone'[c], raced'[c], drive, c \in torn)
      <4> HIDE DEF k, m, k2, m2
      <4> QED
        BY <2>4, <3>2, RestSafe
    <3> QED
      BY <2>1, <3>1, <3>3 DEF SafeNow
  <2>7. SafeNow(c)'
    BY <2>1, <2>5, <2>6
  <2> QED
    BY <2>1, <2>7, Settles DEF Enters, Quits
<1>3. CASE ExportUnignores(c)
  <2>1. k2.work.tree = k.work.tree /\ k2.work.exported = k.work.exported
        /\ k2.work.imported = (IF m.unignore THEN k.work.imported \ m.paths ELSE k.work.imported)
        /\ k2.staged = k.staged /\ k2.head = k.head
    BY <1>3, <1>t DEF ExportUnignores, GitStep, Changes, CloneStates, Trees
  <2>2. m2.op = "export" /\ m2.phase = "tracking" /\ m2.todo = m.todo /\ m2.paths = m.paths
        /\ m2.before = m.before /\ m2.unignore = m.unignore /\ m.op = "export" /\ m.phase = "ignoring"
    BY <1>3, <1>t DEF ExportUnignores, GitStep, Enters, Goes, On, Commands
  <2>3. UNCHANGED <<drive, origin, torn, gitGone, raced>>
    BY <1>3 DEF ExportUnignores, GitStep, history
  <2>4. Safe(k2, m2, origin, gitGone[c], raced[c], drive, c \in torn)
    <3> HIDE DEF k, m, k2, m2
    <3>1. Agree(k2, m2, raced[c], drive)
      BY <1>s, <2>1, <2>2 DEF Safe, Agree
    <3>2. Gone(k2, m2, gitGone[c])
      BY <1>s, <2>1, <2>2 DEF Safe, Gone, Blocks, GitPhases, UndoPhases
    <3>3. Grows(k, m) => Grows(k2, m2)
      BY <2>1, <2>2 DEF Grows, Between, ImportPhases, Blocks, Looking
    <3> QED
      BY <1>s, <3>1, <3>2, <3>3, <2>1, <2>2 DEF Safe
  <2>5. SafeNow(c)'
    BY <2>3, <2>4 DEF SafeNow
  <2> QED
    BY <1>3, <2>3, <2>5, Settles DEF ExportUnignores, GitStep, Enters
<1>4. ASSUME NEW batch \in SUBSET Files, ExportTracks(c, batch) PROVE MoveInv'
  <2>1. k2.work = k.work /\ k2.head = k.head /\ k2.staged.exported = k.staged.exported
        /\ k2.staged.imported = (IF m.unignore /\ batch = m.todo THEN k.work.imported ELSE k.staged.imported)
    BY <1>4, <1>t DEF ExportTracks, Changes, CloneStates, Trees
  <2>2. m2.op = "export" /\ m2.phase = (IF batch = m.todo THEN "exporting" ELSE "tracking") /\ m2.todo \subseteq m.todo /\ m2.paths = m.paths
        /\ m2.before = m.before /\ m2.unignore = m.unignore /\ m.op = "export" /\ m.phase = "tracking"
    BY <1>4, <1>t DEF ExportTracks, Goes, On, Commands
  <2>3. UNCHANGED <<drive, origin, torn, gitGone, raced>>
    BY <1>4 DEF ExportTracks, history
  <2>4. Safe(k2, m2, origin, gitGone[c], raced[c], drive, c \in torn)
    <3> HIDE DEF k, m, k2, m2
    <3>1. Agree(k2, m2, raced[c], drive)
      BY <1>s, <2>1, <2>2 DEF Safe, Agree
    <3>2. Gone(k2, m2, gitGone[c])
      BY <1>s, <2>1, <2>2 DEF Safe, Gone, Blocks, GitPhases, UndoPhases
    <3>3. Grows(k, m) => Grows(k2, m2)
      BY <2>1, <2>2 DEF Grows, Between, ImportPhases, Blocks, Looking
    <3> QED
      BY <1>s, <3>1, <3>2, <3>3, <2>1, <2>2 DEF Safe
  <2>5. SafeNow(c)'
    BY <2>3, <2>4 DEF SafeNow
  <2> QED
    BY <1>4, <2>3, <2>5, Settles DEF ExportTracks
<1>5. CASE ExportIgnores(c)
  <2>1. k2.work.tree = k.work.tree /\ k2.work.imported = k.work.imported
        /\ k2.work.exported = k.work.exported \cup m.paths /\ k2.staged = k.staged /\ k2.head = k.head
    BY <1>5, <1>t DEF ExportIgnores, GitStep, Changes, CloneStates, Trees
  <2>2. m2.op = "export" /\ m2.phase = "sealing" /\ m2.todo = m.todo /\ m2.paths = m.paths
        /\ m2.before = m.before /\ m2.unignore = m.unignore /\ m.op = "export" /\ m.phase = "exporting"
    BY <1>5, <1>t DEF ExportIgnores, GitStep, Enters, Goes, On, Commands
  <2>3. UNCHANGED <<drive, origin, torn, gitGone, raced>>
    BY <1>5 DEF ExportIgnores, GitStep, history
  <2>4. Safe(k2, m2, origin, gitGone[c], raced[c], drive, c \in torn)
    <3> HIDE DEF k, m, k2, m2
    <3>1. Agree(k2, m2, raced[c], drive)
      BY <1>s, <2>1, <2>2 DEF Safe, Agree
    <3>2. Gone(k2, m2, gitGone[c])
      BY <1>s, <2>1, <2>2 DEF Safe, Gone, Blocks, GitPhases, UndoPhases
    <3>3. Grows(k, m) => Grows(k2, m2)
      BY <2>1, <2>2 DEF Grows, Between, ImportPhases, Blocks, Looking
    <3> QED
      BY <1>s, <3>1, <3>2, <3>3, <2>1, <2>2 DEF Safe
  <2>5. SafeNow(c)'
    BY <2>3, <2>4 DEF SafeNow
  <2> QED
    BY <1>5, <2>3, <2>5, Settles DEF ExportIgnores, GitStep, Enters
<1>6. CASE ExportSeals(c)
  <2>1. k2.work = k.work /\ k2.head = k.head /\ k2.staged.imported = k.staged.imported
        /\ k2.staged.exported = k.work.exported
    BY <1>6, <1>t DEF ExportSeals, GitStep, Changes, CloneStates, Trees
  <2>2. m2.op = "export" /\ m2.phase \in {"trashing", "forgetting"} /\ m2.todo = m.todo /\ m2.paths = m.paths
        /\ m2.before = m.before /\ m2.unignore = m.unignore /\ m.op = "export" /\ m.phase = "sealing"
    BY <1>6, <1>t DEF ExportSeals, GitStep, Enters, Goes, On, Commands
  <2>3. UNCHANGED <<drive, origin, torn, gitGone, raced>>
    BY <1>6 DEF ExportSeals, GitStep, history
  <2>4. Safe(k2, m2, origin, gitGone[c], raced[c], drive, c \in torn)
    <3> HIDE DEF k, m, k2, m2
    <3>1. Agree(k2, m2, raced[c], drive)
      BY <1>s, <2>1, <2>2 DEF Safe, Agree
    <3>2. Gone(k2, m2, gitGone[c])
      BY <1>s, <2>1, <2>2 DEF Safe, Gone, Blocks, GitPhases, UndoPhases
    <3>3. Grows(k, m) => Grows(k2, m2)
      BY <2>1, <2>2 DEF Grows, Between, ImportPhases, Blocks, Looking
    <3> QED
      BY <1>s, <3>1, <3>2, <3>3, <2>1, <2>2 DEF Safe
  <2>5. SafeNow(c)'
    BY <2>3, <2>4 DEF SafeNow
  <2> QED
    BY <1>6, <2>3, <2>5, Settles DEF ExportSeals, GitStep, Enters
<1>7. ASSUME NEW gone \in SUBSET Files, ExportTrashes(c, gone) PROVE MoveInv'
  <2>1. m2.op = "export" /\ m2.phase = "forgetting" /\ m2.todo = m.todo /\ m2.paths = m.paths
        /\ m2.unignore = m.unignore /\ m.op = "export" /\ m.phase = "trashing"
    BY <1>7, <1>t DEF ExportTrashes, Enters, Goes, On, Commands
  <2>2. UNCHANGED <<origin, clone, torn, gitGone>>
    BY <1>7 DEF ExportTrashes
  <2>3. Safe(k, m2, origin, gitGone[c], raced'[c], drive', c \in torn)
    <3> HIDE DEF k, m, m2
    <3>1. Agree(k, m2, raced'[c], drive')
      BY <1>s, <2>1 DEF Safe, Agree
    <3>2. Gone(k, m2, gitGone[c])
      BY <1>s, <2>1 DEF Safe, Gone, GitPhases, UndoPhases
    <3>3. Grows(k, m) => Grows(k, m2)
      BY <2>1 DEF Grows, Between, Looking
    <3> QED
      BY <1>s, <3>1, <3>2, <3>3, <2>1 DEF Safe
  <2>4. SafeNow(c)'
    BY <2>2, <2>3 DEF SafeNow
  <2>5. ASSUME NEW d \in Clones \ {c}
        PROVE  raced[d] \subseteq raced'[d] /\ \A f \in cmd[d].paths \ raced'[d] : drive'[f] = drive[f]
    <3>1. cmd[d].paths \subseteq Files
      BY <1>t DEF Commands
    <3> QED
      BY <1>7, <3>1 DEF ExportTrashes
  <2> QED
    BY <1>7, <2>2, <2>4, <2>5, Settles DEF ExportTrashes, Enters
<1>8. CASE ExportForgets(c)
  <2>1. k2.work = k.work /\ k2.staged = k.staged /\ k2.head = k.head
    BY <1>8, <1>t DEF ExportForgets, Changes, CloneStates
  <2>2. m2 = Idle /\ m.op = "export" /\ m.phase \in {"trashing", "forgetting"}
    BY <1>8, <1>t DEF ExportForgets, Quits, Goes
  <2>3. UNCHANGED <<drive, origin, torn, gitGone>>
    BY <1>8 DEF ExportForgets
  <2>4. Safe(k2, Idle, origin, gitGone[c], raced'[c], drive, c \in torn)
    <3> HIDE DEF k, m, k2, m2
    <3>1. Between(m) = {}
      BY <2>2 DEF Between
    <3> QED
      BY <1>s, <2>1, <3>1, QuitsSafe
  <2>5. SafeNow(c)'
    BY <2>2, <2>3, <2>4 DEF SafeNow
  <2> QED
    BY <1>8, <2>3, <2>5, Settles DEF ExportForgets, Quits
<1> QED
  BY <1>1, <1>2, <1>3, <1>4, <1>5, <1>6, <1>7, <1>8 DEF Export

LEMMA OtherMovesSafe ==
  ASSUME MoveInv, TypeOK', NEW c \in Clones,
         \/ Lists(c) \/ Verifies(c) \/ Stops(c)
         \/ GitFails(c) \/ UndoResets(c) \/ UndoRestores(c) \/ UndoRestoresIgnore(c) \/ Tears(c)
  PROVE  MoveInv'
<1> DEFINE k == clone[c]
           m == cmd[c]
           k2 == clone'[c]
           m2 == cmd'[c]
<1>k. k \in CloneStates /\ m \in Commands
  BY DEF TypeOK, MoveInv
<1>t. k.work \in Trees /\ k.staged \in Trees /\ k.head \in Trees /\ clone \in [Clones -> CloneStates]
      /\ cmd \in [Clones -> Commands] /\ raced \in [Clones -> SUBSET Files]
      /\ gitGone \in [Clones -> SUBSET Files] /\ drive \in [Files -> Digests] /\ torn \subseteq Clones
  BY <1>k DEF CloneStates, TypeOK, MoveInv
<1>s. Safe(k, m, origin, gitGone[c], raced[c], drive, c \in torn)
  BY DEF MoveInv, SafeNow
<1>o. m.op \in {"none", "import", "export"} /\ m.paths \subseteq Files
  BY <1>k DEF Commands
<1>1. CASE Lists(c)
  <2>1. m2.op = m.op /\ m2.phase = "verifying" /\ m2.todo = m.todo /\ m2.paths = m.paths
        /\ m2.unignore = m.unignore /\ m2.listing = drive /\ m2.blobs = m.blobs
        /\ m.phase = "listing"
    BY <1>1, <1>t DEF Lists, Goes, Commands
  <2>2. UNCHANGED <<drive, origin, clone, torn, gitGone>>
    BY <1>1 DEF Lists
  <2>5. raced'[c] = {f \in m.paths : m.op = "import" /\ m.blobs[f] # k.head.tree[f]}
    BY <1>1, <1>t DEF Lists, HeadMoved
  <2>3. Safe(k, m2, origin, gitGone[c], raced'[c], drive, c \in torn)
    <3> HIDE DEF k, m, m2
    <3>1. Agree(k, m2, raced'[c], drive)
      BY <1>s, <2>1, <2>5 DEF Safe, Agree
    <3>2. Gone(k, m2, gitGone[c])
      BY <1>s, <2>1 DEF Safe, Gone, GitPhases, UndoPhases
    <3>3. Grows(k, m) => Grows(k, m2)
      BY <2>1 DEF Grows, Between, Looking, ImportPhases
    <3> QED
      BY <1>s, <3>1, <3>2, <3>3, <2>1 DEF Safe
  <2>4. SafeNow(c)'
    BY <2>2, <2>3 DEF SafeNow
  <2> QED
    BY <1>1, <2>2, <2>4, Settles DEF Lists
<1>2. CASE Verifies(c)
  <2> DEFINE before == [imported |-> k.work.imported, exported |-> k.work.exported]
  <2>1. PICK unchecked \in SUBSET m.paths :
          \/ /\ Verified(c, Seen(c, unchecked)) /\ UNCHANGED raced
             /\ Goes(c, [m EXCEPT !.phase = "ignoring", !.todo = m.paths, !.listing = Nothing,
                                  !.blobs = Nothing, !.before = before])
          \/ Quits(c)
    BY <1>2 DEF Verifies
  <2>2. UNCHANGED <<drive, origin, clone, torn, gitGone>> /\ m.phase = "verifying"
    BY <1>2 DEF Verifies
  <2>3. ASSUME Verified(c, Seen(c, unchecked)), UNCHANGED raced,
               Goes(c, [m EXCEPT !.phase = "ignoring", !.todo = m.paths, !.listing = Nothing,
                                 !.blobs = Nothing, !.before = before])
        PROVE  Safe(k, m2, origin, gitGone[c], raced[c], drive, c \in torn)
    <3>1. m2.op = m.op /\ m2.phase = "ignoring" /\ m2.todo = m.paths /\ m2.paths = m.paths
          /\ m2.unignore = m.unignore /\ m2.before = before
      BY <2>3, <1>t DEF Goes, Commands
    <3>2. before.imported = k.work.imported /\ before.exported = k.work.exported
      OBVIOUS
    <3>3. /\ \A f \in m.paths \ raced[c] : m.listing[f] = drive[f]
          /\ m.op = "import" => \A f \in m.paths \ raced[c] : m.blobs[f] = k.head.tree[f]
      BY <1>s, <2>2 DEF Safe, Agree
    <3>4. \A f \in m.paths \ raced[c] : Seen(c, unchecked)[f] = drive[f]
      BY <3>3, <1>o DEF Seen
    <3>5. \A f \in m.paths : /\ Seen(c, unchecked)[f] = k.work.tree[f]
                             /\ k.work.tree[f] # None
                             /\ m.op = "import" => m.blobs[f] = k.work.tree[f]
      BY <2>3 DEF Verified, OnDisk
    <3>6. m.op # "none"
      BY <1>s, <2>2 DEF Safe
    <3> HIDE DEF k, m, m2, before
    <3>7. Agree(k, m2, raced[c], drive)
      BY <3>1, <3>3, <3>4, <3>5 DEF Agree
    <3>8. Gone(k, m2, gitGone[c])
      BY <1>s, <3>1, <3>2, <3>5 DEF Safe, Gone, Blocks
    <3>9. Grows(k, m) => Grows(k, m2)
      BY <2>2, <3>1 DEF Grows, Between, Looking, ImportPhases
    <3> QED
      BY <1>s, <3>7, <3>8, <3>9, <3>1, <3>6 DEF Safe
  <2>4. ASSUME Quits(c) PROVE Safe(k, m2, origin, gitGone[c], raced'[c], drive, c \in torn)
    <3>1. m2 = Idle
      BY <2>4, <1>t DEF Quits, Goes
    <3> HIDE DEF k, m, m2
    <3>2. Between(m) = {}
      BY <2>2 DEF Between
    <3>3. Safe(k, Idle, origin, gitGone[c], raced'[c], drive, c \in torn)
      BY <1>s, <3>2, QuitsSafe
    <3> QED
      BY <3>1, <3>3
  <2> HIDE DEF before
  <2>5. SafeNow(c)'
    BY <2>1, <2>2, <2>3, <2>4 DEF SafeNow
  <2> QED
    BY <2>1, <2>2, <2>5, Settles DEF Quits
<1>3. CASE Stops(c)
  <2>1. UNCHANGED <<drive, origin, clone, torn, gitGone>> /\ m.phase \notin GitPhases /\ Quits(c)
    BY <1>3 DEF Stops
  <2>2. m2 = Idle
    BY <2>1, <1>t DEF Quits, Goes
  <2>3. Safe(k, Idle, origin, gitGone[c], raced'[c], drive, c \in torn)
    <3> HIDE DEF k, m, m2
    <3>1. Between(m) = {}
      BY <2>1 DEF Between, GitPhases, UndoPhases
    <3> QED
      BY <1>s, <3>1, QuitsSafe
  <2>4. SafeNow(c)'
    BY <2>1, <2>2, <2>3 DEF SafeNow
  <2> QED
    BY <2>1, <2>4, Settles DEF Quits
<1>4. CASE GitFails(c)
  <2>1. m2.op = m.op /\ m2.phase = "undoing" /\ m2.todo = m.todo /\ m2.paths = m.paths
        /\ m2.unignore = m.unignore /\ m2.before = m.before /\ m.phase \in GitPhases \ UndoPhases
    BY <1>4, <1>t DEF GitFails, Enters, Goes, Commands
  <2>2. UNCHANGED <<drive, origin, clone, torn, gitGone, raced>>
    BY <1>4 DEF GitFails, history
  <2>3. Safe(k, m2, origin, gitGone[c], raced[c], drive, c \in torn)
    <3> HIDE DEF k, m, m2
    <3>1. Agree(k, m2, raced[c], drive)
      BY <1>s, <2>1 DEF Safe, Agree
    <3>2. Gone(k, m2, gitGone[c])
      BY <1>s, <2>1 DEF Safe, Gone, GitPhases, UndoPhases
    <3>3. Grows(k, m) => Grows(k, m2)
      BY <2>1 DEF Grows, Between, Looking, ImportPhases
    <3> QED
      BY <1>s, <3>1, <3>2, <3>3, <2>1 DEF Safe, GitPhases
  <2>4. SafeNow(c)'
    BY <2>2, <2>3 DEF SafeNow
  <2> QED
    BY <1>4, <2>2, <2>4, Settles DEF GitFails, Enters
<1>5. CASE UndoResets(c)
  <2>1. k2.work = k.work /\ k2.head = k.head /\ k2.staged.imported = k.head.imported
        /\ k2.staged.exported = (IF m.op = "export" THEN k.head.exported ELSE k.staged.exported)
    BY <1>5, <1>t DEF UndoResets, GitStep, Changes, CloneStates, Trees
  <2>2. m2.op = m.op /\ m2.phase = "restoring" /\ m2.todo = m.todo /\ m2.paths = m.paths
        /\ m2.before = m.before /\ m2.unignore = m.unignore /\ m.phase = "undoing"
    BY <1>5, <1>t DEF UndoResets, GitStep, Enters, Goes, Commands
  <2>3. UNCHANGED <<drive, origin, torn, gitGone, raced>>
    BY <1>5 DEF UndoResets, GitStep, history
  <2>4. Safe(k2, m2, origin, gitGone[c], raced[c], drive, c \in torn)
    <3> HIDE DEF k, m, k2, m2
    <3>1. Agree(k2, m2, raced[c], drive)
      BY <1>s, <2>1, <2>2 DEF Safe, Agree
    <3>2. Gone(k2, m2, gitGone[c])
      BY <1>s, <2>1, <2>2 DEF Safe, Gone, GitPhases, UndoPhases
    <3>3. m.op \in {"import", "export"}
      BY <1>s, <1>o, <2>2 DEF Safe
    <3>4. Grows(k, m) => Grows(k2, m2)
      BY <2>1, <2>2, <3>3 DEF Grows, Between, Looking, ImportPhases, Blocks
    <3> QED
      BY <1>s, <3>1, <3>2, <3>4, <2>1, <2>2 DEF Safe
  <2>5. SafeNow(c)'
    BY <2>3, <2>4 DEF SafeNow
  <2> QED
    BY <1>5, <2>3, <2>5, Settles DEF UndoResets, GitStep, Enters
<1>6. CASE UndoRestores(c)
  <2>1. k2.work.tree = k.work.tree /\ k2.work.exported = k.work.exported
        /\ k2.work.imported = m.before.imported /\ k2.staged = k.staged /\ k2.head = k.head
    BY <1>6, <1>t DEF UndoRestores, Changes, CloneStates, Trees
  <2>2. UNCHANGED <<drive, origin, torn, gitGone>> /\ m.phase = "restoring"
        /\ ((m.op = "export" /\ Enters(c, "restoringIgnore") /\ UNCHANGED raced) \/ (m.op # "export" /\ Quits(c)))
    BY <1>6 DEF UndoRestores
  <2>3. /\ \A f \in gitGone[c] : k2.work.tree[f] = None
        /\ gitGone[c] \subseteq Blocks(k2.work) /\ gitGone[c] \subseteq Blocks(k2.head)
        /\ Blocks(k2.head) \subseteq Blocks(origin)
    <3> HIDE DEF k, m, k2, m2
    <3> QED
      BY <1>s, <2>1, <2>2 DEF Safe, Gone, Blocks, GitPhases, UndoPhases
  <2>4. ASSUME m.op = "export", Enters(c, "restoringIgnore"), UNCHANGED raced
        PROVE  Safe(k2, m2, origin, gitGone[c], raced[c], drive, c \in torn)
    <3>1. m2.op = m.op /\ m2.phase = "restoringIgnore" /\ m2.todo = m.todo /\ m2.paths = m.paths
          /\ m2.before = m.before /\ m2.unignore = m.unignore
      BY <2>4, <1>t DEF Enters, Goes, Commands
    <3> HIDE DEF k, m, k2, m2
    <3>2. Agree(k2, m2, raced[c], drive)
      BY <1>s, <3>1 DEF Safe, Agree
    <3>3. Gone(k2, m2, gitGone[c])
      BY <1>s, <2>1, <2>2, <2>3, <3>1 DEF Safe, Gone, GitPhases, UndoPhases
    <3>4. Grows(k, m) => Grows(k2, m2)
      BY <2>1, <2>2, <2>4, <3>1 DEF Grows, Between, Looking, ImportPhases
    <3> QED
      BY <1>s, <2>3, <2>4, <3>1, <3>2, <3>3, <3>4 DEF Safe
  <2>5. ASSUME Quits(c) PROVE Safe(k2, m2, origin, gitGone[c], raced'[c], drive, c \in torn)
    <3>1. m2 = Idle
      BY <2>5, <1>t DEF Quits, Goes
    <3> HIDE DEF k, m, k2, m2
    <3>2. c \in torn \/ Blocks(k2.head) \subseteq Blocks(k2.staged)
      BY <1>s, <2>1, <2>2 DEF Safe, Grows, Between
    <3>3. Safe(k2, Idle, origin, gitGone[c], raced'[c], drive, c \in torn)
      BY <2>3, <3>2, RestSafe
    <3> QED
      BY <3>1, <3>3
  <2>6. SafeNow(c)'
    BY <2>2, <2>4, <2>5 DEF SafeNow
  <2>7. clone' = clone \/ \E x : Changes(c, x)
    BY <1>6 DEF UndoRestores
  <2> QED
    BY <2>2, <2>6, <2>7, Settles DEF Enters, Quits
<1>7. CASE UndoRestoresIgnore(c)
  <2>1. k2.work.tree = k.work.tree /\ k2.work.imported = k.work.imported
        /\ k2.work.exported = m.before.exported /\ k2.staged = k.staged /\ k2.head = k.head
    BY <1>7, <1>t DEF UndoRestoresIgnore, Changes, CloneStates, Trees
  <2>2. UNCHANGED <<drive, origin, torn, gitGone>> /\ m.phase = "restoringIgnore" /\ Quits(c)
    BY <1>7 DEF UndoRestoresIgnore
  <2>3. m2 = Idle
    BY <2>2, <1>t DEF Quits, Goes
  <2>4. Safe(k2, Idle, origin, gitGone[c], raced'[c], drive, c \in torn)
    <3> HIDE DEF k, m, k2, m2
    <3>1. /\ \A f \in gitGone[c] : k2.work.tree[f] = None
          /\ gitGone[c] \subseteq Blocks(k2.work) /\ gitGone[c] \subseteq Blocks(k2.head)
          /\ Blocks(k2.head) \subseteq Blocks(origin)
      BY <1>s, <2>1, <2>2 DEF Safe, Gone, Blocks, GitPhases, UndoPhases
    <3>2. c \in torn \/ Blocks(k2.head) \subseteq Blocks(k2.staged)
      BY <1>s, <2>1, <2>2 DEF Safe, Grows, Between
    <3> QED
      BY <3>1, <3>2, RestSafe
  <2>5. SafeNow(c)'
    BY <2>2, <2>3, <2>4 DEF SafeNow
  <2> QED
    BY <1>7, <2>2, <2>5, Settles DEF UndoRestoresIgnore, Quits
<1>8. CASE Tears(c)
  <2>1. UNCHANGED <<drive, origin, clone, gitGone>> /\ torn' = torn \cup {c} /\ Quits(c)
    BY <1>8 DEF Tears
  <2>2. m2 = Idle
    BY <2>1, <1>t DEF Quits, Goes
  <2>3. Safe(k, Idle, origin, gitGone[c], raced'[c], drive, c \in torn')
    <3>1. c \in torn'
      BY <2>1
    <3> HIDE DEF k, m, m2
    <3> QED
      BY <1>s, <3>1, QuitsSafe
  <2>4. SafeNow(c)'
    BY <2>1, <2>2, <2>3 DEF SafeNow
  <2> QED
    BY <2>1, <2>4, Settles DEF Quits
<1> QED
  BY <1>1, <1>2, <1>3, <1>4, <1>5, <1>6, <1>7, <1>8

LEMMA StepSafe == MoveInv /\ [Next]_vars => MoveInv'
<1> SUFFICES ASSUME MoveInv, [Next]_vars PROVE MoveInv'
  OBVIOUS
<1>1. TypeOK'
  BY StepTyped DEF MoveInv
<1>2. ASSUME NEW f \in Files, NEW content \in Digests, OtherDevice(f, content) PROVE MoveInv'
  BY <1>1, <1>2, OtherDeviceSafe
<1>3. ASSUME NEW c \in Clones, User(c) \/ OtherCommands(c) PROVE MoveInv'
  BY <1>1, <1>3, UserSafe, OtherCommandsSafe
<1>4. ASSUME NEW c \in Movers, Move(c) PROVE MoveInv'
  <2>1. c \in Clones
    BY MoveAssumption
  <2> QED
    BY <1>1, <1>4, <2>1, ImportSafe, ExportSafe, OtherMovesSafe DEF Move
<1>5. CASE UNCHANGED vars
  BY <1>1, <1>5 DEF vars, history, MoveInv, SafeNow
<1> QED
  BY <1>2, <1>3, <1>4, <1>5 DEF Next

LEMMA MoveAlways == Spec => []MoveInv
BY InitSafe, StepSafe, PTL DEF Spec

-----------------------------------------------------------------------------
(* Clones, moves, the nodes on Drive and the histories keep their types,   *)
(* whatever users, moves and other devices do.                             *)
THEOREM TypeCorrect == Spec => []TypeOK
<1>1. MoveInv => TypeOK
  BY DEF MoveInv
<1> QED
  BY <1>1, MoveAlways, PTL

(* What an import takes out of git Drive holds in the content git had, and *)
(* what an export gives git is the version Drive holds, unless somebody    *)
(* touched the file since the command's listing, or a commit changed it    *)
(* between an import's read of HEAD and the listing: but for these,        *)
(* _verify_synced suffices for every number of clones, movers and files.   *)
THEOREM FilesChangeHandsWhole == Spec => GitAgreesWithDrive
<1>1. ASSUME MoveInv, [Next]_vars, NEW c \in Movers, NEW batch \in SUBSET Files, NEW f \in batch \ raced[c]
      PROVE  /\ ImportUntracks(c, batch) => drive[f] = clone[c].head.tree[f]
             /\ ExportTracks(c, batch) => clone'[c].staged.tree[f] = drive[f]
  <2>1. c \in Clones
    BY MoveAssumption
  <2>2. Agree(clone[c], cmd[c], raced[c], drive)
    BY <1>1, <2>1 DEF MoveInv, SafeNow, Safe
  <2>3. ASSUME ImportUntracks(c, batch) PROVE drive[f] = clone[c].head.tree[f]
    <3>1. batch \subseteq cmd[c].todo /\ cmd[c].op = "import" /\ cmd[c].phase = "untracking"
      BY <2>3 DEF ImportUntracks, On
    <3> QED
      BY <1>1, <2>2, <3>1 DEF Agree
  <2>4. ASSUME ExportTracks(c, batch) PROVE clone'[c].staged.tree[f] = drive[f]
    <3>1. batch \subseteq cmd[c].todo /\ cmd[c].op = "export" /\ cmd[c].phase = "tracking"
      BY <2>4 DEF ExportTracks, On
    <3>2. clone \in [Clones -> CloneStates]
      BY <1>1 DEF MoveInv, TypeOK
    <3>3. clone'[c].staged.tree[f] = clone[c].work.tree[f]
      BY <2>4, <2>1, <3>2, <1>1 DEF ExportTracks, Changes, CloneStates, Trees
    <3> QED
      BY <1>1, <2>2, <3>1, <3>3 DEF Agree
  <2> QED
    BY <2>3, <2>4
<1>2. MoveInv /\ [Next]_vars =>
        [\A c \in Movers, batch \in SUBSET Files : \A f \in batch \ raced[c] :
           /\ ImportUntracks(c, batch) => drive[f] = clone[c].head.tree[f]
           /\ ExportTracks(c, batch) => clone'[c].staged.tree[f] = drive[f]]_vars
  BY <1>1
<1> QED
  BY <1>2, MoveAlways, PTL DEF Spec, GitAgreesWithDrive

(* A file that the commit of an import took from a clone's work tree stays *)
(* in an ignore block of that clone through the git steps, and the undos,  *)
(* of other moves: push never counts it as deleted and never trashes its   *)
(* copy on Drive, which may be the only one left.                          *)
THEOREM ImportedAreSpared == Spec => TrashSparesImported
<1>1. ASSUME MoveInv, NEW c \in Clones, NEW f \in Files, PushTrashes(c, f)
      PROVE  f \notin gitGone[c]
  <2>1. Gone(clone[c], cmd[c], gitGone[c])
    BY <1>1 DEF MoveInv, SafeNow, Safe
  <2>2. f \notin Blocks(clone[c].work)
    BY <1>1 DEF PushTrashes, Trash_candidates, Blocks
  <2> QED
    BY <2>1, <2>2 DEF Gone
<1>2. MoveInv /\ [Next]_vars => [\A c \in Clones, f \in Files : PushTrashes(c, f) => f \notin gitGone[c]]_vars
  BY <1>1
<1> QED
  BY <1>2, MoveAlways, PTL DEF Spec, TrashSparesImported


-----------------------------------------------------------------------------
(* Custody: what a clone's last move answers for, of its state k and its   *)
(* move m.  At each phase a path is tracked, or synced, or the step that   *)
(* takes it from one of them has put it into the other.                    *)
IsTracked(k, f) == k.staged.tree[f] # None
IsHeld(k, f) == k.index[f] # None

Asked == {"pushing", "pulling", "reading", "listing", "verifying"}

Imports(k, m, f) ==
  /\ m.phase \in ImportPhases \cup {"undoing", "restoring"}
  /\ f \notin k.work.exported
  /\ k.head.tree[f] # None
  /\ m.phase \in {"ignoring", "untracking", "staging", "undoing"} => IsHeld(k, f)
  /\ m.phase \in Asked \cup {"ignoring", "restoring"} => IsTracked(k, f)
  /\ m.phase = "ignoring" => f \in m.todo
  /\ m.phase = "untracking" => (f \in m.todo <=> IsTracked(k, f))
  /\ m.phase = "staging" => ~IsTracked(k, f)

Exports(k, m, f) ==
  /\ m.phase \in ExportPhases \cup UndoPhases
  /\ IsHeld(k, f)
  /\ m.phase \in Asked \cup {"ignoring", "tracking", "exporting"} => f \notin k.work.exported
  /\ m.phase \in Asked \cup {"ignoring"} => ~IsTracked(k, f)
  /\ m.phase = "ignoring" => f \in m.todo
  /\ m.phase = "tracking" => (f \in m.todo <=> ~IsTracked(k, f))
  /\ m.phase \in {"exporting", "sealing", "trashing", "forgetting"} => IsTracked(k, f)
  /\ m.phase = "undoing" => f \notin k.work.exported \/ IsTracked(k, f)
  /\ m.phase \in GitPhases => f \notin m.before.exported

Owes(k, m, f) ==
  /\ m.op = "none" => IsTracked(k, f) \/ (IsHeld(k, f) /\ f \notin k.work.exported)
  /\ m.op # "none" => f \in m.paths
  /\ m.op = "import" => Imports(k, m, f)
  /\ m.op = "export" => Exports(k, m, f)

(* Between its own steps a move leaves the blocks of the work tree as they *)
(* are staged, and it can bring back those of HEAD.                        *)
Squares(k, m) ==
  /\ m.phase = "restoringIgnore" => m.op = "export"
  /\ ~(m.op = "export" /\ m.phase \in {"sealing"} \cup UndoPhases) => k.work.exported = k.staged.exported
  /\ m.op = "import" =>
       /\ m.phase \in Asked => k.work.imported = k.head.imported
       /\ m.phase \in GitPhases => m.before.imported = k.head.imported
       /\ m.phase \in {"untracking", "staging"} => m.paths \subseteq k.work.imported
  /\ m.op = "export" /\ m.phase \in GitPhases =>
       /\ m.before.exported = k.head.exported
       /\ m.unignore => m.before.imported = k.head.imported
       /\ m.phase \in {"exporting", "sealing"} =>
            /\ m.paths \cap k.work.imported = {}
            /\ m.unignore => k.work.imported = k.staged.imported
       /\ m.phase \in {"restoring", "restoringIgnore"} =>
            /\ \A f \in m.paths : k.staged.tree[f] = k.head.tree[f]
            /\ k.staged.imported = k.head.imported
            /\ k.staged.exported = k.head.exported

Custody(k, m, w, isTorn) == (\A f \in w : Owes(k, m, f)) /\ (~isTorn => Squares(k, m))

CustodyNow(c) == Custody(clone[c], cmd[c], owed[c], c \in torn)

CustodyInv == \A c \in Clones : CustodyNow(c)

LEMMA InitKept == Init => CustodyInv
<1> SUFFICES ASSUME Init, NEW c \in Clones PROVE CustodyNow(c)
  BY DEF CustodyInv
<1>1. clone[c].work = clone[c].staged /\ cmd[c] = Idle /\ owed[c] = {}
  BY DEF Init
<1>2. Squares(clone[c], Idle)
  BY <1>1 DEF Squares, Idle
<1> QED
  BY <1>1, <1>2 DEF CustodyNow, Custody

(* A step of one clone concerns the custody of no other. *)
LEMMA KeepsOthers ==
  ASSUME TypeOK, CustodyInv, NEW c \in Clones,
         clone' = clone \/ \E k : Changes(c, k),
         cmd' = cmd \/ \E m : Goes(c, m),
         owed' = owed \/ \E w : owed' = [owed EXCEPT ![c] = w],
         torn' \ {c} = torn \ {c},
         CustodyNow(c)'
  PROVE  CustodyInv'
<1> SUFFICES ASSUME NEW d \in Clones \ {c} PROVE CustodyNow(d)'
  BY DEF CustodyInv
<1>1. clone'[d] = clone[d]
  BY DEF TypeOK, Changes
<1>2. cmd'[d] = cmd[d]
  BY DEF TypeOK, Goes
<1>3. owed'[d] = owed[d]
  BY DEF TypeOK
<1>4. d \in torn' <=> d \in torn
  OBVIOUS
<1>5. CustodyNow(d)
  BY DEF CustodyInv
<1> QED
  BY <1>1, <1>2, <1>3, <1>4, <1>5 DEF CustodyNow

(* A command that runs no more: what it owes is tracked or synced, and the *)
(* export block is staged as it is.                                        *)
LEMMA RestKept ==
  ASSUME NEW k, NEW w, NEW t,
         \A f \in w : IsTracked(k, f) \/ (IsHeld(k, f) /\ f \notin k.work.exported),
         t \/ k.work.exported = k.staged.exported
  PROVE  Custody(k, Idle, w, t)
<1> USE DEF Idle
<1>1. \A f \in w : Owes(k, Idle, f)
  BY DEF Owes
<1>2. ~t => Squares(k, Idle)
  BY DEF Squares
<1> QED
  BY <1>1, <1>2 DEF Custody

(* What touches no path the move owes, nor a block, moves no custody. *)
LEMMA SameCustody ==
  ASSUME NEW k, NEW m, NEW w, NEW t, NEW k2, NEW w2,
         Custody(k, m, w, t), w2 \subseteq w,
         \A f \in w2 : k2.staged.tree[f] = k.staged.tree[f] /\ (IsHeld(k, f) => IsHeld(k2, f)),
         k2.staged = k.staged \/ m.phase \notin GitPhases,
         k2.work.imported = k.work.imported, k2.work.exported = k.work.exported,
         k2.staged.imported = k.staged.imported, k2.staged.exported = k.staged.exported,
         k2.head = k.head
  PROVE  Custody(k2, m, w2, t)
<1>1. ASSUME NEW f \in w2 PROVE Owes(k2, m, f)
  <2>1. Owes(k, m, f)
    BY DEF Custody
  <2>2. IsTracked(k2, f) <=> IsTracked(k, f)
    BY DEF IsTracked
  <2>3. m.op = "import" => Imports(k2, m, f)
    BY <2>1, <2>2 DEF Owes, Imports
  <2>4. m.op = "export" => Exports(k2, m, f)
    BY <2>1, <2>2 DEF Owes, Exports
  <2> QED
    BY <2>1, <2>2, <2>3, <2>4 DEF Owes
<1>2. ~t => Squares(k2, m)
  <2>1. ~t => Squares(k, m)
    BY DEF Custody
  <2> QED
    BY <2>1 DEF Squares, GitPhases, UndoPhases
<1> QED
  BY <1>1, <1>2 DEF Custody

LEMMA UserKeeps ==
  ASSUME MoveInv, CustodyInv, NEW c \in Clones, User(c)
  PROVE  CustodyInv'
<1> DEFINE k == clone[c]
           m == cmd[c]
           k2 == clone'[c]
<1>k. TypeOK /\ k \in CloneStates /\ m \in Commands
  BY DEF TypeOK, MoveInv
<1>t. k.work \in Trees /\ k.staged \in Trees /\ k.head \in Trees /\ origin \in Trees
      /\ clone \in [Clones -> CloneStates] /\ owed \in [Clones -> SUBSET Files]
  BY <1>k DEF CloneStates, TypeOK
<1>s. Custody(k, m, owed[c], c \in torn) /\ (m.op = "none" <=> m.phase = "idle") /\ (c \notin torn => Grows(k, m))
  BY DEF CustodyInv, CustodyNow, MoveInv, SafeNow, Safe
<1>1. ASSUME NEW f \in Files, NEW content \in Digests, UserStages(c, f, content) PROVE CustodyInv'
  <2>1. k2.work = k.work /\ k2.head = k.head /\ k2.index = k.index /\ k2.staged.imported = k.staged.imported
        /\ k2.staged.exported = k.staged.exported
        /\ \A e \in Files \ {f} : k2.staged.tree[e] = k.staged.tree[e]
    BY <1>1, <1>t DEF UserStages, Changes, CloneStates, Trees
  <2>2. owed'[c] = owed[c] \ {f} /\ owed[c] \subseteq Files /\ cmd' = cmd /\ torn' = torn /\ m.phase \notin GitPhases
    BY <1>1, <1>t DEF UserStages, Disowns, UserMayGit
  <2>3. Custody(k2, m, owed'[c], c \in torn)
    <3> HIDE DEF k, m, k2
    <3> QED
      BY <1>s, <2>1, <2>2, SameCustody DEF IsHeld
  <2>4. CustodyNow(c)'
    BY <2>2, <2>3 DEF CustodyNow
  <2> QED
    BY <1>1, <1>k, <2>2, <2>4, KeepsOthers DEF UserStages, Disowns
<1>2. ASSUME NEW f \in Files, NEW content \in Digests, UserWrites(c, f, content) PROVE CustodyInv'
  <2>1. k2.staged = k.staged /\ k2.head = k.head /\ k2.index = k.index
        /\ k2.work.imported = k.work.imported /\ k2.work.exported = k.work.exported
    BY <1>2, <1>t DEF UserWrites, Changes, CloneStates, Trees
  <2>2. owed' = owed /\ cmd' = cmd /\ torn' = torn
    BY <1>2 DEF UserWrites
  <2>3. Custody(k2, m, owed[c], c \in torn)
    <3> HIDE DEF k, m, k2
    <3> QED
      BY <1>s, <2>1, SameCustody DEF IsHeld
  <2>4. CustodyNow(c)'
    BY <2>2, <2>3 DEF CustodyNow
  <2> QED
    BY <1>2, <1>k, <2>2, <2>4, KeepsOthers DEF UserWrites
<1>3. CASE GitCommits(c)
  <2>1. k2.staged = k.staged /\ k2.head = k.staged /\ k2.work = k.work /\ k2.index = k.index
    BY <1>3, <1>t DEF GitCommits, Changes, CloneStates
  <2>2. owed' = owed /\ cmd' = cmd /\ torn' = torn /\ m.phase \notin GitPhases /\ c \notin torn
    BY <1>3 DEF GitCommits, UserMayGit
  <2>3. Custody(k2, m, owed[c], c \in torn')
    <3> HIDE DEF k, m, k2
    <3>2. ASSUME NEW f \in owed[c] PROVE Owes(k2, m, f)
      <4>1. Owes(k, m, f)
        BY <1>s DEF Custody
      <4>2. (IsTracked(k2, f) <=> IsTracked(k, f)) /\ (IsHeld(k2, f) <=> IsHeld(k, f))
        BY <2>1 DEF IsTracked, IsHeld
      <4>3. m.op = "import" => Imports(k2, m, f)
        BY <2>1, <2>2, <4>1, <4>2 DEF Owes, Imports, IsTracked, GitPhases, UndoPhases, ImportPhases, Asked
      <4>4. m.op = "export" => Exports(k2, m, f)
        BY <2>1, <4>1, <4>2 DEF Owes, Exports
      <4> QED
        BY <2>1, <4>1, <4>2, <4>3, <4>4 DEF Owes
    <3>3. Squares(k2, m)
      BY <1>s, <2>1, <2>2 DEF Custody, Squares, Grows, GitPhases, UndoPhases
    <3> QED
      BY <3>2, <3>3 DEF Custody
  <2>4. CustodyNow(c)'
    BY <2>2, <2>3 DEF CustodyNow
  <2> QED
    BY <1>3, <1>k, <2>2, <2>4, KeepsOthers DEF GitCommits
<1>4. CASE GitPulls(c)
  <2> DEFINE merged == [f \in Files |-> IF f \in Pulled(c) THEN origin.tree[f] ELSE k.work.tree[f]]
             to == [k EXCEPT !.work = [origin EXCEPT !.tree = merged], !.staged = origin, !.head = origin]
  <2>1. Changes(c, to) /\ UserMayGit(c) /\ k.staged = k.head /\ k.work.imported = k.head.imported
        /\ k.work.exported = k.head.exported
        /\ owed' = [owed EXCEPT ![c] = @ \ (Pulled(c) \cup (origin.exported \ k.head.exported))]
        /\ cmd' = cmd /\ torn' = torn
    BY <1>4 DEF GitPulls
  <2>2. k2.work.imported = origin.imported /\ k2.work.exported = origin.exported /\ k2.staged = origin
        /\ k2.head = origin /\ k2.index = k.index
    BY <2>1, <1>t DEF Changes, CloneStates, Trees
  <2>3. m.phase \notin GitPhases /\ c \notin torn
    BY <2>1 DEF UserMayGit
  <2>4. \A f \in owed'[c] : f \in owed[c] /\ origin.tree[f] = k.head.tree[f]
                            /\ (f \in origin.exported => f \in k.head.exported)
    BY <2>1, <1>t DEF Pulled
  <2> HIDE DEF merged, to
  <2>5. Custody(k2, m, owed'[c], c \in torn')
    <3> HIDE DEF k, m, k2
    <3>1. ASSUME NEW f \in owed'[c] PROVE Owes(k2, m, f)
      <4>1. Owes(k, m, f)
        BY <1>s, <2>4 DEF Custody
      <4>2. (IsTracked(k2, f) <=> IsTracked(k, f)) /\ (IsHeld(k2, f) <=> IsHeld(k, f))
            /\ (f \in k2.work.exported => f \in k.work.exported) /\ k2.head.tree[f] = k.head.tree[f]
        BY <2>1, <2>2, <2>4 DEF IsTracked, IsHeld
      <4>3. m.op = "import" => Imports(k2, m, f)
        BY <4>1, <4>2 DEF Owes, Imports
      <4>4. m.op = "export" => Exports(k2, m, f)
        BY <4>1, <4>2 DEF Owes, Exports
      <4> QED
        BY <4>1, <4>2, <4>3, <4>4 DEF Owes
    <3>2. Squares(k2, m)
      BY <2>2, <2>3 DEF Squares, GitPhases, UndoPhases
    <3> QED
      BY <3>1, <3>2 DEF Custody
  <2>6. CustodyNow(c)'
    BY <2>1, <2>3, <2>5 DEF CustodyNow
  <2> QED
    BY <1>k, <2>1, <2>6, KeepsOthers
<1>5. CASE UserRepairs(c)
  <2>1. k2.work.exported = k.head.exported /\ k2.staged = k.head
    BY <1>5, <1>t DEF UserRepairs, Changes, CloneStates, Trees
  <2>2. owed'[c] = {} /\ cmd' = cmd /\ m.phase = "idle" /\ torn' = torn \ {c}
    BY <1>5, <1>t DEF UserRepairs
  <2>3. Custody(k2, m, owed'[c], c \in torn')
    <3> HIDE DEF k, m, k2
    <3>1. Squares(k2, m)
      BY <1>s, <2>1, <2>2 DEF Squares, GitPhases, UndoPhases
    <3> QED
      BY <2>2, <3>1 DEF Custody
  <2>4. CustodyNow(c)'
    BY <2>2, <2>3 DEF CustodyNow
  <2> QED
    BY <1>5, <1>k, <2>2, <2>4, KeepsOthers DEF UserRepairs
<1> QED
  BY <1>1, <1>2, <1>3, <1>4, <1>5 DEF User

LEMMA OtherCommandsKeep ==
  ASSUME MoveInv, CustodyInv, NEW c \in Clones, OtherCommands(c)
  PROVE  CustodyInv'
<1> DEFINE k == clone[c]
           m == cmd[c]
           k2 == clone'[c]
<1>k. TypeOK /\ k \in CloneStates
  BY DEF TypeOK, MoveInv
<1>t. k.work \in Trees /\ k.staged \in Trees /\ k.index \in [Files -> Entries \cup {None}]
      /\ clone \in [Clones -> CloneStates] /\ owed \in [Clones -> SUBSET Files]
      /\ drive \in [Files -> Digests]
  BY <1>k DEF CloneStates, TypeOK
<1>s. Custody(k, m, owed[c], c \in torn)
  BY DEF CustodyInv, CustodyNow
<1>1. PICK f \in Files : Push(c, f) \/ PushTrashes(c, f) \/ Pull(c, f) \/ Offload(c, f)
  BY DEF OtherCommands
<1>2. cmd' = cmd /\ torn' = torn /\ m.phase = "idle"
  BY <1>1 DEF Push, PushTrashes, Pull, Offload, Free
<1>3. k2.staged = k.staged /\ k2.head = k.head /\ k2.work.imported = k.work.imported
      /\ k2.work.exported = k.work.exported
  <2>1. Push(c, f) \/ PushTrashes(c, f) => k2.staged = k.staged /\ k2.head = k.head /\ k2.work = k.work
    BY <1>t DEF Push, PushTrashes, Changes, CloneStates
  <2>2. Offload(c, f) => /\ k2.staged = k.staged /\ k2.head = k.head
                         /\ k2.work.imported = k.work.imported /\ k2.work.exported = k.work.exported
    BY <1>t DEF Offload, Changes, CloneStates, Trees
  <2>3. Pull(c, f) => /\ k2.staged = k.staged /\ k2.head = k.head
                      /\ k2.work.imported = k.work.imported /\ k2.work.exported = k.work.exported
    BY <1>t DEF Pull, Changes, Downloads, CloneStates, Trees
  <2> QED
    BY <1>1, <2>1, <2>2, <2>3
<1>4. owed'[c] \subseteq owed[c] /\ \A e \in owed'[c] : IsHeld(k, e) => IsHeld(k2, e)
  <2>1. CASE Push(c, f)
    <3>1. k.work.tree[f] \in Digests \ {None}
      BY <2>1, <1>t DEF Push, OnDisk, Trees
    <3>2. Record(k.work.tree[f]) # None
      BY <3>1, Recordable, EntryAssumption
    <3>3. k2.index = [k.index EXCEPT ![f] = Record(k.work.tree[f])]
      BY <2>1, <1>t DEF Push, Changes, CloneStates
    <3> QED
      BY <2>1, <1>t, <3>2, <3>3 DEF Push, IsHeld
  <2>2. CASE PushTrashes(c, f)
    <3>1. k2.index = [k.index EXCEPT ![f] = None]
      BY <2>2, <1>t DEF PushTrashes, Changes, CloneStates
    <3>2. owed'[c] = owed[c] \ {f}
      BY <2>2, <1>t DEF PushTrashes
    <3> QED
      BY <1>t, <3>1, <3>2 DEF IsHeld
  <2>3. CASE Pull(c, f)
    <3>1. drive[f] \in Digests \ {None}
      BY <2>3, <1>t DEF Pull, Downloadable
    <3>2. Record(drive[f]) # None
      BY <3>1, Recordable, EntryAssumption
    <3>3. \A e \in Files : k2.index[e] = (IF e = f THEN Record(drive[e]) ELSE k.index[e])
      BY <2>3, <1>t DEF Pull, Changes, Downloads, CloneStates
    <3> QED
      BY <2>3, <1>t, <3>2, <3>3 DEF Pull, IsHeld
  <2>4. CASE Offload(c, f)
    <3>1. k.index[f] \in Entries
      BY <2>4, <1>t DEF Offload, Present, Held
    <3>2. [k.index[f] EXCEPT !.local_state = "metadata-only"] \in Entries
      BY <3>1 DEF Entries
    <3>3. k2.index = [k.index EXCEPT ![f] = [k.index[f] EXCEPT !.local_state = "metadata-only"]]
      BY <2>4, <1>t DEF Offload, Changes, CloneStates
    <3>4. owed' = owed
      BY <2>4 DEF Offload, history
    <3> QED
      BY <1>t, <3>2, <3>3, <3>4, EntryAssumption DEF IsHeld
  <2> QED
    BY <1>1, <2>1, <2>2, <2>3, <2>4
<1>5. Custody(k2, m, owed'[c], c \in torn)
  <2> HIDE DEF k, m, k2
  <2> QED
    BY <1>s, <1>3, <1>4, SameCustody
<1>6. CustodyNow(c)'
  BY <1>2, <1>5 DEF CustodyNow
<1>7. owed' = owed \/ \E w : owed' = [owed EXCEPT ![c] = w]
  BY <1>1 DEF Push, PushTrashes, Pull, Offload, history
<1>8. clone' = clone \/ \E x : Changes(c, x)
  BY <1>1 DEF Push, PushTrashes, Pull, Offload
<1> QED
  BY <1>k, <1>2, <1>6, <1>7, <1>8, KeepsOthers

LEMMA ImportKeeps ==
  ASSUME MoveInv, CustodyInv, NEW c \in Clones, Import(c)
  PROVE  CustodyInv'
<1> DEFINE k == clone[c]
           m == cmd[c]
           k2 == clone'[c]
           m2 == cmd'[c]
<1>k. TypeOK /\ k \in CloneStates /\ m \in Commands
  BY DEF TypeOK, MoveInv
<1>t. k.work \in Trees /\ k.staged \in Trees /\ k.head \in Trees /\ k.index \in [Files -> Entries \cup {None}]
      /\ clone \in [Clones -> CloneStates] /\ cmd \in [Clones -> Commands]
      /\ owed \in [Clones -> SUBSET Files] /\ drive \in [Files -> Digests]
  BY <1>k DEF CloneStates, TypeOK
<1>o. m.op \in {"none", "import", "export"} /\ m.paths \subseteq Files /\ m.todo \subseteq Files
      /\ m.unignore \in BOOLEAN
  BY <1>k DEF Commands
<1>s. Custody(k, m, owed[c], c \in torn) /\ (m.op = "none" <=> m.phase = "idle") /\ m.todo \subseteq m.paths
      /\ (c \notin torn => Grows(k, m))
  BY DEF CustodyInv, CustodyNow, MoveInv, SafeNow, Safe, Agree
<1>1. ASSUME NEW paths \in SUBSET Files, ImportBegins(c, paths) PROVE CustodyInv'
  <2> DEFINE to == [Idle EXCEPT !.op = "import", !.phase = "pushing", !.paths = paths, !.trash = FALSE,
                                !.unignore = "import" = "export" /\ paths \cap k.work.imported # {}]
  <2>1. Goes(c, to) /\ UNCHANGED <<clone, torn>> /\ m.phase = "idle" /\ Clean(c, "imported")
        /\ paths \subseteq Tracked(c) \ k.work.exported
        /\ (\A f \in paths : k.staged.tree[f] = k.head.tree[f])
        /\ owed' = [owed EXCEPT ![c] = {f \in paths : Kept(c, f)}]
    BY <1>1 DEF ImportBegins, Begins, Free
  <2>2. m2.op = "import" /\ m2.phase = "pushing" /\ m2.paths = paths
    BY <2>1, <1>t DEF Goes, Idle
  <2>3. owed'[c] \subseteq paths
    BY <2>1, <1>t
  <2>4. \A f \in paths : IsTracked(k, f) /\ k.staged.tree[f] = k.head.tree[f] /\ f \notin k.work.exported
    BY <2>1 DEF Tracked, IsTracked
  <2>5. k.work.imported = k.head.imported
    BY <2>1 DEF Clean
  <2> HIDE DEF to
  <2>6. Custody(k, m2, owed'[c], c \in torn)
    <3> HIDE DEF k, m, k2, m2
    <3>1. ASSUME NEW f \in owed'[c] PROVE Owes(k, m2, f)
      BY <2>2, <2>3, <2>4 DEF Owes, Imports, ImportPhases, Asked, IsTracked
    <3>2. c \notin torn => Squares(k, m2)
      BY <1>s, <2>1, <2>2, <2>5 DEF Custody, Squares, GitPhases, UndoPhases, Asked
    <3> QED
      BY <3>1, <3>2 DEF Custody
  <2>7. CustodyNow(c)'
    BY <2>1, <2>6 DEF CustodyNow
  <2> QED
    BY <1>k, <2>1, <2>7, KeepsOthers
<1>2. CASE ImportPushes(c)
  <2>1. k2.work = k.work /\ k2.staged = k.staged /\ k2.head = k.head
    BY <1>2, <1>t DEF ImportPushes, Changes, CloneStates
  <2>2. m2.op = "import" /\ m2.phase = "reading" /\ m2.paths = m.paths /\ m.op = "import" /\ m.phase = "pushing"
    BY <1>2, <1>t DEF ImportPushes, Enters, Goes, On, Commands
  <2>3. owed' = owed /\ torn' = torn
    BY <1>2 DEF ImportPushes
  <2>4. Custody(k2, m2, owed[c], c \in torn)
    <3> HIDE DEF k, m, k2, m2
    <3>1. ASSUME NEW f \in owed[c] PROVE Owes(k2, m2, f)
      <4>1. Owes(k, m, f) /\ f \in Files
        BY <1>s, <1>t DEF Custody
      <4> QED
        BY <4>1, <2>1, <2>2 DEF Owes, Imports, IsTracked, ImportPhases, Asked
    <3>2. ASSUME c \notin torn PROVE Squares(k2, m2)
      <4>1. Squares(k, m) /\ Grows(k, m)
        BY <1>s, <3>2 DEF Custody
      <4> QED
        BY <4>1, <2>1, <2>2 DEF Squares, GitPhases, UndoPhases, Asked
    <3> QED
      BY <3>1, <3>2 DEF Custody
  <2>5. CustodyNow(c)'
    BY <2>3, <2>4 DEF CustodyNow
  <2> QED
    BY <1>2, <1>k, <2>3, <2>5, KeepsOthers DEF ImportPushes, Enters
<1>3. CASE ImportIgnores(c)
  <2>1. k2.work.exported = k.work.exported /\ k2.work.imported = k.work.imported \cup m.paths
        /\ k2.staged = k.staged /\ k2.head = k.head /\ k2.index = k.index
    BY <1>3, <1>t DEF ImportIgnores, GitStep, Changes, CloneStates, Trees
  <2>2. m2.op = "import" /\ m2.phase = "untracking" /\ m2.todo = m.todo /\ m2.paths = m.paths
        /\ m2.before = m.before /\ m.op = "import" /\ m.phase = "ignoring"
    BY <1>3, <1>t DEF ImportIgnores, GitStep, Enters, Goes, On, Commands
  <2>3. owed' = owed /\ torn' = torn
    BY <1>3 DEF ImportIgnores, GitStep, history
  <2>4. Custody(k2, m2, owed[c], c \in torn)
    <3> HIDE DEF k, m, k2, m2
    <3>1. ASSUME NEW f \in owed[c] PROVE Owes(k2, m2, f)
      <4>1. Owes(k, m, f) /\ f \in Files
        BY <1>s, <1>t DEF Custody
      <4> QED
        BY <4>1, <2>1, <2>2 DEF Owes, Imports, IsTracked, IsHeld, ImportPhases, Asked
    <3>2. ASSUME c \notin torn PROVE Squares(k2, m2)
      <4>1. Squares(k, m) /\ Grows(k, m)
        BY <1>s, <3>2 DEF Custody
      <4> QED
        BY <4>1, <2>1, <2>2 DEF Squares, Asked, GitPhases, UndoPhases, ImportPhases
    <3> QED
      BY <3>1, <3>2 DEF Custody
  <2>5. CustodyNow(c)'
    BY <2>3, <2>4 DEF CustodyNow
  <2> QED
    BY <1>3, <1>k, <2>3, <2>5, KeepsOthers DEF ImportIgnores, GitStep, history, Enters
<1>4. ASSUME NEW batch \in SUBSET Files, ImportUntracks(c, batch) PROVE CustodyInv'
  <2>1. k2.work = k.work /\ k2.head = k.head /\ k2.index = k.index /\ k2.staged.exported = k.staged.exported
        /\ \A f \in Files : k2.staged.tree[f] = (IF f \in batch THEN None ELSE k.staged.tree[f])
    BY <1>4, <1>t DEF ImportUntracks, Changes, CloneStates, Trees
  <2>2. m2.op = "import" /\ m2.phase = (IF batch = m.todo THEN "staging" ELSE "untracking")
        /\ m2.todo = m.todo \ batch /\ m2.paths = m.paths /\ m2.before = m.before
        /\ m.op = "import" /\ m.phase = "untracking" /\ batch \subseteq m.todo
    BY <1>4, <1>t DEF ImportUntracks, Goes, On, Commands
  <2>3. owed' = owed /\ torn' = torn
    BY <1>4 DEF ImportUntracks, history
  <2>4. Custody(k2, m2, owed[c], c \in torn)
    <3> HIDE DEF k, m, k2, m2
    <3>1. ASSUME NEW f \in owed[c] PROVE Owes(k2, m2, f)
      <4>1. Owes(k, m, f) /\ f \in Files
        BY <1>s, <1>t DEF Custody
      <4> QED
        BY <4>1, <2>1, <2>2 DEF Owes, Imports, IsTracked, IsHeld, ImportPhases, Asked
    <3>2. ASSUME c \notin torn PROVE Squares(k2, m2)
      <4>1. Squares(k, m) /\ Grows(k, m)
        BY <1>s, <3>2 DEF Custody
      <4> QED
        BY <4>1, <2>1, <2>2 DEF Squares, Asked, GitPhases, UndoPhases, ImportPhases
    <3> QED
      BY <3>1, <3>2 DEF Custody
  <2>5. CustodyNow(c)'
    BY <2>3, <2>4 DEF CustodyNow
  <2> QED
    BY <1>4, <1>k, <2>3, <2>5, KeepsOthers DEF ImportUntracks, history, Enters
<1>5. CASE ImportStages(c)
  <2>1. k2.work = k.work /\ k2.index = k.index /\ k2.staged.exported = k.staged.exported
        /\ k2.staged.tree = k.staged.tree
    BY <1>5, <1>t DEF ImportStages, Changes, CloneStates, Trees
  <2>2. m2 = Idle /\ m.op = "import" /\ m.phase = "staging"
    BY <1>5, <1>t DEF ImportStages, Quits, Goes, On
  <2>3. owed' = owed /\ torn' = torn
    BY <1>5 DEF ImportStages
  <2>4. Custody(k2, Idle, owed[c], c \in torn)
    <3> HIDE DEF k, m, k2, m2
    <3>1. ASSUME NEW f \in owed[c] PROVE IsTracked(k2, f) \/ (IsHeld(k2, f) /\ f \notin k2.work.exported)
      <4>1. Owes(k, m, f)
        BY <1>s DEF Custody
      <4> QED
        BY <4>1, <2>1, <2>2 DEF Owes, Imports, IsTracked, IsHeld
    <3>2. c \in torn \/ k2.work.exported = k2.staged.exported
      BY <1>s, <2>1, <2>2 DEF Custody, Squares, GitPhases, UndoPhases
    <3> QED
      BY <3>1, <3>2, RestKept
  <2>5. CustodyNow(c)'
    BY <2>2, <2>3, <2>4 DEF CustodyNow
  <2> QED
    BY <1>5, <1>k, <2>3, <2>5, KeepsOthers DEF ImportStages, Quits
<1>6. CASE ReadsHead(c)
  <2>1. m2.op = "import" /\ m2.phase = "listing" /\ m2.paths = m.paths /\ m.op = "import" /\ m.phase = "reading"
    BY <1>6, <1>t DEF ReadsHead, Goes, On, Commands
  <2>2. UNCHANGED <<clone, owed, torn>>
    BY <1>6 DEF ReadsHead
  <2>3. Custody(k, m2, owed[c], c \in torn)
    <3> HIDE DEF k, m, m2
    <3>1. ASSUME NEW f \in owed[c] PROVE Owes(k, m2, f)
      <4>1. Owes(k, m, f) /\ f \in Files
        BY <1>s, <1>t DEF Custody
      <4> QED
        BY <4>1, <2>1 DEF Owes, Imports, IsTracked, ImportPhases, Asked
    <3>2. ASSUME c \notin torn PROVE Squares(k, m2)
      <4>1. Squares(k, m) /\ Grows(k, m)
        BY <1>s, <3>2 DEF Custody
      <4> QED
        BY <4>1, <2>1 DEF Squares, GitPhases, UndoPhases, Asked
    <3> QED
      BY <3>1, <3>2 DEF Custody
  <2>4. CustodyNow(c)'
    BY <2>2, <2>3 DEF CustodyNow
  <2> QED
    BY <1>6, <1>k, <2>2, <2>4, KeepsOthers DEF ReadsHead
<1> QED
  BY <1>1, <1>2, <1>3, <1>4, <1>5, <1>6 DEF Import

LEMMA ExportKeeps ==
  ASSUME MoveInv, CustodyInv, NEW c \in Clones, Export(c)
  PROVE  CustodyInv'
<1> DEFINE k == clone[c]
           m == cmd[c]
           k2 == clone'[c]
           m2 == cmd'[c]
<1>k. TypeOK /\ k \in CloneStates /\ m \in Commands
  BY DEF TypeOK, MoveInv
<1>t. k.work \in Trees /\ k.staged \in Trees /\ k.head \in Trees /\ k.index \in [Files -> Entries \cup {None}]
      /\ clone \in [Clones -> CloneStates] /\ cmd \in [Clones -> Commands]
      /\ owed \in [Clones -> SUBSET Files] /\ drive \in [Files -> Digests]
  BY <1>k DEF CloneStates, TypeOK
<1>o. m.op \in {"none", "import", "export"} /\ m.paths \subseteq Files /\ m.todo \subseteq Files
      /\ m.unignore \in BOOLEAN
  BY <1>k DEF Commands
<1>s. Custody(k, m, owed[c], c \in torn) /\ (m.op = "none" <=> m.phase = "idle") /\ m.todo \subseteq m.paths
      /\ (c \notin torn => Grows(k, m))
  BY DEF CustodyInv, CustodyNow, MoveInv, SafeNow, Safe, Agree
<1>1. ASSUME NEW paths \in SUBSET Files, NEW trash \in BOOLEAN, ExportBegins(c, paths, trash)
      PROVE  CustodyInv'
  <2> DEFINE b == "export" = "export" /\ paths \cap k.work.imported # {}
             to == [Idle EXCEPT !.op = "export", !.phase = "pulling", !.paths = paths, !.trash = trash,
                                !.unignore = b]
  <2>1. Goes(c, to) /\ UNCHANGED <<clone, torn>> /\ m.phase = "idle"
        /\ paths \subseteq Held(c) \ Tracked(c)
        /\ owed' = [owed EXCEPT ![c] = {f \in paths : Kept(c, f)}]
    BY <1>1 DEF ExportBegins, Begins, Free
  <2>2. m2.op = "export" /\ m2.phase = "pulling" /\ m2.paths = paths
    BY <2>1, <1>t DEF Goes, Idle
  <2>3. \A f \in owed'[c] : f \in paths /\ IsHeld(k, f) /\ ~IsTracked(k, f) /\ f \notin k.work.exported
    BY <2>1, <1>t DEF Kept, Held, Tracked, IsHeld, IsTracked
  <2> HIDE DEF b, to
  <2>4. Custody(k, m2, owed'[c], c \in torn)
    <3> HIDE DEF k, m, k2, m2
    <3>1. ASSUME NEW f \in owed'[c] PROVE Owes(k, m2, f)
      BY <2>2, <2>3 DEF Owes, Exports, ExportPhases, GitPhases, UndoPhases
    <3>2. c \notin torn => Squares(k, m2)
      BY <1>s, <2>1, <2>2 DEF Custody, Squares, GitPhases, UndoPhases
    <3> QED
      BY <3>1, <3>2 DEF Custody
  <2>5. CustodyNow(c)'
    BY <2>1, <2>4 DEF CustodyNow
  <2> QED
    BY <1>k, <2>1, <2>5, KeepsOthers
<1>2. CASE ExportPulls(c)
  <2> DEFINE wanted == {f \in m.paths : f \notin Present(c) \cap OnDisk(c)}
             delivered == wanted \cap Downloadable(c)
  <2>1. /\ Changes(c, Downloads(c, delivered)) /\ gitGone' = [gitGone EXCEPT ![c] = @ \ delivered]
        /\ (Enters(c, "listing") /\ UNCHANGED raced) \/ Quits(c)
        /\ UNCHANGED <<drive, origin, torn, faults, edits, owed>>
        /\ m.op = "export" /\ m.phase = "pulling"
    BY <1>2 DEF ExportPulls, On
  <2>2. \A f \in delivered : drive[f] \in Digests /\ drive[f] # None
    BY <1>t DEF Downloadable, Held
  <2> HIDE DEF delivered, wanted
  <2>3. k2.staged = k.staged /\ k2.head = k.head /\ k2.work.imported = k.work.imported
        /\ k2.work.exported = k.work.exported
        /\ \A f \in Files : k2.index[f] = (IF f \in delivered THEN Record(drive[f]) ELSE k.index[f])
    BY <2>1, <1>t DEF Changes, Downloads, CloneStates, Trees
  <2>4. \A f \in Files : IsHeld(k, f) => IsHeld(k2, f)
    <3>1. \A f \in delivered : Record(drive[f]) # None
      BY <2>2, Recordable, EntryAssumption
    <3> QED
      BY <2>3, <3>1 DEF IsHeld
  <2>5. ASSUME NEW f \in owed[c]
        PROVE  /\ f \in m.paths /\ IsHeld(k2, f) /\ ~IsTracked(k2, f) /\ f \notin k2.work.exported
    <3> HIDE DEF k, m, k2, m2
    <3>1. Owes(k, m, f) /\ f \in Files
      BY <1>s, <1>t DEF Custody
    <3> QED
      BY <3>1, <2>1, <2>3, <2>4 DEF Owes, Exports, Asked, IsTracked
  <2>6. c \in torn \/ k2.work.exported = k2.staged.exported
    <3> HIDE DEF k, m, k2, m2
    <3> QED
      BY <1>s, <2>1, <2>3 DEF Custody, Squares, UndoPhases
  <2>7. ASSUME Enters(c, "listing") PROVE Custody(k2, m2, owed[c], c \in torn)
    <3>1. m2.op = "export" /\ m2.phase = "listing" /\ m2.paths = m.paths
      BY <2>1, <2>7, <1>t DEF Enters, Goes, Commands
    <3> HIDE DEF k, m, k2, m2
    <3>2. \A f \in owed[c] : Owes(k2, m2, f)
      BY <2>5, <3>1 DEF Owes, Exports, ExportPhases, GitPhases, UndoPhases
    <3>3. c \notin torn => Squares(k2, m2)
      BY <2>6, <3>1 DEF Squares, GitPhases, UndoPhases
    <3> QED
      BY <3>2, <3>3 DEF Custody
  <2>8. ASSUME Quits(c) PROVE Custody(k2, m2, owed[c], c \in torn)
    <3>1. m2 = Idle
      BY <2>8, <1>t DEF Quits, Goes
    <3> HIDE DEF k, m, k2, m2
    <3>2. Custody(k2, Idle, owed[c], c \in torn)
      BY <2>5, <2>6, RestKept
    <3> QED
      BY <3>1, <3>2
  <2>9. CustodyNow(c)'
    BY <2>1, <2>7, <2>8 DEF CustodyNow
  <2> QED
    BY <1>k, <2>1, <2>9, KeepsOthers DEF Enters, Quits
<1>3. CASE ExportUnignores(c)
  <2>1. k2.work.exported = k.work.exported /\ k2.staged = k.staged /\ k2.head = k.head /\ k2.index = k.index
    BY <1>3, <1>t DEF ExportUnignores, GitStep, Changes, CloneStates, Trees
  <2>2. m2.op = "export" /\ m2.phase = "tracking" /\ m2.todo = m.todo /\ m2.paths = m.paths
        /\ m2.before = m.before /\ m2.unignore = m.unignore /\ m.op = "export" /\ m.phase = "ignoring"
    BY <1>3, <1>t DEF ExportUnignores, GitStep, Enters, Goes, On, Commands
  <2>3. owed' = owed /\ torn' = torn
    BY <1>3 DEF ExportUnignores, GitStep, history
  <2>4. Custody(k2, m2, owed[c], c \in torn)
    <3> HIDE DEF k, m, k2, m2
    <3>1. ASSUME NEW f \in owed[c] PROVE Owes(k2, m2, f)
      <4>1. Owes(k, m, f) /\ f \in Files
        BY <1>s, <1>t DEF Custody
      <4> QED
        BY <4>1, <2>1, <2>2 DEF Owes, Exports, ExportPhases, IsTracked, IsHeld, Asked, GitPhases, UndoPhases
    <3>2. ASSUME c \notin torn PROVE Squares(k2, m2)
      <4>1. Squares(k, m) /\ Grows(k, m)
        BY <1>s, <3>2 DEF Custody
      <4> QED
        BY <4>1, <2>1, <2>2 DEF Squares, Grows, Asked, GitPhases, UndoPhases, Looking
    <3> QED
      BY <3>1, <3>2 DEF Custody
  <2>5. CustodyNow(c)'
    BY <2>3, <2>4 DEF CustodyNow
  <2> QED
    BY <1>3, <1>k, <2>3, <2>5, KeepsOthers DEF ExportUnignores, GitStep, history, Enters
<1>4. ASSUME NEW batch \in SUBSET Files, ExportTracks(c, batch) PROVE CustodyInv'
  <2>1. k2.work = k.work /\ k2.head = k.head /\ k2.index = k.index /\ k2.staged.exported = k.staged.exported
        /\ k2.staged.imported = (IF m.unignore /\ batch = m.todo THEN k.work.imported ELSE k.staged.imported)
        /\ \A f \in Files : k2.staged.tree[f] = (IF f \in batch THEN k.work.tree[f] ELSE k.staged.tree[f])
    BY <1>4, <1>t DEF ExportTracks, Changes, CloneStates, Trees
  <2>2. m2.op = "export" /\ m2.phase = (IF batch = m.todo THEN "exporting" ELSE "tracking")
        /\ m2.todo = m.todo \ batch /\ m2.paths = m.paths /\ m2.before = m.before /\ m2.unignore = m.unignore
        /\ m.op = "export" /\ m.phase = "tracking" /\ batch \subseteq m.todo
    BY <1>4, <1>t DEF ExportTracks, Goes, On, Commands
  <2>3. owed' = owed /\ torn' = torn
    BY <1>4 DEF ExportTracks, history
  <2>6. \A f \in batch : k.work.tree[f] # None \/ IsTracked(k, f)
    BY <1>4 DEF ExportTracks, OnDisk, Tracked, IsTracked
  <2>7. m.paths \cap k.work.imported = {}
    BY <1>4 DEF ExportTracks, StillIgnored
  <2>4. Custody(k2, m2, owed[c], c \in torn)
    <3> HIDE DEF k, m, k2, m2
    <3>1. ASSUME NEW f \in owed[c] PROVE Owes(k2, m2, f)
      <4>1. Owes(k, m, f) /\ f \in Files
        BY <1>s, <1>t DEF Custody
      <4> QED
        BY <4>1, <2>1, <2>2, <2>6 DEF Owes, Exports, ExportPhases, IsTracked, IsHeld, Asked, GitPhases, UndoPhases
    <3>2. ASSUME c \notin torn PROVE Squares(k2, m2)
      <4>1. Squares(k, m) /\ Grows(k, m)
        BY <1>s, <3>2 DEF Custody
      <4> QED
        BY <4>1, <2>1, <2>2, <2>7 DEF Squares, Grows, Asked, GitPhases, UndoPhases, Looking
    <3> QED
      BY <3>1, <3>2 DEF Custody
  <2>5. CustodyNow(c)'
    BY <2>3, <2>4 DEF CustodyNow
  <2> QED
    BY <1>4, <1>k, <2>3, <2>5, KeepsOthers DEF ExportTracks, history, Enters
<1>5. CASE ExportIgnores(c)
  <2>1. k2.work.exported = k.work.exported \cup m.paths /\ k2.work.imported = k.work.imported
        /\ k2.staged = k.staged /\ k2.head = k.head /\ k2.index = k.index
    BY <1>5, <1>t DEF ExportIgnores, GitStep, Changes, CloneStates, Trees
  <2>2. m2.op = "export" /\ m2.phase = "sealing" /\ m2.todo = m.todo /\ m2.paths = m.paths
        /\ m2.before = m.before /\ m2.unignore = m.unignore /\ m.op = "export" /\ m.phase = "exporting"
    BY <1>5, <1>t DEF ExportIgnores, GitStep, Enters, Goes, On, Commands
  <2>3. owed' = owed /\ torn' = torn
    BY <1>5 DEF ExportIgnores, GitStep, history
  <2>4. Custody(k2, m2, owed[c], c \in torn)
    <3> HIDE DEF k, m, k2, m2
    <3>1. ASSUME NEW f \in owed[c] PROVE Owes(k2, m2, f)
      <4>1. Owes(k, m, f) /\ f \in Files
        BY <1>s, <1>t DEF Custody
      <4> QED
        BY <4>1, <2>1, <2>2 DEF Owes, Exports, ExportPhases, IsTracked, IsHeld, Asked, GitPhases, UndoPhases
    <3>2. ASSUME c \notin torn PROVE Squares(k2, m2)
      <4>1. Squares(k, m) /\ Grows(k, m)
        BY <1>s, <3>2 DEF Custody
      <4> QED
        BY <4>1, <2>1, <2>2 DEF Squares, Grows, Asked, GitPhases, UndoPhases, Looking
    <3> QED
      BY <3>1, <3>2 DEF Custody
  <2>5. CustodyNow(c)'
    BY <2>3, <2>4 DEF CustodyNow
  <2> QED
    BY <1>5, <1>k, <2>3, <2>5, KeepsOthers DEF ExportIgnores, GitStep, history, Enters
<1>6. CASE ExportSeals(c)
  <2>1. k2.work = k.work /\ k2.head = k.head /\ k2.index = k.index /\ k2.staged.tree = k.staged.tree
        /\ k2.staged.exported = k.work.exported
    BY <1>6, <1>t DEF ExportSeals, GitStep, Changes, CloneStates, Trees
  <2>2. m2.op = "export" /\ m2.phase \in {"trashing", "forgetting"} /\ m2.paths = m.paths
        /\ m.op = "export" /\ m.phase = "sealing"
    BY <1>6, <1>t DEF ExportSeals, GitStep, Enters, Goes, On, Commands
  <2>3. owed' = owed /\ torn' = torn
    BY <1>6 DEF ExportSeals, GitStep, history
  <2>4. Custody(k2, m2, owed[c], c \in torn)
    <3> HIDE DEF k, m, k2, m2
    <3>1. ASSUME NEW f \in owed[c] PROVE Owes(k2, m2, f)
      <4>1. Owes(k, m, f) /\ f \in Files
        BY <1>s, <1>t DEF Custody
      <4> QED
        BY <4>1, <2>1, <2>2 DEF Owes, Exports, ExportPhases, IsTracked, IsHeld, Asked, GitPhases, UndoPhases
    <3>2. ASSUME c \notin torn PROVE Squares(k2, m2)
      <4>1. Squares(k, m) /\ Grows(k, m)
        BY <1>s, <3>2 DEF Custody
      <4> QED
        BY <4>1, <2>1, <2>2 DEF Squares, Grows, Asked, GitPhases, UndoPhases, Looking
    <3> QED
      BY <3>1, <3>2 DEF Custody
  <2>5. CustodyNow(c)'
    BY <2>3, <2>4 DEF CustodyNow
  <2> QED
    BY <1>6, <1>k, <2>3, <2>5, KeepsOthers DEF ExportSeals, GitStep, history, Enters
<1>7. ASSUME NEW gone \in SUBSET Files, ExportTrashes(c, gone) PROVE CustodyInv'
  <2>1. k2 = k
    BY <1>7, <1>t DEF ExportTrashes
  <2>2. m2.op = "export" /\ m2.phase = "forgetting" /\ m2.paths = m.paths /\ m.op = "export" /\ m.phase = "trashing"
    BY <1>7, <1>t DEF ExportTrashes, Enters, Goes, On, Commands
  <2>3. UNCHANGED <<clone, owed, torn>>
    BY <1>7 DEF ExportTrashes
  <2>4. Custody(k2, m2, owed[c], c \in torn)
    <3> HIDE DEF k, m, k2, m2
    <3>1. ASSUME NEW f \in owed[c] PROVE Owes(k2, m2, f)
      <4>1. Owes(k, m, f) /\ f \in Files
        BY <1>s, <1>t DEF Custody
      <4> QED
        BY <4>1, <2>1, <2>2 DEF Owes, Exports, ExportPhases, IsTracked, IsHeld, Asked, GitPhases, UndoPhases
    <3>2. ASSUME c \notin torn PROVE Squares(k2, m2)
      <4>1. Squares(k, m) /\ Grows(k, m)
        BY <1>s, <3>2 DEF Custody
      <4> QED
        BY <4>1, <2>1, <2>2 DEF Squares, Grows, Asked, GitPhases, UndoPhases, Looking
    <3> QED
      BY <3>1, <3>2 DEF Custody
  <2>5. CustodyNow(c)'
    BY <2>3, <2>4 DEF CustodyNow
  <2> QED
    BY <1>7, <1>k, <2>3, <2>5, KeepsOthers DEF ExportTrashes, Enters
<1>8. CASE ExportForgets(c)
  <2>1. k2.work = k.work /\ k2.staged = k.staged
    BY <1>8, <1>t DEF ExportForgets, Changes, CloneStates
  <2>2. m2 = Idle /\ m.op = "export" /\ m.phase \in {"trashing", "forgetting"}
    BY <1>8, <1>t DEF ExportForgets, Quits, Goes
  <2>3. owed' = owed /\ torn' = torn
    BY <1>8 DEF ExportForgets
  <2>4. Custody(k2, Idle, owed[c], c \in torn)
    <3> HIDE DEF k, m, k2, m2
    <3>1. ASSUME NEW f \in owed[c] PROVE IsTracked(k2, f) \/ (IsHeld(k2, f) /\ f \notin k2.work.exported)
      <4>1. Owes(k, m, f)
        BY <1>s DEF Custody
      <4> QED
        BY <4>1, <2>1, <2>2 DEF Owes, Exports, IsTracked
    <3>2. c \in torn \/ k2.work.exported = k2.staged.exported
      BY <1>s, <2>1, <2>2 DEF Custody, Squares, GitPhases, UndoPhases
    <3> QED
      BY <3>1, <3>2, RestKept
  <2>5. CustodyNow(c)'
    BY <2>2, <2>3, <2>4 DEF CustodyNow
  <2> QED
    BY <1>8, <1>k, <2>3, <2>5, KeepsOthers DEF ExportForgets, Quits
<1> QED
  BY <1>1, <1>2, <1>3, <1>4, <1>5, <1>6, <1>7, <1>8 DEF Export

LEMMA OtherMovesKeep ==
  ASSUME MoveInv, CustodyInv, NEW c \in Clones,
         \/ Lists(c) \/ Verifies(c) \/ Stops(c)
         \/ GitFails(c) \/ UndoResets(c) \/ UndoRestores(c) \/ UndoRestoresIgnore(c) \/ Tears(c)
  PROVE  CustodyInv'
<1> DEFINE k == clone[c]
           m == cmd[c]
           k2 == clone'[c]
           m2 == cmd'[c]
<1>k. TypeOK /\ k \in CloneStates /\ m \in Commands
  BY DEF TypeOK, MoveInv
<1>t. k.work \in Trees /\ k.staged \in Trees /\ k.head \in Trees /\ k.index \in [Files -> Entries \cup {None}]
      /\ clone \in [Clones -> CloneStates] /\ cmd \in [Clones -> Commands]
      /\ owed \in [Clones -> SUBSET Files] /\ drive \in [Files -> Digests]
  BY <1>k DEF CloneStates, TypeOK
<1>o. m.op \in {"none", "import", "export"} /\ m.paths \subseteq Files /\ m.todo \subseteq Files
      /\ m.unignore \in BOOLEAN
  BY <1>k DEF Commands
<1>s. Custody(k, m, owed[c], c \in torn) /\ (m.op = "none" <=> m.phase = "idle") /\ m.todo \subseteq m.paths
      /\ (c \notin torn => Grows(k, m))
  BY DEF CustodyInv, CustodyNow, MoveInv, SafeNow, Safe, Agree
<1>1. CASE Lists(c)
  <2>1. k2 = k
    BY <1>1, <1>t DEF Lists
  <2>2. m2.op = m.op /\ m2.phase = "verifying" /\ m2.paths = m.paths /\ m.phase = "listing"
    BY <1>1, <1>t DEF Lists, Goes, Commands
  <2>3. UNCHANGED <<clone, owed, torn>>
    BY <1>1 DEF Lists
  <2>4. Custody(k2, m2, owed[c], c \in torn)
    <3> HIDE DEF k, m, k2, m2
    <3>1. ASSUME NEW f \in owed[c] PROVE Owes(k2, m2, f)
      <4>1. Owes(k, m, f) /\ f \in Files
        BY <1>s, <1>t DEF Custody
      <4> QED
        BY <4>1, <2>1, <2>2 DEF Owes, Imports, Exports, ExportPhases, IsTracked, IsHeld, Asked, GitPhases, UndoPhases, ImportPhases
    <3>2. ASSUME c \notin torn PROVE Squares(k2, m2)
      <4>1. Squares(k, m) /\ Grows(k, m)
        BY <1>s, <3>2 DEF Custody
      <4> QED
        BY <4>1, <2>1, <2>2 DEF Squares, Grows, Asked, GitPhases, UndoPhases, Looking
    <3> QED
      BY <3>1, <3>2 DEF Custody
  <2>5. CustodyNow(c)'
    BY <2>3, <2>4 DEF CustodyNow
  <2> QED
    BY <1>1, <1>k, <2>3, <2>5, KeepsOthers DEF Lists, Enters
<1>2. CASE Verifies(c)
  <2> DEFINE before == [imported |-> k.work.imported, exported |-> k.work.exported]
             on == [m EXCEPT !.phase = "ignoring", !.todo = m.paths, !.listing = Nothing,
                             !.blobs = Nothing, !.before = before]
  <2>1. PICK unchecked \in SUBSET m.paths :
          (Verified(c, Seen(c, unchecked)) /\ Goes(c, on)) \/ Quits(c)
    BY <1>2 DEF Verifies
  <2>2. UNCHANGED <<clone, owed, torn>> /\ m.phase = "verifying"
    BY <1>2 DEF Verifies
  <2>3. ASSUME Verified(c, Seen(c, unchecked)), Goes(c, on) PROVE Custody(k, m2, owed[c], c \in torn)
    <3>1. m2.op = m.op /\ m2.phase = "ignoring" /\ m2.todo = m.paths /\ m2.paths = m.paths
          /\ m2.unignore = m.unignore /\ m2.before = before
      BY <2>3, <1>t DEF Goes, Commands
    <3>2. before.imported = k.work.imported /\ before.exported = k.work.exported
      OBVIOUS
    <3>3. \A f \in m.paths : IsHeld(k, f)
      BY <2>3 DEF Verified, Present, Held, IsHeld
    <3>4. m.op # "none"
      BY <1>s, <2>2
    <3> HIDE DEF k, m, k2, m2, before
    <3>5. ASSUME NEW f \in owed[c] PROVE Owes(k, m2, f)
      <4>1. Owes(k, m, f)
        BY <1>s DEF Custody
      <4> QED
        BY <4>1, <2>2, <3>1, <3>2, <3>3, <3>4 DEF Owes, Imports, Exports, Asked, ImportPhases, ExportPhases
    <3>6. ASSUME c \notin torn PROVE Squares(k, m2)
      <4>1. Squares(k, m) /\ Grows(k, m)
        BY <1>s, <3>6 DEF Custody
      <4> QED
        BY <4>1, <2>2, <3>1, <3>2 DEF Squares, Grows, Asked, GitPhases, UndoPhases, Looking
    <3> QED
      BY <3>5, <3>6 DEF Custody
  <2>4. ASSUME Quits(c) PROVE Custody(k, m2, owed[c], c \in torn)
    <3>1. m2 = Idle
      BY <2>4, <1>t DEF Quits, Goes
    <3> HIDE DEF k, m, k2, m2
    <3>2. ASSUME NEW f \in owed[c] PROVE IsTracked(k, f) \/ (IsHeld(k, f) /\ f \notin k.work.exported)
      <4>1. Owes(k, m, f)
        BY <1>s DEF Custody
      <4> QED
        BY <4>1, <1>o, <2>2 DEF Owes, Imports, Exports, Asked
    <3>3. c \in torn \/ k.work.exported = k.staged.exported
      BY <1>s, <2>2 DEF Custody, Squares, UndoPhases
    <3>4. Custody(k, Idle, owed[c], c \in torn)
      BY <3>2, <3>3, RestKept
    <3> QED
      BY <3>1, <3>4
  <2> HIDE DEF before, on
  <2>5. CustodyNow(c)'
    BY <2>1, <2>2, <2>3, <2>4 DEF CustodyNow
  <2> QED
    BY <1>k, <2>1, <2>2, <2>5, KeepsOthers DEF Quits
<1>3. CASE Stops(c)
  <2>1. k2 = k
    BY <1>3, <1>t DEF Stops
  <2>2. m2 = Idle /\ m.phase \notin {"idle"} \cup GitPhases
    BY <1>3, <1>t DEF Stops, Quits, Goes
  <2>3. UNCHANGED <<clone, owed, torn>>
    BY <1>3 DEF Stops
  <2>p. m.phase \in {"idle"} \cup ImportPhases \cup ExportPhases \cup UndoPhases
    BY <1>k DEF Commands
  <2>4. Custody(k2, Idle, owed[c], c \in torn)
    <3> HIDE DEF k, m, k2, m2
    <3>1. ASSUME NEW f \in owed[c] PROVE IsTracked(k2, f) \/ (IsHeld(k2, f) /\ f \notin k2.work.exported)
      <4>1. Owes(k, m, f)
        BY <1>s DEF Custody
      <4> QED
        BY <4>1, <2>1, <2>2, <2>p, <1>s, <1>o DEF Owes, Imports, Exports, Asked, ImportPhases, ExportPhases, GitPhases, UndoPhases
    <3>2. c \in torn \/ k2.work.exported = k2.staged.exported
      BY <1>s, <2>1, <2>2 DEF Custody, Squares, GitPhases, UndoPhases
    <3> QED
      BY <3>1, <3>2, RestKept
  <2>5. CustodyNow(c)'
    BY <2>2, <2>3, <2>4 DEF CustodyNow
  <2> QED
    BY <1>3, <1>k, <2>3, <2>5, KeepsOthers DEF Stops, Quits
<1>4. CASE GitFails(c)
  <2>1. k2 = k
    BY <1>4, <1>t DEF GitFails
  <2>2. m2.op = m.op /\ m2.phase = "undoing" /\ m2.paths = m.paths /\ m2.before = m.before
        /\ m2.unignore = m.unignore /\ m.phase \in GitPhases \ UndoPhases
    BY <1>4, <1>t DEF GitFails, Enters, Goes, Commands
  <2>3. UNCHANGED <<clone, owed, torn>>
    BY <1>4 DEF GitFails, history
  <2>4. Custody(k2, m2, owed[c], c \in torn)
    <3> HIDE DEF k, m, k2, m2
    <3>1. ASSUME NEW f \in owed[c] PROVE Owes(k2, m2, f)
      <4>1. Owes(k, m, f) /\ f \in Files
        BY <1>s, <1>t DEF Custody
      <4> QED
        BY <4>1, <2>1, <2>2, <1>s, <1>o DEF Owes, Imports, Exports, ExportPhases, IsTracked, IsHeld, Asked, GitPhases, UndoPhases, ImportPhases
    <3>2. ASSUME c \notin torn PROVE Squares(k2, m2)
      <4>1. Squares(k, m) /\ Grows(k, m)
        BY <1>s, <3>2 DEF Custody
      <4> QED
        BY <4>1, <2>1, <2>2 DEF Squares, Grows, Asked, GitPhases, UndoPhases, Looking
    <3> QED
      BY <3>1, <3>2 DEF Custody
  <2>5. CustodyNow(c)'
    BY <2>3, <2>4 DEF CustodyNow
  <2> QED
    BY <1>4, <1>k, <2>3, <2>5, KeepsOthers DEF GitFails, history, Enters
<1>5. CASE UndoResets(c)
  <2>1. k2.work = k.work /\ k2.head = k.head /\ k2.index = k.index /\ k2.staged.imported = k.head.imported
        /\ k2.staged.exported = (IF m.op = "export" THEN k.head.exported ELSE k.staged.exported)
        /\ \A f \in m.paths : k2.staged.tree[f] = k.head.tree[f]
    BY <1>5, <1>t, <1>o DEF UndoResets, GitStep, Changes, CloneStates, Trees
  <2>2. m2.op = m.op /\ m2.phase = "restoring" /\ m2.paths = m.paths /\ m2.before = m.before
        /\ m2.unignore = m.unignore /\ m.phase = "undoing"
    BY <1>5, <1>t DEF UndoResets, GitStep, Enters, Goes, Commands
  <2>3. owed' = owed /\ torn' = torn
    BY <1>5 DEF UndoResets, GitStep, history
  <2>4. Custody(k2, m2, owed[c], c \in torn)
    <3> HIDE DEF k, m, k2, m2
    <3>1. ASSUME NEW f \in owed[c] PROVE Owes(k2, m2, f)
      <4>1. Owes(k, m, f) /\ f \in Files
        BY <1>s, <1>t DEF Custody
      <4> QED
        BY <4>1, <2>1, <2>2, <1>s, <1>o DEF Owes, Imports, Exports, ExportPhases, IsTracked, IsHeld, Asked, GitPhases, UndoPhases, ImportPhases
    <3>2. ASSUME c \notin torn PROVE Squares(k2, m2)
      <4>1. Squares(k, m) /\ Grows(k, m)
        BY <1>s, <3>2 DEF Custody
      <4> QED
        BY <4>1, <2>1, <2>2, <1>s, <1>o DEF Squares, Grows, Asked, GitPhases, UndoPhases, Looking
    <3> QED
      BY <3>1, <3>2 DEF Custody
  <2>5. CustodyNow(c)'
    BY <2>3, <2>4 DEF CustodyNow
  <2> QED
    BY <1>5, <1>k, <2>3, <2>5, KeepsOthers DEF UndoResets, GitStep, history, Enters
<1>6. CASE UndoRestores(c)
  <2>1. k2.work.exported = k.work.exported /\ k2.work.imported = m.before.imported
        /\ k2.staged = k.staged /\ k2.head = k.head /\ k2.index = k.index
    BY <1>6, <1>t DEF UndoRestores, Changes, CloneStates, Trees
  <2>2. UNCHANGED <<owed, torn>> /\ m.phase = "restoring"
        /\ ((m.op = "export" /\ Enters(c, "restoringIgnore")) \/ (m.op # "export" /\ Quits(c)))
    BY <1>6 DEF UndoRestores
  <2>3. ASSUME m.op = "export", Enters(c, "restoringIgnore") PROVE Custody(k2, m2, owed[c], c \in torn)
    <3>1. m2.op = "export" /\ m2.phase = "restoringIgnore" /\ m2.paths = m.paths
          /\ m2.before = m.before /\ m2.unignore = m.unignore
      BY <2>3, <1>t DEF Enters, Goes, Commands
    <3> HIDE DEF k, m, k2, m2
    <3>2. ASSUME NEW f \in owed[c] PROVE Owes(k2, m2, f)
      <4>1. Owes(k, m, f)
        BY <1>s DEF Custody
      <4> QED
        BY <4>1, <2>1, <2>2, <2>3, <3>1 DEF Owes, Exports, ExportPhases, IsHeld, Asked, GitPhases, UndoPhases
    <3>3. ASSUME c \notin torn PROVE Squares(k2, m2)
      <4>1. Squares(k, m)
        BY <1>s, <3>3 DEF Custody
      <4> QED
        BY <4>1, <2>1, <2>2, <2>3, <3>1 DEF Squares, GitPhases, UndoPhases
    <3> QED
      BY <3>2, <3>3 DEF Custody
  <2>4. ASSUME m.op # "export", Quits(c) PROVE Custody(k2, m2, owed[c], c \in torn)
    <3>1. m2 = Idle /\ m.op = "import"
      BY <2>2, <2>4, <1>t, <1>s, <1>o DEF Quits, Goes
    <3> HIDE DEF k, m, k2, m2
    <3>2. ASSUME NEW f \in owed[c] PROVE IsTracked(k2, f) \/ (IsHeld(k2, f) /\ f \notin k2.work.exported)
      <4>1. Owes(k, m, f)
        BY <1>s DEF Custody
      <4> QED
        BY <4>1, <2>1, <2>2, <3>1 DEF Owes, Imports, IsTracked
    <3>3. c \in torn \/ k2.work.exported = k2.staged.exported
      BY <1>s, <2>1, <2>4 DEF Custody, Squares
    <3>4. Custody(k2, Idle, owed[c], c \in torn)
      BY <3>2, <3>3, RestKept
    <3> QED
      BY <3>1, <3>4
  <2>5. CustodyNow(c)'
    BY <2>2, <2>3, <2>4 DEF CustodyNow
  <2>6. clone' = clone \/ \E x : Changes(c, x)
    BY <1>6 DEF UndoRestores
  <2> QED
    BY <1>k, <2>2, <2>5, <2>6, KeepsOthers DEF Enters, Quits
<1>7. CASE UndoRestoresIgnore(c)
  <2>1. k2.work.exported = m.before.exported /\ k2.staged = k.staged /\ k2.index = k.index
    BY <1>7, <1>t DEF UndoRestoresIgnore, Changes, CloneStates, Trees
  <2>2. m2 = Idle /\ m.phase = "restoringIgnore"
    BY <1>7, <1>t DEF UndoRestoresIgnore, Quits, Goes
  <2>3. owed' = owed /\ torn' = torn
    BY <1>7 DEF UndoRestoresIgnore
  <2>4. Custody(k2, Idle, owed[c], c \in torn)
    <3> HIDE DEF k, m, k2, m2
    <3>1. ASSUME NEW f \in owed[c] PROVE IsTracked(k2, f) \/ (IsHeld(k2, f) /\ f \notin k2.work.exported)
      <4>1. Owes(k, m, f)
        BY <1>s DEF Custody
      <4> QED
        BY <4>1, <2>1, <2>2, <1>s, <1>o DEF Owes, Imports, Exports, IsTracked, IsHeld, ImportPhases, GitPhases, UndoPhases
    <3>2. c \in torn \/ k2.work.exported = k2.staged.exported
      BY <1>s, <1>o, <2>1, <2>2 DEF Custody, Squares, GitPhases, UndoPhases
    <3> QED
      BY <3>1, <3>2, RestKept
  <2>5. CustodyNow(c)'
    BY <2>2, <2>3, <2>4 DEF CustodyNow
  <2> QED
    BY <1>7, <1>k, <2>3, <2>5, KeepsOthers DEF UndoRestoresIgnore, Quits
<1>8. CASE Tears(c)
  <2>1. clone' = clone /\ c \in torn' /\ torn' \ {c} = torn \ {c} /\ Quits(c) /\ m.phase \in GitPhases
        /\ owed' = IF HalfUndone(c) THEN [owed EXCEPT ![c] = {}] ELSE owed
    BY <1>8 DEF Tears
  <2>2. m2 = Idle
    BY <2>1, <1>t DEF Quits, Goes
  <2>3. owed'[c] \subseteq owed[c]
        /\ (owed'[c] # {} => ~(m.op = "export" /\ m.phase \in {"restoring", "restoringIgnore"}))
    BY <2>1, <1>t DEF HalfUndone
  <2>4. Custody(k, Idle, owed'[c], c \in torn')
    <3> HIDE DEF k, m, k2, m2
    <3>1. ASSUME NEW f \in owed'[c] PROVE IsTracked(k, f) \/ (IsHeld(k, f) /\ f \notin k.work.exported)
      <4>1. Owes(k, m, f)
        BY <1>s, <2>3 DEF Custody
      <4> QED
        BY <4>1, <1>s, <1>o, <2>1, <2>3 DEF Owes, Imports, Exports, Asked, ImportPhases, ExportPhases, GitPhases, UndoPhases
    <3> QED
      BY <2>1, <3>1, RestKept
  <2>5. CustodyNow(c)'
    BY <2>1, <2>2, <2>4 DEF CustodyNow
  <2> QED
    BY <1>k, <2>1, <2>5, KeepsOthers DEF Quits
<1> QED
  BY <1>1, <1>2, <1>3, <1>4, <1>5, <1>6, <1>7, <1>8

LEMMA StepKeeps == MoveInv /\ CustodyInv /\ [Next]_vars => CustodyInv'
<1> SUFFICES ASSUME MoveInv, CustodyInv, [Next]_vars PROVE CustodyInv'
  OBVIOUS
<1>1. ASSUME NEW f \in Files, NEW content \in Digests, OtherDevice(f, content) PROVE CustodyInv'
  BY <1>1 DEF OtherDevice, CustodyInv, CustodyNow
<1>2. ASSUME NEW c \in Clones, User(c) \/ OtherCommands(c) PROVE CustodyInv'
  BY <1>2, UserKeeps, OtherCommandsKeep
<1>3. ASSUME NEW c \in Movers, Move(c) PROVE CustodyInv'
  <2>1. c \in Clones
    BY MoveAssumption
  <2> QED
    BY <1>3, <2>1, ImportKeeps, ExportKeeps, OtherMovesKeep DEF Move
<1>4. CASE UNCHANGED vars
  BY <1>4 DEF vars, history, CustodyInv, CustodyNow
<1> QED
  BY <1>1, <1>2, <1>3, <1>4 DEF Next

LEMMA CustodyAlways == Spec => []CustodyInv
BY MoveAlways, InitKept, StepKeeps, PTL DEF Spec

(* However an import or export ends (it finishes, stops, is undone, or is  *)
(* killed half-way), each path that only it has touched is tracked by git, *)
(* synced by protonfs, or both: the docstring of _export_git_step, for     *)
(* every number of clones, movers, files, faults and edits.                *)
THEOREM MovesKeepCustody == Spec => []NeverNeither
<1>1. MoveInv /\ CustodyInv => NeverNeither
  <2> SUFFICES ASSUME MoveInv, CustodyInv, NEW c \in Movers, cmd[c].phase = "idle", NEW f \in owed[c]
               PROVE  Kept(c, f)
    BY DEF NeverNeither
  <2>1. c \in Clones
    BY MoveAssumption
  <2>2. f \in Files
    BY <2>1 DEF MoveInv, TypeOK
  <2>3. Owes(clone[c], cmd[c], f) /\ cmd[c].op = "none"
    BY <2>1 DEF CustodyInv, CustodyNow, Custody, MoveInv, SafeNow, Safe
  <2> QED
    BY <2>2, <2>3 DEF Owes, Kept, Tracked, Held, IsTracked, IsHeld
<1> QED
  BY <1>1, MoveAlways, CustodyAlways, PTL

(* A step that takes a clone out of its git step ends it: the step's last  *)
(* command, or the last write of its undo.                                 *)
LEMMA EndsOfGitStep ==
  ASSUME MoveInv, CustodyInv, [Next]_vars, NEW c \in Clones,
         cmd[c].phase \in GitPhases, cmd'[c].phase \notin GitPhases, c \notin torn'
  PROVE  /\ c \notin torn
         /\ ImportStages(c) \/ ExportSeals(c) \/ (UndoRestores(c) /\ cmd[c].op = "import")
            \/ UndoRestoresIgnore(c)
<1>1. TypeOK
  BY DEF MoveInv
<1>2. ASSUME NEW d \in Clones, cmd' = cmd \/ \E m : Goes(d, m) PROVE d = c
  BY <1>1, <1>2 DEF TypeOK, Goes
<1>3. ASSUME NEW f \in Files, NEW content \in Digests, OtherDevice(f, content) PROVE FALSE
  BY <1>3 DEF OtherDevice
<1>4. ASSUME NEW d \in Clones, User(d) \/ OtherCommands(d) PROVE FALSE
  BY <1>4 DEF User, OtherCommands, UserStages, UserWrites, GitCommits, GitPulls, UserRepairs,
              Push, PushTrashes, Pull, Offload
<1>5. ASSUME NEW d \in Movers, Move(d)
      PROVE  /\ c \notin torn
             /\ ImportStages(c) \/ ExportSeals(c) \/ (UndoRestores(c) /\ cmd[c].op = "import")
                \/ UndoRestoresIgnore(c)
  <2>0. d \in Clones
    BY MoveAssumption
  <2>1. ASSUME NEW paths \in SUBSET Files, ImportBegins(d, paths) PROVE FALSE
    BY <2>0, <2>1, <1>2 DEF ImportBegins, Begins, Free, GitPhases, UndoPhases
  <2>2. ASSUME NEW paths \in SUBSET Files, NEW trash \in BOOLEAN, ExportBegins(d, paths, trash) PROVE FALSE
    BY <2>0, <2>2, <1>2 DEF ExportBegins, Begins, Free, GitPhases, UndoPhases
  <2>3. ~(ImportPushes(d) \/ ReadsHead(d) \/ Lists(d) \/ Stops(d) \/ ExportForgets(d)
          \/ \E gone \in SUBSET Files : ExportTrashes(d, gone))
    BY <2>0, <1>2 DEF ImportPushes, ReadsHead, Lists, Stops, ExportForgets, ExportTrashes,
                      On, Enters, Quits, GitPhases, UndoPhases
  <2>4. ~ExportPulls(d)
    <3>1. ExportPulls(d) => (\E m : Goes(d, m)) /\ cmd[d].phase = "pulling"
      BY DEF ExportPulls, On, Enters, Quits
    <3> QED
      BY <2>0, <3>1, <1>2 DEF GitPhases, UndoPhases
  <2>5. ~Verifies(d)
    <3>1. Verifies(d) => (\E m : Goes(d, m)) /\ cmd[d].phase = "verifying"
      BY DEF Verifies, Quits
    <3> QED
      BY <2>0, <3>1, <1>2 DEF GitPhases, UndoPhases
  <2>6. cmd[d] \in Commands /\ cmd \in [Clones -> Commands] /\ (cmd[d].op = "none" <=> cmd[d].phase = "idle")
    BY <2>0, <1>1 DEF TypeOK, MoveInv, SafeNow, Safe
  <2>7. ASSUME NEW p \in GitPhases, Enters(d, p) PROVE FALSE
    <3>1. d = c
      BY <2>0, <2>7, <1>2 DEF Enters
    <3> QED
      BY <2>6, <2>7, <3>1 DEF Enters, Goes, Commands
  <2>8. ~(ImportIgnores(d) \/ ExportUnignores(d) \/ ExportIgnores(d) \/ GitFails(d) \/ UndoResets(d))
    BY <2>7 DEF ImportIgnores, ExportUnignores, ExportIgnores, GitFails, UndoResets, GitStep,
                GitPhases, UndoPhases
  <2>9. ASSUME NEW batch \in SUBSET Files, ImportUntracks(d, batch) \/ ExportTracks(d, batch) PROVE FALSE
    <3>1. d = c
      BY <2>0, <2>9, <1>2 DEF ImportUntracks, ExportTracks
    <3>2. ImportUntracks(d, batch) => cmd'[c].phase \in {"staging", "untracking"}
      BY <2>6, <3>1 DEF ImportUntracks, Goes, Commands, On
    <3>3. ExportTracks(d, batch) => cmd'[c].phase \in {"exporting", "tracking"}
      BY <2>6, <3>1 DEF ExportTracks, Goes, Commands, On
    <3> QED
      BY <2>9, <3>2, <3>3 DEF GitPhases
  <2>10. ASSUME Tears(d) PROVE FALSE
    <3>1. d = c
      BY <2>0, <2>10, <1>2 DEF Tears, Quits
    <3> QED
      BY <2>10, <3>1 DEF Tears
  <2>11. ImportStages(d) \/ ExportSeals(d) \/ UndoRestores(d) \/ UndoRestoresIgnore(d)
    BY <1>5, <2>1, <2>2, <2>3, <2>4, <2>5, <2>8, <2>9, <2>10 DEF Move, Import, Export
  <2>12. d = c /\ torn' = torn
    <3>1. (\E m : Goes(d, m)) /\ torn' = torn
      BY <2>11 DEF ImportStages, ExportSeals, UndoRestores, UndoRestoresIgnore, GitStep, Enters, Quits
    <3> QED
      BY <2>0, <3>1, <1>2
  <2>13. UndoRestores(d) => cmd[d].op = "import"
    <3>1. UndoRestores(d) /\ cmd[d].op = "export" => FALSE
      BY <2>7 DEF UndoRestores, GitPhases, UndoPhases
    <3> QED
      BY <2>6, <3>1, <2>12 DEF Commands, GitPhases, UndoPhases
  <2> QED
    BY <2>11, <2>12, <2>13
<1> QED
  BY <1>3, <1>4, <1>5, MoveAssumption DEF Next, vars

(* At its end a git step has moved every path it answers for, or none,     *)
(* and the blocks with them.                                               *)
LEMMA EndedWhole ==
  ASSUME MoveInv, CustodyInv, NEW c \in Clones, c \notin torn,
         ImportStages(c) \/ ExportSeals(c) \/ (UndoRestores(c) /\ cmd[c].op = "import")
         \/ UndoRestoresIgnore(c)
  PROVE  EndsWhole(c)
<1> DEFINE k == clone[c]
           m == cmd[c]
           k2 == clone'[c]
<1>k. k \in CloneStates /\ m \in Commands
  BY DEF TypeOK, MoveInv
<1>t. k.work \in Trees /\ k.staged \in Trees /\ k.head \in Trees
      /\ clone \in [Clones -> CloneStates] /\ owed[c] \subseteq Files
  BY <1>k DEF CloneStates, TypeOK, MoveInv
<1>o. m.op \in {"none", "import", "export"} /\ m.paths \subseteq Files
  BY <1>k DEF Commands
<1>s. Squares(k, m) /\ Grows(k, m) /\ Gone(k, m, gitGone[c]) /\ (m.op = "none" <=> m.phase = "idle")
      /\ \A f \in owed[c] : Owes(k, m, f)
  BY DEF CustodyInv, CustodyNow, Custody, MoveInv, SafeNow, Safe
<1>j. Judged(c) = {f \in m.paths \cap owed[c] : m.op = "export" => k.head.tree[f] = None}
  BY DEF Judged
<1>m. Moved(c) = IF m.op = "import" THEN {f \in Judged(c) : ~IsTracked(k2, f)}
                 ELSE {f \in Judged(c) : IsTracked(k2, f)}
  BY <1>j, <1>o DEF Moved, Tracked, IsTracked
<1>e. EndsWhole(c) <=>
        /\ Moved(c) \in {{}, Judged(c)}
        /\ m.op = "import" \/ m.unignore => k2.work.imported = k2.staged.imported
        /\ k2.work.exported = k2.staged.exported
        /\ m.op = "import" =>
             /\ Moved(c) \subseteq k2.work.imported
             /\ Moved(c) = {} /\ Judged(c) # {} => k2.work.imported = m.before.imported
        /\ m.op = "export" => /\ Moved(c) = Judged(c) \cap k2.work.exported
                              /\ Moved(c) \cap k2.work.imported = {}
  BY DEF EndsWhole
<1>1. CASE ImportStages(c)
  <2>1. k2.work = k.work /\ k2.staged.tree = k.staged.tree /\ k2.staged.imported = k.work.imported
        /\ k2.staged.exported = k.staged.exported
    BY <1>1, <1>t DEF ImportStages, Changes, CloneStates, Trees
  <2>2. m.op = "import" /\ m.phase = "staging"
    BY <1>1 DEF ImportStages, On
  <2> HIDE DEF k, m, k2
  <2>3. \A f \in Judged(c) : ~IsTracked(k2, f)
    BY <1>s, <1>j, <2>1, <2>2 DEF Owes, Imports, IsTracked
  <2>4. Moved(c) = Judged(c)
    BY <1>m, <2>2, <2>3
  <2>5. k.work.exported = k.staged.exported /\ m.paths \subseteq k.work.imported
    BY <1>s, <2>2 DEF Squares
  <2> QED
    BY <1>e, <1>j, <2>1, <2>2, <2>4, <2>5
<1>2. CASE ExportSeals(c)
  <2>1. k2.work = k.work /\ k2.staged.tree = k.staged.tree /\ k2.staged.imported = k.staged.imported
        /\ k2.staged.exported = k.work.exported
    BY <1>2, <1>t DEF ExportSeals, GitStep, Changes, CloneStates, Trees
  <2>2. m.op = "export" /\ m.phase = "sealing"
    BY <1>2 DEF ExportSeals, On
  <2> HIDE DEF k, m, k2
  <2>3. \A f \in Judged(c) : IsTracked(k2, f)
    BY <1>s, <1>j, <2>1, <2>2 DEF Owes, Exports, IsTracked
  <2>4. Moved(c) = Judged(c)
    BY <1>m, <2>2, <2>3
  <2>5. m.paths \subseteq k.work.exported
    BY <1>s, <2>2 DEF Grows
  <2>6. m.paths \cap k.work.imported = {} /\ (m.unignore => k.work.imported = k.staged.imported)
    BY <1>s, <2>2 DEF Squares, GitPhases
  <2> QED
    BY <1>e, <1>j, <2>1, <2>2, <2>4, <2>5, <2>6
<1>3. CASE UndoRestores(c) /\ m.op = "import"
  <2>1. k2.staged = k.staged /\ k2.work.imported = m.before.imported /\ k2.work.exported = k.work.exported
    BY <1>3, <1>t DEF UndoRestores, Changes, CloneStates, Trees
  <2>2. m.op = "import" /\ m.phase = "restoring"
    BY <1>3 DEF UndoRestores
  <2> HIDE DEF k, m, k2
  <2>3. \A f \in Judged(c) : IsTracked(k2, f)
    BY <1>s, <1>j, <2>1, <2>2 DEF Owes, Imports, IsTracked
  <2>4. Moved(c) = {}
    BY <1>m, <2>2, <2>3
  <2>5. k.work.exported = k.staged.exported /\ m.before.imported = k.head.imported
        /\ k.staged.imported = k.head.imported
    BY <1>s, <2>2 DEF Squares, Grows, GitPhases, UndoPhases
  <2> QED
    BY <1>e, <2>1, <2>2, <2>4, <2>5
<1>4. CASE UndoRestoresIgnore(c)
  <2>1. k2.staged = k.staged /\ k2.work.imported = k.work.imported /\ k2.work.exported = m.before.exported
    BY <1>4, <1>t DEF UndoRestoresIgnore, Changes, CloneStates, Trees
  <2>2. m.phase = "restoringIgnore"
    BY <1>4 DEF UndoRestoresIgnore
  <2> HIDE DEF k, m, k2
  <2>3. m.op = "export"
    BY <1>s, <2>2 DEF Squares
  <2>4. /\ \A f \in m.paths : k.staged.tree[f] = k.head.tree[f]
        /\ k.staged.imported = k.head.imported /\ k.staged.exported = k.head.exported
        /\ m.before.exported = k.head.exported
        /\ m.unignore => m.before.imported = k.head.imported
    BY <1>s, <2>2, <2>3 DEF Squares, GitPhases, UndoPhases
  <2>5. k.work.imported = m.before.imported
    BY <1>s, <2>2 DEF Gone, GitPhases, UndoPhases
  <2>6. \A f \in Judged(c) : ~IsTracked(k2, f) /\ f \notin m.before.exported
    BY <1>s, <1>j, <2>1, <2>2, <2>3, <2>4 DEF Owes, Exports, IsTracked, GitPhases, UndoPhases
  <2>7. Moved(c) = {}
    BY <1>m, <2>3, <2>6
  <2> QED
    BY <1>e, <2>1, <2>3, <2>4, <2>5, <2>6, <2>7
<1> QED
  BY <1>1, <1>2, <1>3, <1>4

(* A git step that was not torn changes git for each path it answers for   *)
(* or for none, and .gitignore and .protonfs/ignore with it, whatever      *)
(* failed in it and at whatever batch.                                     *)
THEOREM GitStepsAreWhole == Spec => AllOrNothing
<1>1. ASSUME MoveInv, CustodyInv, [Next]_vars, NEW c \in Movers,
             cmd[c].phase \in GitPhases, cmd'[c].phase \notin GitPhases, c \notin torn'
      PROVE  EndsWhole(c)
  <2>1. c \in Clones
    BY MoveAssumption
  <2> QED
    BY <1>1, <2>1, EndsOfGitStep, EndedWhole
<1>2. MoveInv /\ CustodyInv /\ [Next]_vars => [\A c \in Movers : GitStepEnds(c) => EndsWhole(c)]_vars
  BY <1>1 DEF GitStepEnds
<1> QED
  BY <1>2, MoveAlways, CustodyAlways, PTL DEF Spec, AllOrNothing
=============================================================================
