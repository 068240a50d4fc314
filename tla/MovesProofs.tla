---------------------------- MODULE MovesProofs ----------------------------
(***************************************************************************)
(* What Moves promises, proved for every store, every bound and every      *)
(* limit: that a push leaves each entry, each listed path and each stray   *)
(* node recorded where it is, that its trash step keeps what was moved and *)
(* leaves something, that nothing rides along with an upload, that a move  *)
(* a killed push made is recorded by the next one (KilledInv, a second     *)
(* invariant), and what pair_moves matches.                                *)
(***************************************************************************)
EXTENDS Moves, FiniteSetTheorems, TLAPS

(* The phases in which a push still has its scan, and those in which it    *)
(* applies moves.                                                          *)
Moving == {"moves", "move", "rename", "back"}
Placing == {"move", "rename", "back"}
Running == Moving \cup {"uploads", "trash", "trashed"}

(* Where the node of a planned move may be: where the index has it, under  *)
(* the name it passes through, and where it goes.                          *)
Spots(m) == {mem[m.old].at, Placed(m), m.new}


(* What was scanned was there, and what a push has for a move was gone     *)
(* from one path and new at another.                                       *)
ScanInv ==
  /\ \A p \in Paths : local[p] # None => p \in homes
  /\ \A p \in Paths : run.scan[p] # None => p \in homes
  /\ \A m \in run.moves : run.scan[m[1]] = None /\ run.scan[m[2]] # None
  /\ \A m, k \in run.moves : m[1] = k[1] <=> m[2] = k[2]
  /\ run.phase \in {"idle", "manifest"} => mem = disk
  /\ run.phase = "idle" => run.forgotten = {}
  /\ run.phase = "flush" => "killed" \in woes
  /\ run.phase \in Placing \/ run.plan = {}

(* A planned move is one of the scan's, its node has nowhere else to go.   *)
PlanInv ==
  /\ run.phase \in {"move", "rename"} => run.renames \subseteq run.plan
  /\ \A m \in run.plan :
       /\ <<m.old, m.new>> \in run.moves
       /\ Dir(m.new) = run.target
       /\ run.target \notin run.todo
       /\ mem[m.old] # None
       /\ mem[m.old].content = run.scan[m.new].content
       /\ mem[m.new] = None
       /\ run.phase = "back" => m.needs_move
       /\ run.phase \in {"move", "rename"} => m.new \notin run.unmoved
       /\ m.needs_move => m.old_name = Name(mem[m.old].at) /\ Dir(mem[m.old].at) # run.target
       /\ m.needs_move /\ Passes(m) => \A k \in run.plan : Name(k.new) # m.old_name
  /\ \A m, k \in run.plan : m.old = k.old => m = k

(* What the entries of the paths of a push are while it runs.              *)
EntriesInv ==
  /\ run.phase \in Moving =>
       /\ \A m \in run.moves : Dir(m[2]) \in run.todo =>
            /\ mem[m[1]] # None
            /\ mem[m[1]].content = run.scan[m[2]].content
            /\ mem[m[2]] = None
       /\ \A p \in run.unmoved : mem[p] = None /\ Dir(p) \notin run.todo
       /\ run.verified \cup run.unmoved \subseteq {m[2] : m \in run.moves}
       /\ run.uploads \cap {m[2] : m \in run.moves} = {}
  /\ run.phase \in Moving \cup {"uploads"} =>
       \A m \in run.moves : mem[m[2]] # None => m[2] \in run.verified
  /\ run.phase = "uploads" => run.verified \cap run.uploads = {}
  /\ run.phase \in Running =>
       /\ \A p \in run.verified : run.scan[p] # None
       /\ \A p \in run.trash : mem[p] # None /\ run.scan[p] = None
  /\ \A p \in run.verified : mem[p] # None /\ mem[p].at = p

(* What the trash step may take: files whose content no unsettled file     *)
(* has, and the old paths of moves that were uploaded.                     *)
TrashInv ==
  \A p \in run.trash :
    \/ /\ \A m \in run.moves : m[1] # p
       /\ \A q \in run.held : run.scan[q].content # mem[p].content
    \/ /\ run.phase \in {"trash", "trashed"}
       /\ \E m \in run.moves : m[1] = p /\ m[2] \in run.verified

(* Two entries at one node have been noted.                                *)
ApartInv == "shared" \notin woes => ~Shared(mem) /\ ~Shared(disk)

(* What a push delivered is on Drive, and out of the way of its moves.     *)
DeliveredInv ==
  run.phase \in Running /\ "other" \notin woes /\ "shared" \notin woes =>
    \A p \in run.verified :
      /\ drive[p] = run.scan[p].content
      /\ \A m \in run.plan : p \notin Spots(m)

(* How far a planned move is: its node where the index has it, under the   *)
(* name it passes through, or in place.                                    *)
Waits(m) ==
  /\ drive[mem[m.old].at] = mem[m.old].content
  /\ m.needs_move => drive[Placed(m)] = None
  /\ drive[m.new] = None
Passed(m) ==
  /\ m.needs_move /\ Passes(m)
  /\ drive[mem[m.old].at] = None
  /\ drive[Placed(m)] = mem[m.old].content
  /\ drive[m.new] = None
Arrived(m) ==
  /\ drive[mem[m.old].at] = None
  /\ Placed(m) # m.new => drive[Placed(m)] = None
  /\ drive[m.new] = mem[m.old].content

(* As long as nobody else writes and no listing fails: the moves of a plan *)
(* are out of each other's way, and every other entry names its node.      *)
NodesInv ==
  woes \subseteq {"orphaned"} =>
    /\ \A m \in run.plan :
         /\ run.phase = "move" => Waits(m)
         /\ run.phase = "rename" => Waits(m) \/ Passed(m) \/ Arrived(m)
         /\ run.phase = "back" => Passed(m)
         /\ \A k \in run.plan : k # m => Spots(m) \cap Spots(k) = {}
         /\ \A p \in Indexed(mem) : p # m.old => mem[p].at \notin Spots(m)
    /\ \A p \in Indexed(mem) :
         \/ drive[mem[p].at] # None
         \/ \E m \in run.plan : m.old = p
         \/ run.phase = "trashed" /\ p \in run.trash /\ Dir(mem[p].at) = run.target

(* What the manifest lists, or will once the push has told it, is indexed  *)
(* where it is.                                                            *)
ListedInv ==
  woes \subseteq {"orphaned"} =>
    \A p \in (listed \ run.forgotten) \cup run.verified : mem[p] # None /\ mem[p].at = p

(* A node where no machine ever had a file is named by an entry, or is on  *)
(* its way.                                                                *)
StrayInv ==
  woes = {} =>
    \A p \in Paths \ homes : drive[p] # None =>
      \/ \E o \in Indexed(mem) : mem[o].at = p
      \/ \E m \in run.plan : run.phase \in {"rename", "back"} /\ Placed(m) = p

MovesInv ==
  /\ TypeOK /\ ScanInv /\ PlanInv /\ EntriesInv /\ TrashInv
  /\ ApartInv /\ DeliveredInv /\ NodesInv /\ ListedInv /\ StrayInv

-----------------------------------------------------------------------------
(* pair_moves pairs each gone file with one new file of its content and    *)
(* time, and each new file with one gone file.                             *)
LEMMA MatchesPairUp ==
  ASSUME NEW olds \in SUBSET Paths, NEW news \in SUBSET Paths, NEW part
  PROVE  /\ Unique_matches(olds, news, part) \subseteq olds \X news
         /\ \A m, k \in Unique_matches(olds, news, part) : m[1] = k[1] <=> m[2] = k[2]
<1>1. Unique_matches(olds, news, part) \subseteq olds \X news
  BY DEF Unique_matches
<1>2. SUFFICES ASSUME NEW m \in Unique_matches(olds, news, part),
                      NEW k \in Unique_matches(olds, news, part)
               PROVE  m[1] = k[1] <=> m[2] = k[2]
  BY <1>1
<1>3. m[1] \in olds /\ m[2] \in news /\ k[1] \in olds /\ k[2] \in news
  BY <1>1
<1>4. /\ m[1][part] = m[2][part] /\ k[1][part] = k[2][part]
      /\ \A o \in olds : o[part] = m[1][part] => o = m[1]
      /\ \A n \in news : n[part] = m[2][part] => n = m[2]
  BY DEF Unique_matches
<1> QED
  BY <1>3, <1>4

LEMMA GroupPairsUp ==
  ASSUME NEW olds \in SUBSET Paths, NEW news \in SUBSET Paths
  PROVE  /\ Pair_group(olds, news) \subseteq olds \X news
         /\ \A m, k \in Pair_group(olds, news) : m[1] = k[1] <=> m[2] = k[2]
<1> DEFINE Olds(pairs) == olds \ {m[1] : m \in pairs}
           News(pairs) == news \ {m[2] : m \in pairs}
           named == Unique_matches(olds, news, 2)
           second == Unique_matches(Olds(named), News(named), 1)
           placed == named \cup second
           single == {m \in olds \X news : Olds(placed) = {m[1]} /\ News(placed) = {m[2]}}
<1>1. Pair_group(olds, news) = placed \cup single
  BY DEF Pair_group
<1>2. /\ named \subseteq olds \X news
      /\ \A m, k \in named : m[1] = k[1] <=> m[2] = k[2]
  BY MatchesPairUp
<1>3. Olds(named) \in SUBSET Paths /\ News(named) \in SUBSET Paths
  OBVIOUS
<1> HIDE DEF named, Olds, News
<1>4. /\ second \subseteq Olds(named) \X News(named)
      /\ \A m, k \in second : m[1] = k[1] <=> m[2] = k[2]
  BY <1>3, MatchesPairUp
<1> USE DEF Olds, News
<1> HIDE DEF second
<1>5. /\ placed \subseteq olds \X news
      /\ \A m, k \in placed : m[1] = k[1] <=> m[2] = k[2]
  BY <1>2, <1>4
<1> HIDE DEF placed
<1>6. \A m \in single : m \in olds \X news /\ m[1] \in Olds(placed) /\ m[2] \in News(placed)
  OBVIOUS
<1>7. \A m, k \in single : m[1] = k[1] /\ m[2] = k[2]
  OBVIOUS
<1> HIDE DEF single
<1> QED
  BY <1>1, <1>5, <1>6, <1>7

LEMMA PairsUp ==
  ASSUME NEW index, NEW deleted \in SUBSET Paths, NEW scan, NEW added \in SUBSET Paths
  PROVE  LET pairs == Pair_moves(index, deleted, scan, added)
         IN /\ pairs \subseteq deleted \X added
            /\ \A m \in pairs : Key(index[m[1]]) = Key(scan[m[2]])
            /\ \A m, k \in pairs : m[1] = k[1] <=> m[2] = k[2]
<1> DEFINE olds(key) == {p \in deleted : Key(index[p]) = key}
           news(key) == {p \in added : Key(scan[p]) = key}
           pairs == Pair_moves(index, deleted, scan, added)
<1>1. \A m \in pairs : \E key : m \in Pair_group(olds(key), news(key))
  BY DEF Pair_moves
<1>2. \A key : /\ Pair_group(olds(key), news(key)) \subseteq olds(key) \X news(key)
               /\ \A m, k \in Pair_group(olds(key), news(key)) : m[1] = k[1] <=> m[2] = k[2]
  <2> SUFFICES ASSUME NEW key
               PROVE  /\ Pair_group(olds(key), news(key)) \subseteq olds(key) \X news(key)
                      /\ \A m, k \in Pair_group(olds(key), news(key)) :
                           m[1] = k[1] <=> m[2] = k[2]
    OBVIOUS
  <2>1. olds(key) \in SUBSET Paths /\ news(key) \in SUBSET Paths
    OBVIOUS
  <2> HIDE DEF olds, news
  <2> QED
    BY <2>1, GroupPairsUp
<1>3. ASSUME NEW key, NEW m \in Pair_group(olds(key), news(key))
      PROVE  /\ m \in deleted \X added
             /\ Key(index[m[1]]) = key /\ Key(scan[m[2]]) = key
  <2>1. m \in olds(key) \X news(key)
    BY <1>2
  <2> QED
    BY <2>1
<1> HIDE DEF pairs, olds, news
<1>4. pairs \subseteq deleted \X added
  BY <1>1, <1>3
<1>5. \A m \in pairs : Key(index[m[1]]) = Key(scan[m[2]])
  BY <1>1, <1>3
<1>6. ASSUME NEW m \in pairs, NEW k \in pairs
      PROVE  m[1] = k[1] <=> m[2] = k[2]
  <2>1. PICK x : m \in Pair_group(olds(x), news(x))
    BY <1>1
  <2>2. PICK y : k \in Pair_group(olds(y), news(y))
    BY <1>1
  <2>3. m[1] = k[1] \/ m[2] = k[2] => x = y
    BY <2>1, <2>2, <1>3
  <2> QED
    BY <2>1, <2>2, <2>3, <1>2
<1> QED
  BY <1>4, <1>5, <1>6 DEF pairs

-----------------------------------------------------------------------------
(* The parts of the state of a push, and its entries.                      *)
LEMMA IdleTyped ==
  /\ Idle \in Runs
  /\ Idle.phase = "idle" /\ Idle.scan = [p \in Paths |-> None] /\ Idle.plan = {}
  /\ Idle.moves = {} /\ Idle.trash = {} /\ Idle.verified = {} /\ Idle.forgotten = {}
  /\ Idle.renames = {}
  BY MovesAssumption DEF Idle, Runs, Phases

LEMMA EntryTyped ==
  ASSUME NEW f \in Files, NEW p \in Paths
  PROVE  /\ Entry(f, p) \in Entries /\ Entry(f, p) # None
         /\ Entry(f, p).content = f.content /\ Entry(f, p).at = p
<1>1. /\ Entry(f, p) \in Entries
      /\ Entry(f, p).content = f.content /\ Entry(f, p).at = p
  BY DEF Entry, Entries, Files
<1> QED
  BY <1>1, EntryAssumption

(* What surrounds a push takes from its bound and stays within it. *)
LEMMA Spent ==
  ASSUME TypeOK, NEW e \in Nat, NEW n \in Nat, Spend(e, n)
  PROVE  left' \in [edits : Nat, mishaps : Nat, events : Nat]
<1>1. left.edits \in Nat /\ left.mishaps \in Nat /\ left.events \in Nat
  BY DEF TypeOK
<1>2. left.edits - e \in Nat /\ left.mishaps - n \in Nat /\ left.events - (e + n) \in Nat
  BY <1>1 DEF Spend
<1> QED
  BY <1>2 DEF Spend

LEMMA InitHolds == Init => MovesInv
<1> SUFFICES ASSUME Init PROVE MovesInv
  OBVIOUS
<1>1. PICK on \in [Paths -> Files \cup {None}], off \in SUBSET Paths :
        LET synced == {p \in Paths : on[p] # None}
        IN /\ off \subseteq synced
           /\ local = [p \in Paths |-> IF p \in off THEN None ELSE on[p]]
           /\ drive = [p \in Paths |-> IF p \in synced THEN on[p].content ELSE None]
           /\ disk = [p \in Paths |-> IF p \notin synced THEN None
                                      ELSE [Entry(on[p], p) EXCEPT !.held = p \notin off]]
           /\ mem = disk
           /\ listed = synced
           /\ homes = synced
           /\ run = Idle
           /\ left = [edits |-> MaxEdits, mishaps |-> MaxMishaps, events |-> MaxEvents]
           /\ woes = {}
  BY DEF Init
<1> DEFINE synced == {p \in Paths : on[p] # None}
<1>2. \A p \in synced : /\ on[p] \in Files
                        /\ [Entry(on[p], p) EXCEPT !.held = p \notin off] \in Entries
                        /\ [Entry(on[p], p) EXCEPT !.held = p \notin off] # None
                        /\ [Entry(on[p], p) EXCEPT !.held = p \notin off].at = p
  <2>1. \A p \in synced : on[p] \in Files
    OBVIOUS
  <2>2. ASSUME NEW p \in synced
        PROVE  /\ [Entry(on[p], p) EXCEPT !.held = p \notin off] \in Entries
               /\ [Entry(on[p], p) EXCEPT !.held = p \notin off].at = p
    <3>1. (p \notin off) \in BOOLEAN
      OBVIOUS
    <3> QED
      BY <2>1, <3>1 DEF Entry, Entries, Files
  <2> QED
    BY <2>1, <2>2, EntryAssumption
<1>3. /\ \A p \in Paths : mem[p] # None => p \in synced /\ mem[p].at = p
      /\ \A p \in synced : mem[p] # None /\ mem[p] \in Entries
      /\ mem = disk /\ mem \in [Paths -> Entries \cup {None}]
  BY <1>1, <1>2
<1>4. /\ \A p \in synced : drive[p] \in Contents
      /\ \A p \in Paths \ synced : drive[p] = None
      /\ drive \in [Paths -> Contents \cup {None}]
  BY <1>1, <1>2 DEF Files
<1>5. /\ local \in [Paths -> Files \cup {None}]
      /\ \A p \in Paths : local[p] # None => p \in synced
  BY <1>1
<1>6. /\ listed = synced /\ homes = synced /\ run = Idle /\ woes = {}
      /\ left \in [edits : Nat, mishaps : Nat, events : Nat]
  BY <1>1, MovesAssumption
<1> HIDE DEF synced
<1>7. synced \subseteq Paths
  BY DEF synced
<1>8. TypeOK
  BY <1>3, <1>4, <1>5, <1>6, <1>7, IdleTyped DEF TypeOK
<1>9. ~Shared(mem) /\ ~Shared(disk)
  BY <1>3 DEF Shared, Indexed
<1>10. /\ run.phase = "idle" /\ run.scan = [p \in Paths |-> None] /\ run.plan = {}
       /\ run.moves = {} /\ run.trash = {} /\ run.verified = {} /\ run.forgotten = {}
       /\ run.renames = {}
  BY <1>6, IdleTyped
<1>11. ScanInv
  BY <1>3, <1>5, <1>6, <1>10 DEF ScanInv
<1>12. PlanInv /\ EntriesInv /\ TrashInv
  BY <1>10 DEF PlanInv, EntriesInv, TrashInv, Moving, Running
<1>13. ApartInv /\ DeliveredInv
  BY <1>9, <1>10 DEF ApartInv, DeliveredInv, Running, Moving
<1>14. NodesInv
  BY <1>3, <1>4, <1>7, <1>10, ContentsAssumption DEF NodesInv, Indexed
<1>15. ListedInv /\ StrayInv
  BY <1>3, <1>4, <1>6, <1>7, <1>10 DEF ListedInv, StrayInv
<1> QED
  BY <1>8, <1>11, <1>12, <1>13, <1>14, <1>15 DEF MovesInv

-----------------------------------------------------------------------------
(* The user's files are no part of what the index and Drive have in common. *)
LEMMA UserHolds ==
  ASSUME MovesInv, UserWrites \/ UserDeletes \/ UserMoves
  PROVE  MovesInv'
<1> USE DEF MovesInv
<1>1. UNCHANGED <<drive, disk, mem, listed, run, woes>>
  BY DEF UserWrites, UserDeletes, UserMoves
<1>2. left' \in [edits : Nat, mishaps : Nat, events : Nat]
  BY Spent DEF UserWrites, UserDeletes, UserMoves, Edits
<1>3. /\ homes \subseteq homes' /\ homes' \subseteq Paths
      /\ local' \in [Paths -> Files \cup {None}]
      /\ \A p \in Paths : local'[p] # None => p \in homes'
  <2>1. /\ local \in [Paths -> Files \cup {None}] /\ homes \subseteq Paths
        /\ \A p \in Paths : local[p] # None => p \in homes
    BY DEF TypeOK, ScanInv
  <2>2. CASE UserWrites
    BY <2>1, <2>2 DEF UserWrites
  <2>3. CASE UserDeletes
    BY <2>1, <2>3 DEF UserDeletes
  <2>4. CASE UserMoves
    BY <2>1, <2>4 DEF UserMoves
  <2> QED
    BY <2>2, <2>3, <2>4
<1>4. TypeOK' /\ ScanInv'
  BY <1>1, <1>2, <1>3 DEF TypeOK, ScanInv
<1>5. PlanInv' /\ EntriesInv' /\ TrashInv'
  BY <1>1 DEF PlanInv, EntriesInv, TrashInv
<1>6. ApartInv' /\ DeliveredInv' /\ ListedInv'
  BY <1>1 DEF ApartInv, DeliveredInv, ListedInv, Shared, Indexed, Spots, Placed
<1>7. NodesInv'
  BY <1>1 DEF NodesInv, Indexed, Spots, Placed, Waits, Passed, Arrived
<1>8. StrayInv'
  BY <1>1, <1>3 DEF StrayInv, Indexed, Placed
<1> QED
  BY <1>4, <1>5, <1>6, <1>7, <1>8

(* Another device writes: what it touches is left out of the promises. *)
LEMMA OtherHolds ==
  ASSUME MovesInv, OtherWrites
  PROVE  MovesInv'
<1> USE DEF MovesInv
<1>1. UNCHANGED <<local, disk, mem, listed, run>>
  BY DEF OtherWrites
<1>2. "other" \in woes' /\ woes \subseteq woes' /\ woes' \subseteq woes \cup {"other"}
  BY DEF OtherWrites, Woe
<1>3. left' \in [edits : Nat, mishaps : Nat, events : Nat]
  BY Spent DEF OtherWrites
<1>4. homes \subseteq homes' /\ homes' \subseteq Paths /\ drive' \in [Paths -> Contents \cup {None}]
  BY DEF OtherWrites, TypeOK
<1>5. TypeOK' /\ ScanInv'
  BY <1>1, <1>2, <1>3, <1>4 DEF TypeOK, ScanInv
<1>6. PlanInv' /\ EntriesInv' /\ TrashInv'
  BY <1>1 DEF PlanInv, EntriesInv, TrashInv
<1>7. ApartInv' /\ DeliveredInv' /\ ListedInv' /\ NodesInv' /\ StrayInv'
  BY <1>1, <1>2 DEF ApartInv, DeliveredInv, ListedInv, NodesInv, StrayInv, Shared, Indexed
<1> QED
  BY <1>5, <1>6, <1>7

(* What is left of a push once its moves, uploads and trash are through. *)
LEMMA EndingTyped ==
  ASSUME TypeOK, NEW f \in SUBSET Paths
  PROVE  LET end == Ending(f)
         IN /\ end \in Runs /\ end.phase = "save" /\ end.scan = [p \in Paths |-> None]
            /\ end.plan = {} /\ end.moves = {} /\ end.trash = {} /\ end.renames = {}
            /\ end.verified = run.verified /\ end.forgotten = f
            /\ LET flush == [end EXCEPT !.phase = "flush"]
               IN /\ flush \in Runs /\ flush.phase = "flush" /\ flush.scan = end.scan
                  /\ flush.plan = {} /\ flush.moves = {} /\ flush.trash = {}
                  /\ flush.renames = {}
                  /\ flush.verified = run.verified /\ flush.forgotten = f
<1>1. run.verified \in SUBSET Paths
  BY DEF TypeOK, Runs
<1> QED
  BY <1>1, MovesAssumption DEF Ending, Idle, Runs, Phases

(* With no scan and no plan, most of the invariant has nothing to say. *)
LEMMA EndedHolds ==
  ASSUME MovesInv, UNCHANGED <<local, homes>>,
         run'.phase \in {"idle", "save", "manifest", "flush"},
         run'.scan = [p \in Paths |-> None], run'.plan = {}, run'.renames = {},
         run'.moves = {}, run'.trash = {},
         run'.phase \in {"idle", "manifest"} => mem' = disk',
         run'.phase = "idle" => run'.forgotten = {},
         run'.phase = "flush" => "killed" \in woes',
         \A p \in run'.verified : mem'[p] # None /\ mem'[p].at = p
  PROVE  ScanInv' /\ PlanInv' /\ EntriesInv' /\ TrashInv' /\ DeliveredInv'
<1>1. ScanInv'
  BY DEF MovesInv, ScanInv
<1>2. PlanInv' /\ TrashInv'
  BY DEF PlanInv, TrashInv
<1>3. EntriesInv' /\ DeliveredInv'
  BY DEF EntriesInv, DeliveredInv, Running, Moving
<1> QED
  BY <1>1, <1>2, <1>3

LEMMA KilledHolds ==
  ASSUME MovesInv, Killed
  PROVE  MovesInv'
<1> USE DEF MovesInv
<1>1. /\ UNCHANGED <<local, drive, disk, listed, homes>> /\ mem' = disk /\ run' = Idle
      /\ "killed" \in woes' /\ woes \subseteq woes' /\ woes' \subseteq woes \cup {"killed"}
  BY DEF Killed, Woe
<1>2. left' \in [edits : Nat, mishaps : Nat, events : Nat]
  BY Spent DEF Killed
<1>3. TypeOK'
  BY <1>1, <1>2, IdleTyped DEF TypeOK
<1>4. ScanInv' /\ PlanInv' /\ EntriesInv' /\ TrashInv' /\ DeliveredInv'
  BY <1>1, IdleTyped, EndedHolds
<1>5. ApartInv' /\ NodesInv' /\ ListedInv' /\ StrayInv'
  BY <1>1 DEF ApartInv, NodesInv, ListedInv, StrayInv, Shared, Indexed
<1> QED
  BY <1>3, <1>4, <1>5

LEMMA InterruptedHolds ==
  ASSUME MovesInv, Interrupted
  PROVE  MovesInv'
<1> USE DEF MovesInv
<1>1. /\ UNCHANGED <<local, drive, disk, mem, listed, homes>>
      /\ run' = [Ending(run.forgotten) EXCEPT !.phase = "flush"]
      /\ "killed" \in woes' /\ woes \subseteq woes' /\ woes' \subseteq woes \cup {"killed"}
  BY DEF Interrupted, Woe
<1>2. left' \in [edits : Nat, mishaps : Nat, events : Nat]
  BY Spent DEF Interrupted
<1>3. run.forgotten \in SUBSET Paths
  BY DEF TypeOK, Runs
<1>4. /\ run' \in Runs /\ run'.phase = "flush" /\ run'.scan = [p \in Paths |-> None]
      /\ run'.plan = {} /\ run'.moves = {} /\ run'.trash = {} /\ run'.renames = {}
      /\ run'.verified = run.verified
  BY <1>1, <1>3, EndingTyped
<1>5. TypeOK'
  BY <1>1, <1>2, <1>4 DEF TypeOK
<1>6. \A p \in run'.verified : mem'[p] # None /\ mem'[p].at = p
  BY <1>1, <1>4 DEF EntriesInv
<1>7. ScanInv' /\ PlanInv' /\ EntriesInv' /\ TrashInv' /\ DeliveredInv'
  BY <1>1, <1>4, <1>6, EndedHolds
<1>8. ApartInv' /\ NodesInv' /\ ListedInv' /\ StrayInv'
  BY <1>1 DEF ApartInv, NodesInv, ListedInv, StrayInv, Shared, Indexed
<1> QED
  BY <1>5, <1>7, <1>8

(* The last save: what the entries say in memory, they say on disk. *)
LEMMA SaveHolds ==
  ASSUME MovesInv, Save
  PROVE  MovesInv'
<1> USE DEF MovesInv
<1>1. /\ UNCHANGED <<local, drive, mem, listed, left, homes, woes>> /\ disk' = mem
      /\ run.phase = "save" /\ run' = [run EXCEPT !.phase = "manifest"]
  BY DEF Save
<1>2. /\ run' \in Runs /\ run'.phase = "manifest" /\ run'.scan = run.scan
      /\ run'.plan = run.plan /\ run'.moves = run.moves /\ run'.trash = run.trash
      /\ run'.renames = run.renames /\ run'.forgotten = run.forgotten
      /\ run'.verified = run.verified /\ run.plan = {}
  BY <1>1 DEF TypeOK, Runs, Phases, ScanInv, Placing
<1>3. TypeOK'
  BY <1>1, <1>2 DEF TypeOK
<1>4. ScanInv'
  BY <1>1, <1>2 DEF ScanInv
<1>5. PlanInv' /\ EntriesInv' /\ DeliveredInv'
  BY <1>1, <1>2 DEF PlanInv, EntriesInv, DeliveredInv, Running, Moving
<1>6. TrashInv'
  BY <1>1, <1>2 DEF TrashInv
<1>7. ApartInv' /\ NodesInv' /\ ListedInv' /\ StrayInv'
  BY <1>1, <1>2 DEF ApartInv, NodesInv, ListedInv, StrayInv, Shared, Indexed
<1> QED
  BY <1>3, <1>4, <1>5, <1>6, <1>7

(* The manifest is told what was done, or the push was disturbed. *)
LEMMA ManifestHolds ==
  ASSUME MovesInv, WriteManifest
  PROVE  MovesInv'
<1> USE DEF MovesInv
<1>1. PICK fails \in BOOLEAN :
        /\ Spend(0, IF fails THEN 1 ELSE 0)
        /\ Woe(Mark(fails, "blind"))
        /\ listed' = IF fails THEN listed ELSE (listed \ run.forgotten) \cup run.verified
  BY DEF WriteManifest
<1>2. /\ UNCHANGED <<local, drive, disk, mem, homes>>
      /\ run.phase \in {"manifest", "flush"}
      /\ run' = IF run.phase = "manifest" THEN Idle ELSE [Idle EXCEPT !.phase = "save"]
  BY DEF WriteManifest
<1>3. left' \in [edits : Nat, mishaps : Nat, events : Nat]
  BY <1>1, Spent
<1>4. /\ woes \subseteq woes' /\ woes' \subseteq woes \cup {"blind"}
      /\ woes' \subseteq {"orphaned"} => ~fails
  BY <1>1 DEF Woe, Mark
<1>5. /\ run' \in Runs /\ run'.scan = [p \in Paths |-> None] /\ run'.plan = {}
      /\ run'.moves = {} /\ run'.trash = {} /\ run'.renames = {}
      /\ run'.verified = {} /\ run'.forgotten = {}
      /\ run'.phase = IF run.phase = "manifest" THEN "idle" ELSE "save"
  BY <1>2, IdleTyped DEF Runs, Idle, Phases
<1>6. run.phase = "flush" => "killed" \in woes
  BY DEF ScanInv
<1>7. /\ run.verified \subseteq Paths
      /\ run.phase = "manifest" => mem = disk
  BY DEF TypeOK, Runs, ScanInv
<1>8. TypeOK'
  BY <1>1, <1>2, <1>3, <1>4, <1>5, <1>7 DEF TypeOK
<1>9. ScanInv' /\ PlanInv' /\ EntriesInv' /\ TrashInv' /\ DeliveredInv'
  BY <1>2, <1>5, <1>7, EndedHolds
<1>10. ApartInv'
  BY <1>2, <1>4 DEF ApartInv, Shared, Indexed
<1>11. run.plan = {} /\ run.phase # "trashed"
  BY <1>2 DEF ScanInv, Placing
<1>12. NodesInv' /\ StrayInv'
  BY <1>2, <1>4, <1>5, <1>11 DEF NodesInv, StrayInv, Indexed
<1>13. ListedInv'
  BY <1>1, <1>2, <1>4, <1>5 DEF ListedInv
<1> QED
  BY <1>8, <1>9, <1>10, <1>12, <1>13

-----------------------------------------------------------------------------
(* A push begins with its scan, and plans moves of files that are gone to  *)
(* files that are new.                                                     *)
LEMMA StartHolds ==
  ASSUME MovesInv, Start
  PROVE  MovesInv'
<1> USE DEF MovesInv
<1>1. /\ run.phase = "idle" /\ mem' = disk /\ mem = disk /\ run.plan = {}
      /\ UNCHANGED <<local, drive, disk, listed, left, homes, woes>>
  BY DEF Start, ScanInv, Placing
<1>2. PICK trashing \in BOOLEAN, mass \in BOOLEAN, recent \in SUBSET Times :
        LET scan == Scan
            changed == Changed(disk, scan)
            held == {p \in changed : scan[p].mtime \in recent}
            moves == Plan_moves(disk, scan, changed \ held)
            uploads == (changed \ held) \ {m[2] : m \in moves}
            trash == IF trashing
                     THEN Trash_candidates(disk, scan, {m[1] : m \in moves}, held) ELSE {}
        IN /\ trashing => trash # {} \/ moves # {}
           /\ mass => trashing
           /\ moves # {} \/ uploads # {} \/ trash # {}
           /\ run' = [Idle EXCEPT !.phase = "moves", !.trashing = trashing, !.mass = mass,
                        !.scan = scan, !.held = held, !.moves = moves, !.uploads = uploads,
                        !.todo = {Dir(m[2]) : m \in moves}, !.trash = trash]
  BY Zenon DEF Start
<1> DEFINE scan == Scan
           changed == Changed(disk, scan)
           held == {p \in changed : scan[p].mtime \in recent}
           added == (changed \ held) \ Indexed(disk)
           moves == Plan_moves(disk, scan, changed \ held)
           uploads == (changed \ held) \ {m[2] : m \in moves}
           trash == IF trashing
                    THEN Trash_candidates(disk, scan, {m[1] : m \in moves}, held) ELSE {}
<1>3. /\ scan \in [Paths -> Files \cup {None}]
      /\ \A p \in Paths : scan[p] # None => local[p] # None
      /\ \A p \in Paths : local[p] = None => scan[p] = None
  BY DEF Scan, TypeOK
<1>4. changed \subseteq Paths /\ \A p \in changed : scan[p] # None
  BY DEF Changed
<1>5. Gone(disk) \subseteq Paths /\ \A p \in Gone(disk) : disk[p] # None /\ local[p] = None
  BY DEF Gone, Indexed
<1>6. moves = Pair_moves(disk, Gone(disk), scan, added)
  BY DEF Plan_moves
<1> HIDE DEF scan, changed
<1>7. /\ held \subseteq Paths /\ added \subseteq changed /\ added \subseteq Paths
      /\ \A p \in added : disk[p] = None
  BY <1>4 DEF Indexed
<1> HIDE DEF held, added, moves
<1>8. /\ moves \subseteq Gone(disk) \X added
      /\ \A m \in moves : Key(disk[m[1]]) = Key(scan[m[2]])
      /\ \A m, k \in moves : m[1] = k[1] <=> m[2] = k[2]
  <2>1. Gone(disk) \in SUBSET Paths /\ added \in SUBSET Paths
    BY <1>5, <1>7
  <2> QED
    BY <1>6, <2>1, PairsUp
<1>9. /\ trash \subseteq Gone(disk)
      /\ \A p \in trash : \A m \in moves : m[1] # p
      /\ \A p \in trash : \A q \in held : scan[q].content # disk[p].content
  BY DEF Trash_candidates
<1>10. uploads \subseteq Paths /\ uploads \cap {m[2] : m \in moves} = {}
  BY <1>4
<1>11. {Dir(m[2]) : m \in moves} \subseteq Dirs /\ moves \subseteq Paths \X Paths
  BY <1>5, <1>7, <1>8 DEF Paths, Dir
<1> HIDE DEF trash, uploads
<1>12. run' = [Idle EXCEPT !.phase = "moves", !.trashing = trashing, !.mass = mass,
                 !.scan = scan, !.held = held, !.moves = moves, !.uploads = uploads,
                 !.todo = {Dir(m[2]) : m \in moves}, !.trash = trash]
  BY <1>2 DEF scan, changed, held, moves, uploads, trash
<1> HIDE DEF scan
<1>13. /\ run' \in Runs /\ run'.phase = "moves" /\ run'.scan = scan /\ run'.held = held
       /\ run'.moves = moves /\ run'.uploads = uploads /\ run'.trash = trash
       /\ run'.plan = {} /\ run'.renames = {} /\ run'.unmoved = {}
       /\ run'.verified = {} /\ run'.forgotten = {}
       /\ run'.todo = {Dir(m[2]) : m \in moves}
  <2>1. trash \in SUBSET Paths /\ uploads \in SUBSET Paths /\ held \in SUBSET Paths
    BY <1>5, <1>7, <1>9, <1>10
  <2> QED
    BY <1>3, <1>11, <1>12, <2>1, MovesAssumption DEF Idle, Runs, Phases
<1>14. \A m \in moves : /\ scan[m[1]] = None /\ disk[m[1]] # None
                        /\ scan[m[2]] # None /\ disk[m[2]] = None
                        /\ disk[m[1]].content = scan[m[2]].content
  <2>1. \A m \in moves : m[1] \in Gone(disk) /\ m[2] \in added
    BY <1>8
  <2>2. \A m \in moves : disk[m[1]].content = scan[m[2]].content
    BY <1>8 DEF Key
  <2> QED
    BY <1>3, <1>4, <1>5, <1>7, <2>1, <2>2
<1>15. TypeOK'
  BY <1>1, <1>13 DEF TypeOK
<1>16. ScanInv'
  BY <1>1, <1>3, <1>8, <1>13, <1>14 DEF ScanInv
<1>17. PlanInv'
  BY <1>13 DEF PlanInv
<1>18. EntriesInv'
  <2>1. \A p \in trash : disk[p] # None /\ scan[p] = None
    BY <1>3, <1>5, <1>9
  <2> QED
    BY <1>1, <1>10, <1>13, <1>14, <2>1 DEF EntriesInv, Moving, Running
<1>19. TrashInv'
  BY <1>1, <1>9, <1>13 DEF TrashInv
<1>20. ApartInv' /\ DeliveredInv'
  BY <1>1, <1>13 DEF ApartInv, DeliveredInv, Shared, Indexed
<1>21. NodesInv'
  BY <1>1, <1>13 DEF NodesInv, Indexed
<1>22. ListedInv'
  BY <1>1, <1>13 DEF ListedInv, ScanInv
<1>23. StrayInv'
  BY <1>1, <1>13 DEF StrayInv, Indexed
<1> QED
  BY <1>15, <1>16, <1>17, <1>18, <1>19, <1>20, <1>21, <1>22, <1>23

-----------------------------------------------------------------------------
(* The moves of a folder that its first listing lets through.              *)
Group(t) == {m \in run.moves : Dir(m[2]) = t}

(* A file that an earlier push moved already, and one whose node waits.    *)
IsMoved(x) ==
  /\ ~x.needs_move /\ x.old_name = Name(x.new)
  /\ drive[x.new] # None /\ drive[mem[x.old].at] = None
IsFree(x, t, kept) ==
  LET at == mem[x.old].at
  IN /\ x.needs_move = (Dir(at) # t) /\ x.old_name = Name(at)
     /\ drive[x.new] = None
     /\ Dir(at) = t \/ Name(at) = Name(x.new) \/ <<x.old, x.new>> \in kept

LEMMA Grouped ==
  ASSUME MovesInv, run.phase = "moves", NEW t \in run.todo, NEW m \in Group(t)
  PROVE  /\ m \in run.moves /\ m[1] \in Paths /\ m[2] \in Paths /\ m = <<m[1], m[2]>>
         /\ Dir(m[2]) = t
         /\ mem[m[1]] \in Entries /\ mem[m[1]] # None /\ mem[m[1]].at \in Paths
         /\ mem[m[1]].content = run.scan[m[2]].content
         /\ mem[m[2]] = None
         /\ run.scan[m[1]] = None /\ run.scan[m[2]] # None
<1>1. m \in run.moves /\ Dir(m[2]) = t
  BY DEF Group
<1>2. m[1] \in Paths /\ m[2] \in Paths /\ m = <<m[1], m[2]>>
  BY <1>1 DEF MovesInv, TypeOK, Runs
<1>3. /\ mem[m[1]] # None /\ mem[m[2]] = None
      /\ mem[m[1]].content = run.scan[m[2]].content
  BY <1>1 DEF MovesInv, EntriesInv, Moving
<1>4. mem[m[1]] \in Entries /\ mem[m[1]].at \in Paths
  BY <1>2, <1>3 DEF MovesInv, TypeOK, Entries
<1>5. run.scan[m[1]] = None /\ run.scan[m[2]] # None
  BY <1>1 DEF MovesInv, ScanInv
<1> QED
  BY <1>1, <1>2, <1>3, <1>4, <1>5

LEMMA Planned ==
  ASSUME MovesInv, run.phase = "moves", NEW t \in run.todo, NEW blind \in BOOLEAN,
         NEW kept \in SUBSET Passing(t, Group(t)), NEW x \in Plan(t, Group(t), kept, blind)
  PROVE  /\ x \in Plans /\ <<x.old, x.new>> \in Group(t)
         /\ x.old \in Paths /\ x.new \in Paths
         /\ IsMoved(x) \/ IsFree(x, t, kept)
         /\ x.needs_move => x.old_name = Name(mem[x.old].at) /\ Dir(mem[x.old].at) # t
         /\ x.needs_move /\ Passes(x) =>
              /\ drive[<<t, x.old_name>>] = None
              /\ \A k \in Group(t) : Name(k[2]) # x.old_name
              /\ <<x.old, x.new>> \in kept
<1> DEFINE At(m) == mem[m[1]].at
           Moved(m) == [old |-> m[1], new |-> m[2], needs_move |-> FALSE, old_name |-> Name(m[2])]
           Free(m) == [old |-> m[1], new |-> m[2], needs_move |-> Dir(At(m)) # t,
                       old_name |-> Name(At(m))]
<1>1. PICK m \in Group(t) :
        \/ /\ drive[m[2]] # None /\ drive[At(m)] = None
           /\ x = Moved(m)
        \/ /\ drive[m[2]] = None
           /\ Dir(At(m)) = t \/ Name(At(m)) = Name(m[2]) \/ m \in kept
           /\ x = Free(m)
  BY DEF Plan, Already
<1>2. /\ m[1] \in Paths /\ m[2] \in Paths /\ m = <<m[1], m[2]>>
      /\ At(m) \in Paths
  BY Grouped
<1>3. Name(m[2]) \in Names /\ Name(At(m)) \in Names
  BY <1>2 DEF Paths, Name
<1>4. x.old = m[1] /\ x.new = m[2] /\ x \in Plans
  <2> DEFINE moves == Dir(At(m)) # t
  <2>1. moves \in BOOLEAN
    OBVIOUS
  <2>2. \/ x = Moved(m)
        \/ x = [old |-> m[1], new |-> m[2], needs_move |-> moves, old_name |-> Name(At(m))]
    BY <1>1
  <2> DEFINE name == Name(At(m))
  <2>3. name \in Names
    BY <1>3
  <2> HIDE DEF moves, name
  <2>4. ASSUME NEW n \in Names, NEW b \in BOOLEAN,
               x = [old |-> m[1], new |-> m[2], needs_move |-> b, old_name |-> n]
        PROVE  x.old = m[1] /\ x.new = m[2] /\ x \in Plans
    BY <1>2, <2>4 DEF Plans
  <2> QED
    BY <1>3, <2>1, <2>2, <2>3, <2>4 DEF name
<1>5. IsMoved(x) \/ IsFree(x, t, kept)
  BY <1>1, <1>2, <1>4 DEF IsMoved, IsFree
<1>6. x.needs_move => IsFree(x, t, kept)
  BY <1>5 DEF IsMoved
<1>7. x.needs_move => x.old_name = Name(At(m)) /\ Dir(At(m)) # t
  BY <1>4, <1>6 DEF IsFree
<1>8. x.needs_move /\ Passes(x) => m \in kept
  BY <1>2, <1>4, <1>6, <1>7 DEF IsFree, Passes
<1>9. m \in kept => /\ drive[<<t, Name(At(m))>>] = None
                    /\ \A k \in Group(t) : Name(k[2]) # Name(At(m))
  BY DEF Passing
<1> QED
  BY <1>1, <1>2, <1>4, <1>5, <1>7, <1>8, <1>9

LEMMA PlannedOnce ==
  ASSUME MovesInv, run.phase = "moves", NEW t \in run.todo, NEW blind \in BOOLEAN,
         NEW kept \in SUBSET Passing(t, Group(t)),
         NEW x \in Plan(t, Group(t), kept, blind), NEW y \in Plan(t, Group(t), kept, blind),
         x.old = y.old \/ x.new = y.new
  PROVE  x = y
<1>1. /\ x \in Plans /\ <<x.old, x.new>> \in Group(t)
      /\ IsMoved(x) \/ IsFree(x, t, kept)
  BY Planned
<1>2. /\ y \in Plans /\ <<y.old, y.new>> \in Group(t)
      /\ IsMoved(y) \/ IsFree(y, t, kept)
  BY Planned
<1>3. x.old = y.old /\ x.new = y.new
  <2>1. <<x.old, x.new>> \in run.moves /\ <<y.old, y.new>> \in run.moves
    BY <1>1, <1>2 DEF Group
  <2> QED
    BY <2>1 DEF MovesInv, ScanInv
<1>4. CASE IsMoved(x) /\ IsMoved(y)
  BY <1>1, <1>2, <1>3, <1>4 DEF IsMoved, Plans
<1>5. CASE IsFree(x, t, kept) /\ IsFree(y, t, kept)
  <2> DEFINE at == mem[x.old].at
  <2>1. /\ x.needs_move = (Dir(at) # t) /\ y.needs_move = (Dir(at) # t)
        /\ x.old_name = Name(at) /\ y.old_name = Name(at)
    BY <1>3, <1>5 DEF IsFree
  <2>2. x.needs_move = y.needs_move
    BY <2>1
  <2> QED
    BY <1>1, <1>2, <1>3, <2>1, <2>2 DEF Plans
<1> QED
  BY <1>1, <1>2, <1>3, <1>4, <1>5 DEF IsMoved, IsFree

LEMMA PathIs ==
  ASSUME NEW p \in Paths
  PROVE  p = <<Dir(p), Name(p)>> /\ Dir(p) \in Dirs /\ Name(p) \in Names
  BY DEF Paths, Dir, Name

LEMMA AtApart ==
  ASSUME ~Shared(mem), NEW p \in Paths, NEW q \in Paths, mem[p] # None, mem[q] # None, p # q
  PROVE  mem[p].at # mem[q].at
  BY DEF Shared, Indexed

(* What becomes of the moves into t, of which kept may pass. *)
ListsAs(t, fails, blind, kept) ==
  LET plan == IF fails THEN {} ELSE Plan(t, Group(t), kept, blind)
  IN /\ OnePerName(kept, Passing(t, Group(t)))
     /\ Woe(Mark(fails \/ blind, "blind") \cup Mark(Raced(plan), "raced"))
     /\ run' = [run EXCEPT
          !.phase = IF plan = {} THEN "moves" ELSE "move",
          !.todo = @ \ {t}, !.target = t, !.plan = plan,
          !.renames = {m \in plan : Passes(m)},
          !.unmoved = @ \cup ({m[2] : m \in Group(t)} \ {m.new : m \in plan})]

(* What a listing of a folder decides on is planned; the rest is uploaded. *)
LEMMA ListTargetHolds ==
  ASSUME MovesInv, ListTarget
  PROVE  MovesInv'
<1> USE DEF MovesInv
<1>1. /\ run.phase = "moves" /\ run.plan = {}
      /\ UNCHANGED <<local, drive, disk, mem, listed, homes>>
  BY DEF ListTarget, ScanInv, Placing
<1>2. PICK t \in run.todo, fails \in BOOLEAN, blind \in BOOLEAN :
        /\ fails => ~blind
        /\ Spend(0, IF fails \/ blind THEN 1 ELSE 0)
        /\ \E chosen \in SUBSET Passing(t, Group(t)) : ListsAs(t, fails, blind, chosen)
  <2> HIDE DEF MovesInv
  <2>1. ListTarget
    OBVIOUS
  <2> QED
    BY ONLY <2>1, Zenon DEF ListTarget, ListsAs, Group
<1>2a. PICK kept \in SUBSET Passing(t, Group(t)) : ListsAs(t, fails, blind, kept)
  BY <1>2
<1> DEFINE plan == IF fails THEN {} ELSE Plan(t, Group(t), kept, blind)
           rest == {m[2] : m \in Group(t)} \ {m.new : m \in plan}
           renames == {m \in plan : Passes(m)}
<1>3. left' \in [edits : Nat, mishaps : Nat, events : Nat]
  BY <1>2, Spent
<1>4. /\ woes \subseteq woes' /\ woes' \subseteq woes \cup {"blind", "raced"}
      /\ woes' \subseteq {"orphaned"} => ~Raced(plan) /\ ~fails
  BY <1>2a DEF Woe, Mark, ListsAs
<1>5. \A x \in plan :
        /\ x \in Plans /\ <<x.old, x.new>> \in Group(t)
        /\ x.old \in Paths /\ x.new \in Paths
        /\ IsMoved(x) \/ IsFree(x, t, kept)
        /\ x.needs_move => x.old_name = Name(mem[x.old].at) /\ Dir(mem[x.old].at) # t
        /\ x.needs_move /\ Passes(x) =>
             /\ drive[<<t, x.old_name>>] = None
             /\ \A k \in Group(t) : Name(k[2]) # x.old_name
             /\ <<x.old, x.new>> \in kept
  BY <1>1, Planned
<1>6. \A x, y \in plan : x.old = y.old \/ x.new = y.new => x = y
  BY <1>1, PlannedOnce
<1>7. \A m \in Group(t) :
        /\ m \in run.moves /\ m[1] \in Paths /\ m[2] \in Paths
        /\ Dir(m[2]) = t
        /\ mem[m[1]] \in Entries /\ mem[m[1]] # None /\ mem[m[1]].at \in Paths
        /\ mem[m[1]].content = run.scan[m[2]].content
        /\ mem[m[2]] = None
        /\ run.scan[m[1]] = None /\ run.scan[m[2]] # None
  BY <1>1, Grouped
<1>8. run' = [run EXCEPT !.phase = IF plan = {} THEN "moves" ELSE "move",
                !.todo = @ \ {t}, !.target = t, !.plan = plan, !.renames = renames,
                !.unmoved = @ \cup rest]
  BY <1>2a DEF ListsAs
<1>9. plan \subseteq Plans /\ renames \subseteq Plans /\ rest \subseteq Paths
  BY <1>5, <1>7
<1>10. \A p \in rest : mem[p] = None /\ Dir(p) = t /\ p \in {m[2] : m \in run.moves}
  BY <1>7
<1>11. \A x \in plan : x.new \notin rest
  OBVIOUS
<1>12. renames \subseteq plan
  OBVIOUS
<1> HIDE DEF plan, rest, renames
<1>13. /\ run' \in Runs /\ run'.phase = IF plan = {} THEN "moves" ELSE "move"
       /\ run'.scan = run.scan /\ run'.held = run.held /\ run'.moves = run.moves
       /\ run'.todo = run.todo \ {t} /\ run'.target = t /\ run'.plan = plan
       /\ run'.renames = renames /\ run'.unmoved = run.unmoved \cup rest
       /\ run'.uploads = run.uploads /\ run'.trash = run.trash
       /\ run'.verified = run.verified /\ run'.forgotten = run.forgotten
  BY <1>8, <1>9 DEF TypeOK, Runs, Phases
<1>14. TypeOK'
  BY <1>1, <1>3, <1>4, <1>13 DEF TypeOK
<1>15. ScanInv'
  BY <1>1, <1>13 DEF ScanInv, Placing
<1>16. PlanInv'
  <2>1. \A p \in run.unmoved : Dir(p) # t
    BY <1>1 DEF EntriesInv, Moving
  <2>2. ASSUME NEW x \in plan
        PROVE  /\ <<x.old, x.new>> \in run.moves
               /\ Dir(x.new) = t
               /\ mem[x.old] # None
               /\ mem[x.old].content = run.scan[x.new].content
               /\ mem[x.new] = None
               /\ x.new \notin run.unmoved \cup rest
               /\ x.needs_move => x.old_name = Name(mem[x.old].at) /\ Dir(mem[x.old].at) # t
               /\ x.needs_move /\ Passes(x) => \A k \in plan : Name(k.new) # x.old_name
    BY <1>5, <1>7, <1>11, <2>1
  <2> QED
    BY <1>1, <1>6, <1>12, <1>13, <2>2 DEF PlanInv
<1>17. EntriesInv'
  BY <1>1, <1>10, <1>13 DEF EntriesInv, Moving, Running
<1>18. TrashInv'
  BY <1>1, <1>13 DEF TrashInv
<1>19. ApartInv'
  BY <1>1, <1>4 DEF ApartInv, Shared, Indexed
<1>20. DeliveredInv'
  <2> SUFFICES ASSUME "other" \notin woes', "shared" \notin woes', NEW p \in run.verified
               PROVE  /\ drive[p] = run.scan[p].content
                      /\ \A x \in plan : p \notin Spots(x)'
    BY <1>1, <1>13 DEF DeliveredInv
  <2>1. /\ drive[p] = run.scan[p].content
        /\ mem[p] # None /\ mem[p].at = p /\ run.scan[p] # None /\ p \in Paths
    BY <1>1, <1>4 DEF DeliveredInv, EntriesInv, TypeOK, Runs, Running, Moving
  <2>2. drive[p] # None
    BY <2>1, ContentsAssumption DEF TypeOK, Runs, Files
  <2>3. ~Shared(mem)
    BY <1>4 DEF ApartInv
  <2>4. ASSUME NEW x \in plan
        PROVE  p \notin Spots(x)'
    <3>1. /\ mem[x.old] # None /\ mem[x.new] = None /\ run.scan[x.old] = None
          /\ x.old \in Paths /\ x.new \in Paths /\ mem[x.old].at \in Paths /\ Dir(x.new) = t
      BY <1>5, <1>7
    <3>2. mem[x.old].at # p
      BY <2>1, <2>3, <3>1, AtApart
    <3>3. x.new # p
      BY <2>1, <3>1
    <3>4. ASSUME x.needs_move
          PROVE  <<t, x.old_name>> # p
      <4>1. CASE Passes(x)
        BY <1>5, <2>2, <3>4, <4>1
      <4>2. CASE ~Passes(x)
        BY <3>1, <3>3, <4>2, PathIs DEF Passes
      <4> QED
        BY <4>1, <4>2
    <3> QED
      BY <1>1, <1>13, <3>2, <3>3, <3>4 DEF Spots, Placed
  <2> QED
    BY <2>1, <2>4
<1>21. ListedInv'
  BY <1>1, <1>4, <1>13 DEF ListedInv
<1>22. StrayInv'
  BY <1>1, <1>4, <1>13 DEF StrayInv, Indexed
<1>23. NodesInv'
  <2> SUFFICES ASSUME woes' \subseteq {"orphaned"}
               PROVE  /\ \A x \in plan :
                           /\ run'.phase = "move" => Waits(x)'
                           /\ run'.phase = "rename" => (Waits(x) \/ Passed(x) \/ Arrived(x))'
                           /\ run'.phase = "back" => Passed(x)'
                           /\ \A y \in plan : y # x => Spots(x)' \cap Spots(y)' = {}
                           /\ \A p \in Indexed(mem) : p # x.old => mem[p].at \notin Spots(x)'
                      /\ \A p \in Indexed(mem) :
                           \/ drive[mem[p].at] # None
                           \/ \E x \in plan : x.old = p
    BY <1>1, <1>13 DEF NodesInv, Indexed
  <2>1. /\ woes \subseteq {"orphaned"} /\ ~Raced(plan) /\ ~fails /\ ~Shared(mem)
    BY <1>4 DEF ApartInv
  <2>2. \A p \in Indexed(mem) : drive[mem[p].at] # None
    BY <1>1, <2>1 DEF NodesInv
  <2>3. ASSUME NEW x \in plan
        PROVE  /\ x.old \in Indexed(mem) /\ x.old \in Paths /\ x.new \in Paths
               /\ mem[x.old].at \in Paths /\ Dir(x.new) = t
               /\ IsFree(x, t, kept)
               /\ drive[mem[x.old].at] = mem[x.old].content
               /\ drive[x.new] = None
               /\ Placed(x)' = IF x.needs_move THEN <<t, x.old_name>> ELSE mem[x.old].at
               /\ x.needs_move => drive[Placed(x)'] = None
               /\ x.needs_move /\ ~Passes(x) => Placed(x)' = x.new
    <3>1. /\ x.old \in Indexed(mem) /\ x.old \in Paths /\ x.new \in Paths
          /\ mem[x.old].at \in Paths /\ Dir(x.new) = t
      BY <1>5, <1>7 DEF Indexed
    <3>2. drive[mem[x.old].at] = mem[x.old].content
      BY <2>1, <2>2, <3>1 DEF Raced
    <3>3. IsFree(x, t, kept)
      BY <1>5, <2>2, <3>1 DEF IsMoved
    <3>4. drive[x.new] = None
      BY <3>3 DEF IsFree
    <3>5. Placed(x)' = IF x.needs_move THEN <<t, x.old_name>> ELSE mem[x.old].at
      BY <1>1, <1>13 DEF Placed
    <3>6. x.needs_move /\ ~Passes(x) => <<t, x.old_name>> = x.new
      BY <3>1, PathIs DEF Passes
    <3>7. x.needs_move => drive[<<t, x.old_name>>] = None
      BY <1>5, <3>4, <3>6
    <3> QED
      BY <3>1, <3>2, <3>3, <3>4, <3>5, <3>6, <3>7
  <2>4. \A x \in plan : drive[mem[x.old].at] # None
    BY <2>2, <2>3
  <2>5. \A x \in plan : Spots(x)' = {mem[x.old].at, Placed(x)', x.new}
    BY <1>1 DEF Spots
  <2>6. ASSUME NEW x \in plan, NEW p \in Indexed(mem), p # x.old
        PROVE  mem[p].at \notin Spots(x)'
    <3>1. mem[p].at # mem[x.old].at
      BY <2>1, <2>3, <2>6, AtApart DEF Indexed
    <3>2. drive[mem[p].at] # None
      BY <2>2
    <3> QED
      BY <2>3, <2>5, <3>1, <3>2
  <2>7. ASSUME NEW x \in plan, NEW y \in plan, y # x
        PROVE  Spots(x)' \cap Spots(y)' = {}
    <3>1. x.old # y.old /\ x.new # y.new
      BY <1>6, <2>7
    <3>2. mem[x.old].at \notin Spots(y)' /\ mem[y.old].at \notin Spots(x)'
      BY <2>3, <2>6, <3>1
    <3>3. ASSUME NEW z \in plan, NEW w \in plan, z.new # w.new, z.needs_move
          PROVE  Placed(z)' # w.new
      <4>1. CASE Passes(z)
        <5>1. Name(w.new) # z.old_name
          BY <1>5, <3>3, <4>1
        <5> QED
          BY <2>3, <3>3, <5>1 DEF Name
      <4>2. CASE ~Passes(z)
        BY <2>3, <3>3, <4>2
      <4> QED
        BY <4>1, <4>2
    <3>4. ASSUME x.needs_move, y.needs_move
          PROVE  Placed(x)' # Placed(y)'
      <4>1. CASE Passes(x) /\ Passes(y)
        <5>1. <<x.old, x.new>> \in kept /\ <<y.old, y.new>> \in kept
          BY <1>5, <3>4, <4>1
        <5>2. <<x.old, x.new>> # <<y.old, y.new>>
          BY <3>1
        <5>3. <<x.old, x.new>> \in Passing(t, Group(t))
          BY <5>1
        <5>4. PICK k \in kept :
                {j \in kept : Name(mem[j[1]].at) = Name(mem[x.old].at)} = {k}
          BY <1>2a, <5>3 DEF OnePerName, ListsAs
        <5>5. Name(mem[x.old].at) # Name(mem[y.old].at)
          BY <5>1, <5>2, <5>4
        <5>6. x.old_name # y.old_name
          BY <1>5, <3>4, <5>5
        <5> QED
          BY <2>3, <3>4, <5>6
      <4>2. CASE ~Passes(x)
        BY <2>3, <3>1, <3>3, <3>4, <4>2
      <4>3. CASE ~Passes(y)
        BY <2>3, <3>1, <3>3, <3>4, <4>3
      <4> QED
        BY <4>1, <4>2, <4>3
    <3>5. x.needs_move => Placed(x)' # y.new
      BY <3>1, <3>3
    <3>6. y.needs_move => Placed(y)' # x.new
      BY <3>1, <3>3
    <3>7. Placed(x)' \notin Spots(y)'
      BY <2>3, <2>5, <3>2, <3>4, <3>5
    <3>8. Placed(y)' \notin Spots(x)'
      BY <2>3, <2>5, <3>2, <3>4, <3>6
    <3> QED
      BY <2>5, <3>1, <3>2, <3>7, <3>8
  <2>8. \A x \in plan : run'.phase = "move" /\ Waits(x)'
    BY <1>1, <1>13, <2>3 DEF Waits
  <2> QED
    BY <2>2, <2>6, <2>7, <2>8
<1> QED
  BY <1>14, <1>15, <1>16, <1>17, <1>18, <1>19, <1>20, <1>21, <1>22, <1>23

-----------------------------------------------------------------------------
(* The nodes of a plan.                                                    *)
LEMMA Plans_of_run ==
  ASSUME MovesInv, NEW m \in run.plan
  PROVE  /\ m \in Plans /\ m.old \in Paths /\ m.new \in Paths
         /\ m.old_name \in Names /\ m.needs_move \in BOOLEAN
         /\ <<m.old, m.new>> \in run.moves
         /\ Dir(m.new) = run.target /\ run.target \in Dirs
         /\ mem[m.old] \in Entries /\ mem[m.old] # None
         /\ mem[m.old].at \in Paths /\ mem[m.old].content \in Contents
         /\ mem[m.old].content = run.scan[m.new].content
         /\ mem[m.new] = None
         /\ run.scan[m.old] = None /\ run.scan[m.new] # None
         /\ run.scan[m.new] \in Files /\ m.new \in homes
         /\ Placed(m) \in Paths
         /\ m.needs_move => /\ Placed(m) = <<run.target, m.old_name>>
                            /\ m.old_name = Name(mem[m.old].at)
                            /\ Passes(m) \/ Placed(m) = m.new
         /\ m.needs_move /\ Passes(m) => Placed(m) # m.new
<1> USE DEF MovesInv
<1>1. m \in Plans
  BY DEF TypeOK, Runs
<1>2. m.old \in Paths /\ m.new \in Paths /\ m.old_name \in Names /\ m.needs_move \in BOOLEAN
  BY <1>1 DEF Plans
<1>3. /\ <<m.old, m.new>> \in run.moves /\ Dir(m.new) = run.target
      /\ mem[m.old] # None /\ mem[m.new] = None
      /\ mem[m.old].content = run.scan[m.new].content
      /\ m.needs_move => m.old_name = Name(mem[m.old].at)
  BY DEF PlanInv
<1>4. mem[m.old] \in Entries
  BY <1>2, <1>3 DEF TypeOK
<1>5. mem[m.old].at \in Paths /\ mem[m.old].content \in Contents
  BY <1>4 DEF Entries
<1>6. run.scan[m.old] = None /\ run.scan[m.new] # None
  BY <1>3 DEF ScanInv
<1>7. run.scan[m.new] \in Files /\ m.new \in homes /\ run.target \in Dirs
  BY <1>2, <1>6 DEF TypeOK, Runs, ScanInv
<1>8. <<run.target, m.old_name>> \in Paths
  BY <1>2, <1>7 DEF Paths
<1>9. Placed(m) = IF m.needs_move THEN <<run.target, m.old_name>> ELSE mem[m.old].at
  BY DEF Placed
<1>10. m.new = <<run.target, Name(m.new)>>
  BY <1>2, <1>3, PathIs
<1>11. m.needs_move => Passes(m) \/ Placed(m) = m.new
  BY <1>9, <1>10 DEF Passes
<1>12. m.needs_move /\ Passes(m) => Placed(m) # m.new
  BY <1>9 DEF Passes, Name
<1> QED
  BY <1>1, <1>2, <1>3, <1>4, <1>5, <1>6, <1>7, <1>8, <1>9, <1>11, <1>12

(* Nodes that change folder do not get in each other's way. *)
LEMMA MoveNodesHolds ==
  ASSUME MovesInv, MoveNodes
  PROVE  MovesInv'
<1> USE DEF MovesInv
<1> DEFINE sources == {m \in run.plan : m.needs_move}
           At(m) == mem[m.old].at
<1>1. /\ run.phase = "move" /\ UNCHANGED <<local, disk, mem, listed, homes, woes>>
      /\ run' = [run EXCEPT !.phase = "rename"]
  BY DEF MoveNodes
<1>2. PICK failed \in SUBSET sources :
        LET gone == {m \in sources \ failed : drive[At(m)] # None /\ drive[Placed(m)] = None}
        IN /\ Spend(0, IF failed = {} THEN 0 ELSE 1)
           /\ drive' = [p \in Paths |->
                IF \E m \in gone : Placed(m) = p
                THEN drive[mem[(CHOOSE m \in gone : Placed(m) = p).old].at]
                ELSE IF \E m \in gone : mem[m.old].at = p THEN None ELSE drive[p]]
  BY DEF MoveNodes
<1> DEFINE gone == {m \in sources \ failed : drive[At(m)] # None /\ drive[Placed(m)] = None}
<1>3. \A m \in gone : /\ m \in run.plan /\ m.needs_move
                      /\ drive[At(m)] # None /\ drive[Placed(m)] = None
  OBVIOUS
<1>4. drive' = [p \in Paths |->
        IF \E m \in gone : Placed(m) = p
        THEN drive[mem[(CHOOSE m \in gone : Placed(m) = p).old].at]
        ELSE IF \E m \in gone : mem[m.old].at = p THEN None ELSE drive[p]]
  BY <1>2
<1> HIDE DEF gone
<1>5. \A p \in Paths : (\E m \in gone : Placed(m) = p) =>
        \E m \in gone : Placed(m) = p /\ drive'[p] = drive[At(m)]
  BY <1>4
<1>6. \A p \in Paths : (~\E m \in gone : Placed(m) = p) /\ (\E m \in gone : At(m) = p) =>
        drive'[p] = None
  BY <1>4
<1>7. \A p \in Paths : (\A m \in gone : Placed(m) # p /\ At(m) # p) => drive'[p] = drive[p]
  BY <1>4
<1>8. drive' \in [Paths -> Contents \cup {None}]
  <2>1. \A m \in gone : drive[At(m)] \in Contents \cup {None}
    BY <1>3, Plans_of_run DEF TypeOK
  <2>2. \A p \in Paths : drive'[p] \in Contents \cup {None}
    BY <1>5, <1>6, <1>7, <2>1 DEF TypeOK
  <2> QED
    BY <1>4, <2>2
<1>9. left' \in [edits : Nat, mishaps : Nat, events : Nat]
  BY <1>2, Spent
<1>10. /\ run' \in Runs /\ run'.phase = "rename"
       /\ run'.scan = run.scan /\ run'.held = run.held /\ run'.moves = run.moves
       /\ run'.todo = run.todo /\ run'.target = run.target /\ run'.plan = run.plan
       /\ run'.renames = run.renames /\ run'.unmoved = run.unmoved
       /\ run'.uploads = run.uploads /\ run'.trash = run.trash
       /\ run'.verified = run.verified /\ run'.forgotten = run.forgotten
  BY <1>1 DEF TypeOK, Runs, Phases
<1>11. TypeOK'
  BY <1>1, <1>8, <1>9, <1>10 DEF TypeOK
<1>12. ScanInv'
  BY <1>1, <1>10 DEF ScanInv, Placing
<1>13. PlanInv'
  BY <1>1, <1>10 DEF PlanInv
<1>14. EntriesInv'
  BY <1>1, <1>10 DEF EntriesInv, Moving, Running
<1>15. TrashInv'
  BY <1>1, <1>10 DEF TrashInv
<1>16. ApartInv'
  BY <1>1 DEF ApartInv, Shared, Indexed
<1>17. ListedInv'
  BY <1>1, <1>10 DEF ListedInv
<1>18. /\ \A m : Placed(m)' = Placed(m)
       /\ \A m : Spots(m)' = Spots(m)
  BY <1>1, <1>10 DEF Spots, Placed
<1>19. DeliveredInv'
  <2> SUFFICES ASSUME "other" \notin woes, "shared" \notin woes, NEW p \in run.verified
               PROVE  /\ drive'[p] = run.scan[p].content
                      /\ \A m \in run.plan : p \notin Spots(m)
    BY <1>1, <1>10, <1>18 DEF DeliveredInv
  <2>1. /\ drive[p] = run.scan[p].content /\ p \in Paths
        /\ \A m \in run.plan : p \notin Spots(m)
    BY <1>1 DEF DeliveredInv, Running, Moving, TypeOK, Runs
  <2>2. \A m \in gone : Placed(m) # p /\ At(m) # p
    BY <1>3, <2>1 DEF Spots
  <2> QED
    BY <1>7, <2>1, <2>2
<1>20. StrayInv'
  <2> SUFFICES ASSUME woes = {}, NEW p \in Paths \ homes, drive'[p] # None
               PROVE  \/ \E o \in Indexed(mem) : mem[o].at = p
                      \/ \E m \in run.plan : Placed(m) = p
    BY <1>1, <1>10, <1>18 DEF StrayInv, Indexed
  <2>1. CASE \E m \in gone : Placed(m) = p
    BY <1>3, <2>1
  <2>2. CASE ~\E m \in gone : Placed(m) = p
    <3>1. drive[p] # None
      BY <1>6, <1>7, <2>2
    <3> QED
      BY <1>1, <3>1 DEF StrayInv
  <2> QED
    BY <2>1, <2>2
<1>21. NodesInv'
  <2> SUFFICES ASSUME woes \subseteq {"orphaned"}
               PROVE  /\ \A m \in run.plan :
                           /\ Waits(m)' \/ Passed(m)' \/ Arrived(m)'
                           /\ \A k \in run.plan : k # m => Spots(m) \cap Spots(k) = {}
                           /\ \A p \in Indexed(mem) : p # m.old => mem[p].at \notin Spots(m)
                      /\ \A p \in Indexed(mem) :
                           drive'[mem[p].at] # None \/ \E m \in run.plan : m.old = p
    BY <1>1, <1>10, <1>18 DEF NodesInv, Indexed
  <2>1. \A m \in run.plan :
          /\ Waits(m)
          /\ \A k \in run.plan : k # m => Spots(m) \cap Spots(k) = {}
          /\ \A p \in Indexed(mem) : p # m.old => mem[p].at \notin Spots(m)
    BY <1>1 DEF NodesInv
  <2>2. \A p \in Indexed(mem) : drive[mem[p].at] # None \/ \E m \in run.plan : m.old = p
    BY <1>1 DEF NodesInv
  <2>3. ASSUME NEW m \in run.plan, m \notin gone
        PROVE  Waits(m)'
    <3>1. \A p \in Spots(m) : \A k \in gone : Placed(k) # p /\ At(k) # p
      BY <1>3, <2>1, <2>3 DEF Spots
    <3>2. \A p \in Spots(m) : p \in Paths
      BY Plans_of_run DEF Spots
    <3>3. \A p \in Spots(m) : drive'[p] = drive[p]
      BY <1>7, <3>1, <3>2
    <3>4. drive'[At(m)] = drive[At(m)] /\ drive'[Placed(m)] = drive[Placed(m)]
          /\ drive'[m.new] = drive[m.new]
      BY <3>3 DEF Spots
    <3> QED
      BY <1>1, <1>18, <2>1, <3>4 DEF Waits
  <2>4. ASSUME NEW m \in gone
        PROVE  Passed(m)' \/ Arrived(m)'
    <3>1. /\ m \in run.plan /\ m.needs_move /\ Waits(m)
          /\ drive[At(m)] # None /\ drive[Placed(m)] = None
      BY <1>3, <2>1
    <3>2. /\ At(m) \in Paths /\ Placed(m) \in Paths /\ m.new \in Paths
          /\ Passes(m) \/ Placed(m) = m.new
          /\ Passes(m) => Placed(m) # m.new
          /\ mem[m.old].content \in Contents
      BY <3>1, Plans_of_run
    <3>3. \A k \in gone : k # m => Spots(m) \cap Spots(k) = {}
      BY <1>3, <2>1
    <3>4. /\ drive[At(m)] = mem[m.old].content /\ drive[m.new] = None
      BY <3>1 DEF Waits
    <3>5. drive'[Placed(m)] = mem[m.old].content
      <4>1. PICK k \in gone : Placed(k) = Placed(m) /\ drive'[Placed(m)] = drive[At(k)]
        BY <1>5, <3>2
      <4>2. k = m
        BY <3>3, <4>1 DEF Spots
      <4> QED
        BY <3>4, <4>1, <4>2
    <3>6. drive'[At(m)] = None
      <4>1. ~\E k \in gone : Placed(k) = At(m)
        BY <3>1, <3>3 DEF Spots
      <4> QED
        BY <1>6, <3>2, <4>1
    <3>7. ASSUME Passes(m)
          PROVE  drive'[m.new] = None
      <4>1. \A k \in gone : Placed(k) # m.new /\ At(k) # m.new
        BY <3>1, <3>2, <3>3, <3>4, <3>7 DEF Spots
      <4> QED
        BY <1>7, <3>2, <3>4, <4>1
    <3>8. CASE Passes(m)
      BY <1>1, <1>18, <3>1, <3>2, <3>5, <3>6, <3>7, <3>8 DEF Passed
    <3>9. CASE ~Passes(m)
      BY <1>1, <1>18, <3>2, <3>5, <3>6, <3>9 DEF Arrived
    <3> QED
      BY <3>8, <3>9
  <2>5. ASSUME NEW p \in Indexed(mem), ~\E m \in run.plan : m.old = p
        PROVE  drive'[mem[p].at] # None
    <3>1. \A m \in gone : mem[p].at \notin Spots(m)
      BY <1>3, <2>1, <2>5
    <3>2. mem[p].at \in Paths
      BY DEF Indexed, TypeOK, Entries
    <3> QED
      BY <1>7, <2>2, <2>5, <3>1, <3>2 DEF Spots
  <2> QED
    BY <2>1, <2>3, <2>4, <2>5
<1> QED
  BY <1>11, <1>12, <1>13, <1>14, <1>15, <1>16, <1>17, <1>19, <1>20, <1>21

LEMMA RenameNodeHolds ==
  ASSUME MovesInv, RenameNode
  PROVE  MovesInv'
<1> USE DEF MovesInv
<1> DEFINE At(m) == mem[m.old].at
<1>1. /\ run.phase = "rename" /\ UNCHANGED <<local, disk, mem, listed, homes, woes>>
  BY DEF RenameNode
<1>2. PICK m \in run.renames, fails \in BOOLEAN :
        LET renamed == ~fails /\ drive[Placed(m)] # None /\ drive[m.new] = None
        IN /\ Spend(0, IF fails THEN 1 ELSE 0)
           /\ drive' = IF renamed
                       THEN [drive EXCEPT ![m.new] = drive[Placed(m)], ![Placed(m)] = None]
                       ELSE drive
           /\ run' = [run EXCEPT !.renames = @ \ {m}]
  BY DEF RenameNode
<1> DEFINE renamed == ~fails /\ drive[Placed(m)] # None /\ drive[m.new] = None
<1>3. m \in run.plan
  BY <1>1 DEF PlanInv
<1>4. /\ m.new \in Paths /\ Placed(m) \in Paths /\ At(m) \in Paths /\ m.new \in homes
      /\ mem[m.old].content \in Contents
  BY <1>3, Plans_of_run
<1>5. drive' \in [Paths -> Contents \cup {None}]
  BY <1>2, <1>4 DEF TypeOK
<1>6. /\ \A p \in Paths \ {m.new, Placed(m)} : drive'[p] = drive[p]
      /\ ~renamed => drive' = drive
      /\ renamed => /\ Placed(m) # m.new
                    /\ drive'[m.new] = drive[Placed(m)] /\ drive'[Placed(m)] = None
  BY <1>2, <1>4 DEF TypeOK
<1>7. left' \in [edits : Nat, mishaps : Nat, events : Nat]
  BY <1>2, Spent
<1>8. /\ run' \in Runs /\ run'.phase = run.phase
      /\ run'.scan = run.scan /\ run'.held = run.held /\ run'.moves = run.moves
      /\ run'.todo = run.todo /\ run'.target = run.target /\ run'.plan = run.plan
      /\ run'.renames = run.renames \ {m} /\ run'.unmoved = run.unmoved
      /\ run'.uploads = run.uploads /\ run'.trash = run.trash
      /\ run'.verified = run.verified /\ run'.forgotten = run.forgotten
  BY <1>2 DEF TypeOK, Runs
<1> HIDE DEF renamed
<1>9. TypeOK'
  BY <1>1, <1>5, <1>7, <1>8 DEF TypeOK
<1>10. ScanInv'
  BY <1>1, <1>8 DEF ScanInv
<1>11. PlanInv'
  BY <1>1, <1>8 DEF PlanInv
<1>12. EntriesInv' /\ TrashInv'
  BY <1>1, <1>8 DEF EntriesInv, TrashInv
<1>13. ApartInv' /\ ListedInv'
  BY <1>1, <1>8 DEF ApartInv, ListedInv, Shared, Indexed
<1>14. /\ \A x : Placed(x)' = Placed(x)
       /\ \A x : Spots(x)' = Spots(x)
  BY <1>1, <1>8 DEF Spots, Placed
<1>15. DeliveredInv'
  <2> SUFFICES ASSUME "other" \notin woes, "shared" \notin woes, NEW p \in run.verified
               PROVE  /\ drive'[p] = run.scan[p].content
                      /\ \A x \in run.plan : p \notin Spots(x)
    BY <1>1, <1>8, <1>14 DEF DeliveredInv
  <2>1. /\ drive[p] = run.scan[p].content /\ p \in Paths
        /\ \A x \in run.plan : p \notin Spots(x)
    BY <1>1 DEF DeliveredInv, Running, Moving, TypeOK, Runs
  <2> QED
    BY <1>3, <1>6, <2>1 DEF Spots
<1>16. StrayInv'
  <2> SUFFICES ASSUME woes = {}, NEW p \in Paths \ homes, drive'[p] # None
               PROVE  \/ \E o \in Indexed(mem) : mem[o].at = p
                      \/ \E x \in run.plan : Placed(x) = p
    BY <1>1, <1>8, <1>14 DEF StrayInv, Indexed
  <2>1. drive[p] # None
    BY <1>4, <1>6
  <2> QED
    BY <1>1, <2>1 DEF StrayInv
<1>17. NodesInv'
  <2> SUFFICES ASSUME woes \subseteq {"orphaned"}
               PROVE  /\ \A x \in run.plan :
                           /\ Waits(x)' \/ Passed(x)' \/ Arrived(x)'
                           /\ \A y \in run.plan : y # x => Spots(x) \cap Spots(y) = {}
                           /\ \A p \in Indexed(mem) : p # x.old => mem[p].at \notin Spots(x)
                      /\ \A p \in Indexed(mem) :
                           drive'[mem[p].at] # None \/ \E x \in run.plan : x.old = p
    BY <1>1, <1>8, <1>14 DEF NodesInv, Indexed
  <2>1. \A x \in run.plan :
          /\ Waits(x) \/ Passed(x) \/ Arrived(x)
          /\ \A y \in run.plan : y # x => Spots(x) \cap Spots(y) = {}
          /\ \A p \in Indexed(mem) : p # x.old => mem[p].at \notin Spots(x)
    BY <1>1 DEF NodesInv
  <2>2. \A p \in Indexed(mem) : drive[mem[p].at] # None \/ \E x \in run.plan : x.old = p
    BY <1>1 DEF NodesInv
  <2>3. ASSUME NEW x \in run.plan, x # m \/ ~renamed
        PROVE  Waits(x)' \/ Passed(x)' \/ Arrived(x)'
    <3>1. /\ At(x) \in Paths /\ Placed(x) \in Paths /\ x.new \in Paths
      BY Plans_of_run
    <3>2. /\ drive'[At(x)] = drive[At(x)] /\ drive'[Placed(x)] = drive[Placed(x)]
          /\ drive'[x.new] = drive[x.new]
      BY <1>3, <1>6, <2>1, <2>3, <3>1 DEF Spots
    <3> QED
      BY <1>1, <1>14, <2>1, <3>2 DEF Waits, Passed, Arrived
  <2>4. ASSUME renamed
        PROVE  Arrived(m)'
    <3>1. drive[Placed(m)] # None /\ drive[m.new] = None
      BY <2>4 DEF renamed
    <3>2. ~Arrived(m)
      BY <1>4, <3>1, ContentsAssumption DEF Arrived
    <3>3. CASE Waits(m)
      <4>1. ~m.needs_move /\ Placed(m) = At(m)
        BY <3>1, <3>3 DEF Waits, Placed
      <4>2. drive'[At(m)] = None /\ drive'[m.new] = mem[m.old].content
        BY <1>6, <2>4, <3>3, <4>1 DEF Waits
      <4> QED
        BY <1>1, <1>6, <1>14, <2>4, <4>2 DEF Arrived
    <3>4. CASE Passed(m)
      <4>1. drive'[Placed(m)] = None /\ drive'[m.new] = mem[m.old].content
        BY <1>6, <2>4, <3>4 DEF Passed
      <4>2. drive'[At(m)] = None
        <5>1. drive[At(m)] = None /\ At(m) # Placed(m)
          BY <3>1, <3>4 DEF Passed
        <5>2. At(m) # m.new
          BY <1>3, <3>4 DEF PlanInv, Passed
        <5> QED
          BY <1>4, <1>6, <5>1, <5>2
      <4> QED
        BY <1>1, <1>14, <4>1, <4>2 DEF Arrived
    <3> QED
      BY <1>3, <2>1, <3>2, <3>3, <3>4
  <2>5. ASSUME NEW p \in Indexed(mem), ~\E x \in run.plan : x.old = p
        PROVE  drive'[mem[p].at] # None
    <3>1. mem[p].at \notin Spots(m)
      BY <1>3, <2>1, <2>5
    <3>2. mem[p].at \in Paths
      BY DEF Indexed, TypeOK, Entries
    <3> QED
      BY <1>6, <2>2, <2>5, <3>1, <3>2 DEF Spots
  <2> QED
    BY <1>3, <2>1, <2>3, <2>4, <2>5
<1> QED
  BY <1>9, <1>10, <1>11, <1>12, <1>13, <1>15, <1>16, <1>17

(* What arrived is re-keyed; what is left on the way is put back next.     *)
LEMMA ListMovedHolds ==
  ASSUME MovesInv, ListMoved
  PROVE  MovesInv'
<1> USE DEF MovesInv
<1> DEFINE At(m) == mem[m.old].at
<1>1. /\ run.phase = "rename" /\ run.renames = {}
      /\ UNCHANGED <<local, drive, disk, listed, homes>>
  BY DEF ListMoved
<1>2. PICK fails \in BOOLEAN :
        LET done == {m \in run.plan : ~fails /\ Same(m.new, mem[m.old])}
            strays == {m \in run.plan \ done : ~fails /\ m.needs_move /\ Passes(m)
                                               /\ drive[<<run.target, m.old_name>>] # None}
        IN /\ Spend(0, IF fails THEN 1 ELSE 0)
           /\ mem' = Rekeyed(mem, done)
           /\ Woe(Mark(fails, "blind") \cup Mark(Shared(mem'), "shared"))
           /\ run' = [run EXCEPT
                !.phase = IF strays = {} THEN "moves" ELSE "back", !.plan = strays,
                !.verified = @ \cup {m.new : m \in done},
                !.forgotten = @ \cup {m.old : m \in done},
                !.unmoved = @ \cup {m.new : m \in run.plan \ done}]
  BY DEF ListMoved
<1> DEFINE done == {m \in run.plan : ~fails /\ Same(m.new, mem[m.old])}
           strays == {m \in run.plan \ done : ~fails /\ m.needs_move /\ Passes(m)
                                              /\ drive[<<run.target, m.old_name>>] # None}
           news == {m.new : m \in done}
           olds == {m.old : m \in done}
           rest == {m.new : m \in run.plan \ done}
<1>3. left' \in [edits : Nat, mishaps : Nat, events : Nat]
  BY <1>2, Spent
<1>4. mem' = Rekeyed(mem, done)
  BY <1>2
<1>5. /\ woes \subseteq woes' /\ woes' \subseteq woes \cup {"blind", "shared"}
      /\ "blind" \notin woes' => ~fails
      /\ "shared" \notin woes' => ~Shared(mem')
  BY <1>2 DEF Woe, Mark
<1>6. run' = [run EXCEPT
                !.phase = IF strays = {} THEN "moves" ELSE "back", !.plan = strays,
                !.verified = @ \cup news, !.forgotten = @ \cup olds,
                !.unmoved = @ \cup rest]
  BY <1>2
<1>7. /\ done \subseteq run.plan
      /\ \A m \in done : ~fails /\ drive[m.new] = mem[m.old].content
      /\ \A m \in run.plan \ done : fails \/ drive[m.new] # mem[m.old].content
  <2>1. \A m \in run.plan : mem[m.old].content # None
    BY Plans_of_run, ContentsAssumption
  <2> QED
    BY <2>1 DEF Same
<1>8. /\ strays \subseteq run.plan \ done
      /\ \A m \in strays : /\ m.needs_move /\ Passes(m) /\ ~fails
                           /\ drive[<<run.target, m.old_name>>] # None
      /\ \A m \in run.plan \ done : ~fails /\ m.needs_move /\ Passes(m)
           /\ drive[<<run.target, m.old_name>>] # None => m \in strays
  OBVIOUS
<1>9. /\ \A p : p \in news <=> \E m \in done : p = m.new
      /\ \A p : p \in olds <=> \E m \in done : p = m.old
      /\ \A p : p \in rest <=> \E m \in run.plan \ done : p = m.new
  OBVIOUS
<1> HIDE DEF done, strays, news, olds, rest
<1>10. \A m, k \in run.plan : m.old = k.old \/ m.new = k.new => m = k
  <2>1. ASSUME NEW m \in run.plan, NEW k \in run.plan, m.new = k.new
        PROVE  m.old = k.old
    <3>1. <<m.old, m.new>> \in run.moves /\ <<k.old, k.new>> \in run.moves
      BY DEF PlanInv
    <3>2. <<m.old, m.new>>[2] = <<k.old, k.new>>[2]
      BY <2>1
    <3>3. <<m.old, m.new>>[1] = <<k.old, k.new>>[1]
      BY <3>1, <3>2 DEF ScanInv
    <3> QED
      BY <3>3
  <2> QED
    BY <2>1 DEF PlanInv
<1>11. \A m, k \in run.plan : m.old # k.new
  BY Plans_of_run
<1>12. /\ \A m \in done : /\ mem'[m.new] \in Entries /\ mem'[m.new] # None
                         /\ mem'[m.new].at = m.new
                         /\ mem'[m.new].content = mem[m.old].content
                         /\ mem'[m.old] = None
       /\ \A p \in Paths : p \notin news \cup olds => mem'[p] = mem[p]
       /\ mem' \in [Paths -> Entries \cup {None}]
  <2> DEFINE new(m) == [content |-> mem[m.old].content, mtime |-> run.scan[m.new].mtime,
                        at |-> m.new, held |-> TRUE]
  <2>1. mem' = [p \in Paths |->
                  IF \E m \in done : m.new = p
                  THEN LET m == CHOOSE m \in done : m.new = p
                       IN [content |-> mem[m.old].content, mtime |-> run.scan[p].mtime,
                           at |-> p, held |-> TRUE]
                  ELSE IF \E m \in done : m.old = p THEN None ELSE mem[p]]
    BY <1>4 DEF Rekeyed
  <2>2. \A m \in done : m.new \in Paths /\ m.old \in Paths
    BY <1>7, Plans_of_run
  <2>3. ASSUME NEW m \in done
        PROVE  mem'[m.new] = new(m) /\ mem'[m.old] = None
    <3>1. (CHOOSE k \in done : k.new = m.new) = m
      BY <1>7, <1>10
    <3>2. ~\E k \in done : k.new = m.old
      BY <1>7, <1>11
    <3> QED
      BY <2>1, <2>2, <3>1, <3>2
  <2>4. ASSUME NEW m \in done
        PROVE  new(m) \in Entries /\ new(m).at = m.new /\ new(m).content = mem[m.old].content
    BY <1>7, Plans_of_run DEF Entries, Files
  <2>5. \A p \in Paths : p \notin news \cup olds => mem'[p] = mem[p]
    BY <1>9, <2>1
  <2> HIDE DEF new
  <2>6. \A m \in done : new(m) # None
    BY <2>4, EntryAssumption
  <2>7. \A p \in Paths : mem'[p] \in Entries \cup {None}
    BY <1>9, <2>3, <2>4, <2>5 DEF TypeOK
  <2>8. mem' \in [Paths -> Entries \cup {None}]
    BY <2>1, <2>7
  <2> QED
    BY <2>3, <2>4, <2>5, <2>6, <2>8
<1>13. /\ news \subseteq Paths /\ olds \subseteq Paths /\ rest \subseteq Paths
       /\ strays \subseteq Plans
       /\ \A p \in news : run.scan[p] # None /\ mem[p] = None /\ p \in {m[2] : m \in run.moves}
       /\ \A p \in olds : run.scan[p] = None /\ p \in {m[1] : m \in run.moves}
       /\ \A p \in rest : /\ mem[p] = None /\ p \in {m[2] : m \in run.moves}
                          /\ Dir(p) = run.target /\ p \notin news \cup olds
  <2>1. \A m \in run.plan : /\ m.old \in Paths /\ m.new \in Paths /\ m \in Plans
                            /\ run.scan[m.new] # None /\ run.scan[m.old] = None
                            /\ mem[m.new] = None /\ Dir(m.new) = run.target
                            /\ m.new \in {k[2] : k \in run.moves}
                            /\ m.old \in {k[1] : k \in run.moves}
    <3>1. \A m \in run.plan : <<m.old, m.new>> \in run.moves
      BY Plans_of_run
    <3>2. \A m \in run.plan : <<m.old, m.new>>[1] = m.old /\ <<m.old, m.new>>[2] = m.new
      OBVIOUS
    <3> QED
      BY <3>1, <3>2, Plans_of_run
  <2>2. \A p \in rest : p \notin news \cup olds
    BY <1>7, <1>9, <1>10, <1>11
  <2> QED
    BY <1>7, <1>8, <1>9, <2>1, <2>2
<1>14. /\ run' \in Runs /\ run'.phase = IF strays = {} THEN "moves" ELSE "back"
       /\ run'.scan = run.scan /\ run'.held = run.held /\ run'.moves = run.moves
       /\ run'.todo = run.todo /\ run'.target = run.target /\ run'.plan = strays
       /\ run'.renames = {} /\ run'.unmoved = run.unmoved \cup rest
       /\ run'.uploads = run.uploads /\ run'.trash = run.trash
       /\ run'.verified = run.verified \cup news /\ run'.forgotten = run.forgotten \cup olds
  BY <1>1, <1>6, <1>13 DEF TypeOK, Runs, Phases
<1>15. TypeOK'
  BY <1>1, <1>3, <1>5, <1>12, <1>14 DEF TypeOK
<1>16. ScanInv'
  BY <1>1, <1>14 DEF ScanInv, Placing
(* A planned move that did not arrive leaves its entry alone. *)
<1>17. ASSUME NEW m \in run.plan \ done
       PROVE  /\ mem'[m.old] = mem[m.old] /\ mem'[m.new] = None
              /\ m.old \in Paths /\ m.new \in Paths
  <2>1. m.old \notin news \cup olds /\ m.new \notin news \cup olds
    BY <1>7, <1>9, <1>10, <1>11
  <2> QED
    BY <1>12, <2>1, Plans_of_run
<1>18. PlanInv'
  <2>1. \A m \in strays : /\ m \in run.plan \ done /\ m \in run.plan /\ m.needs_move
    BY <1>8
  <2>2. ASSUME NEW m \in strays
        PROVE  /\ <<m.old, m.new>> \in run.moves
               /\ Dir(m.new) = run.target /\ run.target \notin run.todo
               /\ mem'[m.old] # None /\ mem'[m.old].content = run.scan[m.new].content
               /\ mem'[m.new] = None
               /\ m.old_name = Name(mem'[m.old].at) /\ Dir(mem'[m.old].at) # run.target
               /\ Passes(m) => \A k \in run.plan : Name(k.new) # m.old_name
    BY <1>17, <2>1 DEF PlanInv
  <2> QED
    BY <1>10, <1>14, <2>1, <2>2 DEF PlanInv
<1>19. \A p \in Paths : run.scan[p] = None => p \notin news
  BY <1>13
<1>20. \A p \in Paths : (\A m \in run.moves : m[1] # p) => p \notin olds
  BY <1>13
<1>21. \A p \in run.trash : /\ p \in Paths /\ mem'[p] = mem[p] /\ mem[p] # None
                            /\ run.scan[p] = None /\ \A m \in run.moves : m[1] # p
  <2>1. \A p \in run.trash : /\ p \in Paths /\ mem[p] # None /\ run.scan[p] = None
                             /\ \A m \in run.moves : m[1] # p
    BY <1>1 DEF TrashInv, EntriesInv, Running, Moving, TypeOK, Runs
  <2> QED
    BY <1>12, <1>19, <1>20, <2>1
<1>22. \A p \in run.verified : /\ p \in Paths /\ mem'[p] = mem[p] /\ mem[p] # None
                               /\ mem[p].at = p /\ run.scan[p] # None
  <2>1. \A p \in run.verified : /\ p \in Paths /\ mem[p] # None
                                /\ mem[p].at = p /\ run.scan[p] # None
    BY <1>1 DEF EntriesInv, Running, Moving, TypeOK, Runs
  <2> QED
    BY <1>12, <1>13, <2>1
<1>23. EntriesInv'
  <2>1. ASSUME NEW m \in run.moves, Dir(m[2]) \in run.todo
        PROVE  /\ mem'[m[1]] # None
               /\ mem'[m[1]].content = run.scan[m[2]].content
               /\ mem'[m[2]] = None
    <3>1. /\ mem[m[1]] # None /\ mem[m[1]].content = run.scan[m[2]].content
          /\ mem[m[2]] = None
      BY <1>1, <2>1 DEF EntriesInv, Moving
    <3>2. m[1] \in Paths /\ m[2] \in Paths
      BY DEF TypeOK, Runs
    <3>3. \A k \in run.plan : m[1] # k.old /\ m[2] # k.new
      <4>1. SUFFICES ASSUME NEW k \in run.plan, m[1] = k.old \/ m[2] = k.new
                     PROVE  FALSE
        OBVIOUS
      <4>2. <<k.old, k.new>> \in run.moves /\ Dir(k.new) \notin run.todo
        BY DEF PlanInv
      <4>3. m[2] = k.new
        BY <4>1, <4>2 DEF ScanInv
      <4> QED
        BY <2>1, <4>2, <4>3
    <3>4. m[1] \notin news /\ m[2] \notin olds
      BY <1>13 DEF ScanInv
    <3>5. m[1] \notin news \cup olds /\ m[2] \notin news \cup olds
      BY <1>7, <1>9, <3>3, <3>4
    <3> QED
      BY <1>12, <3>1, <3>2, <3>5
  <2>2. ASSUME NEW p \in run.unmoved \cup rest
        PROVE  mem'[p] = None /\ Dir(p) \notin run.todo
    <3>1. CASE p \in run.unmoved
      <4>1. mem[p] = None /\ Dir(p) \notin run.todo /\ p \in Paths
        BY <1>1, <3>1 DEF EntriesInv, Moving, TypeOK, Runs
      <4>2. p \notin news
        <5>1. \A m \in run.plan : m.new \notin run.unmoved
          BY <1>1 DEF PlanInv
        <5> QED
          BY <1>7, <1>9, <3>1, <5>1
      <4>3. p \in olds => mem'[p] = None
        BY <1>9, <1>12
      <4> QED
        BY <1>12, <4>1, <4>2, <4>3
    <3>2. CASE p \in rest
      <4>1. run.target \notin run.todo
        BY <1>9, <3>2 DEF PlanInv
      <4> QED
        BY <1>12, <1>13, <3>2, <4>1
    <3> QED
      BY <3>1, <3>2
  <2>3. ASSUME NEW m \in run.moves, mem'[m[2]] # None
        PROVE  m[2] \in run.verified \cup news
    <3>1. m[2] \in Paths /\ m[2] \notin olds
      BY <1>13 DEF TypeOK, Runs, ScanInv
    <3>2. CASE m[2] \notin news
      BY <1>1, <1>12, <2>3, <3>1, <3>2 DEF EntriesInv, Moving
    <3> QED
      BY <3>2
  <2>4. /\ run.verified \cup run.unmoved \subseteq {m[2] : m \in run.moves}
        /\ run.uploads \cap {m[2] : m \in run.moves} = {}
    BY <1>1 DEF EntriesInv, Moving
  <2>5. \A p \in run.verified \cup news :
          run.scan[p] # None /\ mem'[p] # None /\ mem'[p].at = p
    BY <1>9, <1>12, <1>13, <1>22
  <2> QED
    BY <1>13, <1>14, <1>21, <2>1, <2>2, <2>3, <2>4, <2>5 DEF EntriesInv, Moving, Running
<1>24. TrashInv'
  BY <1>1, <1>14, <1>21 DEF TrashInv
<1>25. ApartInv'
  BY <1>1, <1>5 DEF ApartInv, Shared, Indexed
<1>26. ListedInv'
  <2> SUFFICES ASSUME woes' \subseteq {"orphaned"},
                      NEW p \in (listed \ (run.forgotten \cup olds)) \cup (run.verified \cup news)
               PROVE  mem'[p] # None /\ mem'[p].at = p
    BY <1>1, <1>14 DEF ListedInv
  <2>1. CASE p \in news
    BY <1>9, <1>12, <2>1
  <2>2. CASE p \in run.verified
    BY <1>22, <2>2
  <2>3. CASE p \in listed \ (run.forgotten \cup olds) /\ p \notin news
    <3>1. mem[p] # None /\ mem[p].at = p /\ p \in Paths
      BY <1>5, <2>3 DEF ListedInv, TypeOK
    <3> QED
      BY <1>12, <2>3, <3>1
  <2> QED
    BY <2>1, <2>2, <2>3
<1>27. ASSUME NEW m \in strays
       PROVE  Placed(m)' = Placed(m) /\ Spots(m)' = Spots(m)
  BY <1>8, <1>14, <1>17, <1>27 DEF Spots, Placed
<1>28. ASSUME NEW p \in Indexed(mem')
       PROVE  \/ \E m \in done : p = m.new
              \/ p \in Indexed(mem) /\ mem'[p] = mem[p] /\ p \notin news \cup olds
  BY <1>9, <1>12, <1>28 DEF Indexed
<1>29. DeliveredInv'
  <2> SUFFICES ASSUME "other" \notin woes', "shared" \notin woes',
                      NEW p \in run.verified \cup news
               PROVE  /\ drive[p] = run.scan[p].content
                      /\ \A m \in strays : p \notin Spots(m)
    BY <1>1, <1>14, <1>27 DEF DeliveredInv
  <2>1. CASE p \in run.verified
    BY <1>1, <1>5, <1>8, <2>1 DEF DeliveredInv, Running, Moving
  <2>2. CASE p \in news
    <3>1. PICK k \in done : p = k.new
      BY <1>9, <2>2
    <3>2. drive[p] = run.scan[p].content
      BY <1>7, <3>1, Plans_of_run
    <3>3. ASSUME NEW m \in strays
          PROVE  p \notin Spots(m)
      <4>1. /\ m \in run.plan \ done /\ m \in run.plan /\ m.needs_move /\ Passes(m)
            /\ k \in run.plan /\ m # k
        BY <1>7, <1>8
      <4>2. p # m.new
        BY <1>10, <3>1, <4>1
      <4>3. p # Placed(m)
        <5>1. Name(k.new) # m.old_name
          BY <4>1 DEF PlanInv
        <5>2. Placed(m) = <<run.target, m.old_name>>
          BY <4>1 DEF Placed
        <5> QED
          BY <3>1, <5>1, <5>2 DEF Name
      <4>4. p # At(m)
        <5>1. ~Shared(mem')
          BY <1>5
        <5>2. /\ mem'[m.old] = mem[m.old] /\ m.old \in Paths /\ mem[m.old] # None
          BY <1>17, <4>1, Plans_of_run
        <5>3. mem'[p] # None /\ mem'[p].at = p /\ p \in Paths
          BY <1>12, <1>13, <2>2, <3>1
        <5>4. m.old # p
          BY <1>11, <3>1, <4>1
        <5> QED
          BY <5>1, <5>2, <5>3, <5>4 DEF Shared, Indexed
      <4> QED
        BY <4>2, <4>3, <4>4 DEF Spots
    <3> QED
      BY <3>2, <3>3
  <2> QED
    BY <2>1, <2>2
(* Undisturbed, every planned move waits, is on its way or has arrived.    *)
<1>30. ASSUME woes' \subseteq {"orphaned"}
       PROVE  /\ ~fails
              /\ \A m \in run.plan : Waits(m) \/ Passed(m) \/ Arrived(m)
              /\ \A m, k \in run.plan : k # m => Spots(m) \cap Spots(k) = {}
              /\ \A m \in run.plan : \A p \in Indexed(mem) : p # m.old => mem[p].at \notin Spots(m)
              /\ \A p \in Indexed(mem) : drive[mem[p].at] # None \/ \E m \in run.plan : m.old = p
              /\ \A m \in strays : Passed(m)
              /\ \A m \in run.plan \ done : Waits(m) \/ m \in strays
              /\ \A m \in done : Arrived(m)
  <2>1. /\ ~fails /\ woes \subseteq {"orphaned"}
    BY <1>5, <1>30
  <2>2. /\ \A m \in run.plan : Waits(m) \/ Passed(m) \/ Arrived(m)
        /\ \A m, k \in run.plan : k # m => Spots(m) \cap Spots(k) = {}
        /\ \A m \in run.plan : \A p \in Indexed(mem) : p # m.old => mem[p].at \notin Spots(m)
        /\ \A p \in Indexed(mem) : drive[mem[p].at] # None \/ \E m \in run.plan : m.old = p
    BY <1>1, <2>1 DEF NodesInv
  <2>3. \A m \in run.plan : mem[m.old].content # None
    BY Plans_of_run, ContentsAssumption
  <2>4. ASSUME NEW m \in strays
        PROVE  Passed(m)
    <3>1. /\ m \in run.plan /\ m.needs_move /\ Passes(m)
          /\ drive[<<run.target, m.old_name>>] # None
      BY <1>8
    <3>2. Placed(m) = <<run.target, m.old_name>> /\ Placed(m) # m.new
      BY <3>1, Plans_of_run
    <3>3. ~Waits(m) /\ ~Arrived(m)
      BY <3>1, <3>2 DEF Waits, Arrived
    <3> QED
      BY <2>2, <3>1, <3>3
  <2>5. \A m \in run.plan \ done : Waits(m) \/ m \in strays
    BY <1>7, <1>8, <2>1, <2>2, <2>3 DEF Passed, Arrived, Placed
  <2>6. \A m \in done : Arrived(m)
    BY <1>7, <2>2, <2>3 DEF Waits, Passed
  <2> QED
    BY <2>1, <2>2, <2>4, <2>5, <2>6
<1>31. NodesInv'
  <2> SUFFICES ASSUME woes' \subseteq {"orphaned"}
               PROVE  /\ \A m \in strays :
                           /\ Passed(m)'
                           /\ \A k \in strays : k # m => Spots(m) \cap Spots(k) = {}
                           /\ \A p \in Indexed(mem') : p # m.old => mem'[p].at \notin Spots(m)
                      /\ \A p \in Indexed(mem') :
                           drive[mem'[p].at] # None \/ \E m \in strays : m.old = p
    BY <1>1, <1>14, <1>27 DEF NodesInv, Indexed
  <2>1. \A m \in strays : Passed(m)'
    BY <1>1, <1>8, <1>17, <1>27, <1>30 DEF Passed
  <2>2. \A m, k \in strays : k # m => Spots(m) \cap Spots(k) = {}
    BY <1>8, <1>30
  <2>3. ASSUME NEW m \in strays, NEW p \in Indexed(mem'), p # m.old
        PROVE  mem'[p].at \notin Spots(m)
    <3>1. m \in run.plan /\ m \notin done
      BY <1>8
    <3>2. CASE \E k \in done : p = k.new
      <4>1. PICK k \in done : p = k.new
        BY <3>2
      <4>2. mem'[p].at = k.new /\ k \in run.plan /\ k # m
        BY <1>7, <1>12, <3>1, <4>1
      <4>3. Spots(m) \cap Spots(k) = {}
        BY <1>30, <3>1, <4>2
      <4> QED
        BY <4>2, <4>3 DEF Spots
    <3>3. CASE p \in Indexed(mem) /\ mem'[p] = mem[p]
      BY <1>30, <2>3, <3>1, <3>3
    <3> QED
      BY <1>28, <3>2, <3>3
  <2>4. ASSUME NEW p \in Indexed(mem')
        PROVE  drive[mem'[p].at] # None \/ \E m \in strays : m.old = p
    <3>1. CASE \E k \in done : p = k.new
      <4>1. PICK k \in done : p = k.new
        BY <3>1
      <4>2. drive[k.new] # None
        BY <1>7, <4>1, Plans_of_run, ContentsAssumption
      <4> QED
        BY <1>12, <4>1, <4>2
    <3>2. CASE p \in Indexed(mem) /\ mem'[p] = mem[p] /\ p \notin news \cup olds
      <4>1. CASE \E m \in run.plan : m.old = p
        <5>1. PICK m \in run.plan : m.old = p
          BY <4>1
        <5>2. m \notin done
          BY <1>9, <3>2, <5>1
        <5>3. CASE Waits(m)
          BY <3>2, <5>1, <5>3, Plans_of_run, ContentsAssumption DEF Waits
        <5> QED
          BY <1>30, <5>1, <5>2, <5>3
      <4> QED
        BY <1>30, <3>2, <4>1
    <3> QED
      BY <1>28, <3>1, <3>2
  <2> QED
    BY <2>1, <2>2, <2>3, <2>4
<1>32. StrayInv'
  <2> SUFFICES ASSUME woes' = {}, NEW p \in Paths \ homes, drive[p] # None
               PROVE  \/ \E o \in Indexed(mem') : mem'[o].at = p
                      \/ \E m \in strays : Placed(m) = p
    BY <1>1, <1>14, <1>27 DEF StrayInv, Indexed
  <2>1. ASSUME NEW m \in run.plan, m \notin done, At(m) = p
        PROVE  \E o \in Indexed(mem') : mem'[o].at = p
    BY <1>17, <2>1, Plans_of_run DEF Indexed
  <2>2. \A m \in done : At(m) # p
    BY <1>30 DEF Arrived
  <2>3. CASE \E o \in Indexed(mem) : mem[o].at = p
    <3>1. PICK o \in Indexed(mem) : mem[o].at = p
      BY <2>3
    <3>2. o \notin olds
      BY <1>9, <2>2, <3>1
    <3>3. o \notin news
      BY <1>13 DEF Indexed
    <3> QED
      BY <1>12, <3>1, <3>2, <3>3 DEF Indexed
  <2>4. CASE \E m \in run.plan : Placed(m) = p
    <3>1. PICK m \in run.plan : Placed(m) = p
      BY <2>4
    <3>2. m.new # p
      BY <3>1, Plans_of_run
    <3>3. ~Arrived(m)
      BY <3>1, <3>2 DEF Arrived
    <3>4. m \notin done
      BY <1>30, <3>3
    <3>5. CASE Waits(m)
      <4>1. At(m) = p
        BY <3>1, <3>5 DEF Waits, Placed
      <4> QED
        BY <2>1, <3>4, <4>1
    <3> QED
      BY <1>30, <3>1, <3>4, <3>5
  <2> QED
    BY <1>1, <1>5, <2>3, <2>4 DEF StrayInv
<1> QED
  BY <1>15, <1>16, <1>18, <1>23, <1>24, <1>25, <1>26, <1>29, <1>31, <1>32

(* A node that was moved and not renamed goes back, or is recorded where   *)
(* it is; nothing else of the plan is touched.                             *)
LEMMA PutBackHolds ==
  ASSUME MovesInv, PutBack
  PROVE  MovesInv'
<1> USE DEF MovesInv
<1> DEFINE At(m) == mem[m.old].at
<1>1. run.phase = "back" /\ UNCHANGED <<local, disk, listed, homes>>
  BY DEF PutBack
<1>2. PICK m \in run.plan, fails \in BOOLEAN, blind \in BOOLEAN :
        LET stray == <<run.target, m.old_name>>
            home == <<Dir(mem[m.old].at), m.old_name>>
            back == ~fails /\ drive[stray] # None /\ drive[home] = None
            gone == ~blind /\ (back \/ drive[stray] = None)
        IN /\ Spend(0, (IF fails THEN 1 ELSE 0) + (IF blind THEN 1 ELSE 0))
           /\ drive' = IF back THEN [drive EXCEPT ![home] = drive[stray], ![stray] = None]
                       ELSE drive
           /\ mem' = IF gone THEN mem ELSE [mem EXCEPT ![m.old] = Astray(@, stray)]
           /\ Woe(Mark(blind, "blind") \cup Mark(Shared(mem'), "shared"))
           /\ run' = [run EXCEPT
                !.phase = IF run.plan = {m} THEN "moves" ELSE "back", !.plan = @ \ {m},
                !.forgotten = IF gone THEN @ ELSE @ \cup {m.old}]
  BY DEF PutBack
<1> DEFINE stray == Placed(m)
           home == At(m)
           back == ~fails /\ drive[stray] # None /\ drive[home] = None
           gone == ~blind /\ (back \/ drive[stray] = None)
<1>3. /\ stray \in Paths /\ home \in Paths /\ m.old \in Paths
      /\ mem[m.old] \in Entries /\ mem[m.old] # None
      /\ run.scan[m.old] = None /\ m.needs_move
      /\ stray = <<run.target, m.old_name>> /\ m.old_name = Name(home)
  BY <1>1, Plans_of_run DEF PlanInv
<1>4. home = <<Dir(mem[m.old].at), m.old_name>>
  BY <1>3, PathIs
<1>5. stray # home
  <2>1. Dir(home) # run.target
    BY <1>3 DEF PlanInv
  <2> QED
    BY <1>3, <2>1 DEF Dir
<1>6. left' \in [edits : Nat, mishaps : Nat, events : Nat]
  <2> DEFINE n == (IF fails THEN 1 ELSE 0) + (IF blind THEN 1 ELSE 0)
  <2>1. Spend(0, n) /\ n \in Nat
    BY <1>2
  <2> HIDE DEF n
  <2> QED
    BY <2>1, Spent
<1>7. /\ drive' = IF back THEN [drive EXCEPT ![home] = drive[stray], ![stray] = None]
                  ELSE drive
      /\ mem' = IF gone THEN mem ELSE [mem EXCEPT ![m.old] = Astray(@, stray)]
      /\ run' = [run EXCEPT
           !.phase = IF run.plan = {m} THEN "moves" ELSE "back", !.plan = @ \ {m},
           !.forgotten = IF gone THEN @ ELSE @ \cup {m.old}]
  BY <1>2, <1>3, <1>4
<1>8. /\ woes \subseteq woes' /\ woes' \subseteq woes \cup {"blind", "shared"}
      /\ "blind" \notin woes' => ~blind
      /\ "shared" \notin woes' => ~Shared(mem')
  BY <1>2 DEF Woe, Mark
<1>9. /\ back => ~fails /\ drive[stray] # None /\ drive[home] = None
      /\ gone <=> ~blind /\ (back \/ drive[stray] = None)
  OBVIOUS
<1> HIDE DEF stray, home, back, gone
<1>10. /\ drive' \in [Paths -> Contents \cup {None}]
       /\ \A p \in Paths \ {stray, home} : drive'[p] = drive[p]
       /\ ~back => drive' = drive
       /\ back => drive'[stray] = None /\ drive'[home] = drive[stray]
  BY <1>3, <1>5, <1>7 DEF TypeOK
<1>11. /\ Astray(mem[m.old], stray) \in Entries
       /\ Astray(mem[m.old], stray).at = stray
       /\ Astray(mem[m.old], stray).content = mem[m.old].content
  BY <1>3 DEF Astray, Entries
<1>12. /\ mem' \in [Paths -> Entries \cup {None}]
       /\ gone => mem' = mem
       /\ ~gone => mem'[m.old].at = stray
       /\ \A p \in Paths : p # m.old => mem'[p] = mem[p]
       /\ \A p \in Paths : mem'[p] = None <=> mem[p] = None
       /\ \A p \in Paths : mem'[p].content = mem[p].content
  BY <1>3, <1>7, <1>11, EntryAssumption DEF TypeOK
<1>13. /\ run' \in Runs /\ run'.phase = IF run.plan = {m} THEN "moves" ELSE "back"
       /\ run'.scan = run.scan /\ run'.held = run.held /\ run'.moves = run.moves
       /\ run'.todo = run.todo /\ run'.target = run.target /\ run'.plan = run.plan \ {m}
       /\ run'.renames = run.renames /\ run'.unmoved = run.unmoved
       /\ run'.uploads = run.uploads /\ run'.trash = run.trash
       /\ run'.verified = run.verified
       /\ run'.forgotten = IF gone THEN run.forgotten ELSE run.forgotten \cup {m.old}
  BY <1>3, <1>7 DEF TypeOK, Runs, Phases
<1>14. TypeOK'
  BY <1>1, <1>6, <1>8, <1>10, <1>12, <1>13 DEF TypeOK
<1>15. ScanInv'
  BY <1>1, <1>13 DEF ScanInv, Placing
(* The other planned moves. *)
<1>16. ASSUME NEW k \in run.plan, k # m
       PROVE  /\ k.old \in Paths /\ k.new \in Paths /\ k.old # m.old /\ k.new # m.old
              /\ mem'[k.old] = mem[k.old] /\ mem'[k.new] = mem[k.new]
              /\ Placed(k)' = Placed(k) /\ Spots(k)' = Spots(k)
  <2>1. /\ k.old \in Paths /\ k.new \in Paths /\ mem[k.new] = None
    BY Plans_of_run
  <2>2. k.old # m.old
    BY <1>16 DEF PlanInv
  <2>3. mem'[k.old] = mem[k.old] /\ mem'[k.new] = mem[k.new]
    BY <1>3, <1>12, <2>1, <2>2
  <2> QED
    BY <1>3, <1>13, <2>1, <2>2, <2>3 DEF Spots, Placed
<1>17. PlanInv'
  BY <1>1, <1>13, <1>16 DEF PlanInv
<1>18. \A p \in run.verified : /\ p \in Paths /\ p # m.old /\ mem'[p] = mem[p]
                               /\ mem[p] # None /\ mem[p].at = p /\ run.scan[p] # None
  <2>1. \A p \in run.verified : /\ p \in Paths /\ mem[p] # None
                                /\ mem[p].at = p /\ run.scan[p] # None
    BY <1>1 DEF EntriesInv, Running, Moving, TypeOK, Runs
  <2> QED
    BY <1>3, <1>12, <2>1
<1>19. EntriesInv'
  <2>1. \A x \in run.moves : x[1] \in Paths /\ x[2] \in Paths
    BY DEF TypeOK, Runs
  <2>2. run.unmoved \subseteq Paths /\ run.trash \subseteq Paths
    BY DEF TypeOK, Runs
  <2>3. \A x \in run.moves : Dir(x[2]) \in run.todo =>
          /\ mem'[x[1]] # None
          /\ mem'[x[1]].content = run.scan[x[2]].content
          /\ mem'[x[2]] = None
    BY <1>1, <1>12, <2>1 DEF EntriesInv, Moving
  <2>4. /\ \A p \in run.unmoved : mem'[p] = None /\ Dir(p) \notin run.todo
        /\ run.verified \cup run.unmoved \subseteq {x[2] : x \in run.moves}
        /\ run.uploads \cap {x[2] : x \in run.moves} = {}
    BY <1>1, <1>12, <2>2 DEF EntriesInv, Moving
  <2>5. \A x \in run.moves : mem'[x[2]] # None => x[2] \in run.verified
    BY <1>1, <1>12, <2>1 DEF EntriesInv, Moving
  <2>6. \A p \in run.trash : mem'[p] # None /\ run.scan[p] = None
    BY <1>1, <1>12, <2>2 DEF EntriesInv, Moving, Running
  <2> QED
    BY <1>13, <1>18, <2>3, <2>4, <2>5, <2>6 DEF EntriesInv, Moving
<1>20. TrashInv'
  <2>1. \A p \in run.trash : mem'[p].content = mem[p].content
    BY <1>12 DEF TypeOK, Runs
  <2> QED
    BY <1>1, <1>13, <2>1 DEF TrashInv
<1>21. ApartInv'
  BY <1>1, <1>8 DEF ApartInv, Shared, Indexed
<1>22. DeliveredInv'
  <2> SUFFICES ASSUME "other" \notin woes', "shared" \notin woes', NEW p \in run.verified
               PROVE  /\ drive'[p] = run.scan[p].content
                      /\ \A k \in run.plan \ {m} : p \notin Spots(k)
    BY <1>13, <1>16 DEF DeliveredInv
  <2>1. /\ drive[p] = run.scan[p].content /\ p \in Paths
        /\ \A k \in run.plan : p \notin Spots(k)
    BY <1>1, <1>8, <1>18 DEF DeliveredInv, Running, Moving
  <2>2. p # stray /\ p # home
    BY <2>1 DEF Spots, stray, home
  <2> QED
    BY <1>10, <2>1, <2>2
(* Undisturbed, the node is back, or its entry names it where it is. *)
<1>23. ASSUME woes' \subseteq {"orphaned"}
       PROVE  /\ gone <=> back
              /\ drive[home] = None /\ drive[stray] # None
              /\ \A x \in run.plan : Passed(x)
              /\ \A x, k \in run.plan : k # x => Spots(x) \cap Spots(k) = {}
              /\ \A x \in run.plan : \A p \in Indexed(mem) : p # x.old => mem[p].at \notin Spots(x)
              /\ \A p \in Indexed(mem) : drive[mem[p].at] # None \/ \E x \in run.plan : x.old = p
  <2>1. woes \subseteq {"orphaned"} /\ ~blind
    BY <1>8, <1>23
  <2>2. /\ \A x \in run.plan : Passed(x)
        /\ \A x, k \in run.plan : k # x => Spots(x) \cap Spots(k) = {}
        /\ \A x \in run.plan : \A p \in Indexed(mem) : p # x.old => mem[p].at \notin Spots(x)
        /\ \A p \in Indexed(mem) : drive[mem[p].at] # None \/ \E x \in run.plan : x.old = p
    BY <1>1, <2>1 DEF NodesInv
  <2>3. drive[home] = None /\ drive[stray] # None
    <3>1. Passed(m) /\ mem[m.old].content # None
      BY <2>2, Plans_of_run, ContentsAssumption
    <3> QED
      BY <3>1 DEF Passed, stray, home
  <2> QED
    BY <1>9, <2>1, <2>2, <2>3
<1>24. NodesInv'
  <2> SUFFICES ASSUME woes' \subseteq {"orphaned"}
               PROVE  /\ \A x \in run.plan \ {m} :
                           /\ Passed(x)'
                           /\ \A k \in run.plan \ {m} : k # x => Spots(x) \cap Spots(k) = {}
                           /\ \A p \in Indexed(mem') : p # x.old => mem'[p].at \notin Spots(x)
                      /\ \A p \in Indexed(mem') :
                           \/ drive'[mem'[p].at] # None
                           \/ \E x \in run.plan \ {m} : x.old = p
    BY <1>13, <1>16 DEF NodesInv, Indexed
  <2>1. ASSUME NEW x \in run.plan, x # m
        PROVE  stray \notin Spots(x) /\ home \notin Spots(x)
    BY <1>23, <2>1 DEF Spots, stray, home
  <2>2. ASSUME NEW x \in run.plan, x # m
        PROVE  Passed(x)'
    <3>1. /\ At(x) \in Paths /\ Placed(x) \in Paths /\ x.new \in Paths
      BY Plans_of_run
    <3>2. /\ drive'[At(x)] = drive[At(x)] /\ drive'[Placed(x)] = drive[Placed(x)]
          /\ drive'[x.new] = drive[x.new]
      BY <1>10, <2>1, <2>2, <3>1 DEF Spots
    <3> QED
      BY <1>16, <1>23, <2>2, <3>2 DEF Passed, Passes
  <2>3. ASSUME NEW x \in run.plan, x # m, NEW p \in Indexed(mem'), p # x.old
        PROVE  mem'[p].at \notin Spots(x)
    <3>1. CASE p = m.old
      BY <1>12, <2>1, <2>3, <3>1 DEF home
    <3>2. CASE p # m.old
      <4>1. p \in Indexed(mem) /\ mem'[p] = mem[p]
        BY <1>12, <3>2 DEF Indexed
      <4> QED
        BY <1>23, <2>3, <4>1
    <3> QED
      BY <3>1, <3>2
  <2>4. ASSUME NEW p \in Indexed(mem'), ~\E x \in run.plan \ {m} : x.old = p
        PROVE  drive'[mem'[p].at] # None
    <3>1. CASE p = m.old
      BY <1>10, <1>12, <1>23, <3>1 DEF home
    <3>2. CASE p # m.old
      <4>1. p \in Indexed(mem) /\ mem'[p] = mem[p] /\ mem[p].at \in Paths
        BY <1>12, <3>2 DEF Indexed, TypeOK, Entries
      <4>2. mem[p].at \notin Spots(m)
        BY <1>23, <3>2, <4>1
      <4>3. drive'[mem[p].at] = drive[mem[p].at]
        BY <1>10, <4>1, <4>2 DEF Spots, stray, home
      <4> QED
        BY <1>23, <2>4, <3>2, <4>1, <4>3
    <3> QED
      BY <3>1, <3>2
  <2> QED
    BY <1>23, <2>2, <2>3, <2>4
<1>25. ListedInv'
  <2> SUFFICES ASSUME woes' \subseteq {"orphaned"},
                      NEW p \in (listed \ run'.forgotten) \cup run.verified
               PROVE  mem'[p] # None /\ mem'[p].at = p
    BY <1>1, <1>13 DEF ListedInv
  <2>1. CASE p \in run.verified
    BY <1>18, <2>1
  <2>2. CASE p \in listed \ run'.forgotten
    <3>1. mem[p] # None /\ mem[p].at = p /\ p \in Paths
      BY <1>8, <1>13, <2>2 DEF ListedInv, TypeOK
    <3>2. ~gone => p # m.old
      BY <1>13, <2>2
    <3> QED
      BY <1>12, <3>1, <3>2
  <2> QED
    BY <2>1, <2>2
<1>26. StrayInv'
  <2> SUFFICES ASSUME woes' = {}, NEW p \in Paths \ homes, drive'[p] # None
               PROVE  \/ \E o \in Indexed(mem') : mem'[o].at = p
                      \/ \E x \in run.plan \ {m} : run'.phase = "back" /\ Placed(x) = p
    BY <1>1, <1>13, <1>16 DEF StrayInv, Indexed
  <2>1. m.old \in Indexed(mem')
    BY <1>3, <1>12 DEF Indexed
  <2>2. CASE p = stray
    BY <1>10, <1>12, <1>23, <2>1, <2>2
  <2>3. CASE p = home
    BY <1>10, <1>12, <1>23, <2>1, <2>3 DEF home
  <2>4. CASE p # stray /\ p # home
    <3>1. drive[p] # None
      BY <1>10, <2>4
    <3>2. CASE \E o \in Indexed(mem) : mem[o].at = p
      <4>1. PICK o \in Indexed(mem) : mem[o].at = p
        BY <3>2
      <4>2. o # m.old
        BY <2>4, <4>1 DEF home
      <4> QED
        BY <1>12, <4>1, <4>2 DEF Indexed
    <3>3. CASE \E x \in run.plan : Placed(x) = p
      <4>1. PICK x \in run.plan : Placed(x) = p
        BY <3>3
      <4>2. x # m
        BY <2>4, <4>1 DEF stray
      <4> QED
        BY <1>13, <4>1, <4>2
    <3> QED
      BY <1>1, <1>8, <3>1, <3>2, <3>3 DEF StrayInv
  <2> QED
    BY <2>2, <2>3, <2>4
<1> QED
  BY <1>14, <1>15, <1>17, <1>19, <1>20, <1>21, <1>22, <1>24, <1>25, <1>26

-----------------------------------------------------------------------------
(* Between the moves and the uploads: what was not moved is uploaded too.  *)
LEMMA CheckpointHolds ==
  ASSUME MovesInv, Checkpoint
  PROVE  MovesInv'
<1> USE DEF MovesInv
<1>1. /\ run.phase = "moves" /\ run.plan = {}
      /\ UNCHANGED <<local, drive, mem, listed, left, homes, woes>>
      /\ disk' = mem \/ disk' = disk
  BY DEF Checkpoint, ScanInv, Placing
<1>2. Whole_dirs(mem, run.scan, run.uploads \cup run.unmoved) \in SUBSET Dirs
  BY DEF Whole_dirs
<1>3. /\ run' \in Runs /\ run'.phase = "uploads"
      /\ run'.scan = run.scan /\ run'.held = run.held /\ run'.moves = run.moves
      /\ run'.plan = {} /\ run'.trash = run.trash
      /\ run'.uploads = run.uploads \cup run.unmoved
      /\ run'.verified = run.verified /\ run'.forgotten = run.forgotten
  <2> DEFINE whole == Whole_dirs(mem, run.scan, run.uploads \cup run.unmoved)
             uploads == run.uploads \cup run.unmoved
  <2>1. run' = [run EXCEPT !.phase = "uploads", !.uploads = uploads, !.whole = whole]
    BY DEF Checkpoint
  <2>2. whole \in SUBSET Dirs /\ uploads \in SUBSET Paths
    BY <1>2 DEF TypeOK, Runs
  <2> HIDE DEF whole
  <2> QED
    BY <1>1, <2>1, <2>2 DEF TypeOK, Runs, Phases
<1>4. TypeOK'
  BY <1>1, <1>3 DEF TypeOK
<1>5. ScanInv' /\ PlanInv'
  BY <1>1, <1>3 DEF ScanInv, PlanInv
<1>6. EntriesInv'
  <2>1. run.verified \cap (run.uploads \cup run.unmoved) = {}
    BY <1>1 DEF EntriesInv, Moving
  <2> QED
    BY <1>1, <1>3, <2>1 DEF EntriesInv, Moving, Running
<1>7. TrashInv'
  BY <1>1, <1>3 DEF TrashInv
<1>8. ApartInv' /\ ListedInv'
  BY <1>1, <1>3 DEF ApartInv, ListedInv, Shared, Indexed
<1>9. DeliveredInv' /\ NodesInv' /\ StrayInv'
  BY <1>1, <1>3 DEF DeliveredInv, NodesInv, StrayInv, Running, Moving, Indexed
<1> QED
  BY <1>4, <1>5, <1>6, <1>7, <1>8, <1>9

(* What an upload sends is on Drive, and what it verifies is recorded; a   *)
(* node that was there is there.                                           *)
LEMMA UploadedHolds ==
  ASSUME MovesInv, NEW rels \in SUBSET run.uploads, Uploaded(rels),
         UNCHANGED <<local, disk, listed, homes>>,
         left' \in [edits : Nat, mishaps : Nat, events : Nat],
         run.phase = "uploads", run' \in Runs, run'.phase = "uploads",
         run'.scan = run.scan, run'.held = run.held, run'.moves = run.moves,
         run'.plan = run.plan, run'.trash = run.trash,
         run'.uploads \subseteq run.uploads \ Verifies(rels),
         run'.verified = run.verified \cup Verifies(rels),
         run'.forgotten = run.forgotten
  PROVE  MovesInv'
<1> USE DEF MovesInv
<1> DEFINE sent == Sends(rels)
           new == Verifies(rels)
<1>1. /\ sent \subseteq run.uploads /\ run.uploads \subseteq Paths
      /\ \A p \in sent : local[p] # None
      /\ new \subseteq sent
      /\ \A p \in new : run.scan[p] # None /\ local[p].content = run.scan[p].content
  BY DEF Sends, Verifies, TypeOK, Runs
<1>2. /\ drive' = [p \in Paths |-> IF p \in sent THEN local[p].content ELSE drive[p]]
      /\ mem' = [p \in Paths |-> IF p \in new THEN Entry(run.scan[p], p) ELSE mem[p]]
  BY DEF Uploaded
<1>3. /\ woes \subseteq woes' /\ woes' \subseteq woes \cup {"shared", "orphaned"}
      /\ "shared" \notin woes' => ~Shared(mem')
      /\ "orphaned" \notin woes' => ~\E p \in new : mem[p] # None /\ mem[p].at # p
  BY DEF Uploaded, Woe, Mark
<1> HIDE DEF sent, new
<1>4. /\ run'.uploads \subseteq run.uploads \ new
      /\ run'.verified = run.verified \cup new
  BY DEF new
<1>5. \A p \in sent : local[p].content \in Contents /\ p \in homes
  <2>1. \A p \in sent : p \in Paths /\ local[p] \in Files
    BY <1>1 DEF TypeOK
  <2> QED
    BY <1>1, <2>1 DEF Files, ScanInv
<1>6. \A p \in new : /\ Entry(run.scan[p], p) \in Entries /\ Entry(run.scan[p], p) # None
                     /\ Entry(run.scan[p], p).at = p
  <2>1. \A p \in new : p \in Paths /\ run.scan[p] \in Files
    BY <1>1 DEF TypeOK, Runs
  <2> QED
    BY <2>1, EntryTyped
<1>7. /\ drive' \in [Paths -> Contents \cup {None}]
      /\ \A p \in sent : drive'[p] = local[p].content
      /\ \A p \in Paths \ sent : drive'[p] = drive[p]
  BY <1>1, <1>2, <1>5 DEF TypeOK
<1>8. \A p \in Paths : drive[p] # None => drive'[p] # None
  BY <1>5, <1>7, ContentsAssumption
<1>9. /\ mem' \in [Paths -> Entries \cup {None}]
      /\ \A p \in new : mem'[p] # None /\ mem'[p].at = p
      /\ \A p \in Paths \ new : mem'[p] = mem[p]
  BY <1>1, <1>2, <1>6 DEF TypeOK
<1>10. run.plan = {}
  BY DEF ScanInv, Placing
<1>11. \A p \in run.verified : /\ p \in Paths /\ p \notin sent /\ p \notin new
                               /\ mem[p] # None /\ mem[p].at = p /\ run.scan[p] # None
  BY <1>1 DEF EntriesInv, Running, TypeOK, Runs
<1>12. \A p \in run.trash : /\ p \in Paths /\ p \notin new
                            /\ mem[p] # None /\ run.scan[p] = None
  BY <1>1 DEF EntriesInv, Running, TypeOK, Runs
<1>13. TypeOK'
  BY <1>3, <1>7, <1>9 DEF TypeOK
<1>14. ScanInv'
  BY DEF ScanInv
<1>15. PlanInv'
  BY <1>10 DEF PlanInv
<1>16. EntriesInv'
  <2>1. \A m \in run.moves : mem'[m[2]] # None => m[2] \in run.verified \cup new
    <3>1. \A m \in run.moves : m[2] \in Paths
      BY DEF TypeOK, Runs
    <3> QED
      BY <1>9, <3>1 DEF EntriesInv
  <2>2. (run.verified \cup new) \cap run'.uploads = {}
    BY <1>4 DEF EntriesInv
  <2>3. \A p \in run.verified \cup new :
          run.scan[p] # None /\ mem'[p] # None /\ mem'[p].at = p
    BY <1>1, <1>9, <1>11
  <2>4. \A p \in run.trash : mem'[p] # None /\ run.scan[p] = None
    BY <1>9, <1>12
  <2> QED
    BY <1>4, <2>1, <2>2, <2>3, <2>4 DEF EntriesInv, Moving
<1>17. TrashInv'
  <2>1. \A p \in run.trash : mem'[p] = mem[p]
    BY <1>9, <1>12
  <2> QED
    BY <2>1 DEF TrashInv
<1>18. ApartInv'
  BY <1>3 DEF ApartInv, Shared, Indexed
<1>19. DeliveredInv'
  <2> SUFFICES ASSUME "other" \notin woes, "shared" \notin woes, NEW p \in run.verified \cup new
               PROVE  drive'[p] = run.scan[p].content
    BY <1>3, <1>4, <1>10 DEF DeliveredInv
  <2>1. CASE p \in new
    BY <1>1, <1>7, <2>1
  <2>2. CASE p \in run.verified
    BY <1>7, <1>11, <2>2 DEF DeliveredInv, Running
  <2> QED
    BY <2>1, <2>2
<1>20. NodesInv'
  <2> SUFFICES ASSUME woes' \subseteq {"orphaned"}, NEW p \in Indexed(mem')
               PROVE  drive'[mem'[p].at] # None
    BY <1>10 DEF NodesInv, Indexed
  <2>1. CASE p \in new
    BY <1>1, <1>5, <1>7, <1>9, <2>1, ContentsAssumption
  <2>2. CASE p \notin new
    <3>1. mem'[p] = mem[p] /\ p \in Indexed(mem) /\ mem[p].at \in Paths
      BY <1>9, <2>2 DEF Indexed, TypeOK, Entries
    <3>2. drive[mem[p].at] # None
      BY <1>3, <1>10, <3>1 DEF NodesInv
    <3> QED
      BY <1>8, <3>1, <3>2
  <2> QED
    BY <2>1, <2>2
<1>21. ListedInv'
  <2> SUFFICES ASSUME woes' \subseteq {"orphaned"},
                      NEW p \in (listed \ run.forgotten) \cup (run.verified \cup new)
               PROVE  mem'[p] # None /\ mem'[p].at = p
    BY <1>4 DEF ListedInv
  <2>1. CASE p \in new
    BY <1>9, <2>1
  <2>2. CASE p \notin new
    <3>1. mem[p] # None /\ mem[p].at = p /\ p \in Paths
      BY <1>3, <2>2 DEF ListedInv, TypeOK, Runs
    <3> QED
      BY <1>9, <2>2, <3>1
  <2> QED
    BY <2>1, <2>2
<1>22. StrayInv'
  <2> SUFFICES ASSUME woes' = {}, NEW p \in Paths \ homes, drive'[p] # None
               PROVE  \E o \in Indexed(mem') : mem'[o].at = p
    BY DEF StrayInv, Indexed
  <2>1. drive[p] # None
    BY <1>5, <1>7
  <2>2. PICK o \in Indexed(mem) : mem[o].at = p
    BY <1>3, <1>10, <2>1 DEF StrayInv
  <2>3. o \notin new
    BY <1>1, <1>3, <1>5, <2>2 DEF Indexed
  <2> QED
    BY <1>9, <2>2, <2>3 DEF Indexed
<1> QED
  BY <1>13, <1>14, <1>15, <1>16, <1>17, <1>18, <1>19, <1>20, <1>21, <1>22

LEMMA UploadHolds ==
  ASSUME MovesInv, Upload
  PROVE  MovesInv'
<1> USE DEF MovesInv
<1>1. PICK p \in run.uploads, fails \in BOOLEAN :
        LET rels == IF fails THEN {} ELSE {p}
        IN /\ Spend(0, IF fails THEN 1 ELSE 0)
           /\ Uploaded(rels)
           /\ run' = [run EXCEPT !.uploads = @ \ {p}, !.verified = @ \cup Verifies(rels)]
  BY DEF Upload
<1> DEFINE rels == IF fails THEN {} ELSE {p}
           new == Verifies(rels)
<1>2. /\ rels \in SUBSET run.uploads /\ new \subseteq {p} /\ p \in Paths
  BY DEF Verifies, Sends, TypeOK, Runs
<1>3. left' \in [edits : Nat, mishaps : Nat, events : Nat]
  BY <1>1, Spent
<1>4. /\ run.phase = "uploads" /\ UNCHANGED <<local, disk, listed, homes>>
      /\ Uploaded(rels)
      /\ run' = [run EXCEPT !.uploads = @ \ {p}, !.verified = @ \cup new]
  BY <1>1 DEF Upload
<1> HIDE DEF new
<1>5. /\ run' \in Runs /\ run'.phase = "uploads"
      /\ run'.scan = run.scan /\ run'.held = run.held /\ run'.moves = run.moves
      /\ run'.plan = run.plan /\ run'.trash = run.trash
      /\ run'.uploads \subseteq run.uploads \ new
      /\ run'.verified = run.verified \cup new
      /\ run'.forgotten = run.forgotten
  BY <1>2, <1>4 DEF TypeOK, Runs
<1> USE DEF new
<1> HIDE DEF rels
<1> QED
  BY <1>2, <1>3, <1>4, <1>5, UploadedHolds

LEMMA UploadDirHolds ==
  ASSUME MovesInv, UploadDir
  PROVE  MovesInv'
<1> USE DEF MovesInv
<1>1. PICK d \in run.whole, failed \in SUBSET run.uploads :
        LET files == {p \in run.uploads : Dir(p) = d}
            whole == Holds_exactly(d, files)
            rels == Within(d) \ failed
        IN /\ failed \subseteq files /\ ~whole => failed = {}
           /\ Spend(0, IF failed = {} THEN 0 ELSE 1)
           /\ IF whole
              THEN /\ Uploaded(rels)
                   /\ run' = [run EXCEPT !.whole = @ \ {d}, !.uploads = @ \ files,
                                !.verified = @ \cup (Verifies(rels) \cap files)]
              ELSE /\ run' = [run EXCEPT !.whole = @ \ {d}]
                   /\ UNCHANGED <<drive, mem, woes>>
  BY DEF UploadDir
<1> DEFINE files == {p \in run.uploads : Dir(p) = d}
           whole == Holds_exactly(d, files)
           rels == Within(d) \ failed
           new == Verifies(rels)
<1>2. left' \in [edits : Nat, mishaps : Nat, events : Nat]
  BY <1>1, Spent
<1>3. run.phase = "uploads" /\ UNCHANGED <<local, disk, listed, homes>>
  BY DEF UploadDir
<1>4. files \subseteq run.uploads
  OBVIOUS
<1>5. CASE whole
  <2>1. /\ Uploaded(rels)
        /\ run' = [run EXCEPT !.whole = @ \ {d}, !.uploads = @ \ files,
                     !.verified = @ \cup (new \cap files)]
    BY <1>1, <1>5
  <2>2. rels \in SUBSET run.uploads /\ rels \subseteq files
    BY <1>4, <1>5 DEF Holds_exactly
  <2>3. new \subseteq rels
    BY DEF Verifies, Sends
  <2> HIDE DEF new, rels, files
  <2>4. new \subseteq files /\ new \in SUBSET Paths
    BY <1>4, <2>2, <2>3 DEF TypeOK, Runs
  <2>5. /\ run' \in Runs /\ run'.phase = "uploads"
        /\ run'.scan = run.scan /\ run'.held = run.held /\ run'.moves = run.moves
        /\ run'.plan = run.plan /\ run'.trash = run.trash
        /\ run'.uploads \subseteq run.uploads \ new
        /\ run'.verified = run.verified \cup new
        /\ run'.forgotten = run.forgotten
    BY <1>3, <2>1, <2>4 DEF TypeOK, Runs
  <2> USE DEF new
  <2> QED
    BY <1>2, <1>3, <2>1, <2>2, <2>5, UploadedHolds
<1>6. CASE ~whole
  <2>1. run' = [run EXCEPT !.whole = @ \ {d}] /\ UNCHANGED <<drive, mem, woes>>
    BY <1>1, <1>6
  <2>2. /\ run' \in Runs /\ run'.phase = run.phase
        /\ run'.scan = run.scan /\ run'.held = run.held /\ run'.moves = run.moves
        /\ run'.todo = run.todo /\ run'.target = run.target /\ run'.plan = run.plan
        /\ run'.renames = run.renames /\ run'.unmoved = run.unmoved
        /\ run'.uploads = run.uploads /\ run'.trash = run.trash
        /\ run'.verified = run.verified /\ run'.forgotten = run.forgotten
    BY <2>1 DEF TypeOK, Runs
  <2>3. TypeOK' /\ ScanInv'
    BY <1>2, <1>3, <2>1, <2>2 DEF TypeOK, ScanInv
  <2>4. PlanInv' /\ EntriesInv' /\ TrashInv'
    BY <1>3, <2>1, <2>2 DEF PlanInv, EntriesInv, TrashInv
  <2>5. run.plan = {}
    BY <1>3 DEF ScanInv, Placing
  <2>6. ApartInv' /\ DeliveredInv' /\ NodesInv' /\ ListedInv' /\ StrayInv'
    BY <1>3, <2>1, <2>2, <2>5
       DEF ApartInv, DeliveredInv, NodesInv, ListedInv, StrayInv, Shared, Indexed
  <2> QED
    BY <2>3, <2>4, <2>6
<1> QED
  BY <1>5, <1>6

-----------------------------------------------------------------------------
(* What a guard lets through to be trashed was gone when the store was     *)
(* scanned, and a move's old path only once its new one is verified.       *)
LEMMA GuardHolds ==
  ASSUME MovesInv, Guard
  PROVE  MovesInv'
<1> USE DEF MovesInv
<1> DEFINE trash == run.trash \cup (IF run.trashing THEN Outlived(run.moves) ELSE {})
<1>1. /\ run.phase = "uploads" /\ run.plan = {}
      /\ UNCHANGED <<local, drive, disk, mem, listed, left, homes, woes>>
      /\ \/ run' = Ending(run.forgotten)
         \/ run' = [run EXCEPT !.trash = trash, !.phase = "trash"]
  BY DEF Guard, ScanInv, Placing
<1>2. run.forgotten \in SUBSET Paths
  BY DEF TypeOK, Runs
<1>3. CASE run' = Ending(run.forgotten)
  <2>1. /\ run' \in Runs /\ run'.phase = "save" /\ run'.scan = [p \in Paths |-> None]
        /\ run'.plan = {} /\ run'.moves = {} /\ run'.trash = {} /\ run'.renames = {}
        /\ run'.verified = run.verified /\ run'.forgotten = run.forgotten
    BY <1>2, <1>3, EndingTyped
  <2>2. TypeOK'
    BY <1>1, <2>1 DEF TypeOK
  <2>3. \A p \in run'.verified : mem'[p] # None /\ mem'[p].at = p
    BY <1>1, <2>1 DEF EntriesInv
  <2>4. ScanInv' /\ PlanInv' /\ EntriesInv' /\ TrashInv' /\ DeliveredInv'
    BY <1>1, <2>1, <2>3, EndedHolds
  <2>5. ApartInv' /\ NodesInv' /\ ListedInv' /\ StrayInv'
    BY <1>1, <2>1 DEF ApartInv, NodesInv, ListedInv, StrayInv, Shared, Indexed
  <2> QED
    BY <2>2, <2>4, <2>5
<1>4. CASE run' = [run EXCEPT !.trash = trash, !.phase = "trash"]
  <2>1. \A p \in trash \ run.trash :
          \E m \in run.moves : /\ m[1] = p /\ mem[p] # None /\ mem[m[2]] # None
    BY DEF Outlived
  <2> HIDE DEF trash
  <2>2. \A p \in trash \ run.trash :
          /\ p \in Paths /\ mem[p] # None /\ run.scan[p] = None
          /\ \E m \in run.moves : m[1] = p /\ m[2] \in run.verified
    BY <1>1, <2>1 DEF TypeOK, Runs, ScanInv, EntriesInv
  <2>3. trash \in SUBSET Paths
    BY <2>2 DEF TypeOK, Runs
  <2>4. /\ run' \in Runs /\ run'.phase = "trash"
        /\ run'.scan = run.scan /\ run'.held = run.held /\ run'.moves = run.moves
        /\ run'.plan = {} /\ run'.trash = trash
        /\ run'.verified = run.verified /\ run'.forgotten = run.forgotten
    BY <1>1, <1>4, <2>3 DEF TypeOK, Runs, Phases
  <2>5. TypeOK' /\ ScanInv' /\ PlanInv'
    BY <1>1, <2>4 DEF TypeOK, ScanInv, PlanInv
  <2>6. EntriesInv'
    <3>1. \A p \in trash : mem[p] # None /\ run.scan[p] = None
      BY <1>1, <2>2 DEF EntriesInv, Running
    <3> QED
      BY <1>1, <2>4, <3>1 DEF EntriesInv, Moving, Running
  <2>7. TrashInv'
    <3>1. \A p \in run.trash :
            /\ \A m \in run.moves : m[1] # p
            /\ \A q \in run.held : run.scan[q].content # mem[p].content
      BY <1>1 DEF TrashInv
    <3> QED
      BY <1>1, <2>2, <2>4, <3>1 DEF TrashInv
  <2>8. ApartInv' /\ ListedInv'
    BY <1>1, <2>4 DEF ApartInv, ListedInv, Shared, Indexed
  <2>9. DeliveredInv' /\ NodesInv' /\ StrayInv'
    BY <1>1, <2>4 DEF DeliveredInv, NodesInv, StrayInv, Running, Indexed
  <2> QED
    BY <2>5, <2>6, <2>7, <2>8, <2>9
<1> QED
  BY <1>1, <1>3, <1>4

(* Where a path that is trashed is, no other entry points. *)
LEMMA TrashSpares ==
  ASSUME MovesInv, "shared" \notin woes, run.phase \in {"trash", "trashed"},
         NEW p \in run.trash
  PROVE  /\ p \in Indexed(mem) /\ mem[p].at \in Paths
         /\ \A q \in Indexed(mem) : q # p => mem[q].at # mem[p].at
         /\ \A q \in run.verified : q # p /\ q # mem[p].at
<1> USE DEF MovesInv
<1>1. /\ p \in Indexed(mem) /\ run.scan[p] = None
  BY DEF EntriesInv, Running, Indexed, TypeOK, Runs
<1>2. mem[p].at \in Paths
  BY <1>1 DEF Indexed, TypeOK, Entries
<1>3. \A q \in Indexed(mem) : q # p => mem[q].at # mem[p].at
  BY <1>1 DEF ApartInv, Shared
<1>4. \A q \in run.verified : q \in Indexed(mem) /\ mem[q].at = q /\ q # p
  BY <1>1 DEF EntriesInv, Running, Indexed, TypeOK, Runs
<1> QED
  BY <1>1, <1>2, <1>3, <1>4

LEMMA TrashHolds ==
  ASSUME MovesInv, Trash
  PROVE  MovesInv'
<1> USE DEF MovesInv
<1>1. /\ run.phase = "trash" /\ run.plan = {}
      /\ UNCHANGED <<local, disk, mem, listed, homes, woes>>
  BY DEF Trash, ScanInv, Placing
<1>2. PICK d \in {Dir(mem[p].at) : p \in run.trash}, failed \in SUBSET run.trash :
        LET group == {p \in run.trash : Dir(mem[p].at) = d}
        IN /\ failed \subseteq group
           /\ Spend(0, IF failed = {} THEN 0 ELSE 1)
           /\ drive' = [q \in Paths |->
                IF \E p \in group \ failed : mem[p].at = q THEN None ELSE drive[q]]
           /\ run' = [run EXCEPT !.phase = "trashed", !.target = d]
  BY DEF Trash
<1> DEFINE group == {p \in run.trash : Dir(mem[p].at) = d}
<1>3. left' \in [edits : Nat, mishaps : Nat, events : Nat]
  BY <1>2, Spent
<1>4. d \in Dirs
  <2>1. PICK p \in run.trash : d = Dir(mem[p].at)
    BY <1>2
  <2>2. mem[p] # None /\ p \in Paths
    BY <1>1 DEF EntriesInv, Running, TypeOK, Runs
  <2>3. mem[p].at \in Paths
    BY <2>2 DEF TypeOK, Entries
  <2> QED
    BY <2>1, <2>3 DEF Paths, Dir
<1>5. /\ drive' \in [Paths -> Contents \cup {None}]
      /\ \A q \in Paths : \/ drive'[q] = drive[q]
                          \/ drive'[q] = None /\ (\E p \in group : mem[p].at = q)
  BY <1>2 DEF TypeOK
<1>6. \A p \in group : p \in run.trash /\ Dir(mem[p].at) = d
  OBVIOUS
<1> HIDE DEF group
<1>7. /\ run' \in Runs /\ run'.phase = "trashed" /\ run'.target = d
      /\ run'.scan = run.scan /\ run'.held = run.held /\ run'.moves = run.moves
      /\ run'.plan = {} /\ run'.trash = run.trash
      /\ run'.verified = run.verified /\ run'.forgotten = run.forgotten
  BY <1>1, <1>2, <1>4 DEF TypeOK, Runs, Phases
<1>8. TypeOK'
  BY <1>1, <1>3, <1>5, <1>7 DEF TypeOK
<1>9. ScanInv' /\ PlanInv'
  BY <1>1, <1>7 DEF ScanInv, PlanInv
<1>10. EntriesInv' /\ TrashInv'
  BY <1>1, <1>7 DEF EntriesInv, TrashInv, Moving, Running
<1>11. ApartInv' /\ ListedInv'
  BY <1>1, <1>7 DEF ApartInv, ListedInv, Shared, Indexed
<1>12. DeliveredInv'
  <2> SUFFICES ASSUME "other" \notin woes, "shared" \notin woes, NEW p \in run.verified
               PROVE  drive'[p] = run.scan[p].content
    BY <1>1, <1>7 DEF DeliveredInv
  <2>1. p \in Paths /\ drive[p] = run.scan[p].content
    BY <1>1 DEF DeliveredInv, Running, TypeOK, Runs
  <2>2. \A q \in group : mem[q].at # p
    BY <1>1, <1>6, TrashSpares
  <2> QED
    BY <1>5, <2>1, <2>2
<1>13. NodesInv'
  <2> SUFFICES ASSUME woes \subseteq {"orphaned"}, NEW p \in Indexed(mem)
               PROVE  drive'[mem[p].at] # None \/ (p \in run.trash /\ Dir(mem[p].at) = d)
    BY <1>1, <1>7 DEF NodesInv, Indexed
  <2>1. drive[mem[p].at] # None /\ mem[p].at \in Paths
    BY <1>1 DEF NodesInv, Indexed, TypeOK, Entries
  <2>2. \A q \in group : mem[q].at = mem[p].at => q = p
    BY <1>1, <1>6, TrashSpares
  <2> QED
    BY <1>5, <1>6, <2>1, <2>2
<1>14. StrayInv'
  BY <1>1, <1>5 DEF StrayInv, Indexed
<1> QED
  BY <1>8, <1>9, <1>10, <1>11, <1>12, <1>13, <1>14

LEMMA ListTrashedHolds ==
  ASSUME MovesInv, ListTrashed
  PROVE  MovesInv'
<1> USE DEF MovesInv
<1>1. /\ run.phase = "trashed" /\ run.plan = {}
      /\ UNCHANGED <<local, drive, disk, listed, homes>>
  BY DEF ListTrashed, ScanInv, Placing
<1>2. PICK fails \in BOOLEAN :
        LET group == {p \in run.trash : Dir(mem[p].at) = run.target}
            gone == {p \in group : ~fails /\ drive[mem[p].at] = None}
        IN /\ Spend(0, IF fails THEN 1 ELSE 0)
           /\ Woe(Mark(fails, "blind"))
           /\ mem' = [p \in Paths |-> IF p \in gone THEN None ELSE mem[p]]
           /\ run' = IF run.trash = group THEN Ending(run.forgotten \cup gone)
                     ELSE [run EXCEPT !.phase = "trash", !.trash = @ \ group,
                             !.forgotten = @ \cup gone]
  BY DEF ListTrashed
<1> DEFINE group == {p \in run.trash : Dir(mem[p].at) = run.target}
           gone == {p \in group : ~fails /\ drive[mem[p].at] = None}
<1>3. left' \in [edits : Nat, mishaps : Nat, events : Nat]
  BY <1>2, Spent
<1>4. /\ woes \subseteq woes' /\ woes' \subseteq woes \cup {"blind"}
      /\ "blind" \notin woes' => ~fails
  BY <1>2 DEF Woe, Mark
<1>5. /\ mem' = [p \in Paths |-> IF p \in gone THEN None ELSE mem[p]]
      /\ \/ run' = Ending(run.forgotten \cup gone)
         \/ run' = [run EXCEPT !.phase = "trash", !.trash = @ \ group,
                      !.forgotten = @ \cup gone]
  BY <1>2
<1>6. /\ gone \subseteq group /\ group \subseteq run.trash
      /\ \A p \in gone : drive[mem[p].at] = None
      /\ \A p \in group \ gone : fails \/ drive[mem[p].at] # None
      /\ \A p \in run.trash : Dir(mem[p].at) = run.target => p \in group
  OBVIOUS
<1> HIDE DEF group, gone
<1>7. /\ mem' \in [Paths -> Entries \cup {None}]
      /\ \A p \in gone : p \in Paths /\ mem'[p] = None /\ run.scan[p] = None
      /\ \A p \in Paths \ gone : mem'[p] = mem[p]
      /\ run.forgotten \cup gone \in SUBSET Paths
  BY <1>1, <1>5, <1>6 DEF TypeOK, Runs, EntriesInv, Running
<1>8. /\ Indexed(mem') \subseteq Indexed(mem) \ gone
      /\ \A p \in Indexed(mem') : mem'[p] = mem[p]
  BY <1>7 DEF Indexed
<1>9. \A p \in run.verified : /\ p \in Paths /\ mem'[p] # None /\ mem'[p].at = p
                              /\ run.scan[p] # None
  BY <1>1, <1>7 DEF EntriesInv, Running, TypeOK, Runs
<1>10. /\ run' \in Runs /\ run'.phase \in {"save", "trash"}
       /\ run'.plan = {} /\ run'.verified = run.verified
       /\ run'.forgotten = run.forgotten \cup gone
       /\ run'.phase = "save" => /\ run'.scan = [p \in Paths |-> None] /\ run'.moves = {}
                                 /\ run'.trash = {} /\ run'.renames = {}
       /\ run'.phase = "trash" => /\ run'.scan = run.scan /\ run'.held = run.held
                                  /\ run'.moves = run.moves /\ run'.trash = run.trash \ group
  <2>1. CASE run' = Ending(run.forgotten \cup gone)
    BY <1>7, <2>1, EndingTyped
  <2>2. CASE run' = [run EXCEPT !.phase = "trash", !.trash = @ \ group, !.forgotten = @ \cup gone]
    BY <1>1, <1>7, <2>2 DEF TypeOK, Runs, Phases
  <2> QED
    BY <1>5, <2>1, <2>2
<1>11. TypeOK'
  BY <1>1, <1>3, <1>4, <1>7, <1>10 DEF TypeOK
<1>12. ScanInv' /\ PlanInv' /\ EntriesInv' /\ TrashInv' /\ DeliveredInv'
  <2>1. CASE run'.phase = "save"
    BY <1>1, <1>9, <1>10, <2>1, EndedHolds
  <2>2. CASE run'.phase = "trash"
    <3>1. ScanInv' /\ PlanInv'
      BY <1>1, <1>10, <2>2 DEF ScanInv, PlanInv
    <3>2. \A p \in run.trash \ group : /\ mem'[p] = mem[p] /\ mem[p] # None
                                       /\ run.scan[p] = None
      BY <1>1, <1>6, <1>7 DEF EntriesInv, Running, TypeOK, Runs
    <3>3. EntriesInv'
      BY <1>9, <1>10, <2>2, <3>2 DEF EntriesInv, Moving
    <3>4. TrashInv'
      BY <1>1, <1>10, <2>2, <3>2 DEF TrashInv
    <3>5. DeliveredInv'
      BY <1>1, <1>4, <1>10, <2>2 DEF DeliveredInv, Running
    <3> QED
      BY <3>1, <3>3, <3>4, <3>5
  <2> QED
    BY <1>10, <2>1, <2>2
<1>13. ApartInv'
  BY <1>1, <1>4, <1>8 DEF ApartInv, Shared, Indexed
<1>14. NodesInv'
  <2> SUFFICES ASSUME woes' \subseteq {"orphaned"}, NEW p \in Indexed(mem')
               PROVE  drive[mem'[p].at] # None
    BY <1>1, <1>10 DEF NodesInv, Indexed
  <2>1. /\ p \in Indexed(mem) /\ p \notin gone /\ mem'[p] = mem[p] /\ ~fails
        /\ woes \subseteq {"orphaned"}
    BY <1>4, <1>8
  <2> QED
    BY <1>1, <1>6, <2>1 DEF NodesInv
<1>15. ListedInv'
  <2> SUFFICES ASSUME woes' \subseteq {"orphaned"},
                      NEW p \in (listed \ (run.forgotten \cup gone)) \cup run.verified
               PROVE  mem'[p] # None /\ mem'[p].at = p
    BY <1>1, <1>10 DEF ListedInv
  <2>1. CASE p \in run.verified
    BY <1>9, <2>1
  <2>2. CASE p \in listed \ (run.forgotten \cup gone)
    <3>1. mem[p] # None /\ mem[p].at = p /\ p \in Paths
      BY <1>4, <2>2 DEF ListedInv, TypeOK
    <3> QED
      BY <1>7, <2>2, <3>1
  <2> QED
    BY <2>1, <2>2
<1>16. StrayInv'
  <2> SUFFICES ASSUME woes' = {}, NEW p \in Paths \ homes, drive[p] # None
               PROVE  \E o \in Indexed(mem') : mem'[o].at = p
    BY <1>1 DEF StrayInv, Indexed
  <2>1. PICK o \in Indexed(mem) : mem[o].at = p
    BY <1>1, <1>4 DEF StrayInv
  <2>2. o \notin gone
    BY <1>6, <2>1
  <2> QED
    BY <1>7, <2>1, <2>2 DEF Indexed
<1> QED
  BY <1>11, <1>12, <1>13, <1>14, <1>15, <1>16

-----------------------------------------------------------------------------
LEMMA StepHolds ==
  ASSUME MovesInv, [Next]_vars
  PROVE  MovesInv'
<1>1. CASE UserWrites \/ UserDeletes \/ UserMoves
  BY <1>1, UserHolds
<1>2. CASE OtherWrites
  BY <1>2, OtherHolds
<1>3. CASE Interrupted
  BY <1>3, InterruptedHolds
<1>4. CASE Killed
  BY <1>4, KilledHolds
<1>5. CASE Start
  BY <1>5, StartHolds
<1>6. CASE ListTarget
  BY <1>6, ListTargetHolds
<1>7. CASE MoveNodes
  BY <1>7, MoveNodesHolds
<1>8. CASE RenameNode
  BY <1>8, RenameNodeHolds
<1>9. CASE ListMoved
  BY <1>9, ListMovedHolds
<1>10. CASE PutBack
  BY <1>10, PutBackHolds
<1>11. CASE Checkpoint
  BY <1>11, CheckpointHolds
<1>12. CASE UploadDir
  BY <1>12, UploadDirHolds
<1>13. CASE Upload
  BY <1>13, UploadHolds
<1>14. CASE Guard
  BY <1>14, GuardHolds
<1>15. CASE Trash
  BY <1>15, TrashHolds
<1>16. CASE ListTrashed
  BY <1>16, ListTrashedHolds
<1>17. CASE WriteManifest
  BY <1>17, ManifestHolds
<1>18. CASE Save
  BY <1>18, SaveHolds
<1>19. CASE UNCHANGED vars
  <2> USE <1>19 DEF MovesInv, vars
  <2>1. TypeOK' /\ ScanInv'
    BY DEF TypeOK, ScanInv
  <2>2. PlanInv' /\ TrashInv'
    BY DEF PlanInv, TrashInv
  <2>3. EntriesInv'
    BY DEF EntriesInv
  <2>4. ApartInv' /\ DeliveredInv' /\ ListedInv'
    BY DEF ApartInv, DeliveredInv, ListedInv, Shared, Indexed, Spots, Placed
  <2>5. NodesInv' /\ StrayInv'
    BY DEF NodesInv, StrayInv, Indexed, Spots, Placed, Waits, Passed, Arrived
  <2> QED
    BY <2>1, <2>2, <2>3, <2>4, <2>5
<1> QED
  BY <1>1, <1>2, <1>3, <1>4, <1>5, <1>6, <1>7, <1>8, <1>9, <1>10, <1>11, <1>12,
     <1>13, <1>14, <1>15, <1>16, <1>17, <1>18, <1>19 DEF Next, Pushes

LEMMA MovesAlways == Spec => []MovesInv
<1>1. Init => MovesInv
  BY InitHolds
<1>2. MovesInv /\ [Next]_vars => MovesInv'
  BY StepHolds
<1> QED
  BY <1>1, <1>2, PTL DEF Spec

-----------------------------------------------------------------------------
(* The state of a push has its type, whatever surrounds it (push, with its *)
(* scan, plan and bookkeeping).                                            *)
THEOREM TypeCorrect == Spec => []TypeOK
<1>1. MovesInv => TypeOK
  BY DEF MovesInv
<1> QED
  BY <1>1, MovesAlways, PTL

(* Between two pushes every entry of the index names a node on Drive, and  *)
(* every path of the manifest has one (push's re-keying, put-backs, trash  *)
(* and checks by listing), for every store and every plan of moves.        *)
THEOREM EntriesNameNodes == Spec => []RecordsNameNodes
<1>1. ASSUME MovesInv
      PROVE  RecordsNameNodes
  <2> SUFFICES ASSUME run.phase = "idle", woes \subseteq {"orphaned"}
               PROVE  /\ \A p \in Indexed(disk) : drive[disk[p].at] # None
                      /\ \A p \in listed : drive[p] # None
    BY DEF RecordsNameNodes
  <2>1. mem = disk /\ run.plan = {} /\ run.forgotten = {}
    BY <1>1 DEF MovesInv, ScanInv, Placing
  <2>2. \A p \in Indexed(mem) : drive[mem[p].at] # None
    BY <1>1, <2>1 DEF MovesInv, NodesInv
  <2>3. \A p \in listed : p \in Indexed(mem) /\ mem[p].at = p
    BY <1>1, <2>1 DEF MovesInv, ListedInv, TypeOK, Indexed
  <2> QED
    BY <2>1, <2>2, <2>3
<1> QED
  BY <1>1, MovesAlways, PTL

(* Between two pushes a node where no machine ever had a file is one that  *)
(* an entry names (push's put-backs and what it records when they fail).   *)
THEOREM StraysAreNamed == Spec => []StraysAreKnown
<1>1. ASSUME MovesInv
      PROVE  StraysAreKnown
  BY <1>1 DEF MovesInv, StraysAreKnown, StrayInv, ScanInv, Placing
<1> QED
  BY <1>1, MovesAlways, PTL

(* What the trash step takes off Drive is what was to be trashed. *)
LEMMA TrashTakes ==
  ASSUME MovesInv, TrashSteps, [Next]_vars
  PROVE  \A q \in Paths : drive'[q] = drive[q] \/ \E r \in run.trash : mem[r].at = q
<1> USE DEF MovesInv
<1>1. run.phase = "trash" /\ run'.phase = "trashed"
  BY DEF TrashSteps
<1>2. Trash
  <2>1. UserWrites \/ UserDeletes \/ UserMoves \/ OtherWrites => run' = run
    BY DEF UserWrites, UserDeletes, UserMoves, OtherWrites
  <2>2. ~Interrupted
    <3>1. run.forgotten \in SUBSET Paths
      BY DEF TypeOK, Runs
    <3>2. [Ending(run.forgotten) EXCEPT !.phase = "flush"].phase = "flush"
      BY <3>1, EndingTyped
    <3> QED
      BY <1>1, <3>2 DEF Interrupted
  <2>3. ~Killed
    BY <1>1, IdleTyped DEF Killed
  <2> QED
    BY <1>1, <2>1, <2>2, <2>3
       DEF vars, Next, Pushes, Start, ListTarget, MoveNodes, RenameNode, ListMoved, PutBack,
           Checkpoint, UploadDir, Upload, Guard, ListTrashed, WriteManifest, Save
<1>3. PICK d \in {Dir(mem[p].at) : p \in run.trash}, failed \in SUBSET run.trash :
        drive' = [q \in Paths |->
          IF \E p \in {r \in run.trash : Dir(mem[r].at) = d} \ failed : mem[p].at = q
          THEN None ELSE drive[q]]
  BY <1>2 DEF Trash
<1> QED
  BY <1>3

(* The trash step takes nothing off Drive that was moved, uploaded or held *)
(* back (push's trash step after its moves and uploads).                   *)
THEOREM TrashKeepsFiles == Spec => TrashKeepsMovedFiles
<1> DEFINE kept ==
      /\ \A p \in run.verified : drive'[p] = drive[p]
      /\ \A q \in run.held, p \in Indexed(mem) \ {m[1] : m \in run.moves} :
           mem[p].content = run.scan[q].content => drive'[mem[p].at] = drive[mem[p].at]
      /\ \A m \in run.moves :
           (/\ "other" \notin woes
            /\ mem[m[1]] # None /\ drive[mem[m[1]].at] = run.scan[m[2]].content) =>
             \/ drive'[mem[m[1]].at] = drive[mem[m[1]].at]
             \/ drive'[m[2]] = run.scan[m[2]].content
<1>1. ASSUME MovesInv, [Next]_vars
      PROVE  [TrashSteps /\ "shared" \notin woes => kept]_vars
  <2> USE <1>1 DEF MovesInv
  <2> SUFFICES ASSUME Next, TrashSteps, "shared" \notin woes
               PROVE  kept
    OBVIOUS
  <2>1. run.phase = "trash" /\ run'.phase = "trashed"
    BY DEF TrashSteps
  <2>2. \A q \in Paths : drive'[q] = drive[q] \/ \E r \in run.trash : mem[r].at = q
    BY <1>1, TrashTakes
  <2>3. \A r \in run.trash :
          /\ r \in Indexed(mem) /\ mem[r].at \in Paths
          /\ \A q \in Indexed(mem) : q # r => mem[q].at # mem[r].at
          /\ \A q \in run.verified : q # mem[r].at
    BY <2>1, TrashSpares
  <2>4. \A p \in Indexed(mem) : mem[p].at \in Paths
    BY DEF Indexed, TypeOK, Entries
  <2>5. \A p \in Indexed(mem) : drive'[mem[p].at] # drive[mem[p].at] => p \in run.trash
    BY <2>2, <2>3, <2>4
  <2>6. \A p \in run.verified : drive'[p] = drive[p]
    BY <2>2, <2>3 DEF TypeOK, Runs
  <2>7. ASSUME NEW q \in run.held, NEW p \in Indexed(mem) \ {m[1] : m \in run.moves},
               mem[p].content = run.scan[q].content
        PROVE  drive'[mem[p].at] = drive[mem[p].at]
    <3>1. p \notin run.trash
      BY <2>7 DEF TrashInv
    <3> QED
      BY <2>5, <3>1
  <2>8. ASSUME NEW m \in run.moves, "other" \notin woes, mem[m[1]] # None,
               drive'[mem[m[1]].at] # drive[mem[m[1]].at]
        PROVE  drive'[m[2]] = run.scan[m[2]].content
    <3>1. m[1] \in run.trash
      BY <2>5, <2>8 DEF Indexed, TypeOK, Runs
    <3>2. PICK k \in run.moves : k[1] = m[1] /\ k[2] \in run.verified
      BY <3>1 DEF TrashInv
    <3>3. m[2] \in run.verified
      BY <3>2 DEF ScanInv
    <3>4. drive[m[2]] = run.scan[m[2]].content
      BY <2>1, <2>8, <3>3 DEF DeliveredInv, Running
    <3> QED
      BY <2>6, <3>3, <3>4
  <2> QED
    BY <2>6, <2>7, <2>8
<1>2. MovesInv /\ [Next]_vars => [TrashSteps /\ "shared" \notin woes => kept]_vars
  BY <1>1
<1> QED
  BY <1>2, MovesAlways, PTL DEF Spec, TrashKeepsMovedFiles

(* An upload puts on Drive only paths the push chose to upload, a whole    *)
(* folder in one call as well (_upload_whole_dirs and its re-check).       *)
THEOREM NothingElseRides == Spec => NothingRidesAlong
<1> DEFINE chosen == \A p \in Paths : drive'[p] # drive[p] => p \in run.uploads
           uploads == run.phase = "uploads" /\ run'.phase = "uploads" /\ run' # run
<1>1. ASSUME MovesInv, [Next]_vars
      PROVE  [uploads => chosen]_vars
  <2> USE <1>1 DEF MovesInv
  <2> SUFFICES ASSUME Next, uploads
               PROVE  chosen
    OBVIOUS
  <2>1. ASSUME NEW rels \in SUBSET run.uploads, Uploaded(rels)
        PROVE  chosen
    BY <2>1 DEF Uploaded, Sends, TypeOK
  <2>2. CASE Upload
    <3>1. PICK p \in run.uploads, fails \in BOOLEAN : Uploaded(IF fails THEN {} ELSE {p})
      BY <2>2 DEF Upload
    <3> QED
      BY <2>1, <3>1
  <2>3. CASE UploadDir
    <3>1. PICK d \in run.whole, failed \in SUBSET run.uploads :
            LET files == {p \in run.uploads : Dir(p) = d}
            IN IF Holds_exactly(d, files) THEN Uploaded(Within(d) \ failed)
               ELSE UNCHANGED <<drive, mem, woes>>
      BY <2>3 DEF UploadDir
    <3>2. CASE Holds_exactly(d, {p \in run.uploads : Dir(p) = d})
      <4>1. Uploaded(Within(d) \ failed)
        BY <3>1, <3>2
      <4>2. Within(d) \ failed \in SUBSET run.uploads
        BY <3>2 DEF Holds_exactly
      <4> QED
        BY <2>1, <4>1, <4>2
    <3>3. CASE ~Holds_exactly(d, {p \in run.uploads : Dir(p) = d})
      BY <3>1, <3>3
    <3> QED
      BY <3>2, <3>3
  <2>4. ASSUME ~Upload, ~UploadDir
        PROVE  FALSE
    <3>1. UserWrites \/ UserDeletes \/ UserMoves \/ OtherWrites => run' = run
      BY DEF UserWrites, UserDeletes, UserMoves, OtherWrites
    <3>2. run.forgotten \in SUBSET Paths
      BY DEF TypeOK, Runs
    <3>3. ~Interrupted
      <4>1. [Ending(run.forgotten) EXCEPT !.phase = "flush"].phase = "flush"
        BY <3>2, EndingTyped
      <4> QED
        BY <4>1 DEF Interrupted
    <3>4. ~Killed
      BY IdleTyped DEF Killed
    <3>5. ~Guard
      <4>1. Ending(run.forgotten).phase = "save"
        BY <3>2, EndingTyped
      <4> QED
        BY <4>1 DEF Guard, TypeOK, Runs
    <3> QED
      BY <2>4, <3>1, <3>3, <3>4, <3>5
         DEF Next, Pushes, Start, ListTarget, MoveNodes, RenameNode, ListMoved, PutBack,
             Checkpoint, Trash, ListTrashed, WriteManifest, Save
  <2> QED
    BY <2>2, <2>3, <2>4
<1>2. MovesInv /\ [Next]_vars => [uploads => chosen]_vars
  BY <1>1
<1> QED
  BY <1>2, MovesAlways, PTL DEF Spec, NothingRidesAlong

-----------------------------------------------------------------------------
(* The user has edited once at most, and at most one push was cut short:   *)
(* nothing else went wrong.                                                *)
Quiet ==
  /\ left.edits + 1 >= MaxEdits
  /\ \/ woes = {} /\ left.mishaps = MaxMishaps
     \/ woes = {"killed"} /\ left.mishaps + 1 >= MaxMishaps

(* What went wrong was taken from the bounds. *)
SpentInv ==
  /\ left.edits <= MaxEdits /\ left.mishaps <= MaxMishaps
  /\ "killed" \in woes => left.mishaps < MaxMishaps

(* Before the first edit everything is in sync, and no push has anything   *)
(* to do.                                                                  *)
InSync ==
  /\ run.phase = "idle" /\ run.moves = {} /\ run.trash = {}
  /\ run.uploads = {} /\ run.unmoved = {} /\ run.whole = {}
  /\ \A p \in Paths :
       /\ local[p] # None => disk[p] = Entry(local[p], p)
       /\ disk[p] # None => /\ disk[p].at = p /\ drive[p] = disk[p].content
                            /\ disk[p].held => local[p] # None
       /\ disk[p] = None => drive[p] = None

(* Of the files an index holds, only those of gone are not there; of those *)
(* that are there, it may lack those of new.                               *)
Fits(index, gone, new) ==
  \A p \in Paths :
    /\ (index[p] # None /\ index[p].held) => local[p] # None \/ p \in gone
    /\ local[p] # None => index[p] # None \/ p \in new

(* A file at this path is no move's: it is ignored, or empty. *)
Barred(q) == q \in Ignored \/ Size[local[q].content] = 0

(* Only files of gone and of new can be moves.                             *)
Astir(gone, new) ==
  /\ \A p \in gone : local[p] = None
  /\ \A p \in new : local[p] # None
  /\ Fits(disk, gone, new) /\ Fits(mem, gone, new)
  /\ \A m \in run.moves : m[1] \in gone /\ m[2] \in new /\ ~Barred(m[2])
  /\ \A p \in run.trash : local[p] = None

OneCall(p, q) == Dir(p) = Dir(q) \/ Name(p) = Name(q)

(* An index before and after the one move, and the node's place on Drive.  *)
Unmade(index, p, q) == index[p] = Entry(local[q], p) /\ index[q] = None
Made(index, p, q) ==
  index[p] = None /\ index[q] # None /\ index[q].content = local[q].content
Stays(p, q) == drive[p] = local[q].content /\ drive[q] = None
Landed(p, q) == drive[p] = None /\ drive[q] = local[q].content

(* The plan of a move that is to be made, and of one that was.             *)
ToMake(p, q) == [old |-> p, new |-> q, needs_move |-> Dir(p) # Dir(q), old_name |-> Name(p)]
WasMade(p, q) == [old |-> p, new |-> q, needs_move |-> FALSE, old_name |-> Name(q)]

(* How far the push is with its one move. *)
AtSole(p, q) ==
  /\ run.phase \in {"idle", "moves", "move", "rename", "uploads", "save", "manifest", "flush"}
  /\ run.phase = "moves" =>
       /\ run.moves = {<<p, q>>}
       /\ \/ run.todo = {Dir(q)} /\ Unmade(mem, p, q)
          \/ run.todo = {} /\ Made(mem, p, q)
  /\ run.phase \in {"move", "rename"} =>
       /\ run.moves = {<<p, q>>}
       /\ run.target = Dir(q) /\ run.todo = {} /\ Unmade(mem, p, q)
  /\ run.phase = "move" =>
       /\ run.renames = {m \in run.plan : Passes(m)}
       /\ \/ Stays(p, q) /\ run.plan = {ToMake(p, q)}
          \/ Landed(p, q) /\ run.plan = {WasMade(p, q)}
  /\ run.phase = "rename" =>
       \/ /\ run.renames = {} /\ Landed(p, q)
          /\ run.plan = {ToMake(p, q)} \/ run.plan = {WasMade(p, q)}
       \/ /\ run.renames = {ToMake(p, q)} /\ run.plan = {ToMake(p, q)}
          /\ Dir(p) = Dir(q) /\ Stays(p, q)
  /\ run.phase = "uploads" => Made(mem, p, q)

(* The user moved one file within one call's reach, and everything else is *)
(* in sync: its node is at one of the two paths, and a push does nothing   *)
(* but this move.                                                          *)
Sole(p, q) ==
  /\ \A x \in Paths \ {p, q} :
       /\ mem[x] = disk[x]
       /\ (disk[x] # None /\ disk[x].held) => local[x] # None
       /\ local[x] # None => disk[x] # None /\ disk[x].content = local[x].content
  /\ \/ Stays(p, q) /\ Unmade(disk, p, q) /\ Unmade(mem, p, q)
     \/ /\ Landed(p, q)
        /\ Unmade(disk, p, q) \/ Made(disk, p, q)
        /\ Unmade(mem, p, q) \/ Made(mem, p, q)
  /\ run.moves \subseteq {<<p, q>>}
  /\ run.uploads = {} /\ run.unmoved = {} /\ run.whole = {} /\ run.trash = {}
  /\ AtSole(p, q)

(* A push that was killed has either left nothing of one call's move, or   *)
(* exactly what the next push looks for.                                   *)
KilledInv ==
  Quiet =>
    \/ left.edits = MaxEdits /\ InSync
    \/ /\ left.edits < MaxEdits
       /\ \E gone, new \in SUBSET Paths :
            /\ Astir(gone, new)
            /\ \A p \in gone, q \in new : OneCall(p, q) => Barred(q) \/ Sole(p, q)

(* What a step takes from the bounds, it takes from all of them. *)
LEMMA SpendKeeps ==
  ASSUME TypeOK, SpentInv, NEW e \in Nat, NEW n \in Nat, Spend(e, n),
         "killed" \in woes' => "killed" \in woes \/ n >= 1
  PROVE  SpentInv'
<1>1. /\ left.edits \in Nat /\ left.mishaps \in Nat
      /\ left'.edits = left.edits - e /\ left'.mishaps = left.mishaps - n
      /\ MaxEdits \in Nat /\ MaxMishaps \in Nat
  BY MovesAssumption DEF TypeOK, Spend
<1> QED
  BY <1>1 DEF SpentInv

(* A quiet state comes from a quiet one, by a step in which nothing went   *)
(* wrong but the kill.                                                     *)
LEMMA QuietBefore ==
  ASSUME TypeOK, SpentInv, NEW e \in Nat, NEW n \in Nat, Spend(e, n),
         woes \subseteq woes', "killed" \in woes' => "killed" \in woes \/ n >= 1, Quiet'
  PROVE  /\ Quiet
         /\ n = 0 \/ (woes = {} /\ woes' = {"killed"})
         /\ left.edits < MaxEdits => e = 0
         /\ left'.edits = left.edits - e /\ left.edits \in Nat
<1>1. /\ left.edits \in Nat /\ left.mishaps \in Nat
      /\ left'.edits = left.edits - e /\ left'.mishaps = left.mishaps - n
      /\ left.edits >= e /\ left.mishaps >= n
      /\ MaxEdits \in Nat /\ MaxMishaps \in Nat
  BY MovesAssumption DEF TypeOK, Spend
<1>2. /\ left.edits + 1 >= MaxEdits
      /\ left.edits < MaxEdits => e = 0
  BY <1>1 DEF SpentInv, Quiet
<1>3. CASE woes' = {}
  <2>1. woes = {} /\ left'.mishaps = MaxMishaps
    BY <1>3 DEF Quiet
  <2>2. left.mishaps = MaxMishaps /\ n = 0
    BY <1>1, <2>1 DEF SpentInv
  <2> QED
    BY <1>1, <1>2, <2>1, <2>2 DEF Quiet
<1>4. CASE woes' = {"killed"}
  <2>1. left'.mishaps + 1 >= MaxMishaps
    BY <1>4 DEF Quiet
  <2>2. CASE woes = {}
    <3>1. n >= 1
      BY <1>4, <2>2
    <3>2. left.mishaps = MaxMishaps
      BY <1>1, <2>1, <3>1 DEF SpentInv
    <3> QED
      BY <1>1, <1>2, <1>4, <2>2, <3>2 DEF Quiet
  <2>3. CASE woes = {"killed"}
    <3>1. n = 0 /\ left.mishaps + 1 >= MaxMishaps
      BY <1>1, <2>1, <2>3 DEF SpentInv
    <3> QED
      BY <1>1, <1>2, <2>3, <3>1 DEF Quiet
  <2> QED
    BY <1>4, <2>2, <2>3
<1> QED
  BY <1>3, <1>4 DEF Quiet

-----------------------------------------------------------------------------
(* The user's one edit: it leaves nothing gone, nothing new, or one file   *)
(* moved.                                                                  *)
LEMMA UserStirs ==
  ASSUME MovesInv, InSync, left'.edits < MaxEdits, UserWrites \/ UserDeletes \/ UserMoves
  PROVE  \E gone, new \in SUBSET Paths :
            /\ Astir(gone, new)'
            /\ \A p \in gone, q \in new : OneCall(p, q) => Barred(q)' \/ Sole(p, q)'
<1>1. /\ UNCHANGED <<drive, disk, mem, run>> /\ mem = disk
      /\ run.moves = {} /\ run.trash = {} /\ run.phase = "idle"
  BY DEF UserWrites, UserDeletes, UserMoves, MovesInv, ScanInv, InSync
<1>2. /\ local \in [Paths -> Files \cup {None}]
      /\ \A p \in Paths :
           /\ local[p] # None => local[p] \in Files /\ disk[p] = Entry(local[p], p) /\ disk[p] # None
           /\ (disk[p] # None /\ disk[p].held) => local[p] # None
  <2>1. local \in [Paths -> Files \cup {None}]
    BY DEF MovesInv, TypeOK
  <2>2. \A p \in Paths : local[p] # None => local[p] \in Files
    BY <2>1
  <2> QED
    BY <2>1, <2>2, EntryTyped DEF InSync
<1>3. CASE UserWrites
  <2>1. PICK p \in Paths, file \in Files : local' = [local EXCEPT ![p] = file]
    BY <1>3 DEF UserWrites
  <2>2. file # None \/ file = None
    OBVIOUS
  <2>3. CASE file # None
    <3>1. Astir({}, {p})'
      BY <1>1, <1>2, <2>1, <2>3 DEF Astir, Fits
    <3> QED
      BY <3>1
  <2>4. CASE file = None
    <3>1. Astir({p}, {})'
      BY <1>1, <1>2, <2>1, <2>4 DEF Astir, Fits
    <3> QED
      BY <3>1
  <2> QED
    BY <2>3, <2>4
<1>4. CASE UserDeletes
  <2>1. PICK p \in Paths : local' = [local EXCEPT ![p] = None]
    BY <1>4 DEF UserDeletes
  <2>2. Astir({p}, {})'
    BY <1>1, <1>2, <2>1 DEF Astir, Fits
  <2> QED
    BY <2>2
<1>5. CASE UserMoves
  <2>1. PICK p, q \in Paths :
          /\ local[p] # None /\ local[q] = None
          /\ local' = [local EXCEPT ![q] = local[p], ![p] = None]
    BY <1>5 DEF UserMoves
  <2>2. /\ p # q /\ local'[p] = None /\ local'[q] = local[p]
        /\ \A x \in Paths \ {p, q} : local'[x] = local[x]
    BY <1>2, <2>1
  <2>3. CASE disk[q] # None
    <3>1. Astir({p}, {})'
      BY <1>1, <1>2, <2>1, <2>2, <2>3 DEF Astir, Fits
    <3> QED
      BY <3>1
  <2>4. CASE disk[q] = None
    <3>1. Astir({p}, {q})'
      BY <1>1, <1>2, <2>1, <2>2 DEF Astir, Fits
    <3>2. Unmade(disk, p, q)'
      BY <1>1, <1>2, <2>1, <2>2, <2>4 DEF Unmade
    <3>3. /\ disk[p] = Entry(local[p], p) /\ disk[p].content = local[p].content
          /\ drive[p] = disk[p].content /\ drive[q] = None
      BY <1>2, <2>1, <2>4, EntryTyped DEF InSync
    <3>4. Stays(p, q)'
      BY <1>1, <2>2, <3>3 DEF Stays
    <3>5. AtSole(p, q)'
      BY <1>1 DEF AtSole
    <3>6. \A x \in Paths \ {p, q} : local[x] # None => disk[x].content = local[x].content
      BY <1>2, EntryTyped
    <3>7. Sole(p, q)'
      BY <1>1, <1>2, <2>2, <3>2, <3>4, <3>5, <3>6 DEF Sole, InSync, Unmade
    <3> QED
      BY <3>1, <3>7
  <2> QED
    BY <2>3, <2>4
<1> QED
  BY <1>3, <1>4, <1>5

-----------------------------------------------------------------------------
(* A lone gone file and a lone new one of its key are a move.              *)
LEMMA LonePair ==
  ASSUME NEW index, NEW scan, NEW p \in Paths, NEW q \in Paths,
         Key(index[p]) = Key(scan[q]), Size[scan[q].content] # 0
  PROVE  Pair_moves(index, {p}, scan, {q}) = {<<p, q>>}
<1> DEFINE olds(key) == {x \in {p} : Key(index[x]) = key}
           news(key) == {x \in {q} : Key(scan[x]) = key}
           k0 == Key(scan[q])
<1>1. olds(k0) = {p} /\ news(k0) = {q}
  OBVIOUS
<1>2. {Key(scan[x]) : x \in {y \in {q} : Size[scan[y].content] # 0}} = {k0}
  OBVIOUS
<1>3. Pair_moves(index, {p}, scan, {q}) = Pair_group(olds(k0), news(k0))
  BY <1>2 DEF Pair_moves
<1>4. Pair_group({p}, {q}) = {<<p, q>>}
  <2> DEFINE Olds(pairs) == {p} \ {m[1] : m \in pairs}
             News(pairs) == {q} \ {m[2] : m \in pairs}
             named == Unique_matches({p}, {q}, 2)
             second == Unique_matches(Olds(named), News(named), 1)
             placed == named \cup second
             single == {m \in {p} \X {q} : Olds(placed) = {m[1]} /\ News(placed) = {m[2]}}
  <2>1. Pair_group({p}, {q}) = placed \cup single
    BY DEF Pair_group
  <2>2. Pair_group({p}, {q}) \subseteq {<<p, q>>}
    <3>1. Pair_group({p}, {q}) \subseteq {p} \X {q}
      BY GroupPairsUp
    <3>2. {p} \X {q} = {<<p, q>>}
      OBVIOUS
    <3> QED
      BY <3>1, <3>2
  <2>3. placed = {} => <<p, q>> \in single
    <3>1. placed = {} => Olds(placed) = {p} /\ News(placed) = {q}
      OBVIOUS
    <3> HIDE DEF placed
    <3> QED
      BY <3>1
  <2>4. placed # {} => <<p, q>> \in placed
    <3> HIDE DEF placed, single
    <3>1. placed \subseteq {<<p, q>>}
      BY <2>1, <2>2
    <3> QED
      BY <3>1
  <2>5. <<p, q>> \in Pair_group({p}, {q})
    <3> HIDE DEF placed, single
    <3> QED
      BY <2>1, <2>3, <2>4
  <2> HIDE DEF placed, single
  <2> QED
    BY <2>2, <2>5
<1> QED
  BY <1>1, <1>3, <1>4

(* No empty file is a move. *)
LEMMA PairsSized ==
  ASSUME NEW index, NEW deleted \in SUBSET Paths, NEW scan, NEW added \in SUBSET Paths,
         NEW m \in Pair_moves(index, deleted, scan, added)
  PROVE  Size[scan[m[2]].content] # 0
<1> DEFINE olds(key) == {p \in deleted : Key(index[p]) = key}
           news(key) == {p \in added : Key(scan[p]) = key}
<1>1. PICK q \in added : /\ Size[scan[q].content] # 0
                         /\ m \in Pair_group(olds(Key(scan[q])), news(Key(scan[q])))
  BY DEF Pair_moves
<1>2. olds(Key(scan[q])) \in SUBSET Paths /\ news(Key(scan[q])) \in SUBSET Paths
  OBVIOUS
<1>3. m \in olds(Key(scan[q])) \X news(Key(scan[q]))
  BY <1>1, <1>2, GroupPairsUp
<1>4. Key(scan[m[2]]) = Key(scan[q])
  BY <1>3
<1> QED
  BY <1>1, <1>4 DEF Key

-----------------------------------------------------------------------------
(* What a push records of its files keeps what is gone and new there.      *)
LEMMA FitsKept ==
  ASSUME NEW gone \in SUBSET Paths, NEW new \in SUBSET Paths, Fits(mem, gone, new),
         UNCHANGED local,
         \A p \in Paths :
           \/ mem'[p] = mem[p]
           \/ (mem'[p] # None <=> local[p] # None)
           \/ mem[p] # None /\ mem'[p] # None /\ mem'[p].held = mem[p].held
  PROVE  Fits(mem, gone, new)'
BY DEF Fits

(* Nothing more is moved, nor trashed that is there. *)
LEMMA StirKept ==
  ASSUME NEW gone \in SUBSET Paths, NEW new \in SUBSET Paths, Astir(gone, new),
         UNCHANGED local, Fits(disk, gone, new)', Fits(mem, gone, new)',
         run'.moves \subseteq run.moves, \A p \in run'.trash : local[p] = None
  PROVE  Astir(gone, new)'
BY DEF Astir, Barred

(* A push begins: its moves are between what is gone and what is new.      *)
LEMMA StartStirs ==
  ASSUME MovesInv, NEW gone \in SUBSET Paths, NEW new \in SUBSET Paths, Astir(gone, new), Start
  PROVE  Astir(gone, new)'
<1>1. /\ UNCHANGED <<local, disk>> /\ mem' = disk
  BY DEF Start
<1>2. PICK held \in SUBSET Paths, trashing \in BOOLEAN :
        LET added == (Changed(disk, Scan) \ held) \ Indexed(disk)
            moves == Pair_moves(disk, Gone(disk), Scan, added)
            trash == IF trashing
                     THEN Trash_candidates(disk, Scan, {m[1] : m \in moves}, held) ELSE {}
        IN run'.moves = moves /\ run'.trash = trash
  <2>1. PICK trashing \in BOOLEAN, mass \in BOOLEAN, recent \in SUBSET Times :
          LET scan == Scan
              changed == Changed(disk, scan)
              held == {p \in changed : scan[p].mtime \in recent}
              moves == Plan_moves(disk, scan, changed \ held)
              uploads == (changed \ held) \ {m[2] : m \in moves}
              trash == IF trashing
                       THEN Trash_candidates(disk, scan, {m[1] : m \in moves}, held) ELSE {}
          IN /\ trashing => trash # {} \/ moves # {}
             /\ mass => trashing
             /\ moves # {} \/ uploads # {} \/ trash # {}
             /\ run' = [Idle EXCEPT !.phase = "moves", !.trashing = trashing, !.mass = mass,
                          !.scan = scan, !.held = held, !.moves = moves, !.uploads = uploads,
                          !.todo = {Dir(m[2]) : m \in moves}, !.trash = trash]
    BY Zenon DEF Start
  <2> DEFINE held == {p \in Changed(disk, Scan) : Scan[p].mtime \in recent}
             moves == Plan_moves(disk, Scan, Changed(disk, Scan) \ held)
             trash == IF trashing
                      THEN Trash_candidates(disk, Scan, {m[1] : m \in moves}, held) ELSE {}
  <2>2. held \in SUBSET Paths
    BY DEF Changed
  <2>3. run'.moves = moves /\ run'.trash = trash
    <3> HIDE DEF held, moves, trash
    <3>1. \E scan, hd, uploads, todo, mass1 :
            run' = [Idle EXCEPT !.phase = "moves", !.trashing = trashing, !.mass = mass1,
                       !.scan = scan, !.held = hd, !.moves = moves, !.uploads = uploads,
                       !.todo = todo, !.trash = trash]
      BY <2>1, Zenon DEF held, moves, trash
    <3> QED
      BY <3>1 DEF Idle
  <2> QED
    BY <2>2, <2>3 DEF Plan_moves
<1> DEFINE added == (Changed(disk, Scan) \ held) \ Indexed(disk)
           moves == Pair_moves(disk, Gone(disk), Scan, added)
<1>3. /\ Gone(disk) \in SUBSET Paths
      /\ \A p \in Gone(disk) : disk[p] # None /\ disk[p].held /\ local[p] = None
  BY DEF Gone, Indexed
<1>4. /\ added \in SUBSET Paths
      /\ \A p \in added : /\ Scan[p] = local[p] /\ local[p] # None /\ p \notin Ignored
                          /\ disk[p] = None
  BY DEF Changed, Indexed, Scan
<1> HIDE DEF added
<1>5. moves \subseteq Gone(disk) \X added /\ \A m \in moves : Size[Scan[m[2]].content] # 0
  BY <1>3, <1>4, PairsUp, PairsSized
<1> HIDE DEF moves
<1>6. \A m \in moves : m[1] \in gone /\ m[2] \in new /\ ~Barred(m[2])
  BY <1>3, <1>4, <1>5 DEF Astir, Fits, Barred
<1>7. run'.moves = moves /\ \A p \in run'.trash : local[p] = None
  <2>1. \A p \in run'.trash : p \in Gone(disk)
    BY <1>2 DEF Trash_candidates
  <2> QED
    BY <1>2, <1>3, <2>1 DEF moves, added
<1> QED
  BY <1>1, <1>6, <1>7 DEF Astir, Barred, Fits

(* What is moved is gone from one path and there at the other. *)
LEMMA PlanStirs ==
  ASSUME MovesInv, NEW gone \in SUBSET Paths, NEW new \in SUBSET Paths, Astir(gone, new),
         NEW m \in run.plan
  PROVE  /\ m.old \in Paths /\ m.new \in Paths
         /\ local[m.old] = None /\ local[m.new] # None
         /\ mem[m.old] # None /\ mem[m.old] \in Entries
<1>1. <<m.old, m.new>> \in run.moves /\ mem[m.old] # None
  BY DEF MovesInv, PlanInv
<1>2. m \in Plans
  BY DEF MovesInv, TypeOK, Runs
<1>3. m.old \in Paths /\ m.new \in Paths
  BY <1>2 DEF Plans
<1> QED
  BY <1>1, <1>3 DEF Astir, MovesInv, TypeOK

(* A listing of a target folder, with the moves it lets through. *)
LEMMA Listing ==
  ASSUME ListTarget
  PROVE  \E t \in run.todo, fails \in BOOLEAN, blind \in BOOLEAN :
           /\ fails => ~blind
           /\ Spend(0, IF fails \/ blind THEN 1 ELSE 0)
           /\ \E kept \in SUBSET Passing(t, Group(t)) : ListsAs(t, fails, blind, kept)
BY Zenon DEF ListTarget, ListsAs, Group

(* So do the steps of the moves, *)
LEMMA MovingStirs ==
  ASSUME MovesInv, NEW gone \in SUBSET Paths, NEW new \in SUBSET Paths, Astir(gone, new),
         ListTarget \/ MoveNodes \/ RenameNode \/ ListMoved \/ PutBack
  PROVE  Astir(gone, new)'
<1>1. /\ UNCHANGED <<local, disk>>
      /\ Fits(disk, gone, new)' /\ Fits(mem, gone, new) /\ run \in Runs
  BY DEF ListTarget, MoveNodes, RenameNode, ListMoved, PutBack, Astir, Fits, MovesInv, TypeOK
<1>2. run'.moves = run.moves /\ run'.trash = run.trash
  <2>1. ListTarget => run'.moves = run.moves /\ run'.trash = run.trash
    <3> SUFFICES ASSUME ListTarget PROVE run'.moves = run.moves /\ run'.trash = run.trash
      OBVIOUS
    <3>1. PICK t, fails, blind, kept : ListsAs(t, fails, blind, kept)
      BY Listing
    <3> QED
      BY <1>1, <3>1 DEF ListsAs, Runs
  <2>2. MoveNodes => run'.moves = run.moves /\ run'.trash = run.trash
    BY <1>1 DEF MoveNodes, Runs
  <2>3. RenameNode => run'.moves = run.moves /\ run'.trash = run.trash
    BY <1>1 DEF RenameNode, Runs
  <2>4. ListMoved => run'.moves = run.moves /\ run'.trash = run.trash
    BY <1>1 DEF ListMoved, Runs
  <2>5. PutBack => run'.moves = run.moves /\ run'.trash = run.trash
    BY <1>1 DEF PutBack, Runs
  <2> QED
    BY <2>1, <2>2, <2>3, <2>4, <2>5
<1>3. CASE ListTarget \/ MoveNodes \/ RenameNode
  <2>1. mem' = mem
    BY <1>3 DEF ListTarget, MoveNodes, RenameNode
  <2> QED
    BY <1>1, <1>2, <2>1, FitsKept, StirKept DEF Astir
<1>4. CASE ListMoved
  <2>1. PICK done \in SUBSET run.plan : mem' = Rekeyed(mem, done)
    <3>1. PICK fails \in BOOLEAN :
            mem' = Rekeyed(mem, {m \in run.plan : ~fails /\ Same(m.new, mem[m.old])})
      BY <1>4 DEF ListMoved
    <3> QED
      BY <3>1
  <2>2. ASSUME NEW p \in Paths
        PROVE  mem'[p] = mem[p] \/ (mem'[p] # None <=> local[p] # None)
    <3>1. CASE \E m \in done : m.new = p
      <4>1. PICK m \in done : /\ m.new = p
                              /\ mem'[p] = [content |-> mem[m.old].content,
                                            mtime |-> run.scan[p].mtime, at |-> p, held |-> TRUE]
        BY <2>1, <3>1 DEF Rekeyed
      <4>2. mem'[p] # None
        <5>1. /\ mem[m.old].content \in Contents
              /\ <<m.old, m.new>> \in run.moves
              /\ run.scan \in [Paths -> Files \cup {None}]
          BY PlanStirs DEF MovesInv, PlanInv, Entries, TypeOK, Runs
        <5>2. run.scan[p] # None
          BY <4>1, <5>1 DEF MovesInv, ScanInv
        <5>3. run.scan[p].mtime \in Times
          BY <5>1, <5>2 DEF Files
        <5>4. mem'[p] \in Entries
          BY <4>1, <5>1, <5>3 DEF Entries
        <5> QED
          BY <5>4, EntryAssumption
      <4> QED
        BY <4>1, <4>2, PlanStirs
    <3>2. CASE /\ ~\E m \in done : m.new = p
               /\ \E m \in done : m.old = p
      BY <2>1, <3>2, PlanStirs DEF Rekeyed
    <3>3. CASE /\ ~\E m \in done : m.new = p
               /\ ~\E m \in done : m.old = p
      BY <2>1, <3>3 DEF Rekeyed
    <3> QED
      BY <3>1, <3>2, <3>3
  <2>3. Fits(mem, gone, new)'
    BY <1>1, <2>2, FitsKept
  <2> QED
    BY <1>1, <1>2, <2>3, StirKept DEF Astir
<1>5. CASE PutBack
  <2>1. PICK m \in run.plan :
          \/ mem' = mem
          \/ mem' = [mem EXCEPT ![m.old] = Astray(@, <<run.target, m.old_name>>)]
    BY <1>5 DEF PutBack
  <2> DEFINE astray == Astray(mem[m.old], <<run.target, m.old_name>>)
  <2>2. /\ astray.held = mem[m.old].held /\ astray # None
        /\ m.old \in Paths /\ mem[m.old] # None
    <3>1. m \in Plans /\ run.target \in Dirs
      BY <1>1 DEF Runs
    <3>2. <<run.target, m.old_name>> \in Paths
      BY <3>1 DEF Plans, Paths
    <3>3. astray \in Entries /\ astray.held = mem[m.old].held
      BY <3>2, PlanStirs DEF Astray, Entries
    <3> QED
      BY <3>3, PlanStirs, EntryAssumption
  <2> HIDE DEF astray
  <2>3. mem' = mem \/ mem' = [mem EXCEPT ![m.old] = astray]
    BY <2>1 DEF astray
  <2>4. mem \in [Paths -> Entries \cup {None}]
    BY DEF MovesInv, TypeOK
  <2>5. Fits(mem, gone, new)'
    BY <1>1, <2>2, <2>3, <2>4, FitsKept
  <2> QED
    BY <1>1, <1>2, <2>5, StirKept DEF Astir
<1> QED
  BY <1>3, <1>4, <1>5

(* those of the uploads and of the trash, *)
LEMMA UploadingStirs ==
  ASSUME MovesInv, NEW gone \in SUBSET Paths, NEW new \in SUBSET Paths, Astir(gone, new),
         Checkpoint \/ UploadDir \/ Upload \/ Guard \/ Trash \/ ListTrashed
  PROVE  Astir(gone, new)'
<1>1. UNCHANGED local /\ run \in Runs /\ Fits(disk, gone, new) /\ Fits(mem, gone, new)
  BY DEF Checkpoint, UploadDir, Upload, Guard, Trash, ListTrashed, Astir, MovesInv, TypeOK
<1>2. /\ Fits(disk, gone, new)'
  BY <1>1 DEF Checkpoint, UploadDir, Upload, Guard, Trash, ListTrashed, Fits
<1>3. run.forgotten \in SUBSET Paths
  BY <1>1 DEF Runs
<1>4. \A p \in Outlived(run.moves) : local[p] = None
  BY DEF Outlived, Astir
<1>5. ASSUME NEW rels \in SUBSET Paths, Uploaded(rels)
      PROVE  Fits(mem, gone, new)'
  <2>1. \A p \in Paths : mem'[p] = mem[p] \/ (mem'[p] # None /\ local[p] # None)
    <3>1. ASSUME NEW p \in Verifies(rels)
          PROVE  Entry(run.scan[p], p) # None /\ local[p] # None
      <4>1. p \in Paths /\ run.scan[p] # None /\ local[p] # None
        BY <3>1 DEF Verifies, Sends
      <4>2. run.scan[p] \in Files
        BY <1>1, <4>1 DEF Runs
      <4> QED
        BY <4>1, <4>2, EntryTyped
    <3> QED
      BY <1>5, <3>1 DEF Uploaded
  <2> QED
    BY <1>1, <2>1, FitsKept
<1>6. CASE UploadDir
  <2>1. PICK d \in run.whole, failed \in SUBSET run.uploads :
          /\ \/ Uploaded(Within(d) \ failed)
             \/ mem' = mem
          /\ run'.moves = run.moves /\ run'.trash = run.trash
    <3>1. PICK d \in run.whole, failed \in SUBSET run.uploads :
            LET files == {p \in run.uploads : Dir(p) = d}
            IN IF Holds_exactly(d, files)
               THEN /\ Uploaded(Within(d) \ failed)
                    /\ run' = [run EXCEPT !.whole = @ \ {d}, !.uploads = @ \ files,
                         !.verified = @ \cup (Verifies(Within(d) \ failed) \cap files)]
               ELSE /\ run' = [run EXCEPT !.whole = @ \ {d}]
                    /\ UNCHANGED <<drive, mem, woes>>
      BY <1>6 DEF UploadDir
    <3>2. run'.moves = run.moves /\ run'.trash = run.trash
      BY <1>1, <3>1 DEF Runs
    <3> QED
      BY <3>1, <3>2
  <2>2. (Within(d) \ failed) \in SUBSET Paths
    BY DEF Within
  <2>3. Fits(mem, gone, new)'
    BY <1>1, <1>5, <2>1, <2>2 DEF Fits
  <2> QED
    BY <1>1, <1>2, <2>1, <2>3, StirKept DEF Astir
<1>7. CASE Upload
  <2>1. PICK rels \in SUBSET Paths : Uploaded(rels)
    <3>1. PICK p \in run.uploads, fails \in BOOLEAN : Uploaded(IF fails THEN {} ELSE {p})
      BY <1>7 DEF Upload
    <3> QED
      BY <1>1, <3>1 DEF Runs
  <2>2. run'.moves = run.moves /\ run'.trash = run.trash
    BY <1>1, <1>7 DEF Upload, Runs
  <2> QED
    BY <1>1, <1>2, <1>5, <2>1, <2>2, StirKept DEF Astir
<1>8. CASE Checkpoint \/ Trash
  <2>1. run'.moves = run.moves /\ run'.trash = run.trash /\ mem' = mem
    BY <1>1, <1>8 DEF Checkpoint, Trash, Runs
  <2> QED
    BY <1>1, <1>2, <2>1, FitsKept, StirKept DEF Astir
<1>9. CASE Guard
  <2>1. PICK vanished :
          LET trash == run.trash \cup (IF run.trashing THEN Outlived(run.moves) ELSE {})
          IN run' = Ending(run.forgotten) \/ run' = [run EXCEPT !.trash = trash, !.phase = "trash"]
    BY <1>9 DEF Guard
  <2>2. /\ run'.moves \subseteq run.moves
        /\ \A p \in run'.trash : p \in run.trash \/ p \in Outlived(run.moves)
    <3>1. Ending(run.forgotten).moves = {} /\ Ending(run.forgotten).trash = {}
      BY <1>3, EndingTyped DEF MovesInv
    <3> QED
      BY <1>1, <2>1, <3>1 DEF Runs
  <2>3. mem' = mem
    BY <1>9 DEF Guard
  <2> QED
    BY <1>1, <1>2, <1>4, <2>2, <2>3, FitsKept, StirKept DEF Astir
<1>10. CASE ListTrashed
  <2>1. PICK taken \in SUBSET run.trash :
          /\ mem' = [p \in Paths |-> IF p \in taken THEN None ELSE mem[p]]
          /\ \/ run' = Ending(run.forgotten \cup taken)
             \/ run'.moves = run.moves /\ run'.trash \subseteq run.trash
    <3>1. PICK fails \in BOOLEAN :
            LET group == {p \in run.trash : Dir(mem[p].at) = run.target}
                taken == {p \in group : ~fails /\ drive[mem[p].at] = None}
            IN /\ mem' = [p \in Paths |-> IF p \in taken THEN None ELSE mem[p]]
               /\ run' = IF run.trash = group THEN Ending(run.forgotten \cup taken)
                         ELSE [run EXCEPT !.phase = "trash", !.trash = @ \ group,
                                 !.forgotten = @ \cup taken]
      BY <1>10 DEF ListTrashed
    <3> DEFINE taken == {p \in run.trash : /\ Dir(mem[p].at) = run.target
                                           /\ ~fails /\ drive[mem[p].at] = None}
    <3>2. taken \in SUBSET run.trash
      OBVIOUS
    <3> QED
      BY <1>1, <3>1, <3>2 DEF Runs
  <2>2. run'.moves \subseteq run.moves /\ run'.trash \subseteq run.trash
    <3>1. run.forgotten \cup taken \in SUBSET Paths
      BY <1>1, <1>3, <2>1 DEF Runs
    <3> QED
      BY <2>1, <3>1, EndingTyped DEF MovesInv
  <2>3. \A p \in taken : local[p] = None
    BY <2>1 DEF Astir
  <2>4. Fits(mem, gone, new)'
    BY <1>1, <2>1, <2>3, FitsKept
  <2> QED
    BY <1>1, <1>2, <2>2, <2>4, StirKept DEF Astir
<1> QED
  BY <1>6, <1>7, <1>8, <1>9, <1>10

(* and its end, however it comes. *)
LEMMA EndingStirs ==
  ASSUME MovesInv, NEW gone \in SUBSET Paths, NEW new \in SUBSET Paths, Astir(gone, new),
         WriteManifest \/ Save \/ Interrupted \/ Killed
  PROVE  Astir(gone, new)'
<1>1. UNCHANGED local /\ run \in Runs
  BY DEF WriteManifest, Save, Interrupted, Killed, MovesInv, TypeOK
<1>2. mem' \in {mem, disk} /\ disk' \in {mem, disk}
  BY DEF WriteManifest, Save, Interrupted, Killed
<1>3. Fits(disk, gone, new)' /\ Fits(mem, gone, new)'
  BY <1>1, <1>2 DEF Astir, Fits
<1>4. run'.moves \subseteq run.moves /\ run'.trash \subseteq run.trash
  <2>1. run.forgotten \in SUBSET Paths
    BY <1>1 DEF Runs
  <2>2. /\ [Ending(run.forgotten) EXCEPT !.phase = "flush"].moves = {}
        /\ [Ending(run.forgotten) EXCEPT !.phase = "flush"].trash = {}
    BY <2>1, EndingTyped DEF MovesInv
  <2>3. [Idle EXCEPT !.phase = "save"].moves = {} /\ [Idle EXCEPT !.phase = "save"].trash = {}
    BY DEF Idle
  <2> QED
    BY <1>1, <2>2, <2>3, IdleTyped DEF WriteManifest, Save, Interrupted, Killed, Runs
<1> QED
  BY <1>1, <1>3, <1>4, StirKept DEF Astir

-----------------------------------------------------------------------------
(* What is known of the one move. *)
LEMMA SoleFacts ==
  ASSUME MovesInv, NEW p \in Paths, NEW q \in Paths, Sole(p, q),
         local[p] = None, local[q] # None
  PROVE  /\ p # q /\ local[q] \in Files
         /\ local[q].content \in Contents /\ local[q].content # None
         /\ Entry(local[q], p).content = local[q].content /\ Entry(local[q], p).at = p
         /\ Entry(local[q], p).mtime = local[q].mtime
         /\ Entry(local[q], p) # None
         /\ <<p, q>> \in Paths \X Paths
<1>1. local[q] \in Files
  BY DEF MovesInv, TypeOK
<1>2. local[q].content \in Contents
  BY <1>1 DEF Files
<1>3. Entry(local[q], p).mtime = local[q].mtime
  BY DEF Entry
<1> QED
  BY <1>1, <1>2, <1>3, EntryTyped, ContentsAssumption

(* At rest, nothing about the one move depends on the push. *)
LEMMA SoleRests ==
  ASSUME NEW p \in Paths, NEW q \in Paths, Sole(p, q), UNCHANGED <<local, drive>>,
         disk' \in {mem, disk}, mem' \in {mem, disk},
         run'.phase \in {"idle", "save", "manifest", "flush"}, run'.moves \subseteq {<<p, q>>},
         run'.uploads = {}, run'.unmoved = {}, run'.whole = {}, run'.trash = {}
  PROVE  Sole(p, q)'
<1>1. AtSole(p, q)'
  BY DEF AtSole
<1>2. /\ Stays(p, q)' = Stays(p, q) /\ Landed(p, q)' = Landed(p, q)
      /\ \/ disk' = disk /\ Unmade(disk, p, q)' = Unmade(disk, p, q)
                         /\ Made(disk, p, q)' = Made(disk, p, q)
         \/ disk' = mem /\ Unmade(disk, p, q)' = Unmade(mem, p, q)
                        /\ Made(disk, p, q)' = Made(mem, p, q)
      /\ \/ mem' = disk /\ Unmade(mem, p, q)' = Unmade(disk, p, q)
                        /\ Made(mem, p, q)' = Made(disk, p, q)
         \/ mem' = mem /\ Unmade(mem, p, q)' = Unmade(mem, p, q)
                       /\ Made(mem, p, q)' = Made(mem, p, q)
  BY DEF Stays, Landed, Unmade, Made
<1>3. \A x \in Paths \ {p, q} :
        /\ mem'[x] = disk'[x] /\ disk'[x] = disk[x]
  BY DEF Sole
<1>4. \/ Stays(p, q)' /\ Unmade(disk, p, q)' /\ Unmade(mem, p, q)'
      \/ /\ Landed(p, q)'
         /\ Unmade(disk, p, q)' \/ Made(disk, p, q)'
         /\ Unmade(mem, p, q)' \/ Made(mem, p, q)'
  BY <1>2 DEF Sole
<1> QED
  BY <1>1, <1>3, <1>4 DEF Sole

(* So it is with the end of a push, whichever way it ends. *)
LEMMA EndingSole ==
  ASSUME MovesInv, NEW p \in Paths, NEW q \in Paths, Sole(p, q),
         Guard \/ WriteManifest \/ Save \/ Interrupted \/ Killed
  PROVE  Sole(p, q)'
<1>1. /\ UNCHANGED <<local, drive>> /\ disk' \in {mem, disk} /\ mem' \in {mem, disk}
      /\ run \in Runs
  BY DEF Guard, WriteManifest, Save, Interrupted, Killed, MovesInv, TypeOK
<1> DEFINE Rests(r) == /\ r.phase \in {"idle", "save", "manifest", "flush"}
                       /\ r.moves \subseteq {<<p, q>>}
                       /\ r.uploads = {} /\ r.unmoved = {} /\ r.whole = {} /\ r.trash = {}
<1>2. /\ Rests(Idle) /\ Rests([Idle EXCEPT !.phase = "save"])
      /\ \A f : Rests(Ending(f)) /\ Rests([Ending(f) EXCEPT !.phase = "flush"])
  BY DEF Idle, Ending
<1>3. Guard => Rests(run')
  <2> SUFFICES ASSUME Guard PROVE Rests(run')
    OBVIOUS
  <2>1. Outlived(run.moves) = {}
    BY DEF Outlived, Sole
  <2>2. run.trash \cup (IF run.trashing THEN Outlived(run.moves) ELSE {}) = {}
    BY <2>1 DEF Sole
  <2>3. run' = Ending(run.forgotten)
    BY <2>2 DEF Guard
  <2> HIDE DEF Rests
  <2> QED
    BY <1>2, <2>3
<1>4. WriteManifest => Rests(run')
  <2> HIDE DEF Rests
  <2> QED
    BY <1>2 DEF WriteManifest
<1>5. Save => Rests(run')
  BY <1>1 DEF Save, Sole, AtSole, Runs, MovesInv, ScanInv, Rests
<1>6. Interrupted \/ Killed => Rests(run')
  <2> HIDE DEF Rests
  <2> QED
    BY <1>2 DEF Interrupted, Killed
<1>7. Rests(run')
  BY <1>3, <1>4, <1>5, <1>6
<1> QED
  BY <1>1, <1>7, SoleRests

(* A push that begins has this move to make, or to find made, and nothing  *)
(* else; once it is recorded there is nothing to do.                       *)
LEMMA StartSole ==
  ASSUME MovesInv, NEW p \in Paths, NEW q \in Paths, Sole(p, q),
         local[p] = None, local[q] # None, ~Barred(q), Start
  PROVE  Sole(p, q)'
<1>1. /\ run.phase = "idle" /\ mem' = disk /\ mem = disk
      /\ UNCHANGED <<local, drive, disk>>
  BY DEF Start, MovesInv, ScanInv
<1>2. PICK trashing \in BOOLEAN, mass \in BOOLEAN, recent \in SUBSET Times :
        LET scan == Scan
            changed == Changed(disk, scan)
            held == {x \in changed : scan[x].mtime \in recent}
            moves == Plan_moves(disk, scan, changed \ held)
            uploads == (changed \ held) \ {m[2] : m \in moves}
            trash == IF trashing
                     THEN Trash_candidates(disk, scan, {m[1] : m \in moves}, held) ELSE {}
        IN /\ trashing => trash # {} \/ moves # {}
           /\ mass => trashing
           /\ moves # {} \/ uploads # {} \/ trash # {}
           /\ run' = [Idle EXCEPT !.phase = "moves", !.trashing = trashing, !.mass = mass,
                        !.scan = scan, !.held = held, !.moves = moves, !.uploads = uploads,
                        !.todo = {Dir(m[2]) : m \in moves}, !.trash = trash]
  BY Zenon DEF Start
<1> DEFINE changed == Changed(disk, Scan)
           held == {x \in changed : Scan[x].mtime \in recent}
           added == (changed \ held) \ Indexed(disk)
           moves == Plan_moves(disk, Scan, changed \ held)
           uploads == (changed \ held) \ {m[2] : m \in moves}
           trash == IF trashing
                    THEN Trash_candidates(disk, Scan, {m[1] : m \in moves}, held) ELSE {}
<1>3. moves # {} \/ uploads # {} \/ trash # {}
  BY <1>2
<1>4. moves = Pair_moves(disk, Gone(disk), Scan, added)
  BY DEF Plan_moves
<1>5. trash \subseteq Gone(disk)
  BY DEF Trash_candidates
<1>6. \A x \in Paths \ {p, q} : x \notin changed /\ x \notin Gone(disk)
  BY DEF Sole, Changed, Gone, Scan, Indexed
<1>7. p \notin changed /\ q \notin Gone(disk) /\ Scan[q] = local[q]
  BY DEF Changed, Gone, Scan, Barred
<1>8. Gone(disk) \subseteq Paths /\ changed \subseteq Paths
  BY DEF Gone, Changed, Indexed
<1>9. CASE Made(disk, p, q)
  <2>1. Gone(disk) = {}
    BY <1>6, <1>7, <1>8, <1>9 DEF Made, Gone, Indexed
  <2>2. changed = {}
    BY <1>6, <1>7, <1>8, <1>9 DEF Made, Changed
  <2>3. added = {} /\ uploads = {} /\ trash = {}
    BY <1>5, <2>1, <2>2
  <2>4. moves = {}
    <3> HIDE DEF added, moves
    <3>1. moves \subseteq Gone(disk) \X added
      <4>1. Gone(disk) \in SUBSET Paths /\ added \in SUBSET Paths
        BY <2>1, <2>3
      <4> QED
        BY <1>4, <4>1, PairsUp
    <3> QED
      BY <2>1, <3>1
  <2> QED
    BY <1>3, <2>3, <2>4
<1>10. CASE Unmade(disk, p, q)
  <2>1. /\ disk[p] = Entry(local[q], p) /\ disk[p] # None /\ disk[q] = None
        /\ disk[p].held /\ Key(disk[p]) = Key(Scan[q])
        /\ disk[p].content = Scan[q].content
    <3>1. disk[p] = Entry(local[q], p) /\ disk[q] = None
      BY <1>10 DEF Unmade
    <3>2. /\ Entry(local[q], p).content = local[q].content
          /\ Entry(local[q], p).mtime = local[q].mtime
          /\ Entry(local[q], p) # None
      BY SoleFacts
    <3>3. Key(disk[p]) = Key(Scan[q])
      BY <1>7, <3>1, <3>2 DEF Key
    <3>4. disk[p].held
      BY <3>1 DEF Entry
    <3> QED
      BY <1>7, <3>1, <3>2, <3>3, <3>4
  <2>2. Gone(disk) = {p}
    BY <1>6, <1>7, <1>8, <2>1 DEF Gone, Indexed
  <2>3. changed = {q}
    BY <1>6, <1>7, <1>8, <2>1 DEF Changed
  <2>4. CASE q \in held
    <3>1. added = {} /\ uploads = {}
      BY <2>3, <2>4
    <3>2. moves \subseteq Gone(disk) \X added
      <4>1. added \in SUBSET Paths /\ Gone(disk) \in SUBSET Paths
        BY <1>8, <3>1
      <4> QED
        BY <1>4, <4>1, PairsUp
    <3>3. p \notin trash
      BY <2>1, <2>4 DEF Trash_candidates
    <3> QED
      BY <1>3, <1>5, <2>2, <3>1, <3>2, <3>3
  <2>5. CASE q \notin held
    <3>1. added = {q}
      BY <2>1, <2>3, <2>5 DEF Indexed
    <3>2. Size[Scan[q].content] # 0
      BY <1>7 DEF Barred
    <3>3. moves = {<<p, q>>}
      <4> HIDE DEF added, moves
      <4> QED
        BY <1>4, <2>1, <2>2, <3>1, <3>2, LonePair
    <3>4. uploads = {}
      <4>1. <<p, q>> \in moves
        BY <3>3
      <4>2. q \in {m[2] : m \in moves}
        <5> HIDE DEF moves
        <5> QED
          BY <4>1
      <4> QED
        BY <2>3, <4>2
    <3>5. trash = {}
      <4>1. p \in {m[1] : m \in moves}
        BY <3>3
      <4>2. p \notin trash
        <5> HIDE DEF moves
        <5> QED
          BY <4>1 DEF Trash_candidates
      <4> QED
        BY <1>5, <2>2, <4>2
    <3>6. {Dir(m[2]) : m \in moves} = {Dir(q)}
      <4> HIDE DEF moves
      <4> QED
        BY <3>3
    <3>7. run' = [Idle EXCEPT !.phase = "moves", !.trashing = trashing, !.mass = mass,
                    !.scan = Scan, !.held = held, !.moves = {<<p, q>>}, !.uploads = {},
                    !.todo = {Dir(q)}, !.trash = {}]
      <4> HIDE DEF held, moves, uploads, trash
      <4>1. run' = [Idle EXCEPT !.phase = "moves", !.trashing = trashing, !.mass = mass,
                      !.scan = Scan, !.held = held, !.moves = moves, !.uploads = uploads,
                      !.todo = {Dir(m[2]) : m \in moves}, !.trash = trash]
        BY <1>2 DEF held, moves, uploads, trash
      <4> QED
        BY <3>3, <3>4, <3>5, <3>6, <4>1
    <3> HIDE DEF held
    <3>8. /\ run'.phase = "moves" /\ run'.moves = {<<p, q>>} /\ run'.todo = {Dir(q)}
          /\ run'.uploads = {} /\ run'.unmoved = {} /\ run'.whole = {} /\ run'.trash = {}
      BY <3>7 DEF Idle
    <3>9. Unmade(disk, p, q)' /\ Unmade(mem, p, q)'
      BY <1>1, <1>10 DEF Unmade
    <3>10. AtSole(p, q)'
      BY <3>8, <3>9 DEF AtSole
    <3>11. Stays(p, q)' = Stays(p, q) /\ Landed(p, q)' = Landed(p, q)
      BY <1>1 DEF Stays, Landed
    <3> QED
      BY <1>1, <3>8, <3>9, <3>10, <3>11 DEF Sole
  <2> QED
    BY <2>4, <2>5
<1> QED
  BY <1>9, <1>10 DEF Sole

(* The first listing finds the node where it was, or moved already: both   *)
(* ways the move is planned.                                               *)
LEMMA ListTargetSole ==
  ASSUME MovesInv, NEW p \in Paths, NEW q \in Paths, Sole(p, q),
         local[p] = None, local[q] # None, OneCall(p, q),
         left'.mishaps = left.mishaps, ListTarget
  PROVE  Sole(p, q)'
<1>1. /\ run.phase = "moves" /\ run \in Runs
      /\ UNCHANGED <<local, drive, disk, mem>>
  BY DEF ListTarget, MovesInv, TypeOK
<1>2. PICK t \in run.todo, fails \in BOOLEAN, blind \in BOOLEAN :
        /\ fails => ~blind
        /\ Spend(0, IF fails \/ blind THEN 1 ELSE 0)
        /\ \E kept \in SUBSET Passing(t, Group(t)) : ListsAs(t, fails, blind, kept)
  BY Listing
<1>3. PICK kept \in SUBSET Passing(t, Group(t)) : ListsAs(t, fails, blind, kept)
  BY <1>2
<1>4. ~fails /\ ~blind
  BY <1>2 DEF Spend, MovesInv, TypeOK
<1>5. run.todo = {Dir(q)} /\ run.moves = {<<p, q>>} /\ Unmade(mem, p, q) /\ t = Dir(q)
  BY <1>1, <1>2 DEF Sole, AtSole
<1>6. /\ mem[p].at = p /\ mem[p].content = local[q].content /\ p # q
      /\ local[q].content # None
  <2>1. mem[p] = Entry(local[q], p)
    BY <1>5 DEF Unmade
  <2>2. /\ Entry(local[q], p).content = local[q].content /\ Entry(local[q], p).at = p
        /\ p # q /\ local[q].content # None
    BY SoleFacts
  <2> QED
    BY <2>1, <2>2
<1>7. Group(t) = {<<p, q>>}
  BY <1>5 DEF Group
<1>8. kept = {}
  <2>1. <<p, q>> \notin Passing(t, Group(t))
    BY <1>5, <1>6 DEF Passing, OneCall
  <2>2. Passing(t, Group(t)) \subseteq Group(t)
    BY DEF Passing
  <2> QED
    BY <1>7, <2>1, <2>2
<1> DEFINE plan == Plan(t, Group(t), kept, FALSE)
           Whole(m) == [old |-> m[1], new |-> m[2], needs_move |-> FALSE, old_name |-> Name(m[2])]
           Part(m) == [old |-> m[1], new |-> m[2], needs_move |-> Dir(mem[m[1]].at) # t,
                       old_name |-> Name(mem[m[1]].at)]
           moved == {m \in Group(t) : drive[m[2]] # None /\ Already(m[1], m[2], FALSE)}
           free == {m \in Group(t) : drive[m[2]] = None}
           sent == {m \in free : \/ Dir(mem[m[1]].at) = t \/ Name(mem[m[1]].at) = Name(m[2])
                                 \/ m \in kept}
<1>9. plan = {Whole(m) : m \in moved} \cup {Part(m) : m \in sent}
  BY DEF Plan
<1>10. Whole(<<p, q>>) = WasMade(p, q) /\ Part(<<p, q>>) = ToMake(p, q)
  BY <1>5, <1>6 DEF WasMade, ToMake
<1>11. \/ Stays(p, q) /\ plan = {ToMake(p, q)}
       \/ Landed(p, q) /\ plan = {WasMade(p, q)}
  <2>1. CASE Stays(p, q)
    <3>1. moved = {} /\ free = {<<p, q>>}
      <4>1. \A m \in Group(t) : m = <<p, q>> /\ drive[m[2]] = None
        BY <1>7, <2>1 DEF Stays
      <4> QED
        BY <1>7, <4>1
    <3>2. sent = {<<p, q>>}
      BY <1>5, <1>6, <3>1 DEF OneCall
    <3> HIDE DEF plan, Whole, Part, moved, sent
    <3> QED
      BY <1>9, <1>10, <2>1, <3>1, <3>2
  <2>2. CASE Landed(p, q)
    <3>1. free = {} /\ sent = {}
      BY <1>6, <1>7, <2>2 DEF Landed
    <3>2. moved = {<<p, q>>}
      BY <1>6, <1>7, <2>2 DEF Landed, Already, Same
    <3> HIDE DEF plan, Whole, Part, moved, sent
    <3> QED
      BY <1>9, <1>10, <2>2, <3>1, <3>2
  <2> QED
    BY <2>1, <2>2 DEF Sole
<1>12. \A m \in plan : m.new = q
  <2> HIDE DEF plan
  <2> QED
    BY <1>11 DEF ToMake, WasMade
<1>13. {m[2] : m \in Group(t)} \ {m.new : m \in plan} = {}
  <2> HIDE DEF plan
  <2> QED
    BY <1>7, <1>11, <1>12
<1> DEFINE rest == {m[2] : m \in Group(t)} \ {m.new : m \in plan}
           renames == {m \in plan : Passes(m)}
<1>14. run' = [run EXCEPT !.phase = IF plan = {} THEN "moves" ELSE "move",
                 !.todo = @ \ {t}, !.target = t, !.plan = plan, !.renames = renames,
                 !.unmoved = @ \cup rest]
  BY <1>3, <1>4 DEF ListsAs
<1> HIDE DEF plan, rest, renames
<1>15. /\ run'.phase = "move" /\ run'.todo = {} /\ run'.target = Dir(q)
       /\ run'.plan = plan /\ run'.renames = renames /\ run'.unmoved = {}
       /\ run'.moves = {<<p, q>>} /\ run'.uploads = {} /\ run'.whole = {} /\ run'.trash = {}
  BY <1>1, <1>5, <1>11, <1>13, <1>14 DEF Runs, Sole, rest
<1>16. renames = {m \in run'.plan : Passes(m)}
  BY <1>15 DEF renames
<1>17. /\ Unmade(mem, p, q)' = Unmade(mem, p, q) /\ Unmade(disk, p, q)' = Unmade(disk, p, q)
       /\ Made(disk, p, q)' = Made(disk, p, q)
       /\ Stays(p, q)' = Stays(p, q) /\ Landed(p, q)' = Landed(p, q)
  BY <1>1 DEF Unmade, Made, Stays, Landed
<1>18. AtSole(p, q)'
  <2>1. ToMake(p, q)' = ToMake(p, q) /\ WasMade(p, q)' = WasMade(p, q)
    BY DEF ToMake, WasMade
  <2> QED
    BY <1>5, <1>11, <1>15, <1>16, <1>17, <2>1 DEF AtSole, Passes
<1> QED
  BY <1>1, <1>5, <1>15, <1>17, <1>18 DEF Sole

(* A move between folders takes the node to its place at once. *)
LEMMA MoveNodesSole ==
  ASSUME MovesInv, NEW p \in Paths, NEW q \in Paths, Sole(p, q),
         local[p] = None, local[q] # None, OneCall(p, q),
         left'.mishaps = left.mishaps, MoveNodes
  PROVE  Sole(p, q)'
<1> DEFINE sources == {m \in run.plan : m.needs_move}
<1>1. /\ run.phase = "move" /\ run \in Runs /\ drive \in [Paths -> Contents \cup {None}]
      /\ UNCHANGED <<local, disk, mem>> /\ run' = [run EXCEPT !.phase = "rename"]
  BY DEF MoveNodes, MovesInv, TypeOK
<1>2. PICK failed \in SUBSET sources :
        LET gone == {m \in sources \ failed :
                       drive[mem[m.old].at] # None /\ drive[Placed(m)] = None}
        IN /\ Spend(0, IF failed = {} THEN 0 ELSE 1)
           /\ drive' = [x \in Paths |->
                IF \E m \in gone : Placed(m) = x
                THEN drive[mem[(CHOOSE m \in gone : Placed(m) = x).old].at]
                ELSE IF \E m \in gone : mem[m.old].at = x THEN None ELSE drive[x]]
  BY DEF MoveNodes
<1>3. failed = {}
  <2>1. Spend(0, IF failed = {} THEN 0 ELSE 1)
    BY <1>2
  <2> QED
    BY <2>1 DEF Spend, MovesInv, TypeOK
<1> DEFINE gone == {m \in sources : drive[mem[m.old].at] # None /\ drive[Placed(m)] = None}
<1>4. drive' = [x \in Paths |->
        IF \E m \in gone : Placed(m) = x
        THEN drive[mem[(CHOOSE m \in gone : Placed(m) = x).old].at]
        ELSE IF \E m \in gone : mem[m.old].at = x THEN None ELSE drive[x]]
  BY <1>2, <1>3
<1>5. /\ run.moves = {<<p, q>>} /\ run.target = Dir(q) /\ run.todo = {}
      /\ Unmade(mem, p, q) /\ run.renames = {m \in run.plan : Passes(m)}
      /\ \/ Stays(p, q) /\ run.plan = {ToMake(p, q)}
         \/ Landed(p, q) /\ run.plan = {WasMade(p, q)}
  BY <1>1 DEF Sole, AtSole
<1>6. mem[p].at = p /\ p # q /\ local[q].content # None
  <2>1. mem[p] = Entry(local[q], p)
    BY <1>5 DEF Unmade
  <2>2. Entry(local[q], p).at = p /\ p # q /\ local[q].content # None
    BY SoleFacts
  <2> QED
    BY <2>1, <2>2
<1>7. /\ run'.phase = "rename" /\ run'.moves = run.moves /\ run'.target = run.target
      /\ run'.todo = run.todo /\ run'.plan = run.plan /\ run'.renames = run.renames
      /\ run'.uploads = {} /\ run'.unmoved = {} /\ run'.whole = {} /\ run'.trash = {}
  BY <1>1 DEF Runs, Sole
<1>8. /\ Unmade(mem, p, q)' = Unmade(mem, p, q) /\ Unmade(disk, p, q)' = Unmade(disk, p, q)
      /\ Made(disk, p, q)' = Made(disk, p, q)
      /\ ToMake(p, q)' = ToMake(p, q) /\ WasMade(p, q)' = WasMade(p, q)
  BY <1>1 DEF Unmade, Made, ToMake, WasMade
<1>9. gone = {} => /\ Stays(p, q)' = Stays(p, q) /\ Landed(p, q)' = Landed(p, q)
  <2> SUFFICES ASSUME gone = {} PROVE Stays(p, q)' = Stays(p, q) /\ Landed(p, q)' = Landed(p, q)
    OBVIOUS
  <2>1. drive'[p] = drive[p] /\ drive'[q] = drive[q]
    <3> HIDE DEF gone
    <3> QED
      BY <1>4
  <2> QED
    BY <1>1, <2>1 DEF Stays, Landed
<1>10. p = <<Dir(p), Name(p)>> /\ q = <<Dir(q), Name(q)>>
  BY PathIs
<1>11. CASE Landed(p, q) /\ run.plan = {WasMade(p, q)}
  <2>1. \A m \in run.plan : ~m.needs_move /\ ~Passes(m)
    BY <1>11 DEF WasMade, Passes
  <2>2. gone = {} /\ run.renames = {}
    BY <1>5, <2>1
  <2>3. Landed(p, q)'
    BY <1>9, <1>11, <2>2
  <2>4. AtSole(p, q)'
    BY <1>5, <1>7, <1>8, <1>11, <2>2, <2>3 DEF AtSole
  <2> QED
    BY <1>1, <1>5, <1>7, <1>8, <1>11, <2>3, <2>4 DEF Sole
<1>12. CASE Stays(p, q) /\ run.plan = {ToMake(p, q)} /\ Dir(p) = Dir(q)
  <2>1. \A m \in run.plan : ~m.needs_move /\ Passes(m)
    <3>1. Name(p) # Name(q)
      BY <1>6, <1>10, <1>12
    <3>2. /\ ToMake(p, q).old_name = Name(p) /\ ToMake(p, q).new = q
          /\ ToMake(p, q).needs_move = FALSE
      BY <1>12 DEF ToMake
    <3>3. ~ToMake(p, q).needs_move
      BY <3>2
    <3> QED
      BY <1>12, <3>1, <3>2, <3>3 DEF Passes
  <2>2. gone = {} /\ run.renames = {ToMake(p, q)}
    BY <1>5, <1>12, <2>1
  <2>3. Stays(p, q)'
    BY <1>9, <1>12, <2>2
  <2>4. AtSole(p, q)'
    BY <1>5, <1>7, <1>8, <1>12, <2>2, <2>3 DEF AtSole
  <2>5. Unmade(disk, p, q)
    BY <1>6, <1>12 DEF Sole, Stays, Landed
  <2> QED
    BY <1>1, <1>5, <1>7, <1>8, <2>3, <2>4, <2>5 DEF Sole
<1>13. CASE Stays(p, q) /\ run.plan = {ToMake(p, q)} /\ Dir(p) # Dir(q)
  <2>1. Name(p) = Name(q)
    BY <1>13 DEF OneCall
  <2>2. /\ ToMake(p, q).needs_move /\ ToMake(p, q).old = p /\ ToMake(p, q).old_name = Name(p)
        /\ ToMake(p, q).new = q
    BY <1>13 DEF ToMake
  <2>3. Placed(ToMake(p, q)) = q /\ ~Passes(ToMake(p, q))
    BY <1>5, <1>10, <2>1, <2>2 DEF Placed, Passes
  <2>4. drive[p] # None /\ drive[q] = None /\ drive[p] = local[q].content
    BY <1>6, <1>13 DEF Stays
  <2>5. gone = {ToMake(p, q)}
    BY <1>6, <1>13, <2>2, <2>3, <2>4
  <2>6. run.renames = {}
    BY <1>5, <1>13, <2>3
  <2>7. drive'[q] = drive[p] /\ drive'[p] = None
    <3>1. /\ \A m \in gone : Placed(m) = q /\ mem[m.old].at = p /\ m.old = p
          /\ \E m \in gone : Placed(m) = q
      BY <1>6, <2>2, <2>3, <2>5
    <3> HIDE DEF gone
    <3>2. (CHOOSE m \in gone : Placed(m) = q) \in gone
      BY <3>1
    <3>3. drive'[q] = drive[mem[(CHOOSE m \in gone : Placed(m) = q).old].at]
      BY <1>4, <3>1
    <3>4. drive'[q] = drive[p]
      BY <1>6, <3>1, <3>2, <3>3
    <3>5. drive'[p] = None
      BY <1>4, <1>6, <3>1
    <3> QED
      BY <3>4, <3>5
  <2>8. Landed(p, q)'
    BY <1>1, <2>4, <2>7 DEF Landed
  <2>9. AtSole(p, q)'
    BY <1>5, <1>7, <1>8, <1>13, <2>6, <2>8 DEF AtSole
  <2>10. Unmade(disk, p, q)
    BY <1>6, <1>13 DEF Sole, Stays, Landed
  <2> QED
    BY <1>1, <1>5, <1>7, <1>8, <2>8, <2>9, <2>10 DEF Sole
<1> QED
  BY <1>5, <1>11, <1>12, <1>13

(* So does a rename within a folder. *)
LEMMA RenameSole ==
  ASSUME MovesInv, NEW p \in Paths, NEW q \in Paths, Sole(p, q),
         local[p] = None, local[q] # None,
         left'.mishaps = left.mishaps, RenameNode
  PROVE  Sole(p, q)'
<1>1. /\ run.phase = "rename" /\ run \in Runs /\ drive \in [Paths -> Contents \cup {None}]
      /\ UNCHANGED <<local, disk, mem>>
  BY DEF RenameNode, MovesInv, TypeOK
<1>2. PICK m \in run.renames, fails \in BOOLEAN :
        LET renamed == ~fails /\ drive[Placed(m)] # None /\ drive[m.new] = None
        IN /\ Spend(0, IF fails THEN 1 ELSE 0)
           /\ drive' = IF renamed THEN [drive EXCEPT ![m.new] = drive[Placed(m)],
                                                     ![Placed(m)] = None]
                       ELSE drive
           /\ run' = [run EXCEPT !.renames = @ \ {m}]
  BY DEF RenameNode
<1>3. ~fails
  BY <1>2 DEF Spend, MovesInv, TypeOK
<1>4. /\ run.moves = {<<p, q>>} /\ run.target = Dir(q) /\ run.todo = {}
      /\ Unmade(mem, p, q) /\ Dir(p) = Dir(q) /\ Stays(p, q)
      /\ run.renames = {ToMake(p, q)} /\ run.plan = {ToMake(p, q)} /\ m = ToMake(p, q)
  BY <1>1, <1>2 DEF Sole, AtSole
<1>5. mem[p].at = p /\ p # q /\ local[q].content # None
  <2>1. mem[p] = Entry(local[q], p)
    BY <1>4 DEF Unmade
  <2>2. Entry(local[q], p).at = p /\ p # q /\ local[q].content # None
    BY SoleFacts
  <2> QED
    BY <2>1, <2>2
<1>6. Placed(m) = p /\ m.new = q
  BY <1>4, <1>5 DEF ToMake, Placed
<1>7. Landed(p, q)'
  BY <1>1, <1>2, <1>3, <1>4, <1>5, <1>6 DEF Landed, Stays
<1>8. /\ run'.phase = "rename" /\ run'.moves = run.moves /\ run'.target = run.target
      /\ run'.todo = run.todo /\ run'.plan = run.plan /\ run'.renames = {}
      /\ run'.uploads = {} /\ run'.unmoved = {} /\ run'.whole = {} /\ run'.trash = {}
  BY <1>1, <1>2, <1>4 DEF Runs, Sole
<1>9. /\ Unmade(mem, p, q)' = Unmade(mem, p, q) /\ Unmade(disk, p, q)' = Unmade(disk, p, q)
      /\ ToMake(p, q)' = ToMake(p, q) /\ WasMade(p, q)' = WasMade(p, q)
  BY <1>1 DEF Unmade, Made, ToMake, WasMade
<1>10. AtSole(p, q)'
  BY <1>4, <1>7, <1>8, <1>9 DEF AtSole
<1>11. Unmade(disk, p, q)
  BY <1>4, <1>5 DEF Sole, Stays, Landed
<1> QED
  BY <1>1, <1>4, <1>7, <1>8, <1>9, <1>10, <1>11 DEF Sole

(* The second listing finds the node in place, and the move is recorded.   *)
LEMMA ListMovedSole ==
  ASSUME MovesInv, NEW p \in Paths, NEW q \in Paths, Sole(p, q),
         local[p] = None, local[q] # None,
         left'.mishaps = left.mishaps, ListMoved
  PROVE  Sole(p, q)'
<1>1. /\ run.phase = "rename" /\ run.renames = {} /\ run \in Runs
      /\ UNCHANGED <<local, drive, disk>> /\ mem \in [Paths -> Entries \cup {None}]
  BY DEF ListMoved, MovesInv, TypeOK
<1>2. PICK fails \in BOOLEAN :
        LET done == {m \in run.plan : ~fails /\ Same(m.new, mem[m.old])}
            strays == {m \in run.plan \ done : ~fails /\ m.needs_move /\ Passes(m)
                                               /\ drive[<<run.target, m.old_name>>] # None}
        IN /\ Spend(0, IF fails THEN 1 ELSE 0)
           /\ mem' = Rekeyed(mem, done)
           /\ run' = [run EXCEPT
                !.phase = IF strays = {} THEN "moves" ELSE "back", !.plan = strays,
                !.verified = @ \cup {m.new : m \in done},
                !.forgotten = @ \cup {m.old : m \in done},
                !.unmoved = @ \cup {m.new : m \in run.plan \ done}]
  BY DEF ListMoved
<1>3. ~fails
  BY <1>2 DEF Spend, MovesInv, TypeOK
<1>4. /\ run.moves = {<<p, q>>} /\ run.todo = {} /\ Unmade(mem, p, q) /\ Landed(p, q)
      /\ run.plan = {ToMake(p, q)} \/ run.plan = {WasMade(p, q)}
  BY <1>1 DEF Sole, AtSole
<1>5. PICK m : run.plan = {m} /\ m.old = p /\ m.new = q
  <2>1. CASE run.plan = {ToMake(p, q)}
    <3>1. ToMake(p, q).old = p /\ ToMake(p, q).new = q
      BY DEF ToMake
    <3> QED
      BY <2>1, <3>1
  <2>2. CASE run.plan = {WasMade(p, q)}
    <3>1. WasMade(p, q).old = p /\ WasMade(p, q).new = q
      BY DEF WasMade
    <3> QED
      BY <2>2, <3>1
  <2> QED
    BY <1>4, <2>1, <2>2
<1>6. mem[p].content = local[q].content /\ p # q /\ local[q].content # None
  <2>1. mem[p] = Entry(local[q], p)
    BY <1>4 DEF Unmade
  <2>2. Entry(local[q], p).content = local[q].content /\ p # q /\ local[q].content # None
    BY SoleFacts
  <2> QED
    BY <2>1, <2>2
<1>7. Same(m.new, mem[m.old])
  BY <1>4, <1>5, <1>6 DEF Same, Landed
<1> DEFINE done == {k \in run.plan : ~fails /\ Same(k.new, mem[k.old])}
           strays == {k \in run.plan \ done : ~fails /\ k.needs_move /\ Passes(k)
                                              /\ drive[<<run.target, k.old_name>>] # None}
<1>8. done = {m} /\ strays = {}
  BY <1>3, <1>5, <1>7
<1>9. {k.new : k \in run.plan \ done} = {}
  <2> HIDE DEF done
  <2> QED
    BY <1>5, <1>8
<1>10. /\ mem' = Rekeyed(mem, {m})
       /\ run'.phase = "moves" /\ run'.todo = {} /\ run'.moves = {<<p, q>>}
       /\ run'.unmoved = {} /\ run'.uploads = {} /\ run'.whole = {} /\ run'.trash = {}
  <2> DEFINE verified == run.verified \cup {k.new : k \in done}
             forgotten == run.forgotten \cup {k.old : k \in done}
             rest == {k.new : k \in run.plan \ done}
  <2>1. /\ mem' = Rekeyed(mem, done)
        /\ run' = [run EXCEPT
                !.phase = IF strays = {} THEN "moves" ELSE "back", !.plan = strays,
                !.verified = verified, !.forgotten = forgotten, !.unmoved = run.unmoved \cup rest]
    BY <1>1, <1>2 DEF Runs
  <2>2. rest = {}
    BY <1>9
  <2> HIDE DEF verified, forgotten, rest, done, strays
  <2>3. /\ run'.phase = "moves" /\ run'.todo = run.todo /\ run'.moves = run.moves
        /\ run'.unmoved = run.unmoved \cup rest /\ run'.uploads = run.uploads
        /\ run'.whole = run.whole /\ run'.trash = run.trash
    BY <1>1, <1>8, <2>1 DEF Runs
  <2> QED
    BY <1>4, <1>8, <2>1, <2>2, <2>3 DEF Sole
<1>11. /\ mem'[q] = [content |-> mem[p].content, mtime |-> run.scan[q].mtime, at |-> q,
                     held |-> TRUE]
       /\ mem'[p] = None
       /\ \A x \in Paths \ {p, q} : mem'[x] = mem[x]
  <2>1. (CHOOSE k \in {m} : k.new = q) = m
    BY <1>5
  <2>2. mem' = [x \in Paths |->
          IF \E k \in {m} : k.new = x
          THEN LET k == CHOOSE k \in {m} : k.new = x
               IN [content |-> mem[k.old].content, mtime |-> run.scan[x].mtime, at |-> x,
                   held |-> TRUE]
          ELSE IF \E k \in {m} : k.old = x THEN None ELSE mem[x]]
    BY <1>10 DEF Rekeyed
  <2> QED
    BY <1>5, <1>6, <2>1, <2>2
<1>12. mem'[q] # None
  <2>1. TypeOK'
    BY ListMovedHolds DEF MovesInv
  <2>2. run.scan \in [Paths -> Files \cup {None}] /\ run.scan[q] # None
    BY <1>1, <1>4 DEF Runs, MovesInv, ScanInv
  <2>3. run.scan[q].mtime \in Times
    BY <2>2 DEF Files
  <2>4. mem'[q] \in Entries
    <3>1. mem[p].content \in Contents
      BY <1>6, SoleFacts
    <3> QED
      BY <1>11, <2>3, <3>1 DEF Entries
  <2> QED
    BY <2>4, EntryAssumption
<1>13. Made(mem, p, q)'
  BY <1>1, <1>6, <1>11, <1>12 DEF Made
<1>14. AtSole(p, q)'
  BY <1>10, <1>13 DEF AtSole
<1>15. Landed(p, q)' /\ (Unmade(disk, p, q)' \/ Made(disk, p, q)')
  BY <1>1, <1>4, <1>6 DEF Landed, Unmade, Made, Sole, Stays
<1> QED
  BY <1>1, <1>10, <1>11, <1>13, <1>14, <1>15 DEF Sole

(* Nothing is left to upload. *)
LEMMA CheckpointSole ==
  ASSUME MovesInv, NEW p \in Paths, NEW q \in Paths, Sole(p, q),
         local[p] = None, local[q] # None, Checkpoint
  PROVE  Sole(p, q)'
<1>1. /\ run.phase = "moves" /\ run.todo = {} /\ run \in Runs
      /\ UNCHANGED <<local, drive, mem>> /\ disk' \in {mem, disk}
      /\ run' = [run EXCEPT !.phase = "uploads", !.uploads = run.uploads \cup run.unmoved,
                   !.whole = Whole_dirs(mem, run.scan, run.uploads \cup run.unmoved)]
  BY DEF Checkpoint, MovesInv, TypeOK
<1>2. Made(mem, p, q) /\ run.uploads \cup run.unmoved = {}
  BY <1>1 DEF Sole, AtSole
<1>3. Whole_dirs(mem, run.scan, run.uploads \cup run.unmoved) = {}
  BY <1>2 DEF Whole_dirs
<1>4. /\ run'.phase = "uploads" /\ run'.moves = run.moves
      /\ run'.uploads = {} /\ run'.unmoved = {} /\ run'.whole = {} /\ run'.trash = {}
  BY <1>1, <1>2, <1>3 DEF Runs, Sole
<1>5. Made(mem, p, q)'
  BY <1>1, <1>2 DEF Made
<1>6. AtSole(p, q)'
  BY <1>4, <1>5 DEF AtSole
<1>7. Landed(p, q)' /\ (Unmade(disk, p, q)' \/ Made(disk, p, q)')
  <2>1. Landed(p, q) /\ (Unmade(disk, p, q) \/ Made(disk, p, q))
    BY <1>2, SoleFacts DEF Sole, Made, Unmade
  <2> QED
    BY <1>1, <1>2, <2>1 DEF Landed, Unmade, Made
<1> QED
  BY <1>1, <1>4, <1>5, <1>6, <1>7 DEF Sole

(* And a push of one move uploads and trashes nothing. *)
LEMMA NoOtherSole ==
  ASSUME NEW p \in Paths, NEW q \in Paths, Sole(p, q),
         PutBack \/ UploadDir \/ Upload \/ Trash \/ ListTrashed
  PROVE  FALSE
BY DEF PutBack, UploadDir, Upload, Trash, ListTrashed, Sole, AtSole

-----------------------------------------------------------------------------
(* At the start everything is in sync. *)
LEMMA KilledInitHolds ==
  ASSUME Init
  PROVE  SpentInv /\ KilledInv
<1>1. PICK on \in [Paths -> Files \cup {None}], off \in SUBSET Paths :
        LET synced == {p \in Paths : on[p] # None}
        IN /\ off \subseteq synced
           /\ local = [p \in Paths |-> IF p \in off THEN None ELSE on[p]]
           /\ drive = [p \in Paths |-> IF p \in synced THEN on[p].content ELSE None]
           /\ disk = [p \in Paths |-> IF p \notin synced THEN None
                                      ELSE [Entry(on[p], p) EXCEPT !.held = p \notin off]]
  BY DEF Init
<1>2. /\ run = Idle /\ left.edits = MaxEdits /\ left.mishaps = MaxMishaps /\ woes = {}
      /\ MaxEdits \in Nat /\ MaxMishaps \in Nat
  BY MovesAssumption DEF Init
<1>3. /\ run.phase = "idle" /\ run.moves = {} /\ run.trash = {}
      /\ run.uploads = {} /\ run.unmoved = {} /\ run.whole = {}
  BY <1>2 DEF Idle
<1>4. ASSUME NEW p \in Paths
      PROVE  /\ local[p] # None => disk[p] = Entry(local[p], p)
             /\ disk[p] # None => /\ disk[p].at = p /\ drive[p] = disk[p].content
                                  /\ disk[p].held => local[p] # None
             /\ disk[p] = None => drive[p] = None
  <2>1. CASE on[p] = None
    BY <1>1, <2>1
  <2>2. CASE on[p] # None
    <3>1. on[p] \in Files
      BY <2>2
    <3>2. Entry(on[p], p) # None
      BY <3>1, EntryTyped
    <3>3. /\ disk[p] = [Entry(on[p], p) EXCEPT !.held = p \notin off]
          /\ drive[p] = on[p].content
      BY <1>1, <2>2
    <3>4. CASE p \in off
      <4>1. local[p] = None
        BY <1>1, <3>4
      <4>2. /\ disk[p].at = p /\ disk[p].content = on[p].content /\ disk[p].held = FALSE
            /\ disk[p] \in Entries
        BY <3>1, <3>3, <3>4 DEF Entry, Entries, Files
      <4> QED
        BY <3>3, <4>1, <4>2, EntryAssumption
    <3>5. CASE p \notin off
      <4>1. local[p] = on[p]
        BY <1>1, <3>5
      <4>2. disk[p] = Entry(on[p], p) /\ disk[p].at = p /\ disk[p].content = on[p].content
        BY <3>3, <3>5 DEF Entry
      <4> QED
        BY <2>2, <3>2, <3>3, <4>1, <4>2
    <3> QED
      BY <3>4, <3>5
  <2> QED
    BY <2>1, <2>2
<1>5. InSync
  BY <1>3, <1>4 DEF InSync
<1> QED
  BY <1>2, <1>5 DEF SpentInv, KilledInv

(* A push has nothing to do before the first edit. *)
LEMMA InSyncRests ==
  ASSUME MovesInv, InSync, Pushes \/ Interrupted \/ Killed
  PROVE  FALSE
<1>1. run.phase = "idle"
  BY DEF InSync
<1>2. Start
  BY <1>1 DEF Pushes, Interrupted, Killed, ListTarget, MoveNodes, RenameNode, ListMoved, PutBack,
              Checkpoint, UploadDir, Upload, Guard, Trash, ListTrashed, WriteManifest, Save
<1>3. \A p \in Paths : local[p] # None => disk[p] # None /\ disk[p].content = local[p].content
  <2> SUFFICES ASSUME NEW p \in Paths, local[p] # None
               PROVE  disk[p] # None /\ disk[p].content = local[p].content
    OBVIOUS
  <2>1. local[p] \in Files
    BY DEF MovesInv, TypeOK
  <2> QED
    BY <2>1, EntryTyped DEF InSync
<1>4. Changed(disk, Scan) = {}
  BY <1>3 DEF Changed, Scan
<1>5. Gone(disk) = {}
  BY DEF Gone, Indexed, InSync
<1>6. \A held : Plan_moves(disk, Scan, {} \ held) = {}
  BY DEF Plan_moves, Pair_moves
<1>7. \A moving, held : Trash_candidates(disk, Scan, moving, held) = {}
  BY <1>5 DEF Trash_candidates
<1>8. PICK trashing \in BOOLEAN, mass \in BOOLEAN, recent \in SUBSET Times :
        LET scan == Scan
            changed == Changed(disk, scan)
            held == {x \in changed : scan[x].mtime \in recent}
            moves == Plan_moves(disk, scan, changed \ held)
            uploads == (changed \ held) \ {m[2] : m \in moves}
            trash == IF trashing
                     THEN Trash_candidates(disk, scan, {m[1] : m \in moves}, held) ELSE {}
        IN moves # {} \/ uploads # {} \/ trash # {}
  BY <1>2 DEF Start
<1> QED
  BY <1>4, <1>6, <1>7, <1>8

(* What each step takes from the bounds, and what it marks. *)
LEMMA StepSpends ==
  ASSUME TypeOK, [Next]_vars
  PROVE  \E e, n \in Nat :
           /\ Spend(e, n) /\ woes \subseteq woes'
           /\ "killed" \in woes' => "killed" \in woes \/ (n >= 1 /\ (Interrupted \/ Killed))
<1> DEFINE Spends(e, n) ==
             /\ Spend(e, n) /\ woes \subseteq woes'
             /\ "killed" \in woes' => "killed" \in woes \/ (n >= 1 /\ (Interrupted \/ Killed))
           Spares == woes \subseteq woes' /\ ("killed" \in woes' => "killed" \in woes)
           Goal == \E e, n \in Nat : Spends(e, n)
<1> SUFFICES Goal
  OBVIOUS
<1>1. ASSUME UNCHANGED <<left, woes>>
      PROVE  Spends(0, 0)
  BY <1>1 DEF TypeOK, Spend
<1>2. ASSUME NEW b, NEW c, NEW d \in {"blind", "orphaned", "other"}, NEW f \in {"raced", "shared"},
             Woe(Mark(b, d) \cup Mark(c, f)) \/ Woe(Mark(b, d)) \/ Woe(Mark(c, f) \cup Mark(b, d))
      PROVE  Spares
  BY <1>2 DEF Woe, Mark
<1>3. ASSUME NEW n \in Nat, Spend(0, n), Spares
      PROVE  Goal
  <2>1. Spends(0, n)
    BY <1>3
  <2> QED
    BY <2>1
<1>4. CASE UserWrites \/ UserDeletes \/ UserMoves
  <2>1. Spends(1, 0)
    BY <1>4 DEF UserWrites, UserDeletes, UserMoves, Edits
  <2> QED
    BY <2>1
<1>5. CASE OtherWrites \/ Interrupted \/ Killed
  <2>1. Spends(0, 1)
    BY <1>5 DEF OtherWrites, Interrupted, Killed, Woe
  <2> QED
    BY <2>1
<1>6. CASE Start \/ Checkpoint \/ Guard \/ Save \/ UNCHANGED vars
  <2>1. UNCHANGED <<left, woes>>
    BY <1>6 DEF Start, Checkpoint, Guard, Save, vars
  <2> QED
    BY <1>1, <2>1
<1>7. CASE ListTarget
  <2>1. PICK t, fails, blind, kept : /\ Spend(0, IF fails \/ blind THEN 1 ELSE 0)
                                     /\ ListsAs(t, fails, blind, kept)
    BY <1>7, Listing
  <2>2. \E n \in Nat : Spend(0, n)
    BY <2>1
  <2>3. \E plan : Woe(Mark(fails \/ blind, "blind") \cup Mark(Raced(plan), "raced"))
    BY <2>1 DEF ListsAs
  <2>4. Spares
    <3> HIDE DEF Spares
    <3> QED
      BY <2>3, <1>2
  <2> HIDE DEF Goal, Spends, Spares
  <2> QED
    BY <1>3, <2>2, <2>4
<1>8. CASE MoveNodes \/ RenameNode \/ Trash
  <2>1. \E n \in Nat : Spend(0, n)
    BY <1>8 DEF MoveNodes, RenameNode, Trash
  <2>2. Spares
    BY <1>8 DEF MoveNodes, RenameNode, Trash
  <2> HIDE DEF Goal, Spends, Spares
  <2> QED
    BY <1>3, <2>1, <2>2
<1>10. CASE ListMoved
  <2>1. PICK fails : /\ Spend(0, IF fails THEN 1 ELSE 0)
                     /\ Woe(Mark(fails, "blind") \cup Mark(Shared(mem'), "shared"))
    BY <1>10 DEF ListMoved
  <2>2. \E n \in Nat : Spend(0, n)
    BY <2>1
  <2> HIDE DEF Goal, Spends, Spares
  <2>3. Spares
    BY <1>2, <2>1
  <2> QED
    BY <1>3, <2>2, <2>3
<1>11. CASE PutBack
  <2>1. PICK fails \in BOOLEAN, blind \in BOOLEAN :
          /\ Spend(0, (IF fails THEN 1 ELSE 0) + (IF blind THEN 1 ELSE 0))
          /\ Woe(Mark(blind, "blind") \cup Mark(Shared(mem'), "shared"))
    BY <1>11 DEF PutBack
  <2>2. Spares
    <3> HIDE DEF Spares
    <3> QED
      BY <1>2, <2>1
  <2>3. (IF fails THEN 1 ELSE 0) + (IF blind THEN 1 ELSE 0) \in Nat
    OBVIOUS
  <2> QED
    BY <2>1, <2>2, <2>3
<1>12. ASSUME NEW rels, Uploaded(rels)
       PROVE  Spares
  <2>1. Woe(Mark(Shared(mem'), "shared")
            \cup Mark(\E p \in Verifies(rels) : mem[p] # None /\ mem[p].at # p, "orphaned"))
    BY <1>12 DEF Uploaded
  <2> HIDE DEF Spares
  <2> QED
    BY <1>2, <2>1
<1>13. CASE UploadDir \/ Upload
  <2>1. \E n \in Nat : Spend(0, n)
    BY <1>13 DEF UploadDir, Upload
  <2>2. \E rels : Uploaded(rels) \/ UNCHANGED woes
    <3> HIDE DEF Goal, Spends, Spares
    <3> QED
      BY <1>13 DEF UploadDir, Upload
  <2>3. Spares
    BY <1>12, <2>2
  <2> HIDE DEF Goal, Spends, Spares
  <2> QED
    BY <1>3, <2>1, <2>3
<1>14. CASE ListTrashed \/ WriteManifest
  <2>1. PICK fails : Spend(0, IF fails THEN 1 ELSE 0) /\ Woe(Mark(fails, "blind"))
    BY <1>14 DEF ListTrashed, WriteManifest
  <2>2. \E n \in Nat : Spend(0, n)
    BY <2>1
  <2> HIDE DEF Goal, Spends, Spares
  <2>3. Spares
    BY <1>2, <2>1
  <2> QED
    BY <1>3, <2>2, <2>3
<1> HIDE DEF Goal
<1> QED
  BY <1>4, <1>5, <1>6, <1>7, <1>8, <1>10, <1>11, <1>13, <1>14 DEF Next, Pushes

(* In a quiet run no other device writes, no call fails, and the user does *)
(* one edit.                                                               *)
LEMMA QuietSteps ==
  ASSUME TypeOK, SpentInv, [Next]_vars
  PROVE  /\ SpentInv'
         /\ Quiet' => /\ Quiet /\ ~OtherWrites
                      /\ left'.mishaps = left.mishaps \/ Interrupted \/ Killed
                      /\ left'.edits = left.edits
                           \/ (left.edits = MaxEdits /\ left'.edits < MaxEdits)
                      /\ (UserWrites \/ UserDeletes \/ UserMoves) =>
                           left.edits = MaxEdits /\ left'.edits < MaxEdits
<1>1. PICK e \in Nat, n \in Nat :
        /\ Spend(e, n) /\ woes \subseteq woes'
        /\ "killed" \in woes' => "killed" \in woes \/ (n >= 1 /\ (Interrupted \/ Killed))
  BY StepSpends
<1>2. SpentInv'
  BY <1>1, SpendKeeps
<1>3. ASSUME Quiet'
      PROVE  /\ Quiet /\ ~OtherWrites
             /\ left'.mishaps = left.mishaps \/ Interrupted \/ Killed
             /\ left'.edits = left.edits \/ (left.edits = MaxEdits /\ left'.edits < MaxEdits)
             /\ (UserWrites \/ UserDeletes \/ UserMoves) =>
                  left.edits = MaxEdits /\ left'.edits < MaxEdits
  <2>1. /\ Quiet
        /\ n = 0 \/ (woes = {} /\ woes' = {"killed"})
        /\ left.edits < MaxEdits => e = 0
        /\ left'.edits = left.edits - e /\ left.edits \in Nat
    BY <1>1, <1>3, QuietBefore
  <2>2. ~OtherWrites
    BY <1>3 DEF Quiet, OtherWrites, Woe
  <2>3. left'.mishaps = left.mishaps \/ Interrupted \/ Killed
    <3>1. CASE n = 0
      BY <1>1, <3>1 DEF Spend, TypeOK
    <3>2. CASE woes = {} /\ woes' = {"killed"}
      BY <1>1, <3>2
    <3> QED
      BY <2>1, <3>1, <3>2
  <2>4. left.edits <= MaxEdits /\ MaxEdits \in Nat
    BY MovesAssumption DEF SpentInv
  <2>5. left'.edits = left.edits \/ (left.edits = MaxEdits /\ left'.edits < MaxEdits)
    BY <2>1, <2>4
  <2>6. (UserWrites \/ UserDeletes \/ UserMoves) => left'.edits = left.edits - 1
    BY DEF UserWrites, UserDeletes, UserMoves, Edits, Spend
  <2> QED
    BY <2>1, <2>2, <2>3, <2>4, <2>5, <2>6
<1> QED
  BY <1>2, <1>3

(* A step that changes nothing keeps it. *)
LEMMA KilledStutters ==
  ASSUME KilledInv, UNCHANGED vars
  PROVE  KilledInv'
<1>1. /\ UNCHANGED <<local, drive, disk, mem, run, left, woes>>
  BY DEF vars
<1>2. ASSUME NEW gone \in SUBSET Paths, NEW new \in SUBSET Paths, Astir(gone, new)
      PROVE  Astir(gone, new)'
  BY <1>1, <1>2 DEF Astir, Fits, Barred
<1>3. ASSUME NEW p \in Paths, NEW q \in Paths, Barred(q) \/ Sole(p, q)
      PROVE  Barred(q)' \/ Sole(p, q)'
  <2>1. Barred(q)' = Barred(q)
    BY <1>1 DEF Barred
  <2>2. Sole(p, q)' = Sole(p, q)
    BY <1>1 DEF Sole, AtSole, Stays, Landed, Made, Unmade
  <2> QED
    BY <1>3, <2>1, <2>2
<1>4. InSync => InSync'
  BY <1>1 DEF InSync
<1>5. SUFFICES ASSUME Quiet'
               PROVE  \/ left'.edits = MaxEdits /\ InSync'
                      \/ /\ left'.edits < MaxEdits
                         /\ \E gone, new \in SUBSET Paths :
                              /\ Astir(gone, new)'
                              /\ \A p \in gone, q \in new :
                                   OneCall(p, q) => Barred(q)' \/ Sole(p, q)'
  BY DEF KilledInv
<1>6. Quiet
  BY <1>1, <1>5 DEF Quiet
<1>7. CASE left.edits = MaxEdits /\ InSync
  BY <1>1, <1>4, <1>7
<1>8. CASE left.edits < MaxEdits /\ ~(left.edits = MaxEdits /\ InSync)
  <2>1. PICK gone \in SUBSET Paths, new \in SUBSET Paths :
          /\ Astir(gone, new)
          /\ \A p \in gone, q \in new : OneCall(p, q) => Barred(q) \/ Sole(p, q)
    BY <1>6, <1>8 DEF KilledInv
  <2>2. Astir(gone, new)'
    BY <1>2, <2>1
  <2>3. \A p \in gone, q \in new : OneCall(p, q) => Barred(q)' \/ Sole(p, q)'
    BY <1>3, <2>1
  <2> QED
    BY <1>1, <1>8, <2>2, <2>3
<1> QED
  BY <1>6, <1>7, <1>8 DEF KilledInv

(* The invariant is kept by every step. *)
LEMMA KilledStep ==
  ASSUME MovesInv, SpentInv, KilledInv, [Next]_vars
  PROVE  SpentInv' /\ KilledInv'
<1>1. TypeOK
  BY DEF MovesInv
<1>2. SpentInv'
  BY <1>1, QuietSteps
<1>3. CASE UNCHANGED vars
  BY <1>2, <1>3, KilledStutters
<1>4. CASE Next
  <2> SUFFICES ASSUME Quiet' PROVE KilledInv'
    BY <1>2 DEF KilledInv
  <2>1. /\ Quiet /\ ~OtherWrites
        /\ left'.mishaps = left.mishaps \/ Interrupted \/ Killed
        /\ left'.edits = left.edits \/ (left.edits = MaxEdits /\ left'.edits < MaxEdits)
        /\ (UserWrites \/ UserDeletes \/ UserMoves) =>
             left.edits = MaxEdits /\ left'.edits < MaxEdits
    BY <1>1, QuietSteps
  <2>2. left.edits \in Nat /\ MaxEdits \in Nat
    BY <1>1, MovesAssumption DEF TypeOK
  <2>3. CASE left.edits = MaxEdits /\ InSync
    <3>1. UserWrites \/ UserDeletes \/ UserMoves
      BY <1>4, <2>1, <2>3, InSyncRests DEF Next
    <3>2. left'.edits < MaxEdits
      BY <2>1, <3>1
    <3>3. \E gone, new \in SUBSET Paths :
            /\ Astir(gone, new)'
            /\ \A p \in gone, q \in new : OneCall(p, q) => Barred(q)' \/ Sole(p, q)'
      BY <2>3, <3>1, <3>2, UserStirs
    <3> QED
      BY <3>2, <3>3 DEF KilledInv
  <2>4. CASE left.edits < MaxEdits
    <3>1. PICK gone \in SUBSET Paths, new \in SUBSET Paths :
            /\ Astir(gone, new)
            /\ \A p \in gone, q \in new : OneCall(p, q) => Barred(q) \/ Sole(p, q)
      BY <2>1, <2>2, <2>4 DEF KilledInv
    <3>2. left'.edits < MaxEdits /\ (Pushes \/ Interrupted \/ Killed)
      BY <1>4, <2>1, <2>2, <2>4 DEF Next
    <3>3. UNCHANGED local
      BY <3>2 DEF Pushes, Interrupted, Killed, Start, ListTarget, MoveNodes, RenameNode, ListMoved,
                  PutBack, Checkpoint, UploadDir, Upload, Guard, Trash, ListTrashed, WriteManifest,
                  Save
    <3>4. Astir(gone, new)'
      BY <3>1, <3>2, StartStirs, MovingStirs, UploadingStirs, EndingStirs DEF Pushes
    <3>5. ASSUME NEW p \in gone, NEW q \in new, OneCall(p, q), ~Barred(q)
          PROVE  Sole(p, q)'
      <4>1. /\ p \in Paths /\ q \in Paths /\ Sole(p, q)
            /\ local[p] = None /\ local[q] # None
        BY <3>1, <3>5 DEF Astir
      <4>2. CASE Interrupted \/ Killed \/ Guard \/ WriteManifest \/ Save
        BY <4>1, <4>2, EndingSole
      <4>3. CASE Start
        BY <3>5, <4>1, <4>3, StartSole
      <4>4. CASE Checkpoint
        BY <4>1, <4>4, CheckpointSole
      <4>5. CASE PutBack \/ UploadDir \/ Upload \/ Trash \/ ListTrashed
        BY <4>1, <4>5, NoOtherSole
      <4>6. CASE /\ left'.mishaps = left.mishaps
                 /\ ListTarget \/ MoveNodes \/ RenameNode \/ ListMoved
        BY <3>5, <4>1, <4>6, ListTargetSole, MoveNodesSole, RenameSole, ListMovedSole
      <4> QED
        BY <2>1, <3>2, <4>2, <4>3, <4>4, <4>5, <4>6 DEF Pushes
    <3>6. \A q \in new : Barred(q)' = Barred(q)
      BY <3>3 DEF Barred
    <3>7. \A p \in gone, q \in new : OneCall(p, q) => Barred(q)' \/ Sole(p, q)'
      BY <3>5, <3>6
    <3> QED
      BY <3>2, <3>4, <3>7 DEF KilledInv
  <2>5. left.edits < MaxEdits \/ (left.edits = MaxEdits /\ InSync)
    BY <2>1 DEF KilledInv
  <2> QED
    BY <2>3, <2>4, <2>5
<1> QED
  BY <1>3, <1>4

(* A move of one call that a killed push made and did not record is        *)
(* recorded by the next push: by the time the uploads begin, its old path  *)
(* is in the index no more.                                                *)
LEMMA KilledMoves ==
  ASSUME MovesInv, KilledInv
  PROVE  KilledMovesAreRecorded
<1> SUFFICES ASSUME /\ run.phase = "uploads" /\ woes = {"killed"}
                    /\ left.mishaps + 1 >= MaxMishaps /\ left.edits + 1 >= MaxEdits,
                    NEW m \in run.moves, Dir(m[1]) = Dir(m[2]) \/ Name(m[1]) = Name(m[2])
             PROVE  mem[m[1]] = None
  BY DEF KilledMovesAreRecorded
<1>1. Quiet
  BY DEF Quiet
<1>2. ~InSync
  BY DEF InSync
<1>3. PICK gone \in SUBSET Paths, new \in SUBSET Paths :
        /\ Astir(gone, new)
        /\ \A p \in gone, q \in new : OneCall(p, q) => Barred(q) \/ Sole(p, q)
  BY <1>1, <1>2 DEF KilledInv
<1>4. m[1] \in gone /\ m[2] \in new /\ ~Barred(m[2])
  BY <1>3 DEF Astir
<1>5. Sole(m[1], m[2])
  BY <1>3, <1>4 DEF OneCall
<1> QED
  BY <1>5 DEF Sole, AtSole, Made

(* Of every push, for any paths, contents and bounds. *)
THEOREM KilledMovesRecorded == Spec => []KilledMovesAreRecorded
<1>1. Init => SpentInv /\ KilledInv
  BY KilledInitHolds
<1>2. MovesInv /\ SpentInv /\ KilledInv /\ [Next]_vars => SpentInv' /\ KilledInv'
  BY KilledStep
<1>3. MovesInv /\ KilledInv => KilledMovesAreRecorded
  BY KilledMoves
<1> QED
  BY <1>1, <1>2, <1>3, MovesAlways, PTL DEF Spec

-----------------------------------------------------------------------------
(* The guards leave one of the held files out of what is trashed, and the  *)
(* trash step keeps to that.                                               *)
LeavesSome ==
  run.phase \in {"trash", "trashed"} =>
    \E p \in Indexed(mem) \ run.trash : mem[p].held

LEMMA RefusedForAll ==
  ASSUME IsFiniteSet(Paths), NEW index, NEW rels \in SUBSET Paths, NEW vanished, NEW allow,
         ~Deletion_refusal(index, rels, vanished, allow)
  PROVE  \E p \in Indexed(index) \ rels : index[p].held
<1> DEFINE held == {p \in Indexed(index) : index[p].held}
<1>1. ~(Cardinality(rels) >= Cardinality(held))
  BY DEF Deletion_refusal
<1>2. IsFiniteSet(rels)
  BY FS_Subset
<1>3. ASSUME held \subseteq rels PROVE FALSE
  <2>1. Cardinality(held) <= Cardinality(rels) /\ IsFiniteSet(held)
    BY <1>2, <1>3, FS_Subset
  <2>2. Cardinality(held) \in Nat /\ Cardinality(rels) \in Nat
    BY <1>2, <2>1, FS_CardinalityType
  <2> HIDE DEF held
  <2> QED
    BY <1>1, <2>1, <2>2
<1> QED
  BY <1>3

LEMMA StartsMoving == Start => run'.phase = "moves"
<1> SUFFICES ASSUME Start PROVE run'.phase = "moves"
  OBVIOUS
<1>1. PICK trashing \in BOOLEAN, mass \in BOOLEAN, recent \in SUBSET Times :
        LET scan == Scan
            changed == Changed(disk, scan)
            held == {p \in changed : scan[p].mtime \in recent}
            moves == Plan_moves(disk, scan, changed \ held)
            uploads == (changed \ held) \ {m[2] : m \in moves}
            trash == IF trashing
                     THEN Trash_candidates(disk, scan, {m[1] : m \in moves}, held) ELSE {}
        IN /\ trashing => trash # {} \/ moves # {}
           /\ mass => trashing
           /\ moves # {} \/ uploads # {} \/ trash # {}
           /\ run' = [Idle EXCEPT !.phase = "moves", !.trashing = trashing, !.mass = mass,
                        !.scan = scan, !.held = held, !.moves = moves, !.uploads = uploads,
                        !.todo = {Dir(m[2]) : m \in moves}, !.trash = trash]
  BY Zenon DEF Start
<1> QED
  BY <1>1 DEF Idle

LEMMA LeavesSomeHolds ==
  ASSUME IsFiniteSet(Paths), MovesInv, LeavesSome, [Next]_vars
  PROVE  LeavesSome'
<1> SUFFICES ASSUME run'.phase \in {"trash", "trashed"}
             PROVE  \E p \in Indexed(mem') \ run'.trash : mem'[p].held
  BY DEF LeavesSome, Indexed
<1> USE DEF MovesInv
<1>1. ASSUME UNCHANGED mem, run'.phase = run.phase \/ run.phase \in {"trash", "trashed"},
             run'.trash \subseteq run.trash
      PROVE  \E p \in Indexed(mem') \ run'.trash : mem'[p].held
  BY <1>1 DEF LeavesSome, Indexed
<1>2. CASE UNCHANGED <<mem, run>>
  BY <1>1, <1>2
<1>3. CASE Guard
  <2>1. PICK vanished :
          LET trash == run.trash \cup (IF run.trashing THEN Outlived(run.moves) ELSE {})
              refused == Deletion_refusal(mem, trash, vanished, run.mass)
          IN run' = IF refused \/ trash = {} THEN Ending(run.forgotten)
                    ELSE [run EXCEPT !.trash = trash, !.phase = "trash"]
    BY <1>3 DEF Guard
  <2> DEFINE trash == run.trash \cup (IF run.trashing THEN Outlived(run.moves) ELSE {})
  <2>2. trash \in SUBSET Paths
    BY DEF Outlived, TypeOK, Runs
  <2> HIDE DEF trash
  <2>3. Ending(run.forgotten).phase = "save"
    BY EndingTyped DEF TypeOK, Runs
  <2>4. /\ ~Deletion_refusal(mem, trash, vanished, run.mass)
        /\ run' = [run EXCEPT !.trash = trash, !.phase = "trash"]
    BY <2>1, <2>3 DEF trash
  <2>5. run'.trash = trash /\ UNCHANGED mem
    BY <1>3, <2>4 DEF Guard, TypeOK, Runs
  <2> QED
    BY <2>2, <2>4, <2>5, RefusedForAll DEF Indexed
<1>4. CASE Trash
  <2>1. UNCHANGED mem /\ run.phase = "trash" /\ run'.trash = run.trash
    BY <1>4 DEF Trash, TypeOK, Runs
  <2> QED
    BY <1>1, <2>1
<1>5. CASE ListTrashed
  <2> DEFINE group == {p \in run.trash : Dir(mem[p].at) = run.target}
  <2>1. /\ run.phase = "trashed"
        /\ \A p \in Paths \ run.trash : mem'[p] = mem[p]
        /\ \/ run'.phase = "save"
           \/ run'.trash = run.trash \ group
    <3>1. PICK fails \in BOOLEAN :
            LET marked == {p \in run.trash : Dir(mem[p].at) = run.target}
                gone == {p \in marked : ~fails /\ drive[mem[p].at] = None}
            IN /\ Spend(0, IF fails THEN 1 ELSE 0)
               /\ Woe(Mark(fails, "blind"))
               /\ mem' = [p \in Paths |-> IF p \in gone THEN None ELSE mem[p]]
               /\ run' = IF run.trash = marked THEN Ending(run.forgotten \cup gone)
                         ELSE [run EXCEPT !.phase = "trash", !.trash = @ \ marked,
                                 !.forgotten = @ \cup gone]
      BY <1>5, Zenon DEF ListTrashed
    <3> DEFINE gone == {p \in group : ~fails /\ drive[mem[p].at] = None}
    <3>2. /\ mem' = [p \in Paths |-> IF p \in gone THEN None ELSE mem[p]]
          /\ run' = IF run.trash = group THEN Ending(run.forgotten \cup gone)
                    ELSE [run EXCEPT !.phase = "trash", !.trash = @ \ group,
                            !.forgotten = @ \cup gone]
      BY <3>1
    <3>3. gone \subseteq run.trash /\ run.trash \subseteq Paths /\ run.forgotten \subseteq Paths
      BY DEF TypeOK, Runs
    <3> HIDE DEF gone, group
    <3>4. Ending(run.forgotten \cup gone).phase = "save"
      BY <3>3, EndingTyped
    <3>5. \A p \in Paths \ run.trash : mem'[p] = mem[p]
      BY <3>2, <3>3
    <3>6. run'.phase = "save" \/ run'.trash = run.trash \ group
      BY <3>2, <3>4 DEF TypeOK, Runs
    <3>7. run.phase = "trashed"
      BY <1>5 DEF ListTrashed
    <3> QED
      BY <3>5, <3>6, <3>7
  <2>2. PICK p \in Indexed(mem) \ run.trash : mem[p].held
    BY <2>1 DEF LeavesSome
  <2>3. p \in Paths /\ mem[p] # None /\ mem'[p] = mem[p]
    BY <2>1, <2>2 DEF Indexed
  <2>4. p \notin run'.trash
    BY <2>1, <2>2
  <2> QED
    BY <2>2, <2>3, <2>4 DEF Indexed
<1>6. CASE UserWrites \/ UserDeletes \/ UserMoves \/ OtherWrites
  BY <1>2, <1>6 DEF UserWrites, UserDeletes, UserMoves, OtherWrites
<1>7. ASSUME \/ Interrupted \/ Killed \/ Start \/ ListTarget \/ MoveNodes \/ RenameNode
             \/ ListMoved \/ PutBack \/ Checkpoint \/ UploadDir \/ Upload
             \/ WriteManifest \/ Save
      PROVE  FALSE
  <2>1. run \in Runs /\ run.forgotten \in SUBSET Paths
    BY DEF TypeOK, Runs
  <2>2. ~Interrupted
    <3>1. [Ending(run.forgotten) EXCEPT !.phase = "flush"].phase = "flush"
      BY <2>1, EndingTyped
    <3> QED
      BY <3>1 DEF Interrupted
  <2>3. ~Killed
    BY IdleTyped DEF Killed
  <2>4. ~Start
    <3>1. Start => run'.phase = "moves"
      BY StartsMoving
    <3> QED
      BY <3>1
  <2>5. ~WriteManifest
    <3>1. WriteManifest => run' = Idle \/ run' = [Idle EXCEPT !.phase = "save"]
      BY DEF WriteManifest
    <3> QED
      BY <3>1 DEF Idle
  <2>6. ~ListTarget
    <3> SUFFICES ASSUME ListTarget PROVE FALSE
      OBVIOUS
    <3>1. PICK t, fails, blind, kept : ListsAs(t, fails, blind, kept)
      BY Listing
    <3>2. run'.phase \in {"moves", "move"}
      BY <2>1, <3>1 DEF ListsAs, Runs
    <3> QED
      BY <3>2
  <2>7. MoveNodes => run'.phase = "rename"
    <3>1. MoveNodes => run' = [run EXCEPT !.phase = "rename"]
      BY Zenon DEF MoveNodes
    <3> QED
      BY <2>1, <3>1 DEF Runs
  <2>8. RenameNode => run'.phase = "rename"
    BY <2>1 DEF RenameNode, Runs
  <2>9. ListMoved => run'.phase \in {"moves", "back"}
    BY <2>1 DEF ListMoved, Runs
  <2>10. PutBack => run'.phase \in {"moves", "back"}
    BY <2>1 DEF PutBack, Runs
  <2>11. Checkpoint \/ UploadDir \/ Upload => run'.phase = "uploads"
    <3>1. Checkpoint => run'.phase = "uploads"
      BY <2>1 DEF Checkpoint, Runs
    <3>2. UploadDir => run'.phase = "uploads"
      BY <2>1 DEF UploadDir, Runs
    <3>3. Upload => run'.phase = "uploads"
      BY <2>1 DEF Upload, Runs
    <3> QED
      BY <3>1, <3>2, <3>3
  <2>12. Save => run'.phase = "manifest"
    BY <2>1 DEF Save, Runs
  <2> QED
    BY <1>7, <2>2, <2>3, <2>4, <2>5, <2>6, <2>7, <2>8, <2>9, <2>10, <2>11, <2>12
<1>8. CASE UNCHANGED vars
  BY <1>2, <1>8 DEF vars
<1> QED
  BY <1>3, <1>4, <1>5, <1>6, <1>7, <1>8, <1>2
     DEF Next, Pushes

(* However many folders the deletions are in, and whatever the user        *)
(* allows, trashing them leaves a file of the index on Drive (the first of *)
(* _deletion_refusal's guards, which is asked once, of all of them).       *)
THEOREM TrashSparesSome ==
  ASSUME IsFiniteSet(Paths)
  PROVE  Spec => TrashLeavesSome
<1> DEFINE some == \E p \in Indexed(mem) : mem[p].held /\ drive'[mem[p].at] # None
<1>1. ASSUME MovesInv, LeavesSome, TrashSteps, woes \subseteq {"orphaned"}, [Next]_vars
      PROVE  some
  <2> USE <1>1 DEF MovesInv
  <2>1. run.phase = "trash" /\ run'.phase = "trashed" /\ "shared" \notin woes
    BY DEF TrashSteps
  <2>2. \A q \in Paths : drive'[q] = drive[q] \/ \E r \in run.trash : mem[r].at = q
    BY <2>1, TrashTakes
  <2>3. PICK p \in Indexed(mem) \ run.trash : mem[p].held
    BY <2>1 DEF LeavesSome
  <2>4. drive[mem[p].at] # None
    BY <2>1, <2>3 DEF NodesInv, ScanInv, Placing
  <2>5. \A r \in run.trash : mem[r].at # mem[p].at
    BY <2>1, <2>3, TrashSpares
  <2>6. mem[p].at \in Paths
    BY DEF Indexed, TypeOK, Entries
  <2> QED
    BY <2>2, <2>3, <2>4, <2>5, <2>6
<1>2. Init => LeavesSome
  <2>1. Init => run = Idle
    BY DEF Init
  <2> QED
    BY <2>1, IdleTyped DEF LeavesSome
<1>3. MovesInv /\ LeavesSome /\ [Next]_vars => LeavesSome'
  BY LeavesSomeHolds
<1>4. MovesInv /\ LeavesSome /\ [Next]_vars
        => [TrashSteps /\ woes \subseteq {"orphaned"} => some]_vars
  BY <1>1
<1> QED
  BY <1>2, <1>3, <1>4, MovesAlways, PTL DEF Spec, TrashLeavesSome

-----------------------------------------------------------------------------
(* Of a group of files with one key, those alone in their names are        *)
(* paired,                                                                 *)
LEMMA NamesMatch ==
  ASSUME NEW olds \in SUBSET Paths, NEW news \in SUBSET Paths, NEW p \in olds, NEW q \in news,
         Name(p) = Name(q),
         \A o \in olds : Name(o) = Name(p) => o = p,
         \A n \in news : Name(n) = Name(q) => n = q
  PROVE  <<p, q>> \in Pair_group(olds, news)
<1> DEFINE Olds(pairs) == olds \ {m[1] : m \in pairs}
           News(pairs) == news \ {m[2] : m \in pairs}
           named == Unique_matches(olds, news, 2)
           placed == named \cup Unique_matches(Olds(named), News(named), 1)
           single == {m \in olds \X news : Olds(placed) = {m[1]} /\ News(placed) = {m[2]}}
<1>1. Pair_group(olds, news) = placed \cup single
  BY DEF Pair_group
<1>2. <<p, q>> \in named
  BY DEF Unique_matches, Name
<1> HIDE DEF named, single
<1> QED
  BY <1>1, <1>2

(* and no two are left over alone.                                         *)
LEMMA LeftoversMany ==
  ASSUME NEW olds \in SUBSET Paths, NEW news \in SUBSET Paths, NEW p \in olds, NEW q \in news,
         \A m \in Pair_group(olds, news) : m[1] # p /\ m[2] # q
  PROVE  \/ \E o \in olds \ {p} : \A m \in Pair_group(olds, news) : m[1] # o
         \/ \E n \in news \ {q} : \A m \in Pair_group(olds, news) : m[2] # n
<1> DEFINE Olds(pairs) == olds \ {m[1] : m \in pairs}
           News(pairs) == news \ {m[2] : m \in pairs}
           named == Unique_matches(olds, news, 2)
           placed == named \cup Unique_matches(Olds(named), News(named), 1)
           single == {m \in olds \X news : Olds(placed) = {m[1]} /\ News(placed) = {m[2]}}
<1>1. Pair_group(olds, news) = placed \cup single
  BY DEF Pair_group
<1> HIDE DEF placed
<1>2. p \in Olds(placed) /\ q \in News(placed)
  BY <1>1
<1>3. <<p, q>> \notin single
  BY <1>1
<1>4. Olds(placed) # {p} \/ News(placed) # {q}
  BY <1>3
<1>5. CASE Olds(placed) # {p}
  <2>1. PICK o \in Olds(placed) : o # p
    BY <1>2, <1>5
  <2>2. \A m \in single : m[1] # o
    BY <1>2, <2>1
  <2>3. \A m \in placed : m[1] # o
    BY <2>1
  <2> QED
    BY <1>1, <2>1, <2>2, <2>3
<1>6. CASE News(placed) # {q}
  <2>1. PICK n \in News(placed) : n # q
    BY <1>2, <1>6
  <2>2. \A m \in single : m[2] # n
    BY <1>2, <2>1
  <2>3. \A m \in placed : m[2] # n
    BY <2>1
  <2> QED
    BY <1>1, <2>1, <2>2, <2>3
<1> QED
  BY <1>4, <1>5, <1>6

(* pair_moves is what its docstring says, for any files: pairs are one to  *)
(* one, of equal keys and never empty; a file that keeps its basename is   *)
(* paired if no other of its key, gone or new, has that name; and no key   *)
(* is left with just one file gone and one new: what stays unpaired is     *)
(* ambiguous.                                                              *)
THEOREM MovesAreMatched ==
  ASSUME NEW index, NEW deleted \in SUBSET Paths, NEW scan, NEW added \in SUBSET Paths
  PROVE  LET pairs == Pair_moves(index, deleted, scan, added)
             Alike(p, q) == Key(index[p]) = Key(scan[q]) /\ Size[scan[q].content] # 0
         IN /\ pairs \subseteq deleted \X added
            /\ \A m \in pairs : Alike(m[1], m[2])
            /\ \A m, k \in pairs : m[1] = k[1] <=> m[2] = k[2]
            /\ \A p \in deleted, q \in added :
                 /\ Alike(p, q) /\ Name(p) = Name(q)
                 /\ \A o \in deleted : Alike(o, q) /\ Name(o) = Name(p) => o = p
                 /\ \A n \in added : Alike(p, n) /\ Name(n) = Name(q) => n = q
                 => <<p, q>> \in pairs
            /\ \A p \in deleted, q \in added :
                 Alike(p, q) /\ (\A m \in pairs : m[1] # p /\ m[2] # q) =>
                   \/ \E o \in deleted \ {p} : Alike(o, q) /\ \A m \in pairs : m[1] # o
                   \/ \E n \in added \ {q} : Alike(p, n) /\ \A m \in pairs : m[2] # n
<1> DEFINE pairs == Pair_moves(index, deleted, scan, added)
           Alike(p, q) == Key(index[p]) = Key(scan[q]) /\ Size[scan[q].content] # 0
           olds(key) == {p \in deleted : Key(index[p]) = key}
           news(key) == {p \in added : Key(scan[p]) = key}
<1>1. /\ pairs \subseteq deleted \X added
      /\ \A m \in pairs : Key(index[m[1]]) = Key(scan[m[2]])
      /\ \A m, k \in pairs : m[1] = k[1] <=> m[2] = k[2]
  BY PairsUp
<1>2. \A m \in pairs : Size[scan[m[2]].content] # 0
  BY PairsSized
<1>3. ASSUME NEW p \in deleted, NEW q \in added, Alike(p, q)
      PROVE  /\ Pair_group(olds(Key(scan[q])), news(Key(scan[q]))) \subseteq pairs
             /\ olds(Key(scan[q])) \in SUBSET Paths /\ news(Key(scan[q])) \in SUBSET Paths
             /\ p \in olds(Key(scan[q])) /\ q \in news(Key(scan[q]))
             /\ \A o \in olds(Key(scan[q])) : Alike(o, q)
             /\ \A n \in news(Key(scan[q])) : Alike(p, n)
  <2>1. Key(scan[q]) \in {Key(scan[x]) : x \in {y \in added : Size[scan[y].content] # 0}}
    BY <1>3
  <2>2. Pair_group(olds(Key(scan[q])), news(Key(scan[q]))) \subseteq pairs
    BY <2>1 DEF Pair_moves
  <2>3. \A n \in news(Key(scan[q])) : scan[n].content = scan[q].content
    BY DEF Key
  <2> QED
    BY <1>3, <2>2, <2>3
<1>4. ASSUME NEW m \in pairs, NEW p \in deleted, NEW q \in added, Alike(p, q), m[1] = p \/ m[2] = q
      PROVE  m \in Pair_group(olds(Key(scan[q])), news(Key(scan[q])))
  <2>1. PICK key : m \in Pair_group(olds(key), news(key))
    BY DEF Pair_moves
  <2>2. olds(key) \in SUBSET Paths /\ news(key) \in SUBSET Paths
    OBVIOUS
  <2>3. m \in olds(key) \X news(key)
    BY <2>1, <2>2, GroupPairsUp
  <2>4. key = Key(scan[q])
    BY <1>4, <2>3
  <2> QED
    BY <2>1, <2>4
<1> HIDE DEF pairs, olds, news
<1>5. ASSUME NEW p \in deleted, NEW q \in added, Alike(p, q), Name(p) = Name(q),
             \A o \in deleted : Alike(o, q) /\ Name(o) = Name(p) => o = p,
             \A n \in added : Alike(p, n) /\ Name(n) = Name(q) => n = q
      PROVE  <<p, q>> \in pairs
  <2> DEFINE os == olds(Key(scan[q]))
             ns == news(Key(scan[q]))
  <2>1. /\ os \in SUBSET Paths /\ ns \in SUBSET Paths /\ p \in os /\ q \in ns
        /\ os \subseteq deleted /\ ns \subseteq added
        /\ \A o \in os : Alike(o, q)
        /\ \A n \in ns : Alike(p, n)
    BY <1>3, <1>5 DEF olds, news
  <2> HIDE DEF os, ns
  <2>2. <<p, q>> \in Pair_group(os, ns)
    <3>1. \A o \in os : Name(o) = Name(p) => o = p
      BY <1>5, <2>1
    <3>2. \A n \in ns : Name(n) = Name(q) => n = q
      BY <1>5, <2>1
    <3> QED
      BY <1>5, <2>1, <3>1, <3>2, NamesMatch
  <2> QED
    BY <1>3, <1>5, <2>2 DEF os, ns
<1>6. ASSUME NEW p \in deleted, NEW q \in added, Alike(p, q),
             \A m \in pairs : m[1] # p /\ m[2] # q
      PROVE  \/ \E o \in deleted \ {p} : Alike(o, q) /\ \A m \in pairs : m[1] # o
             \/ \E n \in added \ {q} : Alike(p, n) /\ \A m \in pairs : m[2] # n
  <2> DEFINE os == olds(Key(scan[q]))
             ns == news(Key(scan[q]))
  <2>1. /\ os \in SUBSET Paths /\ ns \in SUBSET Paths /\ p \in os /\ q \in ns
        /\ os \subseteq deleted /\ ns \subseteq added
        /\ \A o \in os : Alike(o, q)
        /\ \A n \in ns : Alike(p, n)
        /\ Pair_group(os, ns) \subseteq pairs
    BY <1>3, <1>6 DEF olds, news
  <2> HIDE DEF os, ns
  <2>2. \/ \E o \in os \ {p} : \A m \in Pair_group(os, ns) : m[1] # o
        \/ \E n \in ns \ {q} : \A m \in Pair_group(os, ns) : m[2] # n
    <3>1. \A m \in Pair_group(os, ns) : m[1] # p /\ m[2] # q
      BY <1>6, <2>1
    <3>2. /\ os \in SUBSET Paths /\ ns \in SUBSET Paths /\ p \in os /\ q \in ns
      BY <2>1
    <3> QED
      BY <3>1, <3>2, LeftoversMany
  <2>3. ASSUME NEW o \in os \ {p}, \A m \in Pair_group(os, ns) : m[1] # o
        PROVE  \A m \in pairs : m[1] # o
    BY <1>4, <2>1, <2>3 DEF os, ns
  <2>4. ASSUME NEW n \in ns \ {q}, \A m \in Pair_group(os, ns) : m[2] # n
        PROVE  \A m \in pairs : m[2] # n
    <3>1. Key(scan[n]) = Key(scan[q])
      BY DEF ns, news
    <3> QED
      BY <1>4, <2>1, <2>4, <3>1 DEF os, ns
  <2> QED
    BY <2>1, <2>2, <2>3, <2>4
<1> HIDE DEF Alike
<1>7. \A m \in pairs : Alike(m[1], m[2])
  BY <1>1, <1>2 DEF Alike
<1> QED
  BY <1>1, <1>5, <1>6, <1>7 DEF pairs, Alike
=============================================================================
