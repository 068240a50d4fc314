--------------------------- MODULE ScheduleProofs ---------------------------
(***************************************************************************)
(* What Schedule promises, proved for every set of jobs, editors, scopes   *)
(* and patterns: the types, the turns of the jobs, and the agreement of    *)
(* the crontab, the record and the wrappers.                               *)
(***************************************************************************)
EXTENDS Schedule, TLAPS

Loaded == {"read", "write", "save"}

(* What a process at a phase holds, beyond its type. *)
EditorTyped ==
  \A e \in Editors :
    /\ ed[e].phase # "idle" => ed[e].op \in {"add", "remove"}
    /\ ed[e].phase = "load" => ed[e].op = "add"
    /\ ed[e].phase = "unlink" => ed[e].op = "remove"
    /\ ed[e].phase # "idle" =>
         IF ed[e].op = "add" THEN ed[e].job \in JobSpecs ELSE ed[e].job = None
    /\ ed[e].phase \in Loaded \cup {"unlink"} =>
         ed[e].id \in Ids /\ ed[e].loaded \in [Ids -> JobSpecs \cup {None}]

StepFits(job) ==
  /\ job.phase = "ready" => job.step # 0
  /\ job.phase = "command" => job.step \in 1 .. 2
JobTyped == \A i \in Ids : StepFits(jobs[i])

Typed == TypeOK /\ EditorTyped /\ JobTyped

(* The job whose turn it is holds the shared flock. *)
TurnInv == \A i \in Turn : root = i

-----------------------------------------------------------------------------
LEMMA SpendTyped ==
  ASSUME TypeOK, NEW what \in {"edits", "mishaps"}, NEW n \in {0, 1}, Spend(what, n)
  PROVE  left' \in [edits : Nat, mishaps : Nat]
BY DEF TypeOK, Spend

LEMMA GoesTyped ==
  ASSUME Typed, NEW e \in Editors, NEW state \in Edits, Goes(e, state),
         /\ state.phase # "idle" => state.op \in {"add", "remove"}
         /\ state.phase = "load" => state.op = "add"
         /\ state.phase = "unlink" => state.op = "remove"
         /\ state.phase # "idle" =>
              IF state.op = "add" THEN state.job \in JobSpecs ELSE state.job = None
         /\ state.phase \in Loaded \cup {"unlink"} =>
              state.id \in Ids /\ state.loaded \in [Ids -> JobSpecs \cup {None}]
  PROVE  ed' \in [Editors -> Edits] /\ EditorTyped'
<1>1. ed' = [ed EXCEPT ![e] = state] /\ ed \in [Editors -> Edits]
  BY DEF Goes, Typed, TypeOK
<1>2. ASSUME NEW f \in Editors
      PROVE  /\ ed'[f].phase # "idle" => ed'[f].op \in {"add", "remove"}
             /\ ed'[f].phase = "load" => ed'[f].op = "add"
             /\ ed'[f].phase = "unlink" => ed'[f].op = "remove"
             /\ ed'[f].phase # "idle" =>
                  IF ed'[f].op = "add" THEN ed'[f].job \in JobSpecs ELSE ed'[f].job = None
             /\ ed'[f].phase \in Loaded \cup {"unlink"} =>
                  ed'[f].id \in Ids /\ ed'[f].loaded \in [Ids -> JobSpecs \cup {None}]
  <2>1. CASE f = e
    <3>1. ed'[f] = state
      BY <1>1, <2>1
    <3> QED
      BY <3>1
  <2>2. CASE f # e
    <3>1. ed'[f] = ed[f]
      BY <1>1, <2>2
    <3> QED
      BY <3>1 DEF Typed, EditorTyped
  <2> QED
    BY <2>1, <2>2
<1> QED
  BY <1>1, <1>2 DEF EditorTyped

LEMMA IdleTyped == NoEdit \in Edits
BY DEF NoEdit, Edits

LEMMA Lengths ==
  ASSUME NEW command PROVE Len(Run_lines(command)) \in 1 .. 2
<1>1. CASE command = "sync"
  BY <1>1 DEF Run_lines
<1>2. CASE command = "offload"
  BY <1>2 DEF Run_lines
<1>3. CASE command # "sync" /\ command # "offload"
  BY <1>3 DEF Run_lines
<1> QED
  BY <1>1, <1>2, <1>3

LEMMA BecomesTyped ==
  ASSUME Typed, NEW i \in Ids, NEW state \in [phase : Phases, step : 0 .. 3], Becomes(i, state),
         StepFits(state)
  PROVE  jobs' \in [Ids -> [phase : Phases, step : 0 .. 3]] /\ JobTyped'
<1>1. jobs' = [jobs EXCEPT ![i] = state] /\ jobs \in [Ids -> [phase : Phases, step : 0 .. 3]]
  BY DEF Becomes, Typed, TypeOK
<1>2. ASSUME NEW k \in Ids PROVE StepFits(jobs'[k])
  BY <1>1, <1>2 DEF Typed, JobTyped, StepFits
<1> QED
  BY <1>1, <1>2 DEF JobTyped, StepFits

LEMMA InitTyped == Init => Typed
<1> SUFFICES ASSUME Init PROVE Typed
  OBVIOUS
<1>1. record \in [Ids -> JobSpecs \cup {None}]
  <2>1. [command : Commands, scope : {None}] \subseteq JobSpecs
    BY ScheduleAssumption DEF JobSpecs
  <2> QED
    BY <2>1 DEF Init
<1>2. Recorded \subseteq Ids
  BY DEF Recorded
<1>3. ed \in [Editors -> Edits] /\ EditorTyped
  <2>1. ed = [e \in Editors |-> NoEdit] /\ NoEdit.phase = "idle"
    BY DEF Init, NoEdit
  <2> QED
    BY <2>1, IdleTyped DEF EditorTyped, Loaded
<1>4. jobs \in [Ids -> [phase : Phases, step : 0 .. 3]] /\ JobTyped
  BY DEF Init, Off, Phases, JobTyped, StepFits
<1>5. left \in [edits : Nat, mishaps : Nat]
  BY ScheduleAssumption DEF Init
<1> QED
  BY <1>1, <1>2, <1>3, <1>4, <1>5 DEF Typed, TypeOK, Init


LEMMA EditTyped ==
  ASSUME Typed, NEW e \in Editors, Edit(e)
  PROVE  Typed'
<1> USE DEF Loaded
<1>1. CASE AddChecks(e)
  <2>1. PICK job \in JobSpecs :
          Goes(e, [NoEdit EXCEPT !.phase = "load", !.op = "add", !.job = job])
    BY <1>1 DEF AddChecks
  <2> DEFINE state == [NoEdit EXCEPT !.phase = "load", !.op = "add", !.job = job]
  <2>2. state \in Edits /\ state.phase = "load" /\ state.op = "add" /\ state.job = job
    BY DEF NoEdit, Edits
  <2>3. Goes(e, state)
    BY <2>1
  <2> HIDE DEF state
  <2>4. ed' \in [Editors -> Edits] /\ EditorTyped'
    BY <2>2, <2>3, GoesTyped
  <2>5. left' \in [edits : Nat, mishaps : Nat]
    BY <1>1, SpendTyped DEF AddChecks, Typed
  <2> QED
    BY <1>1, <2>4, <2>5 DEF AddChecks, Editing, running, Woe, Typed, TypeOK, JobTyped
<1>2. CASE AddLoads(e)
  <2>1. PICK id \in Ids \ (Recorded \cup scripts \cup cron) :
          /\ Goes(e, [ed[e] EXCEPT !.phase = "read", !.id = id, !.loaded = record])
          /\ scripts' = scripts \cup {id}
    BY <1>2 DEF AddLoads
  <2> DEFINE state == [ed[e] EXCEPT !.phase = "read", !.id = id, !.loaded = record]
  <2>2. /\ state \in Edits /\ state.phase = "read" /\ state.op = ed[e].op
        /\ state.job = ed[e].job /\ state.id = id /\ state.loaded = record
    BY DEF Typed, TypeOK, Edits
  <2>3. Goes(e, state)
    BY <2>1
  <2>4. ed[e].op = "add" /\ ed[e].job \in JobSpecs
    BY <1>2 DEF AddLoads, At, Typed, EditorTyped
  <2> HIDE DEF state
  <2>5. ed' \in [Editors -> Edits] /\ EditorTyped'
    BY <2>2, <2>3, <2>4, GoesTyped DEF Typed, TypeOK
  <2> QED
    BY <1>2, <2>1, <2>5 DEF AddLoads, Editing, running, Typed, TypeOK, JobTyped
<1>3. CASE RemoveLoads(e)
  <2>1. PICK id \in Recorded :
          Goes(e, [NoEdit EXCEPT !.phase = "read", !.op = "remove", !.id = id, !.loaded = record])
    BY <1>3 DEF RemoveLoads
  <2> DEFINE state == [NoEdit EXCEPT !.phase = "read", !.op = "remove", !.id = id, !.loaded = record]
  <2>2. /\ state \in Edits /\ state.phase = "read" /\ state.op = "remove" /\ state.id = id
        /\ state.loaded = record /\ state.job = None
    BY DEF NoEdit, Edits, Recorded, Typed, TypeOK
  <2>3. Goes(e, state)
    BY <2>1
  <2> HIDE DEF state
  <2>4. ed' \in [Editors -> Edits] /\ EditorTyped'
    BY <2>2, <2>3, GoesTyped DEF Recorded, Typed, TypeOK
  <2>5. left' \in [edits : Nat, mishaps : Nat]
    BY <1>3, SpendTyped DEF RemoveLoads, Typed
  <2> QED
    BY <1>3, <2>4, <2>5 DEF RemoveLoads, Editing, running, Woe, Typed, TypeOK, JobTyped
<1>4. CASE ReadsCrontab(e)
  <2>1. PICK fails \in BOOLEAN :
          /\ Spend("mishaps", IF fails THEN 1 ELSE 0)
          /\ Woe(fails, "unread")
          /\ Goes(e, [ed[e] EXCEPT !.phase = "write", !.crontab = IF fails THEN {} ELSE cron])
    BY <1>4 DEF ReadsCrontab
  <2> DEFINE state == [ed[e] EXCEPT !.phase = "write", !.crontab = IF fails THEN {} ELSE cron]
  <2>2. /\ state \in Edits /\ state.phase = "write" /\ state.op = ed[e].op
        /\ state.job = ed[e].job /\ state.id = ed[e].id /\ state.loaded = ed[e].loaded
    BY DEF Typed, TypeOK, Edits
  <2>3. Goes(e, state)
    BY <2>1
  <2>4. /\ ed[e].op \in {"add", "remove"}
        /\ IF ed[e].op = "add" THEN ed[e].job \in JobSpecs ELSE ed[e].job = None
        /\ ed[e].id \in Ids /\ ed[e].loaded \in [Ids -> JobSpecs \cup {None}]
    BY <1>4 DEF ReadsCrontab, At, Typed, EditorTyped
  <2> HIDE DEF state
  <2>5. ed' \in [Editors -> Edits] /\ EditorTyped'
    BY <2>2, <2>3, <2>4, GoesTyped
  <2>6. left' \in [edits : Nat, mishaps : Nat]
    BY <2>1, SpendTyped DEF Typed
  <2> QED
    BY <1>4, <2>1, <2>5, <2>6 DEF ReadsCrontab, Editing, running, Woe, Typed, TypeOK, JobTyped
<1>5. CASE WritesCrontab(e)
  <2>1. PICK fails \in BOOLEAN :
          /\ Spend("mishaps", IF fails THEN 1 ELSE 0)
          /\ Woe(fails, "stopped")
          /\ IF fails
             THEN /\ Goes(e, NoEdit)
                  /\ UNCHANGED cron
             ELSE /\ Goes(e, [ed[e] EXCEPT !.phase = "save"])
                  /\ cron' = IF ed[e].op = "add" THEN Installed(ed[e].crontab, ed[e].id)
                             ELSE Uninstalled(ed[e].crontab, ed[e].id)
    BY <1>5 DEF WritesCrontab
  <2> DEFINE state == IF fails THEN NoEdit ELSE [ed[e] EXCEPT !.phase = "save"]
  <2>2. /\ state \in Edits
        /\ \/ state.phase = "idle"
           \/ /\ state.phase = "save" /\ state.op = ed[e].op
              /\ state.job = ed[e].job /\ state.id = ed[e].id /\ state.loaded = ed[e].loaded
    BY DEF Typed, TypeOK, Edits, NoEdit
  <2>3. Goes(e, state)
    BY <2>1
  <2>4. /\ ed[e].op \in {"add", "remove"}
        /\ IF ed[e].op = "add" THEN ed[e].job \in JobSpecs ELSE ed[e].job = None
        /\ ed[e].id \in Ids /\ ed[e].loaded \in [Ids -> JobSpecs \cup {None}]
    BY <1>5 DEF WritesCrontab, At, Typed, EditorTyped
  <2> HIDE DEF state
  <2>5. ed' \in [Editors -> Edits] /\ EditorTyped'
    BY <2>2, <2>3, <2>4, GoesTyped
  <2>6. left' \in [edits : Nat, mishaps : Nat]
    BY <2>1, SpendTyped DEF Typed
  <2>7. cron' \subseteq Ids \cup {Foreign}
    BY <2>1, <2>4 DEF Installed, Uninstalled, Typed, TypeOK, Edits
  <2> QED
    BY <1>5, <2>1, <2>5, <2>6, <2>7 DEF WritesCrontab, Editing, running, Woe, Typed, TypeOK, JobTyped
<1>6. CASE SavesRecord(e)
  <2>1. /\ ed[e].op \in {"add", "remove"}
        /\ IF ed[e].op = "add" THEN ed[e].job \in JobSpecs ELSE ed[e].job = None
        /\ ed[e].id \in Ids /\ ed[e].loaded \in [Ids -> JobSpecs \cup {None}]
    BY <1>6 DEF SavesRecord, At, Typed, EditorTyped
  <2> DEFINE state == IF ed[e].op = "add" THEN NoEdit ELSE [ed[e] EXCEPT !.phase = "unlink"]
  <2>2. /\ state \in Edits
        /\ \/ state.phase = "idle"
           \/ /\ state.phase = "unlink" /\ state.op = ed[e].op /\ ed[e].op = "remove"
              /\ state.job = ed[e].job /\ state.id = ed[e].id /\ state.loaded = ed[e].loaded
    <3>1. ed[e] \in Edits
      BY DEF Typed, TypeOK
    <3>2. CASE ed[e].op = "add"
      BY <3>2, IdleTyped DEF NoEdit
    <3>3. CASE ed[e].op # "add"
      BY <2>1, <3>1, <3>3 DEF Edits
    <3> QED
      BY <3>2, <3>3
  <2>3. Goes(e, state)
    BY <1>6 DEF SavesRecord
  <2> HIDE DEF state
  <2>4. ed' \in [Editors -> Edits] /\ EditorTyped'
    BY <2>1, <2>2, <2>3, GoesTyped
  <2>5. record' \in [Ids -> JobSpecs \cup {None}]
    BY <1>6, <2>1 DEF SavesRecord, Saved
  <2> QED
    BY <1>6, <2>4, <2>5 DEF SavesRecord, Editing, running, Typed, TypeOK, JobTyped
<1>7. CASE Unlinks(e)
  <2>1. ed' \in [Editors -> Edits] /\ EditorTyped'
    BY <1>7, IdleTyped, GoesTyped DEF Unlinks, NoEdit
  <2> QED
    BY <1>7, <2>1 DEF Unlinks, Editing, running, Typed, TypeOK, JobTyped
<1>8. CASE Dies(e)
  <2>1. ed' \in [Editors -> Edits] /\ EditorTyped'
    BY <1>8, IdleTyped, GoesTyped DEF Dies, NoEdit
  <2>2. left' \in [edits : Nat, mishaps : Nat]
    BY <1>8, SpendTyped DEF Dies, Typed
  <2> QED
    BY <1>8, <2>1, <2>2 DEF Dies, Woe, Editing, running, Typed, TypeOK, JobTyped
<1> QED
  BY <1>1, <1>2, <1>3, <1>4, <1>5, <1>6, <1>7, <1>8 DEF Edit

(* What a step of a run leaves alone. *)
LEMMA RunTyped ==
  ASSUME Typed, Running,
         jobs' \in [Ids -> [phase : Phases, step : 0 .. 3]], JobTyped',
         root' \in Ids \cup {None}, repo' \in Ids \cup {User, None},
         left' \in [edits : Nat, mishaps : Nat]
  PROVE  Typed'
BY DEF Typed, TypeOK, EditorTyped, Running

LEMMA WorkTyped ==
  ASSUME Typed, NEW i \in Ids, JobDue(i) \/ Works(i) \/ WrapperDies(i)
  PROVE  Typed'
<1>1. /\ jobs[i] \in [phase : Phases, step : 0 .. 3]
      /\ StepFits(jobs[i])
      /\ root \in Ids \cup {None} /\ repo \in Ids \cup {User, None}
      /\ left \in [edits : Nat, mishaps : Nat]
  BY DEF Typed, TypeOK, JobTyped
<1>2. Off \in [phase : Phases, step : 0 .. 3] /\ Off.phase = "off"
  BY DEF Off, Phases
<1>3. ASSUME NEW phase \in Phases, NEW n \in 0 .. 3
      PROVE  [phase |-> phase, step |-> n] \in [phase : Phases, step : 0 .. 3]
  OBVIOUS
<1>4. ASSUME NEW state \in [phase : Phases, step : 0 .. 3], Becomes(i, state), Running,
             StepFits(state),
             root' \in {root, i, None}, repo' \in {repo, i, None},
             left' \in [edits : Nat, mishaps : Nat]
      PROVE  Typed'
  <2>1. jobs' \in [Ids -> [phase : Phases, step : 0 .. 3]] /\ JobTyped'
    BY <1>4, BecomesTyped
  <2> QED
    BY <1>1, <1>4, <2>1, RunTyped
<1>5. CASE JobDue(i)
  <2>1. [phase |-> "waiting", step |-> 0] \in [phase : Phases, step : 0 .. 3]
    BY DEF Phases
  <2> QED
    BY <1>1, <1>4, <1>5, <2>1 DEF JobDue, StepFits
<1>6. CASE TakesTurn(i)
  <2>1. [phase |-> "ready", step |-> 1] \in [phase : Phases, step : 0 .. 3]
    BY DEF Phases
  <2> QED
    BY <1>1, <1>4, <1>6, <2>1 DEF TakesTurn, StepFits
<1>7. CASE GivesUp(i)
  BY <1>1, <1>2, <1>4, <1>7 DEF GivesUp, StepFits
<1>8. CASE CommandStarts(i)
  <2>1. Len(Run_lines(record[i].command)) \in 1 .. 2
    BY Lengths
  <2>2. jobs[i].step \in 1 .. 2 /\ jobs[i].step + 1 \in 1 .. 3
    <3>1. jobs[i].step \in 0 .. 3 /\ jobs[i].step # 0
      <4>1. jobs[i].phase = "ready"
        BY <1>8 DEF CommandStarts, In
      <4>2. jobs[i].step # 0
        BY <1>1, <4>1 DEF StepFits
      <4> QED
        BY <1>1, <4>2
    <3>2. jobs[i].step <= Len(Run_lines(record[i].command))
      BY <1>8 DEF CommandStarts
    <3>3. ASSUME NEW k \in 0 .. 3, NEW n \in 1 .. 2, k # 0, k <= n
          PROVE  k \in 1 .. 2 /\ k + 1 \in 1 .. 3
      BY <3>3
    <3> QED
      BY <2>1, <3>1, <3>2, <3>3
  <2>3. Running /\ UNCHANGED <<root, left>>
    BY <1>8 DEF CommandStarts
  <2>4. CASE repo = None
    <3> DEFINE state == [phase |-> "command", step |-> jobs[i].step]
    <3>1. state \in [phase : Phases, step : 0 .. 3] /\ StepFits(state)
      BY <2>2 DEF Phases, StepFits
    <3>2. Becomes(i, state) /\ repo' = i
      BY <1>8, <2>4 DEF CommandStarts
    <3> HIDE DEF state
    <3> QED
      BY <1>1, <1>4, <2>3, <3>1, <3>2
  <2>5. CASE repo # None
    <3> DEFINE state == [phase |-> "ready", step |-> jobs[i].step + 1]
    <3>1. state \in [phase : Phases, step : 0 .. 3] /\ StepFits(state)
      BY <2>2 DEF Phases, StepFits
    <3>2. Becomes(i, state) /\ repo' = repo
      BY <1>8, <2>5 DEF CommandStarts
    <3> HIDE DEF state
    <3> QED
      BY <1>1, <1>4, <2>3, <3>1, <3>2
  <2> QED
    BY <2>4, <2>5
<1>9. CASE CommandEnds(i)
  <2>1. [phase |-> "ready", step |-> jobs[i].step + 1] \in [phase : Phases, step : 0 .. 3]
    BY <1>1, <1>9 DEF Phases, CommandEnds, In, StepFits
  <2> QED
    BY <1>1, <1>4, <1>9, <2>1 DEF CommandEnds, StepFits
<1>10. CASE JobEnds(i)
  BY <1>1, <1>2, <1>4, <1>10 DEF JobEnds, StepFits
<1>11. CASE WrapperDies(i)
  <2>1. left' \in [edits : Nat, mishaps : Nat]
    BY <1>11, SpendTyped DEF WrapperDies, Typed
  <2>2. CASE In(i, "command")
    <3>1. [phase |-> "orphan", step |-> jobs[i].step] \in [phase : Phases, step : 0 .. 3]
      BY <1>1 DEF Phases
    <3> QED
      BY <1>1, <1>4, <1>11, <2>1, <2>2, <3>1 DEF WrapperDies, StepFits
  <2>3. CASE ~In(i, "command")
    BY <1>1, <1>2, <1>4, <1>11, <2>1, <2>3 DEF WrapperDies, StepFits
  <2> QED
    BY <2>2, <2>3
<1>12. CASE OrphanEnds(i)
  BY <1>1, <1>2, <1>4, <1>12 DEF OrphanEnds, StepFits
<1> QED
  BY <1>5, <1>6, <1>7, <1>8, <1>9, <1>10, <1>11, <1>12 DEF Works

LEMMA StepTyped == Typed /\ [Next]_vars => Typed'
<1> SUFFICES ASSUME Typed, [Next]_vars PROVE Typed'
  OBVIOUS
<1>1. CASE \E e \in Editors : Edit(e)
  BY <1>1, EditTyped
<1>2. CASE \E i \in Ids : JobDue(i) \/ Works(i) \/ WrapperDies(i)
  BY <1>2, WorkTyped
<1>3. CASE UserStarts \/ UserEnds
  BY <1>3 DEF UserStarts, UserEnds, Running, Typed, TypeOK, EditorTyped, JobTyped
<1>4. CASE UNCHANGED vars
  BY <1>4 DEF vars, Typed, TypeOK, EditorTyped, JobTyped
<1> QED
  BY <1>1, <1>2, <1>3, <1>4 DEF Next

(* Every reachable state is well typed. *)
THEOREM TypeCorrect == Spec => []TypeOK
<1>1. Spec => []Typed
  BY InitTyped, StepTyped, PTL DEF Spec
<1>2. Typed => TypeOK
  BY DEF Typed
<1> QED
  BY <1>1, <1>2, PTL

-----------------------------------------------------------------------------
LEMMA TurnStarts == Init => TurnInv /\ T!Init
BY DEF Init, TurnInv, Turn, T!Init, Off

(* A job enters when no other is in, and leaves when it is in. *)
LEMMA TurnStep ==
  ASSUME Typed, TurnInv, [Next]_vars
  PROVE  TurnInv' /\ [T!Next]_Turn
<1>1. /\ Turn \subseteq Ids /\ \A i \in Turn : Turn = {i}
      /\ root = None => Turn = {}
      /\ jobs \in [Ids -> [phase : Phases, step : 0 .. 3]] /\ None \notin Ids
  BY ScheduleAssumption DEF Typed, TypeOK, TurnInv, Turn
<1> DEFINE Inside == {"ready", "command", "orphan"}
<1>2. ASSUME NEW i \in Ids, NEW state, Becomes(i, state),
             state.phase \in Inside <=> jobs[i].phase \in Inside, root' = root
      PROVE  TurnInv' /\ [T!Next]_Turn
  <2>1. jobs' = [jobs EXCEPT ![i] = state]
    BY <1>2 DEF Becomes
  <2>2. Turn' = Turn
    BY <1>1, <1>2, <2>1 DEF Turn
  <2> QED
    BY <1>2, <2>2 DEF TurnInv
<1>3. ASSUME NEW i \in Ids, NEW state, Becomes(i, state), Turn = {}, state.phase \in Inside,
             root' = i
      PROVE  TurnInv' /\ [T!Next]_Turn
  <2>1. jobs' = [jobs EXCEPT ![i] = state]
    BY <1>3 DEF Becomes
  <2>2. Turn' = {i}
    BY <1>1, <1>3, <2>1 DEF Turn
  <2> QED
    BY <1>3, <2>2 DEF TurnInv, T!Next, T!Enter
<1>4. ASSUME NEW i \in Turn, NEW state, Becomes(i, state), state.phase \notin Inside
      PROVE  TurnInv' /\ [T!Next]_Turn
  <2>1. jobs' = [jobs EXCEPT ![i] = state]
    BY <1>4 DEF Becomes
  <2>2. Turn' = {} /\ Turn = {i}
    BY <1>1, <1>4, <2>1 DEF Turn
  <2> QED
    BY <1>1, <1>4, <2>2 DEF TurnInv, T!Next, T!Leave
<1>5. ASSUME UNCHANGED <<jobs, root>> PROVE TurnInv' /\ [T!Next]_Turn
  BY <1>5 DEF TurnInv, Turn
<1>6. CASE \E e \in Editors : Edit(e)
  BY <1>5, <1>6 DEF Edit, AddChecks, AddLoads, RemoveLoads, ReadsCrontab, WritesCrontab,
     SavesRecord, Unlinks, Dies, Editing, running
<1>7. CASE \E i \in Ids : JobDue(i) \/ Works(i) \/ WrapperDies(i)
  <2>1. PICK i \in Ids : JobDue(i) \/ Works(i) \/ WrapperDies(i)
    BY <1>7
  <2>2. CASE JobDue(i)
    BY <1>2, <2>2 DEF JobDue, In
  <2>3. CASE TakesTurn(i)
    BY <1>1, <1>3, <2>3 DEF TakesTurn
  <2>4. CASE GivesUp(i)
    BY <1>2, <2>4 DEF GivesUp, In, Off
  <2>5. CASE CommandStarts(i)
    BY <1>2, <2>5 DEF CommandStarts, In
  <2>6. CASE CommandEnds(i)
    BY <1>2, <2>6 DEF CommandEnds, In
  <2>7. CASE JobEnds(i)
    <3>1. i \in Turn
      BY <2>7 DEF JobEnds, In, Turn
    <3> QED
      BY <1>4, <2>7, <3>1 DEF JobEnds, Off
  <2>8. CASE OrphanEnds(i)
    <3>1. i \in Turn
      BY <2>8 DEF OrphanEnds, In, Turn
    <3> QED
      BY <1>4, <2>8, <3>1 DEF OrphanEnds, Off
  <2>9. CASE WrapperDies(i)
    <3>1. CASE In(i, "command")
      BY <1>2, <2>9, <3>1 DEF WrapperDies, In
    <3>2. CASE In(i, "ready")
      <4>1. i \in Turn
        BY <3>2 DEF In, Turn
      <4> QED
        BY <1>4, <2>9, <3>2, <4>1 DEF WrapperDies, Off, In
    <3>3. CASE In(i, "waiting")
      <4>1. jobs' = [jobs EXCEPT ![i] = Off] /\ root' = (IF root = i THEN None ELSE root)
        BY <2>9, <3>3 DEF WrapperDies, Becomes, In
      <4>2. Turn' = Turn
        BY <1>1, <3>3, <4>1 DEF Turn, Off, In
      <4>3. i \notin Turn
        BY <3>3 DEF Turn, In
      <4> QED
        BY <1>1, <4>1, <4>2, <4>3 DEF TurnInv
    <3> QED
      BY <1>1, <2>9, <3>1, <3>2, <3>3 DEF WrapperDies, In, Phases
  <2> QED
    BY <2>1, <2>2, <2>3, <2>4, <2>5, <2>6, <2>7, <2>8, <2>9 DEF Works
<1>8. CASE UserStarts \/ UserEnds
  BY <1>5, <1>8 DEF UserStarts, UserEnds
<1>9. CASE UNCHANGED vars
  BY <1>5, <1>9 DEF vars
<1> QED
  BY <1>6, <1>7, <1>8, <1>9 DEF Next

(* The jobs of a repository take turns: what the wrappers do with their    *)
(* two flocks, kills and orphaned commands included, implements Turns.     *)
THEOREM TurnsAreTaken == Spec => JobsTakeTurns
<1>1. Typed /\ TurnInv /\ [Next]_vars => TurnInv' /\ [T!Next]_Turn
  BY TurnStep
<1> QED
  BY <1>1, InitTyped, StepTyped, TurnStarts, PTL DEF Spec, JobsTakeTurns, T!Spec

-----------------------------------------------------------------------------
(* The crontab, the record and the wrappers while the schedule is edited.  *)
Active == {e \in Editors : ed[e].phase # "idle"}

(* One process at a time, unless they overlapped. *)
Alone == "overlap" \notin woes => \A e, f \in Active : e = f

(* What a process loaded is what is there, unless they overlapped; a       *)
(* wrapper is there before its line, and is unlinked after it.             *)
AloneWith(e) ==
  /\ ed[e].phase \in Loaded => ed[e].loaded = record
  /\ ed[e].phase = "write" => ed[e].crontab \subseteq cron
  /\ ed[e].op = "add" /\ ed[e].phase \in Loaded => ed[e].id \in scripts
  /\ ed[e].op = "remove" /\ ed[e].phase \in {"save", "unlink"} => ed[e].id \notin cron

(* What a process that is alone, and that nothing failed, has done so far. *)
Progress(e) ==
  /\ ed[e].phase = "write" => ed[e].crontab = cron
  /\ ed[e].phase = "load" => cron \ {Foreign} = Recorded /\ scripts = Recorded
  /\ ed[e].op = "add" /\ ed[e].phase \in Loaded =>
       /\ ed[e].id \notin Recorded
       /\ scripts = Recorded \cup {ed[e].id}
       /\ cron \ {Foreign} = IF ed[e].phase = "save" THEN Recorded \cup {ed[e].id} ELSE Recorded
  /\ ed[e].op = "remove" /\ ed[e].phase \in Loaded =>
       /\ ed[e].id \in Recorded
       /\ scripts = Recorded
       /\ cron \ {Foreign} = IF ed[e].phase = "save" THEN Recorded \ {ed[e].id} ELSE Recorded
  /\ ed[e].phase = "unlink" =>
       /\ ed[e].id \notin Recorded
       /\ scripts = Recorded \cup {ed[e].id}
       /\ cron \ {Foreign} = Recorded

Scheduled ==
  /\ Alone
  /\ "overlap" \notin woes =>
       /\ cron \ {Foreign} \subseteq scripts
       /\ \A e \in Active : AloneWith(e)
  /\ woes = {} => \A e \in Active : Progress(e)
  /\ Quiet /\ woes = {} => cron \ {Foreign} = Recorded /\ scripts = Recorded
  /\ "unread" \notin woes =>
       /\ Foreign \in cron
       /\ \A e \in Editors : ed[e].phase = "write" => Foreign \in ed[e].crontab

LEMMA InitScheduled == Init => Scheduled
<1> SUFFICES ASSUME Init PROVE Scheduled
  OBVIOUS
<1>1. Active = {} /\ \A e \in Editors : ed[e].phase = "idle"
  BY DEF Init, Active, NoEdit
<1>2. cron = Recorded \cup {Foreign} /\ scripts = Recorded /\ Recorded \subseteq Ids
  BY DEF Init, Recorded
<1>3. Foreign \notin Ids
  BY ScheduleAssumption
<1> QED
  BY <1>1, <1>2, <1>3 DEF Scheduled, Alone

(* What a step of e means for the others: unless they overlapped there are  *)
(* none.                                                                    *)
LEMMA OnlyOne ==
  ASSUME Typed, Alone, NEW e \in Editors, NEW state, Goes(e, state), woes \subseteq woes',
         e \in Active \/ (Overlaps(e) => "overlap" \in woes')
  PROVE  /\ ed'[e] = state
         /\ \A f \in Editors \ {e} : ed'[f] = ed[f]
         /\ "overlap" \notin woes' => Active \subseteq {e} /\ Active' \subseteq {e}
         /\ Alone'
<1>1. ed'[e] = state /\ \A f \in Editors \ {e} : ed'[f] = ed[f]
  BY DEF Goes, Typed, TypeOK
<1>2. ASSUME "overlap" \notin woes' PROVE Active \subseteq {e}
  BY <1>2 DEF Alone, Active, Overlaps
<1>3. Active' \subseteq Active \cup {e}
  BY <1>1 DEF Active
<1> QED
  BY <1>1, <1>2, <1>3 DEF Alone

(* So the invariant only has to be shown of e. *)
LEMMA Reduces ==
  ASSUME Typed, Scheduled, NEW e \in Editors, NEW state, Goes(e, state), woes \subseteq woes',
         e \in Active \/ (Overlaps(e) => "overlap" \in woes'),
         "overlap" \notin woes' =>
           /\ cron' \ {Foreign} \subseteq scripts'
           /\ state.phase # "idle" => AloneWith(e)',
         woes' = {} =>
           IF state.phase # "idle" THEN Progress(e)'
           ELSE cron' \ {Foreign} = Recorded' /\ scripts' = Recorded',
         "unread" \notin woes' =>
           Foreign \in cron' /\ (state.phase = "write" => Foreign \in state.crontab)
  PROVE  Scheduled'
<1>1. /\ ed'[e] = state
      /\ \A f \in Editors \ {e} : ed'[f] = ed[f]
      /\ "overlap" \notin woes' => Active \subseteq {e} /\ Active' \subseteq {e}
      /\ Alone'
  BY OnlyOne DEF Scheduled
<1>2. e \in Active' <=> state.phase # "idle"
  BY <1>1 DEF Active
<1>3. "overlap" \notin woes' => \A f \in Active' : AloneWith(f)'
  BY <1>1, <1>2
<1>4. woes' = {} => \A f \in Active' : Progress(f)'
  BY <1>1, <1>2
<1>5. Quiet' /\ woes' = {} => cron' \ {Foreign} = Recorded' /\ scripts' = Recorded'
  BY <1>1 DEF Quiet, At
<1>6. "unread" \notin woes' =>
        Foreign \in cron' /\ \A f \in Editors : ed'[f].phase = "write" => Foreign \in ed'[f].crontab
  BY <1>1 DEF Scheduled
<1> QED
  BY <1>1, <1>3, <1>4, <1>5, <1>6 DEF Scheduled

(* What e may count on before its step. *)
LEMMA Counts ==
  ASSUME Typed, Scheduled, NEW e \in Editors, woes \subseteq woes',
         e \in Active \/ (Overlaps(e) => "overlap" \in woes')
  PROVE  /\ "overlap" \notin woes' => cron \ {Foreign} \subseteq scripts
         /\ "overlap" \notin woes' /\ e \in Active => AloneWith(e)
         /\ woes' = {} => woes = {}
         /\ woes' = {} /\ e \in Active => Progress(e)
         /\ woes' = {} /\ e \notin Active => cron \ {Foreign} = Recorded /\ scripts = Recorded
         /\ "unread" \notin woes' =>
              Foreign \in cron /\ (ed[e].phase = "write" => Foreign \in ed[e].crontab)
<1>1. ASSUME woes' = {}, e \notin Active PROVE Quiet
  BY <1>1 DEF Quiet, At, Active, Overlaps
<1> QED
  BY <1>1 DEF Scheduled

LEMMA EditScheduled ==
  ASSUME Typed, Scheduled, NEW e \in Editors, Edit(e)
  PROVE  Scheduled'
<1> USE DEF Loaded
<1>1. Foreign \notin Ids /\ None \notin JobSpecs
  BY ScheduleAssumption
<1>2. /\ Recorded \subseteq Ids /\ scripts \subseteq Ids /\ cron \subseteq Ids \cup {Foreign}
      /\ record \in [Ids -> JobSpecs \cup {None}]
      /\ ed[e] \in Edits
  BY DEF Typed, TypeOK, Recorded
<1>3. /\ ed[e].phase # "idle" => ed[e].op \in {"add", "remove"}
      /\ ed[e].phase # "idle" =>
           IF ed[e].op = "add" THEN ed[e].job \in JobSpecs ELSE ed[e].job = None
      /\ ed[e].phase \in Loaded \cup {"unlink"} =>
           ed[e].id \in Ids /\ ed[e].loaded \in [Ids -> JobSpecs \cup {None}]
      /\ ed[e].phase = "load" => ed[e].op = "add"
      /\ ed[e].phase = "unlink" => ed[e].op = "remove"
  BY DEF Typed, EditorTyped
<1>4. CASE AddChecks(e)
  <2>1. PICK job \in JobSpecs :
          Goes(e, [NoEdit EXCEPT !.phase = "load", !.op = "add", !.job = job])
    BY <1>4 DEF AddChecks
  <2> DEFINE state == [NoEdit EXCEPT !.phase = "load", !.op = "add", !.job = job]
  <2>2. state.phase = "load" /\ state.op = "add"
    BY DEF NoEdit
  <2>3. Goes(e, state)
    BY <2>1
  <2> HIDE DEF state
  <2>4. /\ woes \subseteq woes' /\ (Overlaps(e) => "overlap" \in woes') /\ e \notin Active
        /\ UNCHANGED <<cron, record, scripts>>
    BY <1>4 DEF AddChecks, Woe, At, Active
  <2>5. ed'[e] = state /\ Recorded' = Recorded
    BY <2>3, <2>4 DEF Goes, Typed, TypeOK, Recorded
  <2>6. AloneWith(e)' /\ (woes' = {} => Progress(e)')
    BY <2>2, <2>4, <2>5, Counts DEF AloneWith, Progress
  <2> QED
    BY <2>2, <2>3, <2>4, <2>6, Counts, Reduces
<1>5. CASE AddLoads(e)
  <2>1. PICK id \in Ids \ (Recorded \cup scripts \cup cron) :
          /\ Goes(e, [ed[e] EXCEPT !.phase = "read", !.id = id, !.loaded = record])
          /\ scripts' = scripts \cup {id}
    BY <1>5 DEF AddLoads
  <2> DEFINE state == [ed[e] EXCEPT !.phase = "read", !.id = id, !.loaded = record]
  <2>2. /\ state.phase = "read" /\ state.op = "add"
        /\ state.id = id /\ state.loaded = record
    BY <1>2, <1>3, <1>5 DEF AddLoads, At, Edits
  <2>3. Goes(e, state)
    BY <2>1
  <2> HIDE DEF state
  <2>4. /\ woes' = woes /\ ed[e].phase = "load" /\ e \in Active
        /\ UNCHANGED <<cron, record>>
    BY <1>5 DEF AddLoads, At, Active
  <2>5. ed'[e] = state /\ Recorded' = Recorded
    BY <2>3, <2>4 DEF Goes, Typed, TypeOK, Recorded
  <2>6. AloneWith(e)' /\ (woes' = {} => Progress(e)')
    BY <2>1, <2>2, <2>4, <2>5, Counts DEF AloneWith, Progress
  <2> QED
    BY <2>1, <2>2, <2>3, <2>4, <2>6, Counts, Reduces
<1>6. CASE RemoveLoads(e)
  <2>1. PICK id \in Recorded :
          Goes(e, [NoEdit EXCEPT !.phase = "read", !.op = "remove", !.id = id, !.loaded = record])
    BY <1>6 DEF RemoveLoads
  <2> DEFINE state == [NoEdit EXCEPT !.phase = "read", !.op = "remove", !.id = id, !.loaded = record]
  <2>2. /\ state.phase = "read" /\ state.op = "remove" /\ state.id = id /\ state.loaded = record
    BY DEF NoEdit
  <2>3. Goes(e, state)
    BY <2>1
  <2> HIDE DEF state
  <2>4. /\ woes \subseteq woes' /\ (Overlaps(e) => "overlap" \in woes') /\ e \notin Active
        /\ UNCHANGED <<cron, record, scripts>>
    BY <1>6 DEF RemoveLoads, Woe, At, Active
  <2>5. ed'[e] = state /\ Recorded' = Recorded
    BY <2>3, <2>4 DEF Goes, Typed, TypeOK, Recorded
  <2>6. AloneWith(e)' /\ (woes' = {} => Progress(e)')
    BY <2>1, <2>2, <2>4, <2>5, Counts DEF AloneWith, Progress
  <2> QED
    BY <2>2, <2>3, <2>4, <2>6, Counts, Reduces
<1>7. CASE ReadsCrontab(e)
  <2>1. PICK fails \in BOOLEAN :
          /\ Woe(fails, "unread")
          /\ Goes(e, [ed[e] EXCEPT !.phase = "write", !.crontab = IF fails THEN {} ELSE cron])
    BY <1>7 DEF ReadsCrontab
  <2> DEFINE state == [ed[e] EXCEPT !.phase = "write", !.crontab = IF fails THEN {} ELSE cron]
  <2>2. /\ state.phase = "write" /\ state.op = ed[e].op /\ state.id = ed[e].id
        /\ state.loaded = ed[e].loaded /\ state.crontab = IF fails THEN {} ELSE cron
    BY <1>2 DEF Edits
  <2>3. Goes(e, state)
    BY <2>1
  <2> HIDE DEF state
  <2>4. /\ woes \subseteq woes' /\ (fails => "unread" \in woes') /\ ed[e].phase = "read"
        /\ e \in Active /\ UNCHANGED <<cron, record, scripts>>
    BY <1>7, <2>1 DEF ReadsCrontab, Woe, At, Active
  <2>5. ed'[e] = state /\ Recorded' = Recorded
    BY <2>3, <2>4 DEF Goes, Typed, TypeOK, Recorded
  <2>6. "overlap" \notin woes' => AloneWith(e)'
    BY <2>2, <2>4, <2>5, Counts DEF AloneWith
  <2>7. woes' = {} => Progress(e)'
    BY <2>2, <2>4, <2>5, Counts DEF Progress
  <2> QED
    BY <2>2, <2>3, <2>4, <2>6, <2>7, Counts, Reduces
<1>8. CASE WritesCrontab(e)
  <2>1. PICK fails \in BOOLEAN :
          /\ Woe(fails, "stopped")
          /\ IF fails
             THEN /\ Goes(e, NoEdit)
                  /\ UNCHANGED cron
             ELSE /\ Goes(e, [ed[e] EXCEPT !.phase = "save"])
                  /\ cron' = IF ed[e].op = "add" THEN Installed(ed[e].crontab, ed[e].id)
                             ELSE Uninstalled(ed[e].crontab, ed[e].id)
    BY <1>8 DEF WritesCrontab
  <2>2. /\ woes \subseteq woes' /\ (fails => "stopped" \in woes') /\ ed[e].phase = "write"
        /\ e \in Active /\ UNCHANGED <<record, scripts>>
    BY <1>8, <2>1 DEF WritesCrontab, Woe, At, Active
  <2>3. CASE fails
    <3>1. Goes(e, NoEdit) /\ cron' = cron /\ woes' # {} /\ NoEdit.phase = "idle"
      BY <2>1, <2>2, <2>3 DEF NoEdit
    <3> QED
      BY <2>2, <3>1, Counts, Reduces
  <2>4. CASE ~fails
    <3> DEFINE state == [ed[e] EXCEPT !.phase = "save"]
    <3>1. /\ state.phase = "save" /\ state.op = ed[e].op /\ state.id = ed[e].id
          /\ state.loaded = ed[e].loaded
      BY <1>2 DEF Edits
    <3>2. /\ Goes(e, state)
          /\ cron' = IF ed[e].op = "add" THEN (ed[e].crontab \ {ed[e].id}) \cup {ed[e].id}
                     ELSE ed[e].crontab \ {ed[e].id}
      BY <2>1, <2>4 DEF Installed, Uninstalled
    <3> HIDE DEF state
    <3>3. ed'[e] = state /\ Recorded' = Recorded
      BY <2>2, <3>2 DEF Goes, Typed, TypeOK, Recorded
    <3>4. "overlap" \notin woes' => AloneWith(e)' /\ cron' \ {Foreign} \subseteq scripts'
      BY <1>3, <2>2, <3>1, <3>2, <3>3, Counts DEF AloneWith
    <3>5. woes' = {} => Progress(e)'
      BY <1>1, <1>2, <1>3, <2>2, <3>1, <3>2, <3>3, Counts DEF Progress
    <3>6. "unread" \notin woes' => Foreign \in cron'
      BY <1>1, <1>3, <2>2, <3>2, Counts
    <3> QED
      BY <2>2, <3>1, <3>2, <3>4, <3>5, <3>6, Counts, Reduces
  <2> QED
    BY <2>3, <2>4
<1>9. CASE SavesRecord(e)
  <2> DEFINE state == IF ed[e].op = "add" THEN NoEdit ELSE [ed[e] EXCEPT !.phase = "unlink"]
  <2>1. /\ state.phase = IF ed[e].op = "add" THEN "idle" ELSE "unlink"
        /\ ed[e].op # "add" => state.op = ed[e].op /\ state.id = ed[e].id
    BY <1>2 DEF Edits, NoEdit
  <2>2. Goes(e, state)
    BY <1>9 DEF SavesRecord
  <2> HIDE DEF state
  <2>3. /\ woes' = woes /\ ed[e].phase = "save" /\ e \in Active /\ UNCHANGED <<cron, scripts>>
        /\ record' = [ed[e].loaded EXCEPT ![ed[e].id] = ed[e].job]
    BY <1>9 DEF SavesRecord, Saved, At, Active
  <2>4. ed'[e] = state
    BY <2>2 DEF Goes, Typed, TypeOK
  <2>5. "overlap" \notin woes =>
           Recorded' = IF ed[e].op = "add" THEN Recorded \cup {ed[e].id} ELSE Recorded \ {ed[e].id}
    <3>1. SUFFICES ASSUME "overlap" \notin woes
                   PROVE  Recorded' = IF ed[e].op = "add" THEN Recorded \cup {ed[e].id}
                                      ELSE Recorded \ {ed[e].id}
      OBVIOUS
    <3>2. ed[e].loaded = record
      BY <2>3, <3>1, Counts DEF AloneWith
    <3>3. record' = [record EXCEPT ![ed[e].id] = ed[e].job] /\ ed[e].id \in Ids
      BY <1>3, <2>3, <3>2
    <3>4. IF ed[e].op = "add" THEN ed[e].job # None ELSE ed[e].job = None
      BY <1>1, <1>3, <2>3
    <3> QED
      BY <1>2, <3>3, <3>4 DEF Recorded
  <2>6. "overlap" \notin woes' => cron' \ {Foreign} \subseteq scripts'
    BY <2>3, Counts
  <2>7. "overlap" \notin woes' /\ state.phase # "idle" => AloneWith(e)'
    BY <1>3, <2>1, <2>3, <2>4, Counts DEF AloneWith
  <2>8. woes' = {} =>
          IF state.phase # "idle" THEN Progress(e)'
          ELSE cron' \ {Foreign} = Recorded' /\ scripts' = Recorded'
    BY <1>3, <2>1, <2>3, <2>4, <2>5, Counts DEF Progress
  <2> QED
    BY <2>1, <2>2, <2>3, <2>6, <2>7, <2>8, Counts, Reduces
<1>10. CASE Unlinks(e)
  <2>1. /\ woes' = woes /\ ed[e].phase = "unlink" /\ e \in Active /\ UNCHANGED <<cron, record>>
        /\ scripts' = scripts \ {ed[e].id} /\ Goes(e, NoEdit) /\ NoEdit.phase = "idle"
        /\ Recorded' = Recorded
    BY <1>10 DEF Unlinks, At, Active, NoEdit, Recorded
  <2>2. "overlap" \notin woes' => cron' \ {Foreign} \subseteq scripts'
    BY <1>3, <2>1, Counts DEF AloneWith
  <2>3. woes' = {} => cron' \ {Foreign} = Recorded' /\ scripts' = Recorded'
    BY <2>1, Counts DEF Progress
  <2> QED
    BY <2>1, <2>2, <2>3, Counts, Reduces
<1>11. CASE Dies(e)
  <2>1. /\ woes \subseteq woes' /\ woes' # {} /\ e \in Active /\ UNCHANGED <<cron, scripts>>
        /\ Goes(e, NoEdit) /\ NoEdit.phase = "idle"
    BY <1>11 DEF Dies, At, Active, NoEdit, Woe
  <2> QED
    BY <2>1, Counts, Reduces
<1> QED
  BY <1>4, <1>5, <1>6, <1>7, <1>8, <1>9, <1>10, <1>11 DEF Edit

LEMMA StepScheduled == Typed /\ Scheduled /\ [Next]_vars => Scheduled'
<1> SUFFICES ASSUME Typed, Scheduled, [Next]_vars PROVE Scheduled'
  OBVIOUS
<1>1. ASSUME UNCHANGED <<cron, record, scripts, ed, woes>> PROVE Scheduled'
  BY <1>1 DEF Scheduled, Alone, Active, AloneWith, Progress, Quiet, At, Recorded
<1>2. CASE \E e \in Editors : Edit(e)
  BY <1>2, EditScheduled
<1>3. CASE \E i \in Ids : JobDue(i) \/ Works(i) \/ WrapperDies(i)
  BY <1>1, <1>3 DEF JobDue, Works, WrapperDies, TakesTurn, GivesUp, CommandStarts, CommandEnds,
     JobEnds, OrphanEnds, Running
<1>4. CASE UserStarts \/ UserEnds
  BY <1>1, <1>4 DEF UserStarts, UserEnds, Running
<1>5. CASE UNCHANGED vars
  BY <1>1, <1>5 DEF vars
<1> QED
  BY <1>2, <1>3, <1>4, <1>5 DEF Next

(* The crontab, the record and the wrappers agree: once every edit is over *)
(* when they came one at a time and none failed, and whatever was killed   *)
(* cron is left no line without its wrapper and keeps the user's lines.    *)
THEOREM SchedulesAgree == Spec => []ScheduleIsRecorded
<1>1. Scheduled => ScheduleIsRecorded
  BY DEF Scheduled, ScheduleIsRecorded
<1>2. Spec => [](Typed /\ Scheduled)
  BY InitTyped, StepTyped, InitScheduled, StepScheduled, PTL DEF Spec
<1> QED
  BY <1>1, <1>2, PTL

-----------------------------------------------------------------------------
(* scope_relation is sound: two scopes that it calls disjoint have no file  *)
(* in common.                                                               *)
LEMMA SharedFile ==
  ASSUME NEW a \in Scopes, NEW b \in Scopes, NEW file \in Seq(Names), Covers(a, file), Covers(b, file)
  PROVE  Scope_relation(a, b) # "disjoint"
<1>1. CASE a = b
  BY <1>1 DEF Scope_relation
<1>2. CASE a # b /\ None \in {a, b}
  BY <1>2 DEF Scope_relation
<1>3. CASE a # b /\ None \notin {a, b}
  <2>1. /\ a \in Seq(Names \cup Globs \cup {Anywhere})
        /\ b \in Seq(Names \cup Globs \cup {Anywhere})
    BY <1>3, ScheduleAssumption
  <2>2. CASE (\E i \in DOMAIN a : a[i] = Anywhere) \/ (\E i \in DOMAIN b : b[i] = Anywhere)
    BY <1>3, <2>2 DEF Scope_relation
  <2>3. CASE ~((\E i \in DOMAIN a : a[i] = Anywhere) \/ (\E i \in DOMAIN b : b[i] = Anywhere))
    <3>1. ASSUME NEW i \in 1 .. Shorter(a, b) PROVE Segments_compatible(a[i], b[i])
      <4>1. i \in DOMAIN a /\ i \in DOMAIN b
        <5>1. Len(a) \in Nat /\ Len(b) \in Nat /\ DOMAIN a = 1 .. Len(a) /\ DOMAIN b = 1 .. Len(b)
          BY <2>1
        <5> QED
          BY <5>1 DEF Shorter
      <4>2. a[i] \in Names \cup Globs /\ b[i] \in Names \cup Globs
        BY <2>1, <2>3, <4>1
      <4>3. /\ file[i] = a[i] \/ (a[i] \in Globs /\ file[i] \in Matches[a[i]])
            /\ file[i] = b[i] \/ (b[i] \in Globs /\ file[i] \in Matches[b[i]])
        BY <1>3, <2>3, <4>1 DEF Covers
      <4>4. /\ Names \cap Globs = {} /\ Matches \in [Globs -> SUBSET Names]
            /\ \A g, h \in Globs : Matches[g] \cap Matches[h] # {} => <<g, h>> \in Ends
        BY ScheduleAssumption
      <4>5. CASE a[i] \in Names /\ b[i] \in Names
        BY <4>3, <4>4, <4>5 DEF Segments_compatible
      <4>6. CASE a[i] \in Names /\ b[i] \in Globs
        BY <4>3, <4>4, <4>6 DEF Segments_compatible
      <4>7. CASE a[i] \in Globs /\ b[i] \in Names
        BY <4>3, <4>4, <4>7 DEF Segments_compatible
      <4>8. CASE a[i] \in Globs /\ b[i] \in Globs
        <5>1. Len(a) <= Len(file)
          BY <1>3, <2>3 DEF Covers
        <5>2. i \in 1 .. Len(file)
          <6>1. Len(a) \in Nat /\ Len(file) \in Nat /\ i \in 1 .. Len(a)
            BY <2>1, <4>1
          <6> QED
            BY <5>1, <6>1
        <5>3. file[i] \in Names
          BY <5>2
        <5> QED
          BY <4>3, <4>4, <4>8, <5>3 DEF Segments_compatible
      <4> QED
        BY <4>2, <4>5, <4>6, <4>7, <4>8
    <3> QED
      BY <1>3, <3>1 DEF Scope_relation
  <2> QED
    BY <2>2, <2>3
<1> QED
  BY <1>1, <1>2, <1>3

(* A job that removes local copies and one that pulls are refused beside   *)
(* each other when they share a file.                                      *)
LEMMA FightersConflict ==
  ASSUME NEW remover \in JobSpecs, NEW puller \in JobSpecs, NEW file \in Seq(Names),
         remover.command \in Removes_local, "pull" \in Operations(puller.command),
         Covers(remover.scope, file), Covers(puller.scope, file)
  PROVE  Conflict(remover, puller) = "error" /\ Conflict(puller, remover) = "error"
<1>1. remover.scope \in Scopes /\ puller.scope \in Scopes
  BY DEF JobSpecs
<1>2. /\ Scope_relation(remover.scope, puller.scope) # "disjoint"
      /\ Scope_relation(puller.scope, remover.scope) # "disjoint"
  BY <1>1, SharedFile
<1>3. remover.command # puller.command
  BY DEF Removes_local, Operations
<1>4. /\ {remover.command, puller.command} \cap Removes_local # {}
      /\ {puller.command, remover.command} \cap Removes_local # {}
  OBVIOUS
<1> QED
  BY <1>2, <1>3, <1>4 DEF Conflict

(* What the processes are about to record fits what is recorded. *)
Peaceful(job) ==
  \A j \in Recorded : Conflict(job, record[j]) # "error"

(* No two jobs that fight, whichever is whose. *)
Fights(a, b, file) ==
  /\ a.command \in Removes_local /\ "pull" \in Operations(b.command)
  /\ Covers(a.scope, file) /\ Covers(b.scope, file)

PeaceInv ==
  mode = "edit" /\ "overlap" \notin woes =>
    /\ \A e \in Active : ed[e].op = "add" => Peaceful(ed[e].job)
    /\ \A i, j \in Recorded : \A file \in Names \X Names : ~Fights(record[i], record[j], file)

LEMMA NobodyFightsHimself ==
  ASSUME NEW job PROVE ~(job.command \in Removes_local /\ "pull" \in Operations(job.command))
BY DEF Removes_local, Operations

LEMMA InitPeace == Init => PeaceInv
<1> SUFFICES ASSUME Init, mode = "edit" PROVE PeaceInv
  BY DEF PeaceInv
<1>1. Active = {} /\ \A i, j \in Recorded : i = j
  BY DEF Init, Active, NoEdit
<1> QED
  BY <1>1, NobodyFightsHimself DEF PeaceInv, Fights

LEMMA StepPeace ==
  ASSUME Typed, Scheduled, PeaceInv, [Next]_vars
  PROVE  PeaceInv'
<1> SUFFICES ASSUME mode' = "edit", "overlap" \notin woes' PROVE PeaceInv'
  BY DEF PeaceInv
<1>1. ASSUME UNCHANGED <<record, ed, mode, woes>> PROVE PeaceInv'
  BY <1>1 DEF PeaceInv, Active, Peaceful, Recorded
<1>2. ASSUME NEW e \in Editors, Edit(e) PROVE PeaceInv'
  <2>1. /\ mode = "edit" /\ woes \subseteq woes' /\ "overlap" \notin woes
        /\ e \in Active \/ ~Overlaps(e)
    <3>1. mode = "edit" /\ woes \subseteq woes' /\ (e \in Active \/ ~Overlaps(e))
      BY <1>2 DEF Edit, AddChecks, AddLoads, RemoveLoads, ReadsCrontab, WritesCrontab, SavesRecord,
         Unlinks, Dies, Editing, Woe, Active, At
    <3> QED
      BY <3>1
  <2>2. /\ \A f \in Active : ed[f].op = "add" => Peaceful(ed[f].job)
        /\ \A i, j \in Recorded : \A file \in Names \X Names : ~Fights(record[i], record[j], file)
    BY <2>1 DEF PeaceInv
  <2>3. ASSUME NEW state, Goes(e, state), record' = record,
               state.phase # "idle" /\ state.op = "add" => Peaceful(state.job)
        PROVE  PeaceInv'
    <3>1. (ed'[e] = state /\ Active' \subseteq {e}) \/ Active' = {}
      BY <2>1, <2>3, OnlyOne DEF Scheduled
    <3>2. Recorded' = Recorded
      BY <2>3 DEF Recorded
    <3> QED
      BY <2>2, <2>3, <3>1, <3>2 DEF PeaceInv, Active, Peaceful
  <2>4. ASSUME NEW state, Goes(e, state), record' = record, e \in Active,
               state.phase # "idle" => state.op = ed[e].op /\ state.job = ed[e].job
        PROVE  PeaceInv'
    BY <2>2, <2>3, <2>4
  <2>5. NoEdit.phase = "idle" /\ ed[e] \in Edits
    BY DEF NoEdit, Typed, TypeOK
  <2>6. CASE AddChecks(e)
    <3>1. PICK job \in JobSpecs :
            /\ ~Refused(job)
            /\ Goes(e, [NoEdit EXCEPT !.phase = "load", !.op = "add", !.job = job])
      BY <2>6 DEF AddChecks
    <3> DEFINE state == [NoEdit EXCEPT !.phase = "load", !.op = "add", !.job = job]
    <3>2. state.job = job /\ Goes(e, state) /\ record' = record
      BY <2>6, <3>1 DEF NoEdit, AddChecks
    <3> HIDE DEF state
    <3> QED
      BY <2>3, <3>1, <3>2 DEF Refused, Peaceful
  <2>7. CASE AddLoads(e) \/ ReadsCrontab(e)
    <3>1. PICK state \in Edits :
            Goes(e, state) /\ state.op = ed[e].op /\ state.job = ed[e].job
      <4>1. CASE AddLoads(e)
        <5>1. PICK id \in Ids :
                Goes(e, [ed[e] EXCEPT !.phase = "read", !.id = id, !.loaded = record])
          BY <4>1 DEF AddLoads
        <5> DEFINE state == [ed[e] EXCEPT !.phase = "read", !.id = id, !.loaded = record]
        <5>2. state \in Edits /\ state.op = ed[e].op /\ state.job = ed[e].job
          BY <2>5 DEF Edits, Typed, TypeOK
        <5> QED
          BY <5>1, <5>2
      <4>2. CASE ReadsCrontab(e)
        <5>1. PICK crontab \in SUBSET (Ids \cup {Foreign}) :
                Goes(e, [ed[e] EXCEPT !.phase = "write", !.crontab = crontab])
          BY <4>2 DEF ReadsCrontab, Typed, TypeOK
        <5> DEFINE state == [ed[e] EXCEPT !.phase = "write", !.crontab = crontab]
        <5>2. state \in Edits /\ state.op = ed[e].op /\ state.job = ed[e].job
          BY <2>5 DEF Edits
        <5> QED
          BY <5>1, <5>2
      <4> QED
        BY <2>7, <4>1, <4>2
    <3>2. record' = record /\ e \in Active
      BY <2>7 DEF AddLoads, ReadsCrontab, At, Active
    <3> QED
      BY <2>4, <3>1, <3>2
  <2>8. CASE RemoveLoads(e)
    <3>1. PICK id \in Recorded :
            Goes(e, [NoEdit EXCEPT !.phase = "read", !.op = "remove", !.id = id, !.loaded = record])
      BY <2>8 DEF RemoveLoads
    <3> DEFINE state == [NoEdit EXCEPT !.phase = "read", !.op = "remove", !.id = id, !.loaded = record]
    <3>2. state.op = "remove" /\ Goes(e, state) /\ record' = record
      BY <2>8, <3>1 DEF NoEdit, RemoveLoads
    <3> HIDE DEF state
    <3> QED
      BY <2>3, <3>2
  <2>9. CASE WritesCrontab(e)
    <3>1. record' = record /\ e \in Active
      BY <2>9 DEF WritesCrontab, At, Active
    <3>2. Goes(e, NoEdit) \/ Goes(e, [ed[e] EXCEPT !.phase = "save"])
      BY <2>9 DEF WritesCrontab
    <3> DEFINE state == [ed[e] EXCEPT !.phase = "save"]
    <3>3. state.op = ed[e].op /\ state.job = ed[e].job
      BY <2>5 DEF Edits
    <3>4. Goes(e, NoEdit) \/ Goes(e, state)
      BY <3>2
    <3> HIDE DEF state
    <3> QED
      BY <2>4, <2>5, <3>1, <3>3, <3>4
  <2>10. CASE Unlinks(e)
    <3>1. Goes(e, NoEdit) /\ record' = record
      BY <2>10 DEF Unlinks
    <3> QED
      BY <2>3, <2>5, <3>1
  <2>11. CASE Dies(e)
    <3>1. Goes(e, NoEdit) /\ (record' = record \/ record' = [i \in Ids |-> None])
      BY <2>11 DEF Dies
    <3>2. CASE record' = record
      BY <2>3, <2>5, <3>1, <3>2
    <3>3. CASE record' = [i \in Ids |-> None]
      <4>1. Recorded' = {}
        BY <3>3 DEF Recorded
      <4> QED
        BY <4>1 DEF PeaceInv, Peaceful
    <3> QED
      BY <3>1, <3>2, <3>3
  <2>12. CASE SavesRecord(e)
    <3>1. /\ ed[e].phase = "save" /\ e \in Active
          /\ record' = [ed[e].loaded EXCEPT ![ed[e].id] = ed[e].job]
      BY <2>12 DEF SavesRecord, Saved, At, Active
    <3>2. ed[e].loaded = record
      BY <2>1, <3>1 DEF Scheduled, AloneWith, Loaded
    <3>3. /\ ed[e].id \in Ids /\ ed[e].op \in {"add", "remove"}
          /\ IF ed[e].op = "add" THEN ed[e].job \in JobSpecs ELSE ed[e].job = None
          /\ record \in [Ids -> JobSpecs \cup {None}] /\ None \notin JobSpecs
      BY <3>1, ScheduleAssumption DEF Typed, TypeOK, EditorTyped, Loaded
    <3>4. record' = [record EXCEPT ![ed[e].id] = ed[e].job]
      BY <3>1, <3>2
    <3> DEFINE state == IF ed[e].op = "add" THEN NoEdit ELSE [ed[e] EXCEPT !.phase = "unlink"]
    <3>5. Goes(e, state) /\ (state.phase = "idle" \/ state.op # "add")
      BY <2>5, <2>12 DEF SavesRecord, Edits
    <3> HIDE DEF state
    <3>6. \A f \in Active' : ed'[f].op # "add"
      <4>1. ed'[e] = state /\ Active' \subseteq {e}
        BY <2>1, <3>1, <3>5, OnlyOne DEF Scheduled
      <4> QED
        BY <3>5, <4>1 DEF Active
    <3>7. ASSUME NEW i \in Recorded', NEW j \in Recorded', NEW file \in Names \X Names,
                 Fights(record'[i], record'[j], file)
          PROVE  FALSE
      <4>1. i \in Ids /\ j \in Ids /\ record'[i] # None /\ record'[j] # None
        BY DEF Recorded
      <4>2. file \in Seq(Names)
        <5>1. PICK x \in Names, y \in Names : file = <<x, y>>
          OBVIOUS
        <5>2. <<x, y>> \in Seq(Names)
          OBVIOUS
        <5> QED
          BY <5>1, <5>2
      <4>3. CASE i # ed[e].id /\ j # ed[e].id
        BY <2>2, <3>3, <3>4, <3>7, <4>1, <4>3 DEF Recorded
      <4>4. CASE i = ed[e].id /\ j = ed[e].id
        BY <3>7, <4>4, NobodyFightsHimself DEF Fights
      <4>5. CASE i = ed[e].id /\ j # ed[e].id
        <5>1. /\ record'[i] = ed[e].job /\ record'[j] = record[j] /\ j \in Recorded
              /\ ed[e].op = "add" /\ ed[e].job \in JobSpecs /\ record[j] \in JobSpecs
          BY <3>3, <3>4, <4>1, <4>5 DEF Recorded
        <5>2. Conflict(ed[e].job, record[j]) # "error"
          BY <2>2, <3>1, <5>1 DEF Peaceful
        <5> QED
          BY <3>7, <4>2, <5>1, <5>2, FightersConflict DEF Fights
      <4>6. CASE i # ed[e].id /\ j = ed[e].id
        <5>1. /\ record'[j] = ed[e].job /\ record'[i] = record[i] /\ i \in Recorded
              /\ ed[e].op = "add" /\ ed[e].job \in JobSpecs /\ record[i] \in JobSpecs
          BY <3>3, <3>4, <4>1, <4>6 DEF Recorded
        <5>2. Conflict(ed[e].job, record[i]) # "error"
          BY <2>2, <3>1, <5>1 DEF Peaceful
        <5> QED
          BY <3>7, <4>2, <5>1, <5>2, FightersConflict DEF Fights
      <4> QED
        BY <4>3, <4>4, <4>5, <4>6
    <3> QED
      BY <3>6, <3>7 DEF PeaceInv
  <2> QED
    BY <1>2, <2>6, <2>7, <2>8, <2>9, <2>10, <2>11, <2>12 DEF Edit
<1>3. CASE \E e \in Editors : Edit(e)
  BY <1>2, <1>3
<1>4. CASE \E i \in Ids : JobDue(i) \/ Works(i) \/ WrapperDies(i)
  BY <1>1, <1>4 DEF JobDue, Works, WrapperDies, TakesTurn, GivesUp, CommandStarts, CommandEnds,
     JobEnds, OrphanEnds, Running
<1>5. CASE UserStarts \/ UserEnds
  BY <1>1, <1>5 DEF UserStarts, UserEnds, Running
<1>6. CASE UNCHANGED vars
  BY <1>1, <1>6 DEF vars
<1> QED
  BY <1>3, <1>4, <1>5, <1>6 DEF Next

(* However jobs are added and removed, unless two processes do it at the   *)
(* same time, no recorded job removes a local file that another pulls.     *)
THEOREM JobsDoNotFight == Spec => []NoFightingJobs
<1>1. PeaceInv => NoFightingJobs
  BY DEF PeaceInv, NoFightingJobs, Fights
<1>2. Typed /\ Scheduled /\ PeaceInv /\ [Next]_vars => PeaceInv'
  BY StepPeace
<1>3. Spec => [](Typed /\ Scheduled /\ PeaceInv)
  BY <1>2, InitTyped, StepTyped, InitScheduled, StepScheduled, InitPeace, PTL DEF Spec
<1> QED
  BY <1>1, <1>3, PTL

=============================================================================
