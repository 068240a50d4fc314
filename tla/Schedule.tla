------------------------------ MODULE Schedule ------------------------------
(***************************************************************************)
(* protonfs schedule (protonfs.commands.schedule): the commands that add   *)
(* and remove jobs, which read and write the user's crontab and the        *)
(* schedule's own record without a lock; the rules by which a job is       *)
(* refused; and the jobs themselves, which take two flocks each and then   *)
(* run protonfs commands that take the repo lock.                          *)
(*                                                                         *)
(* A behaviour either edits the schedule or runs it (mode).                *)
(***************************************************************************)
EXTENDS Naturals, Sequences

CONSTANTS
  None,
  Names,      \* names of files and directories
  Globs,      \* path segments that are a glob pattern, not **
  Matches,    \* the names a pattern matches
  Ends,       \* pairs of patterns whose literal prefixes and suffixes agree
  Anywhere,   \* the segment **
  Scopes,     \* the --path values: None or a sequence of segments
  Ids,        \* job ids
  Foreign,    \* a line of the crontab that is not protonfs's
  Editors,    \* processes that add and remove jobs
  User,       \* a command typed by the user
  MaxEdits, MaxMishaps   \* bounds on edits, and on failures and kills

Commands == {"push", "pull", "sync", "offload", "prune"}
JobSpecs == [command : Commands, scope : Scopes]

ASSUME ScheduleAssumption ==
  /\ Matches \in [Globs -> SUBSET Names]
  /\ \A g, h \in Globs : Matches[g] \cap Matches[h] # {} => <<g, h>> \in Ends
  /\ Names \cap Globs = {}
  /\ None \in Scopes
  /\ \A s \in Scopes \ {None} : s \in Seq(Names \cup Globs \cup {Anywhere}) /\ s # <<>>
  /\ Foreign \notin Ids /\ User \notin Ids /\ None \notin Ids /\ None \notin JobSpecs
  /\ {MaxEdits, MaxMishaps} \subseteq Nat

VARIABLES
  cron,     \* the lines of the crontab, a job's by its id
  record,   \* schedule.local.json
  scripts,  \* the wrapper scripts that exist
  ed,       \* the processes that edit the schedule
  jobs,     \* the jobs that run
  root,     \* who holds the flock on repo.lock, the jobs' shared one
  repo,     \* who holds protonfs's own repo lock
  left,     \* what is left of the bounds
  woes,     \* history: what went wrong with the edits
  mode      \* whether this behaviour edits the schedule or runs it

editing == <<cron, record, scripts, ed, left, woes>>
running == <<jobs, root, repo>>
vars == <<cron, record, scripts, ed, jobs, root, repo, left, woes, mode>>

-----------------------------------------------------------------------------
(* check_conflicts and scope_relation.                                     *)
(* Mutant: patterns are compared as they are written. *)
Segments_equal(a, b) == a = b

Segments_compatible(a, b) ==
  CASE a \in Names /\ b \in Names -> a = b
    [] a \in Names /\ b \in Globs -> a \in Matches[b]
    [] a \in Globs /\ b \in Names -> b \in Matches[a]
    [] OTHER -> <<a, b>> \in Ends

Shorter(a, b) == IF Len(a) < Len(b) THEN Len(a) ELSE Len(b)
Scope_relation(a, b) ==
  CASE a = b -> "identical"
    [] a # b /\ None \in {a, b} -> "overlap"
    [] OTHER ->
         IF \/ \E i \in DOMAIN a : a[i] = Anywhere
            \/ \E i \in DOMAIN b : b[i] = Anywhere
            \/ \A i \in 1 .. Shorter(a, b) : Segments_compatible(a[i], b[i])
         THEN "overlap" ELSE "disjoint"

Operations(command) ==
  CASE command = "push" -> {"push"}
    [] command = "pull" -> {"pull"}
    [] command = "sync" -> {"push", "pull"}
    [] command = "offload" -> {"push", "offload"}
    [] command = "prune" -> {"push", "prune"}
Removes_local == {"offload", "prune"}

(* The level of the conflict between two jobs, None without one. *)
Conflict(a, b) ==
  LET relation == Scope_relation(a.scope, b.scope)
      pair == {a.command, b.command}
      does == Operations(a.command)
      theirs == Operations(b.command)
      graver == IF relation = "identical" THEN "error" ELSE "warning"
  IN CASE relation = "disjoint" -> None
       [] relation = "identical" /\ a.command = b.command -> "error"
       [] OTHER ->
            IF pair \cap Removes_local # {} /\ "pull" \in does \cup theirs THEN "error"
            ELSE IF pair = Removes_local THEN "error"
            ELSE IF "push" \in pair /\ pair \cap Removes_local # {} THEN graver
            ELSE IF ("push" \in does /\ "pull" \in theirs) \/ ("pull" \in does /\ "push" \in theirs)
                 THEN graver
            ELSE IF a.command = b.command THEN "warning" ELSE None

Recorded == {i \in Ids : record[i] # None}
Refused(job) == \E i \in Recorded : Conflict(job, record[i]) = "error"

-----------------------------------------------------------------------------
NoEdit == [phase |-> "idle", op |-> None, job |-> None, id |-> None,
           loaded |-> None, crontab |-> {}]
Off == [phase |-> "off", step |-> 0]

Init ==
  /\ mode \in {"edit", "run"}
  /\ record \in [Ids -> {None} \cup [command : Commands, scope : {None}]]
  /\ mode = "edit" => \A i, j \in Recorded : i = j
  /\ scripts = Recorded
  /\ cron = scripts \cup {Foreign}
  /\ ed = [e \in Editors |-> NoEdit]
  /\ jobs = [i \in Ids |-> Off]
  /\ root = None
  /\ repo = None
  /\ left = IF mode = "edit" THEN [edits |-> MaxEdits, mishaps |-> MaxMishaps]
            ELSE [edits |-> 0, mishaps |-> MaxMishaps]
  /\ woes = {}

Spend(what, n) ==
  /\ left[what] >= n
  /\ left' = [left EXCEPT ![what] = @ - n]
Woe(happens, what) == woes' = IF happens THEN woes \cup {what} ELSE woes
Editing == mode = "edit" /\ UNCHANGED <<running, mode>>
Goes(e, state) == ed' = [ed EXCEPT ![e] = state]
At(e, phase) == ed[e].phase = phase
Overlaps(e) == \E f \in Editors \ {e} : ed[f].phase # "idle"

(* add_job: the conflicts are checked on one read of the record, ...       *)
AddChecks(e) ==
  /\ Editing /\ At(e, "idle") /\ Spend("edits", 1)
  /\ \E job \in JobSpecs :
       /\ ~Refused(job)
       /\ Goes(e, [NoEdit EXCEPT !.phase = "load", !.op = "add", !.job = job])
  /\ Woe(Overlaps(e), "overlap")
  /\ UNCHANGED <<cron, record, scripts>>

(* ... the id is chosen on a second one; the wrapper is written. *)
AddLoads(e) ==
  /\ Editing /\ At(e, "load")
  /\ \E id \in Ids \ (Recorded \cup scripts \cup cron) :
       /\ Goes(e, [ed[e] EXCEPT !.phase = "read", !.id = id, !.loaded = record])
       /\ scripts' = scripts \cup {id}
  /\ UNCHANGED <<cron, record, left, woes>>

(* Mutant: the wrapper goes first, when the record is loaded. *)
RemoveLoads_unlinking(e) ==
  /\ Editing /\ At(e, "idle") /\ Spend("edits", 1)
  /\ \E id \in Recorded :
       /\ Goes(e, [NoEdit EXCEPT !.phase = "read", !.op = "remove", !.id = id, !.loaded = record])
       /\ scripts' = scripts \ {id}
  /\ Woe(Overlaps(e), "overlap")
  /\ UNCHANGED <<cron, record>>

(* remove_job; removing all of them is removing one after the other.       *)
RemoveLoads(e) ==
  /\ Editing /\ At(e, "idle") /\ Spend("edits", 1)
  /\ \E id \in Recorded :
       Goes(e, [NoEdit EXCEPT !.phase = "read", !.op = "remove", !.id = id, !.loaded = record])
  /\ Woe(Overlaps(e), "overlap")
  /\ UNCHANGED <<cron, record, scripts>>

(* crontab -l, of which any failure means an empty crontab.                *)
ReadsCrontab(e) ==
  /\ Editing /\ At(e, "read")
  /\ \E fails \in BOOLEAN :
       /\ Spend("mishaps", IF fails THEN 1 ELSE 0)
       /\ Woe(fails, "unread")
       /\ Goes(e, [ed[e] EXCEPT !.phase = "write", !.crontab = IF fails THEN {} ELSE cron])
  /\ UNCHANGED <<cron, record, scripts>>

(* What it is rewritten to. *)
Installed(lines, id) == (lines \ {id}) \cup {id}
Uninstalled(lines, id) == lines \ {id}

(* crontab -, which may fail and ends the command then. *)
WritesCrontab(e) ==
  /\ Editing /\ At(e, "write")
  /\ \E fails \in BOOLEAN :
       /\ Spend("mishaps", IF fails THEN 1 ELSE 0)
       /\ Woe(fails, "stopped")
       /\ IF fails
          THEN /\ Goes(e, NoEdit)
               /\ UNCHANGED cron
          ELSE /\ Goes(e, [ed[e] EXCEPT !.phase = "save"])
               /\ cron' = IF ed[e].op = "add" THEN Installed(ed[e].crontab, ed[e].id)
                          ELSE Uninstalled(ed[e].crontab, ed[e].id)
  /\ UNCHANGED <<record, scripts>>

(* The record is written as it was loaded, with the job or without it.     *)
Saved(e) == [ed[e].loaded EXCEPT ![ed[e].id] = ed[e].job]
SavesRecord(e) ==
  /\ Editing /\ At(e, "save")
  /\ record' = Saved(e)
  /\ Goes(e, IF ed[e].op = "add" THEN NoEdit ELSE [ed[e] EXCEPT !.phase = "unlink"])
  /\ UNCHANGED <<cron, scripts, left, woes>>

(* A removed job's wrapper goes last. *)
Unlinks(e) ==
  /\ Editing /\ At(e, "unlink")
  /\ scripts' = scripts \ {ed[e].id}
  /\ Goes(e, NoEdit)
  /\ UNCHANGED <<cron, record, left, woes>>

(* The process dies; while it writes the record, which is not done         *)
(* atomically, that leaves a file that reads as no job at all.             *)
Dies(e) ==
  /\ Editing /\ ~At(e, "idle")
  /\ Spend("mishaps", 1)
  /\ Woe(TRUE, "stopped")
  /\ Goes(e, NoEdit)
  /\ \/ record' = record
     \/ At(e, "save") /\ record' = [i \in Ids |-> None]
  /\ UNCHANGED <<cron, scripts>>

-----------------------------------------------------------------------------
(* The wrapper script of a job, and what else takes the repo lock.         *)
Running == mode = "run" /\ UNCHANGED <<cron, record, scripts, ed, woes, mode>>
Becomes(i, state) == jobs' = [jobs EXCEPT ![i] = state]
In(i, phase) == jobs[i].phase = phase

(* The commands of a job, in order (_run_lines). *)
Run_lines(command) ==
  CASE command = "sync" -> <<"pull", "push">>
    [] command = "offload" -> <<"push", "offload">>
    [] OTHER -> <<command>>

(* cron runs it; it gets the job's own flock, or skips: the job runs.      *)
JobDue(i) ==
  /\ Running /\ i \in cron \cap scripts /\ In(i, "off")
  /\ Becomes(i, [phase |-> "waiting", step |-> 0])
  /\ UNCHANGED <<root, repo, left>>

TakesTurn(i) ==
  /\ Running /\ In(i, "waiting")
  /\ root = None
  /\ root' = i
  /\ Becomes(i, [phase |-> "ready", step |-> 1])
  /\ UNCHANGED <<repo, left>>

(* Mutant: after the wait the job runs all the same. *)
GivesUp_waiting(i) ==
  /\ Running /\ In(i, "waiting")
  /\ root # None
  /\ Becomes(i, [phase |-> "ready", step |-> 1])
  /\ UNCHANGED <<root, repo, left>>

(* The wait for the shared flock is bounded; the job skips. *)
GivesUp(i) ==
  /\ Running /\ In(i, "waiting")
  /\ root # None
  /\ Becomes(i, Off)
  /\ UNCHANGED <<root, repo, left>>

(* Mutant: a command waits for the repo lock. *)
CommandStarts_waiting(i) ==
  /\ Running /\ In(i, "ready")
  /\ jobs[i].step <= Len(Run_lines(record[i].command))
  /\ repo = None
  /\ repo' = i
  /\ Becomes(i, [phase |-> "command", step |-> jobs[i].step])
  /\ UNCHANGED <<root, left>>

(* A command takes the repo lock, or fails when it is taken: the wrapper   *)
(* goes on to the next (|| rc=$?).                                         *)
CommandStarts(i) ==
  /\ Running /\ In(i, "ready")
  /\ jobs[i].step <= Len(Run_lines(record[i].command))
  /\ IF repo = None
     THEN /\ repo' = i
          /\ Becomes(i, [phase |-> "command", step |-> jobs[i].step])
     ELSE /\ repo' = repo
          /\ Becomes(i, [phase |-> "ready", step |-> jobs[i].step + 1])
  /\ UNCHANGED <<root, left>>

CommandEnds(i) ==
  /\ Running /\ In(i, "command")
  /\ repo' = None
  /\ Becomes(i, [phase |-> "ready", step |-> jobs[i].step + 1])
  /\ UNCHANGED <<root, left>>

JobEnds(i) ==
  /\ Running /\ In(i, "ready")
  /\ jobs[i].step > Len(Run_lines(record[i].command))
  /\ root' = None
  /\ Becomes(i, Off)
  /\ UNCHANGED <<repo, left>>

(* The wrapper is killed.  A command it had started goes on, and has       *)
(* inherited both flocks.                                                  *)
WrapperDies(i) ==
  /\ Running /\ ~In(i, "off") /\ ~In(i, "orphan")
  /\ Spend("mishaps", 1)
  /\ IF In(i, "command")
     THEN /\ Becomes(i, [phase |-> "orphan", step |-> jobs[i].step])
          /\ root' = root
     ELSE /\ Becomes(i, Off)
          /\ root' = IF root = i THEN None ELSE root
  /\ UNCHANGED repo

OrphanEnds(i) ==
  /\ Running /\ In(i, "orphan")
  /\ repo' = None
  /\ root' = None
  /\ Becomes(i, Off)
  /\ UNCHANGED left

(* The user's own commands only know the repo lock. *)
UserStarts ==
  /\ Running /\ repo = None
  /\ repo' = User
  /\ UNCHANGED <<jobs, root, left>>
UserEnds ==
  /\ Running /\ repo = User
  /\ repo' = None
  /\ UNCHANGED <<jobs, root, left>>

-----------------------------------------------------------------------------
Edit(e) ==
  \/ AddChecks(e) \/ AddLoads(e) \/ RemoveLoads(e) \/ ReadsCrontab(e) \/ WritesCrontab(e)
  \/ SavesRecord(e) \/ Unlinks(e) \/ Dies(e)
(* What a job does by itself once cron started it. *)
Works(i) ==
  \/ TakesTurn(i) \/ GivesUp(i) \/ CommandStarts(i) \/ CommandEnds(i) \/ JobEnds(i)
  \/ OrphanEnds(i)
Next ==
  \/ \E e \in Editors : Edit(e)
  \/ \E i \in Ids : JobDue(i) \/ Works(i) \/ WrapperDies(i)
  \/ UserStarts \/ UserEnds

(* Started commands end, and the shell goes on to the next.                *)
Fairness == /\ \A i \in Ids : WF_vars(Works(i))
            /\ WF_vars(UserEnds)
Spec == Init /\ [][Next]_vars /\ Fairness

-----------------------------------------------------------------------------
Edits == [phase : {"idle", "load", "read", "write", "save", "unlink"},
          op : {None, "add", "remove"}, job : JobSpecs \cup {None}, id : Ids \cup {None},
          loaded : [Ids -> JobSpecs \cup {None}] \cup {None}, crontab : SUBSET (Ids \cup {Foreign})]
Phases == {"off", "waiting", "ready", "command", "orphan"}
TypeOK ==
  /\ cron \subseteq Ids \cup {Foreign}
  /\ record \in [Ids -> JobSpecs \cup {None}]
  /\ scripts \subseteq Ids
  /\ ed \in [Editors -> Edits]
  /\ jobs \in [Ids -> [phase : Phases, step : 0 .. 3]]
  /\ root \in Ids \cup {None}
  /\ repo \in Ids \cup {User, None}
  /\ left \in [edits : Nat, mishaps : Nat]
  /\ woes \subseteq {"overlap", "unread", "stopped"}
  /\ mode \in {"edit", "run"}

Quiet == \A e \in Editors : At(e, "idle")

(* The crontab, the record and the wrappers agree.  When one command at a  *)
(* time edits the schedule and none fails, they have the same jobs; what-  *)
(* ever fails or is killed, cron is never left a line whose wrapper is     *)
(* gone (add_job writes the wrapper first, remove_job unlinks it last);    *)
(* and the rest of the user's crontab is kept through any edits and kills, *)
(* as long as crontab -l does not fail.                                    *)
ScheduleIsRecorded ==
  /\ Quiet /\ woes = {} => cron \ {Foreign} = Recorded /\ scripts = Recorded
  /\ "overlap" \notin woes => cron \ {Foreign} \subseteq scripts
  /\ "unread" \notin woes => Foreign \in cron

(* Two recorded jobs never fight over a file: none removes the local copy  *)
(* that another brings back, unless they were added at the same time.      *)
Covers(scope, file) ==
  \/ scope = None
  \/ \E i \in DOMAIN scope : scope[i] = Anywhere
  \/ /\ Len(scope) <= Len(file)
     /\ \A i \in DOMAIN scope : file[i] = scope[i] \/ (scope[i] \in Globs /\ file[i] \in Matches[scope[i]])
NoFightingJobs ==
  (mode = "edit" /\ "overlap" \notin woes) =>
    \A i, j \in Recorded :
      (record[i].command \in Removes_local /\ "pull" \in Operations(record[j].command)) =>
        \A file \in Names \X Names : ~(Covers(record[i].scope, file) /\ Covers(record[j].scope, file))

(* The jobs of a repository take turns, a killed one's command included.   *)
Turn == {i \in Ids : jobs[i].phase \in {"ready", "command", "orphan"}}
T == INSTANCE Turns WITH Jobs <- Ids, inside <- Turn
JobsTakeTurns == T!Spec

(* A job that was started ends, whoever else has the locks: its waits are  *)
(* bounded, and no command of it waits for the repo lock.                  *)
JobsEnd == \A i \in Ids : jobs[i].phase # "off" ~> jobs[i].phase = "off"
=============================================================================
