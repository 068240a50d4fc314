------------------------- MODULE RemoteManifestProofs -------------------------
(***************************************************************************)
(* What RemoteManifest promises, proved for every set of hosts and files   *)
(* and every bound.                                                        *)
(***************************************************************************)
EXTENDS RemoteManifest, TLAPS

(* No host has read, recorded or been sent a revision that Drive has not   *)
(* received, and a generation grows with the revisions.                    *)
Fits(r) ==
  /\ r \in Runs
  /\ r.mem.revision <= last
  /\ r.read.revision <= last
  /\ r.read.generation <= last
  /\ r.sent <= last

Typed ==
  /\ TypeOK
  /\ manifest.revision <= last
  /\ manifest.generation <= last
  /\ \A h \in Hosts : index[h].revision <= last /\ Fits(run[h])

(* What a step of a host leaves to be well typed beside its command. *)
CountsTyped ==
  /\ drive' \in [Files -> Versions]
  /\ made' \in [Files -> Versions]
  /\ started' \in 0 .. MaxCommands

LEMMA IdleFits ==
  ASSUME last \in Nat
  PROVE  Fits(Idle) /\ NoIndex \in Indexes /\ NoManifest \in Manifests
<1> USE ManifestAssumption
<1>1. NoFiles \in [Files -> Versions]
  BY DEF NoFiles, Versions
<1>2. NoManifest \in Manifests /\ NoIndex \in Indexes
  BY <1>1 DEF NoManifest, NoIndex, Manifests, Indexes, Revisions
<1>3. Idle \in Runs
  BY <1>1, <1>2 DEF Idle, Runs, Ops, Phases, Revisions
<1>4. Idle.mem.revision = 0 /\ Idle.read.revision = 0 /\ Idle.read.generation = 0 /\ Idle.sent = 0
  BY DEF Idle, NoIndex, NoManifest
<1> QED
  BY <1>2, <1>3, <1>4 DEF Fits

LEMMA InitTyped == Init => Typed
<1> SUFFICES ASSUME Init PROVE Typed
  OBVIOUS
<1> USE ManifestAssumption
<1>1. last \in Nat /\ last \in Revisions
  BY DEF Init, Revisions
<1>2. Fits(Idle) /\ NoIndex \in Indexes /\ NoManifest \in Manifests
  BY <1>1, IdleFits
<1>3. NoFiles \in [Files -> Versions]
  BY DEF NoFiles, Versions
<1>4. NoManifest.revision = 0 /\ NoManifest.generation = 0 /\ NoIndex.revision = 0
  BY DEF NoManifest, NoIndex
<1> QED
  BY <1>1, <1>2, <1>3, <1>4 DEF Init, Typed, TypeOK, Fits

(* One host's command changes, nothing else about the hosts does. *)
LEMMA GoesTyped ==
  ASSUME Typed, NEW h \in Hosts, NEW to, Fits(to), Goes(h, to),
         UNCHANGED <<manifest, last, index>>, CountsTyped
  PROVE  Typed'
  BY DEF Typed, TypeOK, Fits, Goes, CountsTyped

LEMMA EndsTyped ==
  ASSUME Typed, NEW h \in Hosts, NEW idx \in Indexes, Ends(h, idx), idx.revision <= last,
         UNCHANGED <<drive, made, manifest, last>>
  PROVE  Typed'
<1>1. Fits(Idle)
  BY IdleFits, ManifestAssumption DEF Typed, TypeOK, Revisions
<1> QED
  BY <1>1 DEF Typed, TypeOK, Fits, Ends, Goes

LEMMA AppliedTyped ==
  ASSUME NEW entries \in [Files -> Versions], NEW r \in Runs
  PROVE  Applied(entries, r) \in [Files -> Versions]
BY ManifestAssumption DEF Applied, Runs, Versions

LEMMA ReconciledTyped ==
  ASSUME NEW known \in SUBSET Files, NEW m \in Manifests
  PROVE  Reconciled(known, m) \in Indexes /\ Reconciled(known, m).revision = m.revision
BY DEF Reconciled, Indexes, Manifests

LEMMA TypedHolds == Typed /\ [Next]_vars => Typed'
<1> SUFFICES ASSUME Typed, [Next]_vars PROVE Typed'
  OBVIOUS
<1> USE ManifestAssumption
<1>b. last \in Nat /\ last <= MaxRevisions /\ manifest \in Manifests
  BY DEF Typed, TypeOK, Revisions
<1>z. 0 \in Revisions /\ manifest.revision \in Revisions
  BY <1>b DEF Revisions, Manifests
<1>a. Fits(Idle)
  BY <1>b, IdleFits
<1>c. \A h \in Hosts : index[h] \in Indexes /\ run[h] \in Runs /\ Fits(run[h])
  BY DEF Typed, TypeOK
<1>d. UNCHANGED <<drive, made, started>> => CountsTyped
  BY DEF CountsTyped, Typed, TypeOK
<1>e. manifest.revision <= last /\ manifest.generation <= last
  BY DEF Typed
<1>1. CASE OutsideTrashesManifest
  <2>1. NoManifest \in Manifests /\ NoManifest.revision = 0 /\ NoManifest.generation = 0
    BY <1>b, IdleFits DEF NoManifest
  <2> QED
    BY <2>1, <1>1, <1>b DEF OutsideTrashesManifest, Typed, TypeOK, Fits
<1>2. ASSUME NEW h \in Hosts, NEW f \in Files, Pushes(h, f) PROVE Typed'
  <2> DEFINE sets == [NoFiles EXCEPT ![f] = made[f] + 1]
             mem == [index[h] EXCEPT !.known = @ \cup {f}]
             to == [Idle EXCEPT !.op = "update", !.mem = mem, !.sets = sets]
             loading == [to EXCEPT !.phase = "loading"]
  <2>1. made[f] + 1 \in Versions /\ CountsTyped
    BY <1>2 DEF Pushes, Uploaded, Starts, CountsTyped, Typed, TypeOK, Versions
  <2>2. sets \in [Files -> Versions]
    BY <2>1 DEF NoFiles, Versions
  <2>3. mem \in Indexes /\ mem.revision <= last
    BY <1>c DEF Indexes, Typed
  <2> HIDE DEF sets, mem
  <2>4. Fits(loading)
    BY <2>2, <2>3, <1>a DEF Fits, Runs, Ops, Phases
  <2>5. Goes(h, loading) /\ UNCHANGED <<manifest, last, index>>
    BY <1>2 DEF Pushes, Starts, sets, mem
  <2> QED
    BY <2>1, <2>4, <2>5, GoesTyped
<1>3. ASSUME NEW h \in Hosts, NEW f \in Files, Removes(h, f) PROVE Typed'
  <2> DEFINE mem == [index[h] EXCEPT !.known = @ \ {f}]
             to == [Idle EXCEPT !.op = "update", !.mem = mem, !.forgets = {f}]
             loading == [to EXCEPT !.phase = "loading"]
  <2>1. CountsTyped
    BY <1>3 DEF Removes, Starts, CountsTyped, Typed, TypeOK, Versions
  <2>2. mem \in Indexes /\ mem.revision <= last
    BY <1>c DEF Indexes, Typed
  <2> HIDE DEF mem
  <2>3. Fits(loading)
    BY <2>2, <1>a DEF Fits, Runs, Ops, Phases
  <2>4. Goes(h, loading) /\ UNCHANGED <<manifest, last, index>>
    BY <1>3 DEF Removes, Starts, mem
  <2> QED
    BY <2>1, <2>3, <2>4, GoesTyped
<1>4. ASSUME NEW h \in Hosts, NEW op \in {"repair", "refresh", "seed"}, Begins(h, op) PROVE Typed'
  <2> DEFINE to == [Idle EXCEPT !.op = op, !.mem = index[h]]
             loading == [to EXCEPT !.phase = "loading"]
  <2>1. CountsTyped
    BY <1>4 DEF Begins, Starts, CountsTyped, Typed, TypeOK
  <2>2. index[h] \in Indexes /\ index[h].revision <= last
    BY <1>c DEF Typed
  <2>3. Fits(loading)
    BY <2>2, <1>a DEF Fits, Runs, Ops, Phases
  <2>4. Goes(h, loading) /\ UNCHANGED <<manifest, last, index>>
    BY <1>4 DEF Begins, Starts
  <2> QED
    BY <2>1, <2>3, <2>4, GoesTyped
<1>5. ASSUME NEW h \in Hosts, Probes(h) PROVE Typed'
  <2> DEFINE to == [run[h] EXCEPT !.phase = "fetching", !.probed = manifest.revision]
  <2>r. run[h] \in Runs
    BY <1>c
  <2>f. to \in Runs
    BY <2>r, <1>z DEF Runs, Phases
  <2>g. to.mem = run[h].mem /\ to.read = run[h].read /\ to.sent = run[h].sent
    BY <2>r DEF Runs
  <2>1. Fits(to)
    BY <2>f, <2>g, <1>b, <1>c, <1>e DEF Fits
  <2>2. Goes(h, to) /\ CountsTyped /\ UNCHANGED <<manifest, last, index>>
    BY <1>5, <1>d DEF Probes
  <2> QED
    BY <2>1, <2>2, GoesTyped
<1>6. ASSUME NEW h \in Hosts, WalksWithout(h) PROVE Typed'
  <2> DEFINE to == [run[h] EXCEPT !.phase = "walking", !.todo = Files, !.probed = 0]
  <2>r. run[h] \in Runs
    BY <1>c
  <2>f. to \in Runs
    BY <2>r, <1>b, <1>z DEF Runs, Phases
  <2>g. to.mem = run[h].mem /\ to.read = run[h].read /\ to.sent = run[h].sent
    BY <2>r DEF Runs
  <2>1. Fits(to)
    BY <2>f, <2>g, <1>b, <1>c, <1>e DEF Fits
  <2>2. Goes(h, to) /\ CountsTyped /\ UNCHANGED <<manifest, last, index>>
    BY <1>6, <1>d DEF WalksWithout
  <2> QED
    BY <2>1, <2>2, GoesTyped
<1>7. ASSUME NEW h \in Hosts, FetchesForUpdate(h) PROVE Typed'
  <2> DEFINE read == [manifest EXCEPT !.entries = Applied(@, run[h])]
             current == /\ run[h].mem.revision = manifest.revision
                        /\ run[h].mem.generation = manifest.generation
             to == [run[h] EXCEPT !.phase = "probing", !.probed = 0, !.read = read,
                                  !.was_current = current]
  <2>a. read \in Manifests /\ read.revision <= last /\ read.generation <= last
    BY <1>b, <1>c, <1>e, AppliedTyped DEF Manifests
  <2>r. run[h] \in Runs
    BY <1>c
  <2>f. to \in Runs
    BY <2>a, <2>r, <1>z DEF Runs, Phases
  <2>g. to.mem = run[h].mem /\ to.read = read /\ to.sent = run[h].sent
    BY <2>r DEF Runs
  <2>1. Fits(to)
    BY <2>f, <2>g, <1>b, <1>c, <1>e, <2>a DEF Fits
  <2>2. Goes(h, to) /\ CountsTyped /\ UNCHANGED <<manifest, last, index>>
    BY <1>7, <1>d DEF FetchesForUpdate
  <2> QED
    BY <2>1, <2>2, GoesTyped
<1>8. ASSUME NEW h \in Hosts, FetchesForWalk(h) PROVE Typed'
  <2> DEFINE to == [run[h] EXCEPT !.phase = "walking", !.todo = Files, !.probed = 0,
                                  !.read = manifest]
  <2>r. run[h] \in Runs
    BY <1>c
  <2>f. to \in Runs
    BY <2>r, <1>b, <1>z DEF Runs, Phases
  <2>g. to.mem = run[h].mem /\ to.read = manifest /\ to.sent = run[h].sent
    BY <2>r DEF Runs
  <2>1. Fits(to)
    BY <2>f, <2>g, <1>b, <1>c, <1>e DEF Fits
  <2>2. Goes(h, to) /\ CountsTyped /\ UNCHANGED <<manifest, last, index>>
    BY <1>8, <1>d DEF FetchesForWalk
  <2> QED
    BY <2>1, <2>2, GoesTyped
<1>9. ASSUME NEW h \in Hosts, Seeds(h) PROVE Typed'
  <2>1. Listed(manifest.entries) \in SUBSET Files
    BY DEF Listed
  <2> QED
    BY <2>1, <1>b, <1>e, <1>9, ReconciledTyped, EndsTyped DEF Seeds
<1>10. ASSUME NEW h \in Hosts, NEW f \in Files, NEW sized \in BOOLEAN, Lists(h, f, sized)
       PROVE  Typed'
  <2> DEFINE found == [run[h].found EXCEPT ![f] = IF run[h].op = "repair" /\ sized THEN drive[f] ELSE 0]
             mem == [run[h].mem EXCEPT !.known = IF run[h].op = "refresh" /\ drive[f] # 0
                                                 THEN @ \cup {f} ELSE @]
             to == [run[h] EXCEPT !.todo = @ \ {f}, !.found = found, !.mem = mem]
  <2>1. found \in [Files -> Versions]
    <3>1. drive[f] \in Versions /\ 0 \in Versions
      BY DEF Typed, TypeOK, Versions
    <3>2. run[h].found \in [Files -> Versions]
      BY <1>c DEF Runs
    <3> QED
      BY <3>1, <3>2
  <2>2. mem \in Indexes /\ mem.revision = run[h].mem.revision
    BY <1>c DEF Runs, Indexes
  <2>4. to \in Runs
    BY <1>c, <2>1, <2>2 DEF Runs
  <2>5. to.mem = mem /\ to.read = run[h].read /\ to.sent = run[h].sent
    BY <1>c DEF Runs
  <2>6. Fits(to)
    BY <2>2, <2>4, <2>5, <1>c DEF Fits
  <2>3. Goes(h, to) /\ CountsTyped /\ UNCHANGED <<manifest, last, index>>
    BY <1>10, <1>c, <1>d DEF Lists, Goes, Runs, Indexes
  <2> QED
    BY <2>6, <2>3, GoesTyped
<1>11. ASSUME NEW h \in Hosts, Refreshes(h) PROVE Typed'
  <2>1. /\ run[h].mem \in Indexes /\ run[h].mem.known \in SUBSET Files /\ run[h].read \in Manifests
        /\ run[h].mem.revision <= last /\ run[h].read.revision <= last
    BY <1>c DEF Runs, Indexes, Fits
  <2>2. UNCHANGED <<drive, made, manifest, last>>
    BY <1>11 DEF Refreshes
  <2>3. CASE run[h].read = NoManifest
    BY <2>1, <2>2, <2>3, <1>11, EndsTyped DEF Refreshes
  <2>4. CASE run[h].read # NoManifest
    BY <2>1, <2>2, <2>4, <1>11, ReconciledTyped, EndsTyped DEF Refreshes
  <2> QED
    BY <2>3, <2>4
<1>12. ASSUME NEW h \in Hosts, Rebuilds(h) PROVE Typed'
  <2>1. Fits(Rebuilt(h))
    <3> DEFINE old == run[h].read.entries
               found == run[h].found
               sets == [f \in Files |-> IF found[f] # old[f] THEN found[f] ELSE 0]
               forgets == {f \in Files : old[f] # 0 /\ found[f] = 0}
               read == [run[h].read EXCEPT !.entries = found]
    <3>1. found \in [Files -> Versions] /\ sets \in [Files -> Versions] /\ forgets \in SUBSET Files
      BY <1>c DEF Runs, Versions
    <3>2. /\ read \in Manifests
          /\ read.revision = run[h].read.revision /\ read.generation = run[h].read.generation
      BY <1>c, <3>1 DEF Runs, Manifests
    <3>3. NoFiles \in [Files -> Versions]
      BY DEF NoFiles, Versions
    <3>4. Rebuilt(h) = [run[h] EXCEPT !.sets = sets, !.forgets = forgets, !.read = read,
                                      !.found = NoFiles, !.phase = "probing"]
      BY <1>c DEF Rebuilt, Runs, Manifests
    <3> HIDE DEF found, sets, forgets, read
    <3> QED
      BY <1>c, <3>1, <3>2, <3>3, <3>4 DEF Fits, Runs, Phases
  <2>2. /\ Goes(h, Idle) \/ Goes(h, Rebuilt(h))
        /\ CountsTyped /\ UNCHANGED <<manifest, last, index>>
    BY <1>12, <1>d DEF Rebuilds
  <2> QED
    BY <2>1, <2>2, <1>a, GoesTyped
<1>13. ASSUME NEW h \in Hosts, SaveProbes(h) PROVE Typed'
  <2> DEFINE phase == IF manifest # NoManifest /\ manifest.revision # run[h].read.revision
                      THEN "replaying" ELSE "uploading"
             to == [run[h] EXCEPT !.attempts = @ + 1, !.probed = manifest.revision,
                                  !.phase = phase]
  <2>a. phase \in Phases /\ run[h].attempts + 1 \in 0 .. SAVE_ATTEMPTS
    BY <1>c, <1>13 DEF SaveProbes, Runs, Phases
  <2>r. run[h] \in Runs
    BY <1>c
  <2>f. to \in Runs
    BY <2>r, <2>a, <1>z DEF Runs
  <2>g. to.mem = run[h].mem /\ to.read = run[h].read /\ to.sent = run[h].sent
    BY <2>r DEF Runs
  <2>1. Fits(to)
    BY <2>f, <2>g, <1>b, <1>c, <1>e DEF Fits
  <2>2. Goes(h, to) /\ CountsTyped /\ UNCHANGED <<manifest, last, index>>
    BY <1>13, <1>d DEF SaveProbes, Takes_up
  <2> QED
    BY <2>1, <2>2, GoesTyped
<1>14. ASSUME NEW h \in Hosts, Replays(h) PROVE Typed'
  <2> DEFINE read == [manifest EXCEPT !.entries = Applied(@, run[h])]
             to == [run[h] EXCEPT !.read = read, !.replayed = TRUE, !.phase = "uploading"]
  <2>a. read \in Manifests /\ read.revision <= last /\ read.generation <= last
    BY <1>b, <1>c, <1>e, AppliedTyped DEF Manifests
  <2>r. run[h] \in Runs
    BY <1>c
  <2>f. to \in Runs
    BY <2>a, <2>r, <1>z DEF Runs, Phases
  <2>g. to.mem = run[h].mem /\ to.read = read /\ to.sent = run[h].sent
    BY <2>r DEF Runs
  <2>1. Fits(to)
    BY <2>f, <2>g, <1>b, <1>c, <1>e, <2>a DEF Fits
  <2>2. Goes(h, to) /\ CountsTyped /\ UNCHANGED <<manifest, last, index>>
    BY <1>14, <1>d DEF Replays
  <2> QED
    BY <2>1, <2>2, GoesTyped
<1>15. ASSUME NEW h \in Hosts, Uploads(h) PROVE Typed'
  <2> DEFINE to == [run[h] EXCEPT !.phase = "confirming", !.sent = last + 1, !.probed = 0]
  <2>1. last' = last + 1 /\ last' \in Revisions /\ UNCHANGED <<drive, made, index, started>>
    BY <1>15, <1>b DEF Uploads, Revisions
  <2>r. run[h] \in Runs
    BY <1>c
  <2>2. to \in Runs
    BY <2>1, <2>r, <1>z DEF Runs, Phases
  <2>3. manifest' \in Manifests /\ manifest'.revision <= last' /\ manifest'.generation <= last'
    BY <1>b, <1>c, <1>15 DEF Uploads, Runs, Manifests, Revisions, Fits
  <2>4. run' = [run EXCEPT ![h] = to]
    BY <1>15 DEF Uploads, Goes
  <2>5. \A i \in Hosts : run'[i] \in Runs /\ Fits(run[i])' /\ index[i].revision <= last'
    <3> SUFFICES ASSUME NEW i \in Hosts
                 PROVE  run'[i] \in Runs /\ Fits(run[i])' /\ index[i].revision <= last'
      OBVIOUS
    <3>1. /\ run[i].mem.revision \in Nat /\ run[i].read.revision \in Nat
          /\ run[i].read.generation \in Nat /\ run[i].sent \in Nat /\ index[i].revision \in Nat
      BY <1>c DEF Runs, Indexes, Manifests, Revisions
    <3>2. /\ run[i].mem.revision <= last' /\ run[i].read.revision <= last'
          /\ run[i].read.generation <= last' /\ run[i].sent <= last' /\ index[i].revision <= last'
      BY <3>1, <2>1, <1>b, <1>c DEF Fits, Typed
    <3>3. to.mem = run[h].mem /\ to.read = run[h].read /\ to.sent = last'
      BY <2>1, <1>c DEF Runs
    <3>4. run'[i] = IF i = h THEN to ELSE run[i]
      BY <2>4 DEF Typed, TypeOK
    <3>5. last' <= last'
      BY <2>1, <1>b
    <3> QED
      BY <3>2, <3>3, <3>4, <3>5, <2>2, <1>c DEF Fits
  <2> QED
    BY <2>1, <2>3, <2>5, <2>4 DEF Typed, TypeOK, Fits
<1>16. ASSUME NEW h \in Hosts, UploadVanishes(h) PROVE Typed'
  <2> DEFINE to == [run[h] EXCEPT !.phase = "confirming", !.sent = 0, !.probed = 0]
  <2>r. run[h] \in Runs
    BY <1>c
  <2>f. to \in Runs
    BY <2>r, <1>b, <1>z DEF Runs, Phases
  <2>g. to.mem = run[h].mem /\ to.read = run[h].read /\ to.sent = 0
    BY <2>r DEF Runs
  <2>1. Fits(to)
    BY <2>f, <2>g, <1>b, <1>c, <1>e DEF Fits
  <2>2. Goes(h, to) /\ CountsTyped /\ UNCHANGED <<manifest, last, index>>
    BY <1>16, <1>d DEF UploadVanishes
  <2> QED
    BY <2>1, <2>2, GoesTyped
<1>17. ASSUME NEW h \in Hosts, Confirms(h) PROVE Typed'
  <2>1. run[h].mem \in Indexes /\ run[h].mem.known \in SUBSET Files /\ run[h].mem.revision <= last
    BY <1>c DEF Runs, Indexes, Fits
  <2>2. UNCHANGED <<drive, made, manifest, last>>
    BY <1>17 DEF Confirms
  <2>3. CASE run[h].was_current /\ ~run[h].replayed
    BY <2>1, <2>2, <2>3, <1>b, <1>e, <1>17, ReconciledTyped, EndsTyped DEF Confirms
  <2>4. CASE ~(run[h].was_current /\ ~run[h].replayed)
    BY <2>1, <2>2, <2>4, <1>17, EndsTyped DEF Confirms
  <2> QED
    BY <2>3, <2>4
<1>18. ASSUME NEW h \in Hosts, GoesRoundAgain(h) PROVE Typed'
  <2> DEFINE to == [run[h] EXCEPT !.phase = "probing"]
  <2>r. run[h] \in Runs
    BY <1>c
  <2>f. to \in Runs
    BY <2>r, <1>z DEF Runs, Phases
  <2>g. to.mem = run[h].mem /\ to.read = run[h].read /\ to.sent = run[h].sent
    BY <2>r DEF Runs
  <2>1. Fits(to)
    BY <2>f, <2>g, <1>b, <1>c, <1>e DEF Fits
  <2>2. Goes(h, to) /\ CountsTyped /\ UNCHANGED <<manifest, last, index>>
    BY <1>18, <1>d DEF GoesRoundAgain
  <2> QED
    BY <2>1, <2>2, GoesTyped
<1>19. ASSUME NEW h \in Hosts, Stops(h) PROVE Typed'
  <2>1. /\ run[h].mem \in Indexes /\ run[h].mem.revision <= last
        /\ index[h] \in Indexes /\ index[h].revision <= last
    BY <1>c DEF Runs, Fits, Typed
  <2> QED
    BY <2>1, <1>19, EndsTyped DEF Stops
<1>20. CASE UNCHANGED vars
  BY <1>20 DEF vars, Typed, TypeOK, Fits
<1> QED
  BY <1>1, <1>2, <1>3, <1>4, <1>5, <1>6, <1>7, <1>8, <1>9, <1>10, <1>11, <1>12, <1>13, <1>14,
     <1>15, <1>16, <1>17, <1>18, <1>19, <1>20 DEF Next, Command, Save

LEMMA TypedAlways == Spec => []Typed
<1> QED
  BY InitTyped, TypedHolds, PTL DEF Spec

(* Every reachable state is well typed, for all hosts and any bounds. *)
THEOREM TypeCorrect == Spec => []TypeOK
<1>1. Typed => TypeOK
  BY DEF Typed
<1> QED
  BY TypedAlways, <1>1, PTL
-----------------------------------------------------------------------------
(* What a host holds is sound for a state of Drive d, of its manifest m    *)
(* and of the uploads k made so far.                                       *)

(* Nothing lists a version that was never uploaded. *)
Made(entries, k) == \A f \in Files : entries[f] <= k[f]

(* What is not known is not on Drive as listed. *)
Knows(known, listed, d) == \A f \in Files : f \notin known => d[f] = 0 \/ listed[f] # d[f]

(* A revision that is still active lists what it did. *)
Agrees(revision, entries, m) == revision # 0 /\ revision = m.revision => entries = m.entries

IndexSound(idx, d, m, k) ==
  /\ Made(idx.listed, k)
  /\ Knows(idx.known, idx.listed, d)
  /\ Agrees(idx.revision, idx.listed, m)

Saving == {"probing", "replaying", "uploading", "confirming"}

(* A command on its way to an index that knows its manifest. *)
WaySound(r, d, m, k) ==
  /\ IndexSound(r.mem, d, m, k)
  /\ Made(r.read.entries, k) /\ Made(r.sets, k) /\ Made(r.found, k)
  /\ r.was_current => r.op = "update"
  /\ r.op = "update" => \A f \in Files : r.sets[f] # 0 => f \in r.mem.known
  /\ r.was_current /\ ~r.replayed => r.read.entries = Applied(r.mem.listed, r)
  /\ r.phase \in {"loading", "fetching"} => r.read.revision = 0
  /\ r.phase = "walking" => Agrees(r.read.revision, r.read.entries, m)
  /\ r.phase = "walking" /\ r.op = "refresh" =>
       Knows(r.mem.known \cup r.todo, r.read.entries, d)
  /\ r.phase = "confirming" => Agrees(r.sent, r.read.entries, m)

(* A command that writes the manifest has replayed its changes onto the    *)
(* revision it is about to replace.                                        *)
SaveSound(r, m) ==
  r.phase \in Saving =>
    /\ r.op \in {"update", "repair"}
    /\ r.op = "update" => r.read.revision # 0
    /\ r.phase = "uploading" => r.probed = r.read.revision
    /\ r.phase = "replaying" => r.probed # 0
    /\ r.read.revision # 0 /\ r.read.revision = m.revision =>
         \A f \in Files : r.sets[f] = 0 /\ f \notin r.forgets
                           => r.read.entries[f] = m.entries[f]

Sound(r, d, m, k) == WaySound(r, d, m, k) /\ SaveSound(r, m)

ManifestInv ==
  /\ Typed
  /\ Made(drive, made) /\ Made(manifest.entries, made)
  /\ manifest # NoManifest => manifest.revision # 0
  /\ \A h \in Hosts : /\ IndexSound(index[h], drive, manifest, made)
                      /\ Sound(run[h], drive, manifest, made)

LEMMA IdleSound ==
  ASSUME NEW d \in [Files -> Versions], NEW k \in [Files -> Versions], NEW m
  PROVE  Sound(Idle, d, m, k) /\ IndexSound(NoIndex, d, m, k)
<1>1. \A f \in Files : NoFiles[f] = 0 /\ d[f] \in Nat /\ k[f] \in Nat
  BY ManifestAssumption DEF NoFiles, Versions
<1>2. IndexSound(NoIndex, d, m, k)
  BY <1>1 DEF IndexSound, NoIndex, Made, Knows, Agrees
<1>3. /\ Idle.mem = NoIndex /\ Idle.read.entries = NoFiles /\ Idle.sets = NoFiles
      /\ Idle.found = NoFiles /\ Idle.was_current = FALSE /\ Idle.op = "none" /\ Idle.phase = "idle"
  BY DEF Idle, NoManifest
<1>4. WaySound(Idle, d, m, k)
  BY <1>1, <1>2, <1>3 DEF WaySound, Made
<1>5. SaveSound(Idle, m)
  BY <1>3 DEF SaveSound, Saving
<1> QED
  BY <1>2, <1>4, <1>5 DEF Sound

LEMMA InitSound == Init => ManifestInv
<1> SUFFICES ASSUME Init PROVE ManifestInv
  OBVIOUS
<1>1. Typed
  BY InitTyped
<1>2. drive \in [Files -> Versions] /\ made \in [Files -> Versions]
  BY <1>1 DEF Typed, TypeOK
<1>3. \A h \in Hosts : index[h] = NoIndex /\ run[h] = Idle
  BY DEF Init
<1>4. Made(drive, made) /\ Made(manifest.entries, made) /\ manifest = NoManifest
  BY <1>2 DEF Init, Made, NoManifest, NoFiles
<1> QED
  BY <1>1, <1>2, <1>3, <1>4, IdleSound DEF ManifestInv

(* Others upload, trash, and write manifests that are newer than anything  *)
(* a host has read: what it holds stays sound.                             *)
Later(d, m, k, d2, m2, k2, bound) ==
  /\ \A f \in Files : /\ d2[f] \in Nat /\ k[f] \in Nat /\ k2[f] \in Nat
                      /\ k[f] <= k2[f]
                      /\ d2[f] = d[f] \/ d2[f] = 0 \/ d2[f] > k[f]
  /\ m2 = m \/ m2.revision = 0 \/ m2.revision > bound

LEMMA IndexStays ==
  ASSUME NEW idx \in Indexes, NEW d, NEW m, NEW k, NEW d2, NEW m2, NEW k2, NEW bound \in Nat,
         Later(d, m, k, d2, m2, k2, bound), idx.revision <= bound, m2.revision \in Nat,
         IndexSound(idx, d, m, k)
  PROVE  IndexSound(idx, d2, m2, k2)
<1>1. \A f \in Files : idx.listed[f] \in Nat
  BY ManifestAssumption DEF Indexes, Versions
<1>2. idx.revision \in Nat
  BY ManifestAssumption DEF Indexes, Revisions
<1>3. Made(idx.listed, k2)
  BY <1>1 DEF IndexSound, Made, Later
<1>4. Knows(idx.known, idx.listed, d2)
  BY <1>1 DEF IndexSound, Knows, Made, Later
<1>5. Agrees(idx.revision, idx.listed, m2)
  BY <1>2 DEF IndexSound, Agrees, Later
<1> QED
  BY <1>3, <1>4, <1>5 DEF IndexSound

LEMMA RunStays ==
  ASSUME NEW r \in Runs, NEW d, NEW m, NEW k, NEW d2, NEW m2, NEW k2, NEW bound \in Nat,
         Later(d, m, k, d2, m2, k2, bound), m2.revision \in Nat,
         r.mem.revision <= bound, r.read.revision <= bound, r.sent <= bound,
         Sound(r, d, m, k)
  PROVE  Sound(r, d2, m2, k2)
<1>1. r.mem \in Indexes /\ r.read.revision \in Nat /\ r.sent \in Nat
  BY ManifestAssumption DEF Runs, Manifests, Revisions
<1>2. \A f \in Files : r.read.entries[f] \in Nat /\ r.sets[f] \in Nat /\ r.found[f] \in Nat
  BY ManifestAssumption DEF Runs, Manifests, Versions
<1>3. IndexSound(r.mem, d2, m2, k2)
  BY <1>1, IndexStays DEF Sound, WaySound
<1>4. Made(r.read.entries, k2) /\ Made(r.sets, k2) /\ Made(r.found, k2)
  BY <1>2 DEF Sound, WaySound, Made, Later
<1>5. \A revision \in {r.read.revision, r.sent} :
        Agrees(revision, r.read.entries, m) => Agrees(revision, r.read.entries, m2)
  BY <1>1 DEF Agrees, Later
<1>6. \A known : Knows(known, r.read.entries, d) => Knows(known, r.read.entries, d2)
  BY <1>2 DEF Sound, WaySound, Knows, Made, Later
<1>7. WaySound(r, d2, m2, k2)
  BY <1>3, <1>4, <1>5, <1>6 DEF Sound, WaySound
<1>8. SaveSound(r, m2)
  BY <1>1 DEF Sound, SaveSound, Later
<1> QED
  BY <1>7, <1>8 DEF Sound
(* One host's command changes and stays sound, nothing else changes. *)
LEMMA GoesSound ==
  ASSUME ManifestInv, Typed', NEW h \in Hosts, NEW to, Goes(h, to),
         UNCHANGED <<drive, made, manifest, last, index>>,
         Sound(to, drive, manifest, made)
  PROVE  ManifestInv'
<1>1. \A i \in Hosts : run'[i] = IF i = h THEN to ELSE run[i]
  BY DEF Goes, ManifestInv, Typed, TypeOK
<1>2. \A i \in Hosts : /\ IndexSound(index'[i], drive', manifest', made')
                      /\ Sound(run'[i], drive', manifest', made')
  BY <1>1 DEF ManifestInv
<1> QED
  BY <1>2 DEF ManifestInv

LEMMA EndsSound ==
  ASSUME ManifestInv, Typed', NEW h \in Hosts, NEW idx, Ends(h, idx),
         UNCHANGED <<drive, made, manifest, last>>,
         IndexSound(idx, drive, manifest, made)
  PROVE  ManifestInv'
<1>1. Sound(Idle, drive, manifest, made)
  BY IdleSound DEF ManifestInv, Typed, TypeOK
<1>2. \A i \in Hosts : /\ run'[i] = IF i = h THEN Idle ELSE run[i]
                      /\ index'[i] = IF i = h THEN idx ELSE index[i]
  BY DEF Ends, Goes, ManifestInv, Typed, TypeOK
<1>3. \A i \in Hosts : /\ IndexSound(index'[i], drive', manifest', made')
                      /\ Sound(run'[i], drive', manifest', made')
  BY <1>1, <1>2 DEF ManifestInv
<1> QED
  BY <1>3 DEF ManifestInv

(* What hosts hold beside a change on Drive. *)
LEMMA OthersSound ==
  ASSUME ManifestInv, Typed', NEW i \in Hosts,
         Later(drive, manifest, made, drive', manifest', made', last)
  PROVE  /\ IndexSound(index[i], drive', manifest', made')
         /\ IndexSound(run[i].mem, drive', manifest', made')
         /\ Sound(run[i], drive', manifest', made')
<1>1. last \in Nat /\ manifest'.revision \in Nat
  BY ManifestAssumption DEF ManifestInv, Typed, TypeOK, Manifests, Revisions
<1>2. run[i] \in Runs /\ run[i].mem \in Indexes /\ index[i] \in Indexes
  BY DEF ManifestInv, Typed, TypeOK, Runs
<1>3. /\ index[i].revision <= last /\ run[i].mem.revision <= last
      /\ run[i].read.revision <= last /\ run[i].sent <= last
  BY DEF ManifestInv, Typed, Fits
<1>4. /\ IndexSound(index[i], drive, manifest, made)
      /\ IndexSound(run[i].mem, drive, manifest, made)
      /\ Sound(run[i], drive, manifest, made)
  BY DEF ManifestInv, Sound, WaySound
<1> QED
  BY <1>1, <1>2, <1>3, <1>4, IndexStays, RunStays

LEMMA SoundHolds == ManifestInv /\ [Next]_vars => ManifestInv'
<1> SUFFICES ASSUME ManifestInv, [Next]_vars PROVE ManifestInv'
  OBVIOUS
<1> USE ManifestAssumption
<1>t. Typed /\ Typed'
  BY TypedHolds DEF ManifestInv
<1>b. /\ last \in Nat /\ manifest \in Manifests
      /\ manifest.revision \in Nat /\ manifest.revision <= last
      /\ drive \in [Files -> Versions] /\ made \in [Files -> Versions]
      /\ drive' \in [Files -> Versions] /\ made' \in [Files -> Versions]
  BY <1>t DEF Typed, TypeOK, Revisions, Manifests
<1>c. \A h \in Hosts : /\ run[h] \in Runs /\ index[h] \in Indexes
                      /\ IndexSound(index[h], drive, manifest, made)
                      /\ Sound(run[h], drive, manifest, made)
                      /\ IndexSound(run[h].mem, drive, manifest, made)
                      /\ WaySound(run[h], drive, manifest, made)
                      /\ SaveSound(run[h], manifest)
  BY <1>t DEF ManifestInv, Typed, TypeOK, Sound, WaySound
<1>d. Made(drive, made) /\ Made(manifest.entries, made)
  BY DEF ManifestInv
<1>e. Sound(Idle, drive, manifest, made)
  BY <1>b, IdleSound
<1>f. \A f \in Files : drive[f] \in Nat /\ made[f] \in Nat /\ drive'[f] \in Nat /\ made'[f] \in Nat
  BY <1>b DEF Versions
<1>1. CASE OutsideTrashesManifest
  <2>1. Later(drive, manifest, made, drive', manifest', made', last)
    BY <1>1, <1>f DEF OutsideTrashesManifest, Later, NoManifest
  <2>2. \A i \in Hosts : /\ IndexSound(index'[i], drive', manifest', made')
                        /\ Sound(run'[i], drive', manifest', made')
    BY <2>1, <1>t, <1>1, OthersSound DEF OutsideTrashesManifest
  <2>3. Made(drive', made') /\ Made(manifest'.entries, made') /\ manifest' = NoManifest
    BY <1>1, <1>d, <1>f DEF OutsideTrashesManifest, Made, NoManifest, NoFiles
  <2> QED
    BY <1>t, <2>2, <2>3 DEF ManifestInv
<1>2. ASSUME NEW h \in Hosts, NEW f \in Files, Pushes(h, f) PROVE ManifestInv'
  <2> DEFINE sets == [NoFiles EXCEPT ![f] = made[f] + 1]
             mem == [index[h] EXCEPT !.known = @ \cup {f}]
             to == [Idle EXCEPT !.op = "update", !.mem = mem, !.sets = sets]
             loading == [to EXCEPT !.phase = "loading"]
  <2>0. /\ Goes(h, loading) /\ UNCHANGED <<manifest, last, index>>
        /\ made' = [made EXCEPT ![f] = @ + 1] /\ drive' = [drive EXCEPT ![f] = made[f] + 1]
    BY <1>2 DEF Pushes, Uploaded, Starts
  <2>1. Later(drive, manifest, made, drive', manifest', made', last)
    BY <2>0, <1>b, <1>f DEF Later
  <2>2. IndexSound(index[h], drive', manifest', made')
    BY <2>1, <1>t, OthersSound
  <2>3. mem.known = index[h].known \cup {f} /\ mem.listed = index[h].listed
        /\ mem.revision = index[h].revision
    BY <1>c DEF Indexes
  <2>4. IndexSound(mem, drive', manifest', made')
    BY <2>2, <2>3 DEF IndexSound, Knows
  <2>5. \A g \in Files : NoFiles[g] = 0 /\ sets[g] = IF g = f THEN made[f] + 1 ELSE 0
    BY DEF NoFiles
  <2>6. /\ loading.mem = mem /\ loading.read.entries = NoFiles /\ loading.sets = sets
        /\ loading.found = NoFiles /\ loading.was_current = FALSE /\ loading.op = "update"
        /\ loading.phase = "loading" /\ loading.read.revision = 0
    BY DEF Idle, NoManifest
  <2> HIDE DEF mem, loading, sets
  <2>7. Sound(loading, drive', manifest', made')
    <3>1. Made(NoFiles, made') /\ Made(sets, made')
      BY <2>0, <2>5, <1>b, <1>f DEF Made
    <3>2. WaySound(loading, drive', manifest', made')
      BY <3>1, <2>3, <2>4, <2>5, <2>6 DEF WaySound
    <3> QED
      BY <3>2, <2>6 DEF Sound, SaveSound, Saving
  <2>8. \A i \in Hosts : run'[i] = IF i = h THEN loading ELSE run[i]
    BY <2>0, <1>t DEF Goes, Typed, TypeOK
  <2>9. \A i \in Hosts : /\ IndexSound(index'[i], drive', manifest', made')
                        /\ Sound(run'[i], drive', manifest', made')
    BY <2>0, <2>1, <2>7, <2>8, <1>t, OthersSound
  <2>10. Made(drive', made') /\ Made(manifest'.entries, made')
    <3>1. manifest'.entries = manifest.entries /\ \A g \in Files : manifest.entries[g] \in Nat
      BY <2>0, <1>b DEF Manifests, Versions
    <3> QED
      BY <3>1, <2>0, <1>b, <1>d, <1>f DEF Made
  <2> QED
    BY <1>t, <2>0, <2>9, <2>10 DEF ManifestInv
<1>3. ASSUME NEW h \in Hosts, NEW f \in Files, Removes(h, f) PROVE ManifestInv'
  <2> DEFINE mem == [index[h] EXCEPT !.known = @ \ {f}]
             to == [Idle EXCEPT !.op = "update", !.mem = mem, !.forgets = {f}]
             loading == [to EXCEPT !.phase = "loading"]
  <2>0. /\ Goes(h, loading) /\ UNCHANGED <<made, manifest, last, index>>
        /\ drive' = [drive EXCEPT ![f] = 0]
    BY <1>3 DEF Removes, Starts
  <2>1. Later(drive, manifest, made, drive', manifest', made', last)
    BY <2>0, <1>b, <1>f DEF Later
  <2>2. IndexSound(index[h], drive', manifest', made')
    BY <2>1, <1>t, OthersSound
  <2>3. mem.known = index[h].known \ {f} /\ mem.listed = index[h].listed
        /\ mem.revision = index[h].revision
    BY <1>c DEF Indexes
  <2>4. IndexSound(mem, drive', manifest', made')
    BY <2>0, <2>2, <2>3, <1>b DEF IndexSound, Knows
  <2>6. /\ loading.mem = mem /\ loading.read.entries = NoFiles /\ loading.sets = NoFiles
        /\ loading.found = NoFiles /\ loading.was_current = FALSE /\ loading.op = "update"
        /\ loading.phase = "loading" /\ loading.read.revision = 0
    BY DEF Idle, NoManifest
  <2> HIDE DEF mem, loading
  <2>7. Sound(loading, drive', manifest', made')
    <3>1. Made(NoFiles, made') /\ \A g \in Files : NoFiles[g] = 0
      BY <1>f DEF Made, NoFiles
    <3>2. WaySound(loading, drive', manifest', made')
      BY <3>1, <2>4, <2>6 DEF WaySound
    <3> QED
      BY <3>2, <2>6 DEF Sound, SaveSound, Saving
  <2>8. \A i \in Hosts : run'[i] = IF i = h THEN loading ELSE run[i]
    BY <2>0, <1>t DEF Goes, Typed, TypeOK
  <2>9. \A i \in Hosts : /\ IndexSound(index'[i], drive', manifest', made')
                        /\ Sound(run'[i], drive', manifest', made')
    BY <2>0, <2>1, <2>7, <2>8, <1>t, OthersSound
  <2>10. Made(drive', made') /\ Made(manifest'.entries, made')
    BY <2>0, <1>b, <1>d, <1>f DEF Made
  <2> QED
    BY <1>t, <2>0, <2>9, <2>10 DEF ManifestInv
<1>4. ASSUME NEW h \in Hosts, NEW op \in {"repair", "refresh", "seed"}, Begins(h, op)
      PROVE  ManifestInv'
  <2> DEFINE to == [Idle EXCEPT !.op = op, !.mem = index[h]]
             loading == [to EXCEPT !.phase = "loading"]
  <2>1. Goes(h, loading) /\ UNCHANGED <<drive, made, manifest, last, index>>
    BY <1>4 DEF Begins, Starts
  <2>2. /\ loading.mem = index[h] /\ loading.read.entries = NoFiles /\ loading.sets = NoFiles
        /\ loading.found = NoFiles /\ loading.was_current = FALSE /\ loading.op # "update"
        /\ loading.phase = "loading" /\ loading.read.revision = 0
    BY DEF Idle, NoManifest
  <2> HIDE DEF loading
  <2>3. Made(NoFiles, made)
    BY <1>f DEF Made, NoFiles
  <2>4. Sound(loading, drive, manifest, made)
    BY <2>2, <2>3, <1>c DEF Sound, WaySound, SaveSound, Saving
  <2> QED
    BY <2>1, <2>4, <1>t, GoesSound
<1>5. ASSUME NEW h \in Hosts, Probes(h) PROVE ManifestInv'
  <2> DEFINE to == [run[h] EXCEPT !.phase = "fetching", !.probed = manifest.revision]
  <2>r. run[h] \in Runs
    BY <1>c
  <2>f. /\ to.op = run[h].op /\ to.mem = run[h].mem /\ to.read = run[h].read
        /\ to.sets = run[h].sets /\ to.forgets = run[h].forgets
        /\ to.was_current = run[h].was_current /\ to.replayed = run[h].replayed
        /\ to.sent = run[h].sent /\ to.todo = run[h].todo /\ to.found = run[h].found
        /\ to.phase = "fetching" /\ to.probed = manifest.revision
    BY <2>r DEF Runs
  <2>g. Goes(h, to) /\ UNCHANGED <<drive, made, manifest, last, index>>
    BY <1>5 DEF Probes
  <2> HIDE DEF to
  <2>e. Applied(to.mem.listed, to) = Applied(run[h].mem.listed, run[h])
    BY <2>f DEF Applied
  <2>1. WaySound(to, drive, manifest, made)
    BY <2>e, <2>f, <1>c, <1>5 DEF WaySound, Probes
  <2>2. SaveSound(to, manifest)
    BY <2>f, <1>c, <1>5 DEF SaveSound, Saving
  <2> QED
    BY <2>1, <2>2, <2>g, <1>t, GoesSound DEF Sound
<1>6. ASSUME NEW h \in Hosts, WalksWithout(h) PROVE ManifestInv'
  <2> DEFINE to == [run[h] EXCEPT !.phase = "walking", !.todo = Files, !.probed = 0]
  <2>r. run[h] \in Runs
    BY <1>c
  <2>f. /\ to.op = run[h].op /\ to.mem = run[h].mem /\ to.read = run[h].read
        /\ to.sets = run[h].sets /\ to.forgets = run[h].forgets
        /\ to.was_current = run[h].was_current /\ to.replayed = run[h].replayed
        /\ to.sent = run[h].sent /\ to.found = run[h].found /\ to.phase = "walking"
        /\ to.probed = 0 /\ to.todo = Files
    BY <2>r DEF Runs
  <2>g. Goes(h, to) /\ UNCHANGED <<drive, made, manifest, last, index>>
    BY <1>6 DEF WalksWithout
  <2> HIDE DEF to
  <2>e. Applied(to.mem.listed, to) = Applied(run[h].mem.listed, run[h])
    BY <2>f DEF Applied
  <2>1. WaySound(to, drive, manifest, made)
    BY <2>e, <2>f, <1>c, <1>6 DEF WaySound, Knows, Agrees, WalksWithout
  <2>2. SaveSound(to, manifest)
    BY <2>f, <1>c, <1>6 DEF SaveSound, Saving
  <2> QED
    BY <2>1, <2>2, <2>g, <1>t, GoesSound DEF Sound
<1>7. ASSUME NEW h \in Hosts, FetchesForUpdate(h) PROVE ManifestInv'
  <2> DEFINE read == [manifest EXCEPT !.entries = Applied(@, run[h])]
             current == /\ run[h].mem.revision = manifest.revision
                        /\ run[h].mem.generation = manifest.generation
             to == [run[h] EXCEPT !.phase = "probing", !.probed = 0, !.read = read,
                                  !.was_current = current]
  <2>r. run[h] \in Runs
    BY <1>c
  <2>f. /\ to.op = run[h].op /\ to.mem = run[h].mem /\ to.sets = run[h].sets
        /\ to.forgets = run[h].forgets /\ to.replayed = run[h].replayed /\ to.sent = run[h].sent
        /\ to.todo = run[h].todo /\ to.found = run[h].found /\ to.phase = "probing"
        /\ to.probed = 0 /\ to.read = read /\ to.was_current = current
    BY <2>r DEF Runs
  <2>g. Goes(h, to) /\ UNCHANGED <<drive, made, manifest, last, index>>
    BY <1>7 DEF FetchesForUpdate
  <2> HIDE DEF to
  <2>a. /\ read.revision = manifest.revision /\ manifest.revision # 0
        /\ \A f \in Files : read.entries[f] = IF run[h].sets[f] # 0 THEN run[h].sets[f]
                                              ELSE IF f \in run[h].forgets THEN 0
                                              ELSE manifest.entries[f]
        /\ read.entries = Applied(manifest.entries, run[h])
    BY <1>7, <1>b DEF FetchesForUpdate, Readable, ManifestInv, Manifests, Applied
  <2>e. Applied(to.mem.listed, to) = Applied(run[h].mem.listed, run[h])
    BY <2>f DEF Applied
  <2>m. Made(read.entries, made)
    BY <2>a, <1>c, <1>d, <1>f DEF Made, WaySound
  <2> HIDE DEF read
  <2>1. WaySound(to, drive, manifest, made)
    BY <2>a, <2>e, <2>f, <2>m, <1>c, <1>7 DEF WaySound, IndexSound, Agrees, FetchesForUpdate
  <2>2. SaveSound(to, manifest)
    BY <2>f, <1>c, <2>a, <1>7 DEF SaveSound, Saving, FetchesForUpdate
  <2> QED
    BY <2>1, <2>2, <2>g, <1>t, GoesSound DEF Sound
<1>8. ASSUME NEW h \in Hosts, FetchesForWalk(h) PROVE ManifestInv'
  <2> DEFINE to == [run[h] EXCEPT !.phase = "walking", !.todo = Files, !.probed = 0,
                                  !.read = manifest]
  <2>r. run[h] \in Runs
    BY <1>c
  <2>f. /\ to.op = run[h].op /\ to.mem = run[h].mem /\ to.sets = run[h].sets
        /\ to.forgets = run[h].forgets /\ to.was_current = run[h].was_current
        /\ to.replayed = run[h].replayed /\ to.sent = run[h].sent /\ to.found = run[h].found
        /\ to.phase = "walking" /\ to.probed = 0 /\ to.todo = Files /\ to.read = manifest
    BY <2>r DEF Runs
  <2>g. Goes(h, to) /\ UNCHANGED <<drive, made, manifest, last, index>>
    BY <1>8 DEF FetchesForWalk
  <2> HIDE DEF to
  <2>e. Applied(to.mem.listed, to) = Applied(run[h].mem.listed, run[h])
    BY <2>f DEF Applied
  <2>1. WaySound(to, drive, manifest, made)
    BY <2>e, <2>f, <1>c, <1>d, <1>8 DEF WaySound, Knows, Agrees, FetchesForWalk
  <2>2. SaveSound(to, manifest)
    BY <2>f, <1>c, <1>d, <1>8 DEF SaveSound, Saving
  <2> QED
    BY <2>1, <2>2, <2>g, <1>t, GoesSound DEF Sound
<1>9. ASSUME NEW h \in Hosts, Seeds(h) PROVE ManifestInv'
  <2> DEFINE idx == Reconciled(Listed(manifest.entries), manifest)
  <2>1. Ends(h, idx) /\ UNCHANGED <<drive, made, manifest, last>>
    BY <1>9 DEF Seeds
  <2>2. IndexSound(idx, drive, manifest, made)
    BY <1>b, <1>d, <1>f DEF IndexSound, Reconciled, Listed, Knows, Agrees
  <2> QED
    BY <2>1, <2>2, <1>t, EndsSound
<1>10. ASSUME NEW h \in Hosts, NEW f \in Files, NEW sized \in BOOLEAN, Lists(h, f, sized)
       PROVE  ManifestInv'
  <2> DEFINE found == [run[h].found EXCEPT ![f] = IF run[h].op = "repair" /\ sized THEN drive[f] ELSE 0]
             mem == [run[h].mem EXCEPT !.known = IF run[h].op = "refresh" /\ drive[f] # 0
                                                 THEN @ \cup {f} ELSE @]
             to == [run[h] EXCEPT !.todo = @ \ {f}, !.found = found, !.mem = mem]
  <2>r. run[h] \in Runs /\ run[h].mem \in Indexes /\ run[h].found \in [Files -> Versions]
    BY <1>c DEF Runs
  <2>m. /\ mem.listed = run[h].mem.listed /\ mem.revision = run[h].mem.revision
        /\ mem.known = IF run[h].op = "refresh" /\ drive[f] # 0
                       THEN run[h].mem.known \cup {f} ELSE run[h].mem.known
    BY <2>r DEF Indexes
  <2>n. \A g \in Files : found[g] = run[h].found[g] \/ found[g] = drive[g] \/ found[g] = 0
    BY <2>r
  <2>f. /\ to.op = run[h].op /\ to.phase = run[h].phase /\ to.probed = run[h].probed
        /\ to.read = run[h].read /\ to.sets = run[h].sets /\ to.forgets = run[h].forgets
        /\ to.was_current = run[h].was_current /\ to.replayed = run[h].replayed
        /\ to.sent = run[h].sent /\ to.todo = run[h].todo \ {f}
        /\ to.found = found /\ to.mem = mem
    BY <2>r DEF Runs
  <2>g. Goes(h, to) /\ UNCHANGED <<drive, made, manifest, last, index>>
    BY <1>10, <2>r DEF Lists, Goes, Runs, Indexes
  <2>p. run[h].phase = "walking"
    BY <1>10 DEF Lists
  <2> HIDE DEF found, mem, to
  <2>1. IndexSound(mem, drive, manifest, made)
    BY <2>m, <1>c DEF IndexSound, Knows
  <2>2. Made(found, made)
    <3>1. Made(run[h].found, made)
      BY <1>c DEF WaySound
    <3> QED
      BY <3>1, <2>n, <1>d, <1>f DEF Made
  <2>3. run[h].op = "refresh" => Knows(mem.known \cup to.todo, run[h].read.entries, drive)
    BY <2>m, <2>f, <2>p, <1>c DEF WaySound, Knows
  <2>4. Applied(mem.listed, to) = Applied(run[h].mem.listed, run[h])
    BY <2>m, <2>f DEF Applied
  <2>5. run[h].op = "update" => \A g \in Files : run[h].sets[g] # 0 => g \in mem.known
    BY <2>m, <1>c DEF WaySound
  <2>6. WaySound(to, drive, manifest, made)
    BY <2>1, <2>2, <2>3, <2>4, <2>5, <2>f, <2>p, <1>c DEF WaySound
  <2>7. SaveSound(to, manifest)
    BY <2>f, <2>p DEF SaveSound, Saving
  <2> QED
    BY <2>6, <2>7, <2>g, <1>t, GoesSound DEF Sound
<1>11. ASSUME NEW h \in Hosts, Refreshes(h) PROVE ManifestInv'
  <2> DEFINE idx == IF run[h].read = NoManifest THEN run[h].mem
                    ELSE Reconciled(run[h].mem.known, run[h].read)
  <2>1. Ends(h, idx) /\ UNCHANGED <<drive, made, manifest, last>>
    BY <1>11 DEF Refreshes
  <2>2. run[h].phase = "walking" /\ run[h].op = "refresh" /\ run[h].todo = {}
    BY <1>11 DEF Refreshes
  <2>3. run[h].mem.known \cup run[h].todo = run[h].mem.known
    BY <2>2
  <2>4. IndexSound(idx, drive, manifest, made)
    BY <2>2, <2>3, <1>c DEF WaySound, IndexSound, Reconciled
  <2> QED
    BY <2>1, <2>4, <1>t, EndsSound
<1>12. ASSUME NEW h \in Hosts, Rebuilds(h) PROVE ManifestInv'
  <2> DEFINE old == run[h].read.entries
             found == run[h].found
             sets == [f \in Files |-> IF found[f] # old[f] THEN found[f] ELSE 0]
             forgets == {f \in Files : old[f] # 0 /\ found[f] = 0}
             to == Rebuilt(h)
  <2>r. run[h] \in Runs /\ run[h].read \in Manifests
    BY <1>c DEF Runs
  <2>f. /\ to.op = run[h].op /\ to.phase = "probing" /\ to.mem = run[h].mem
        /\ to.read.revision = run[h].read.revision /\ to.read.entries = found
        /\ to.sets = sets /\ to.forgets = forgets /\ to.was_current = run[h].was_current
        /\ to.found = NoFiles
    BY <2>r DEF Rebuilt, Runs, Manifests
  <2>g. /\ Goes(h, Idle) \/ Goes(h, to)
        /\ UNCHANGED <<drive, made, manifest, last, index>>
    BY <1>12 DEF Rebuilds
  <2>p. run[h].phase = "walking" /\ run[h].op = "repair"
    BY <1>12 DEF Rebuilds
  <2>1. Made(found, made) /\ Made(sets, made) /\ Made(NoFiles, made)
    <3>1. Made(run[h].found, made)
      BY <1>c DEF WaySound
    <3> QED
      BY <3>1, <1>f DEF Made, NoFiles
  <2>2. \A f \in Files : sets[f] = 0 /\ f \notin forgets => found[f] = old[f]
    OBVIOUS
  <2> HIDE DEF found, sets, forgets, to
  <2>3. WaySound(to, drive, manifest, made)
    BY <2>1, <2>f, <2>p, <1>c DEF WaySound
  <2>4. SaveSound(to, manifest)
    BY <2>2, <2>f, <2>p, <1>c DEF SaveSound, WaySound, Agrees, Saving
  <2> QED
    BY <2>3, <2>4, <2>g, <1>e, <1>t, GoesSound DEF Sound
<1>13. ASSUME NEW h \in Hosts, SaveProbes(h) PROVE ManifestInv'
  <2> DEFINE phase == IF manifest # NoManifest /\ manifest.revision # run[h].read.revision
                      THEN "replaying" ELSE "uploading"
             to == [run[h] EXCEPT !.attempts = @ + 1, !.probed = manifest.revision,
                                  !.phase = phase]
  <2>r. run[h] \in Runs
    BY <1>c
  <2>f. /\ to.op = run[h].op /\ to.mem = run[h].mem /\ to.read = run[h].read
        /\ to.sets = run[h].sets /\ to.forgets = run[h].forgets
        /\ to.was_current = run[h].was_current /\ to.replayed = run[h].replayed
        /\ to.sent = run[h].sent /\ to.todo = run[h].todo /\ to.found = run[h].found
        /\ to.phase = phase /\ to.probed = manifest.revision
    BY <2>r DEF Runs
  <2>g. Goes(h, to) /\ UNCHANGED <<drive, made, manifest, last, index>>
    BY <1>13 DEF SaveProbes, Takes_up
  <2> HIDE DEF to
  <2>e. Applied(to.mem.listed, to) = Applied(run[h].mem.listed, run[h])
    BY <2>f DEF Applied
  <2>p. run[h].phase = "probing" /\ (manifest = NoManifest => run[h].read.revision = 0)
    BY <1>13 DEF SaveProbes
  <2>q. manifest.revision = 0 <=> manifest = NoManifest
    BY DEF ManifestInv, NoManifest
  <2>s. phase = "replaying" \/ phase = "uploading"
    OBVIOUS
  <2>1. WaySound(to, drive, manifest, made)
    BY <2>e, <2>f, <1>c, <2>p, <2>q, <2>s DEF WaySound
  <2>2. SaveSound(to, manifest)
    BY <2>f, <1>c, <2>p, <2>q, <2>s DEF SaveSound, Saving
  <2> QED
    BY <2>1, <2>2, <2>g, <1>t, GoesSound DEF Sound
<1>14. ASSUME NEW h \in Hosts, Replays(h) PROVE ManifestInv'
  <2> DEFINE read == [manifest EXCEPT !.entries = Applied(@, run[h])]
             to == [run[h] EXCEPT !.read = read, !.replayed = TRUE, !.phase = "uploading"]
  <2>r. run[h] \in Runs
    BY <1>c
  <2>f. /\ to.op = run[h].op /\ to.mem = run[h].mem /\ to.probed = run[h].probed
        /\ to.sets = run[h].sets /\ to.forgets = run[h].forgets
        /\ to.was_current = run[h].was_current /\ to.sent = run[h].sent /\ to.todo = run[h].todo
        /\ to.found = run[h].found /\ to.phase = "uploading" /\ to.read = read
        /\ to.replayed = TRUE
    BY <2>r DEF Runs
  <2>g. Goes(h, to) /\ UNCHANGED <<drive, made, manifest, last, index>>
    BY <1>14 DEF Replays
  <2> HIDE DEF to
  <2>a. /\ read.revision = manifest.revision /\ manifest.revision # 0
        /\ \A f \in Files : read.entries[f] = IF run[h].sets[f] # 0 THEN run[h].sets[f]
                                              ELSE IF f \in run[h].forgets THEN 0
                                              ELSE manifest.entries[f]
        /\ read.entries = Applied(manifest.entries, run[h])
    BY <1>14, <1>b DEF Replays, Readable, ManifestInv, Manifests, Applied
  <2>e. Applied(to.mem.listed, to) = Applied(run[h].mem.listed, run[h])
    BY <2>f DEF Applied
  <2>m. Made(read.entries, made)
    BY <2>a, <1>c, <1>d, <1>f DEF Made, WaySound
  <2> HIDE DEF read
  <2>1. WaySound(to, drive, manifest, made)
    BY <2>f, <2>m, <1>c DEF WaySound
  <2>2. SaveSound(to, manifest)
    BY <2>f, <1>c, <2>a, <1>14 DEF SaveSound, Saving, Replays, Readable
  <2> QED
    BY <2>1, <2>2, <2>g, <1>t, GoesSound DEF Sound
<1>15. ASSUME NEW h \in Hosts, Uploads(h) PROVE ManifestInv'
  <2> DEFINE to == [run[h] EXCEPT !.phase = "confirming", !.sent = last + 1, !.probed = 0]
  <2>r. run[h] \in Runs /\ run[h].read \in Manifests /\ run[h].read.revision \in Nat
    BY <1>c DEF Runs, Manifests, Revisions
  <2>0. /\ Goes(h, to) /\ UNCHANGED <<drive, made, index>>
        /\ manifest' = [revision |-> last + 1, generation |-> run[h].read.generation + 1,
                        entries |-> run[h].read.entries]
    BY <1>15 DEF Uploads
  <2>1. manifest'.revision = last + 1 /\ manifest'.entries = run[h].read.entries
    BY <2>0
  <2>2. Later(drive, manifest, made, drive', manifest', made', last)
    BY <2>0, <2>1, <1>b, <1>f DEF Later
  <2>3. /\ to.op = run[h].op /\ to.phase = "confirming" /\ to.mem = run[h].mem
        /\ to.read = run[h].read /\ to.sets = run[h].sets /\ to.forgets = run[h].forgets
        /\ to.was_current = run[h].was_current /\ to.replayed = run[h].replayed
        /\ to.sent = last + 1 /\ to.found = run[h].found
    BY <2>r DEF Runs
  <2> HIDE DEF to
  <2>4. Applied(to.mem.listed, to) = Applied(run[h].mem.listed, run[h])
    BY <2>3 DEF Applied
  <2>5. Sound(run[h], drive', manifest', made')
    BY <2>2, <1>t, OthersSound
  <2>6. run[h].read.revision <= last
    BY <1>t DEF Typed, Fits
  <2>7. WaySound(to, drive', manifest', made')
    BY <2>1, <2>3, <2>4, <2>5 DEF Sound, WaySound, Agrees
  <2>8. SaveSound(to, manifest')
    <3>1. run[h].phase = "uploading"
      BY <1>15 DEF Uploads
    <3> QED
      BY <2>1, <2>3, <2>6, <2>r, <1>b, <1>c, <3>1 DEF SaveSound, Saving
  <2>9. \A i \in Hosts : run'[i] = IF i = h THEN to ELSE run[i]
    BY <2>0, <1>t DEF Goes, Typed, TypeOK
  <2>10. \A i \in Hosts : /\ IndexSound(index'[i], drive', manifest', made')
                         /\ Sound(run'[i], drive', manifest', made')
    BY <2>0, <2>2, <2>7, <2>8, <2>9, <1>t, OthersSound DEF Sound
  <2>11. Made(drive', made') /\ Made(manifest'.entries, made')
    BY <2>0, <2>1, <1>c, <1>d DEF WaySound
  <2>12. manifest'.revision # 0
    BY <2>1, <1>b
  <2> QED
    BY <1>t, <2>10, <2>11, <2>12 DEF ManifestInv
<1>16. ASSUME NEW h \in Hosts, UploadVanishes(h) PROVE ManifestInv'
  <2> DEFINE to == [run[h] EXCEPT !.phase = "confirming", !.sent = 0, !.probed = 0]
  <2>r. run[h] \in Runs
    BY <1>c
  <2>f. /\ to.op = run[h].op /\ to.mem = run[h].mem /\ to.read = run[h].read
        /\ to.sets = run[h].sets /\ to.forgets = run[h].forgets
        /\ to.was_current = run[h].was_current /\ to.replayed = run[h].replayed
        /\ to.todo = run[h].todo /\ to.found = run[h].found /\ to.phase = "confirming"
        /\ to.sent = 0 /\ to.probed = 0
    BY <2>r DEF Runs
  <2>g. Goes(h, to) /\ UNCHANGED <<drive, made, manifest, last, index>>
    BY <1>16 DEF UploadVanishes
  <2> HIDE DEF to
  <2>e. Applied(to.mem.listed, to) = Applied(run[h].mem.listed, run[h])
    BY <2>f DEF Applied
  <2>1. WaySound(to, drive, manifest, made)
    BY <2>e, <2>f, <1>c DEF WaySound, Agrees
  <2>2. SaveSound(to, manifest)
    BY <2>f, <1>c, <1>16 DEF SaveSound, Saving, UploadVanishes
  <2> QED
    BY <2>1, <2>2, <2>g, <1>t, GoesSound DEF Sound
<1>17. ASSUME NEW h \in Hosts, Confirms(h) PROVE ManifestInv'
  <2> DEFINE idx == IF run[h].was_current /\ ~run[h].replayed
                    THEN Reconciled(run[h].mem.known, manifest) ELSE run[h].mem
  <2>1. Ends(h, idx) /\ UNCHANGED <<drive, made, manifest, last>>
    BY <1>17 DEF Confirms
  <2>2. CASE ~(run[h].was_current /\ ~run[h].replayed)
    BY <2>1, <2>2, <1>c, <1>t, EndsSound
  <2>3. CASE run[h].was_current /\ ~run[h].replayed
    <3>1. /\ run[h].phase = "confirming" /\ run[h].sent = manifest.revision
          /\ manifest.revision # 0
      BY <1>17 DEF Confirms, Landed, ManifestInv
    <3>2. manifest.entries = Applied(run[h].mem.listed, run[h])
      BY <2>3, <3>1, <1>c DEF WaySound, Agrees
    <3>3. \A f \in Files : run[h].sets[f] # 0 => f \in run[h].mem.known
      BY <2>3, <1>c DEF WaySound
    <3>4. Knows(run[h].mem.known, manifest.entries, drive)
      <4>1. Knows(run[h].mem.known, run[h].mem.listed, drive)
        BY <1>c DEF IndexSound
      <4>2. \A f \in Files : f \notin run[h].mem.known =>
              manifest.entries[f] = 0 \/ manifest.entries[f] = run[h].mem.listed[f]
        BY <3>2, <3>3 DEF Applied
      <4> QED
        BY <4>1, <4>2 DEF Knows
    <3>5. IndexSound(Reconciled(run[h].mem.known, manifest), drive, manifest, made)
      BY <3>4, <1>d DEF IndexSound, Reconciled, Agrees
    <3> QED
      BY <2>1, <2>3, <3>5, <1>t, EndsSound
  <2> QED
    BY <2>2, <2>3
<1>18. ASSUME NEW h \in Hosts, GoesRoundAgain(h) PROVE ManifestInv'
  <2> DEFINE to == [run[h] EXCEPT !.phase = "probing"]
  <2>r. run[h] \in Runs
    BY <1>c
  <2>f. /\ to.op = run[h].op /\ to.mem = run[h].mem /\ to.probed = run[h].probed
        /\ to.read = run[h].read /\ to.sets = run[h].sets /\ to.forgets = run[h].forgets
        /\ to.was_current = run[h].was_current /\ to.replayed = run[h].replayed
        /\ to.sent = run[h].sent /\ to.todo = run[h].todo /\ to.found = run[h].found
        /\ to.phase = "probing"
    BY <2>r DEF Runs
  <2>g. Goes(h, to) /\ UNCHANGED <<drive, made, manifest, last, index>>
    BY <1>18 DEF GoesRoundAgain
  <2> HIDE DEF to
  <2>e. Applied(to.mem.listed, to) = Applied(run[h].mem.listed, run[h])
    BY <2>f DEF Applied
  <2>1. WaySound(to, drive, manifest, made)
    BY <2>e, <2>f, <1>c DEF WaySound
  <2>2. SaveSound(to, manifest)
    BY <2>f, <1>c, <1>18 DEF SaveSound, Saving, GoesRoundAgain
  <2> QED
    BY <2>1, <2>2, <2>g, <1>t, GoesSound DEF Sound
<1>19. ASSUME NEW h \in Hosts, Stops(h) PROVE ManifestInv'
  <2>1. PICK idx \in {index[h], run[h].mem} : Ends(h, idx)
    BY <1>19 DEF Stops
  <2>2. UNCHANGED <<drive, made, manifest, last>>
    BY <1>19 DEF Stops
  <2> QED
    BY <2>1, <2>2, <1>c, <1>t, EndsSound
<1>20. CASE UNCHANGED vars
  BY <1>20, <1>t DEF vars, ManifestInv
<1> QED
  BY <1>1, <1>2, <1>3, <1>4, <1>5, <1>6, <1>7, <1>8, <1>9, <1>10, <1>11, <1>12, <1>13, <1>14,
     <1>15, <1>16, <1>17, <1>18, <1>19, <1>20 DEF Next, Command, Save

LEMMA SoundAlways == Spec => []ManifestInv
<1> QED
  BY InitSound, SoundHolds, PTL DEF Spec

(* An index reconciled with a revision of the manifest knows every file    *)
(* that revision lists and Drive still holds as listed, for any number of  *)
(* hosts that push, remove, rebuild and overwrite each other's manifests:  *)
(* the bytes and the generation decide what counts as current, and what a  *)
(* host replayed onto does not.                                            *)
THEOREM ReconciledIndexesKnow == Spec => []ReconciledKnowsAll
<1>1. ManifestInv => ReconciledKnowsAll
  BY DEF ManifestInv, IndexSound, Knows, ReconciledKnowsAll, Misses
<1> QED
  BY SoundAlways, <1>1, PTL

(* A writer that replaces the revision it has just listed keeps every entry *)
(* it did not mean to change: only a revision that came between its listing *)
(* and its upload is lost.                                                  *)
THEOREM WritersKeepOthers == Spec => OnlyRacersAreDropped
<1>1. ManifestInv /\ [Next]_vars =>
        [\A h \in Hosts :
           Uploads(h) /\ manifest # NoManifest /\ run[h].probed = manifest.revision =>
             \A f \in Files : run[h].sets[f] = 0 /\ f \notin run[h].forgets
                               => manifest'.entries[f] = manifest.entries[f]]_vars
  <2> SUFFICES ASSUME ManifestInv, NEW h \in Hosts, Uploads(h), manifest # NoManifest,
                      run[h].probed = manifest.revision, NEW f \in Files,
                      run[h].sets[f] = 0, f \notin run[h].forgets
               PROVE  manifest'.entries[f] = manifest.entries[f]
    OBVIOUS
  <2>1. manifest'.entries = run[h].read.entries /\ run[h].phase = "uploading"
    BY DEF Uploads
  <2>2. manifest.revision # 0 /\ SaveSound(run[h], manifest)
    BY DEF ManifestInv, Sound
  <2> QED
    BY <2>1, <2>2 DEF SaveSound, Saving
<1> QED
  BY SoundAlways, <1>1, PTL DEF Spec, OnlyRacersAreDropped

(* push and rm never start a manifest mid-history: where there is none, an *)
(* upload is a rebuild's or follows a listing that still showed one.       *)
THEOREM StartedByRebuilds == Spec => NeverStartedMidHistory
<1>1. ManifestInv /\ [Next]_vars =>
        [\A h \in Hosts : Uploads(h) /\ manifest = NoManifest =>
           run[h].op = "repair" \/ run[h].probed # 0]_vars
  <2> SUFFICES ASSUME ManifestInv, NEW h \in Hosts, Uploads(h)
               PROVE  run[h].op = "repair" \/ run[h].probed # 0
    OBVIOUS
  <2>1. run[h].phase = "uploading" /\ SaveSound(run[h], manifest)
    BY DEF Uploads, ManifestInv, Sound
  <2> QED
    BY <2>1 DEF SaveSound, Saving
<1> QED
  BY SoundAlways, <1>1, PTL DEF Spec, NeverStartedMidHistory
=============================================================================
