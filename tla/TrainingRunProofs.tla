------------------------- MODULE TrainingRunProofs -------------------------
(* What holds of every training run's record, for any number of runs, of  *)
(* app sessions, of failed kills and of wrong probes: the runs whose       *)
(* worker could still write after the app had taken it for dead are the    *)
(* only exception.                                                         *)
EXTENDS TrainingRun, TLAPS

\* A record that some writer has settled, whole or torn.
Settled(r) == status[r] \in Terminal \cup {"torn"}

\* What the worker's progress says of the record: nobody else writes it while
\* the worker may.
WorkerInv(r) ==
  /\ worker[r] = "none" => status[r] # "running"
  /\ worker[r] = "booting" => status[r] = "none"
  /\ worker[r] \in {"training", "logging"} => status[r] = "running"
  /\ worker[r] = "logging" => snap[r] = "running"
  /\ worker[r] = "ok" => Settled(r)
  /\ worker[r] \in Writing => patchers[r] = {}

\* What the driver's progress says of the worker, of the call's result and of
\* the record.
DriverInv(r) ==
  /\ driver[r] \in {"none", "spawning"} => worker[r] = "none" /\ status[r] = "none" /\ patchers[r] = {}
  /\ driver[r] = "calling" => worker[r] # "none"
  /\ driver[r] \in {"reaping", "patching"} => result[r] # "none" /\ (result[r] = "ok" => Settled(r))
  /\ driver[r] \in {"reaping", "patching", "recording", "clearing", "gone"} => worker[r] \notin Writing
  /\ driver[r] = "recording" => result[r] \in {"failed", "cancelled"}
  /\ driver[r] \in {"recording", "clearing", "gone"} => Settled(r)

\* A torn record is being written, or was cut; the scan acts only on a run
\* whose worker has started, and leaves a record settled or reported.
PatchInv(r) ==
  /\ status[r] # "blank"
  /\ status[r] = "torn" => patchers[r] # {} \/ r \in cut
  /\ r \in mixed => r \in cut
  /\ scan[r] \in {"checking", "patching"} \/ r \in orphans => worker[r] \notin {"none", "booting"}
  /\ scan[r] = "patching" => worker[r] \notin Writing /\ Settled(r)
  /\ scan[r] = "done" => r \in orphans \/ Settled(r)

RecordInv == \A r \in Runs \ spared : WorkerInv(r) /\ DriverInv(r) /\ PatchInv(r)

\* A call that succeeded has nothing to record.
ResultInv == \A r \in Runs : driver[r] = "recording" => result[r] # "ok"

---------------------------------------------------------------------------
RecordType ==
  /\ status \in [Runs -> Statuses] /\ patchers \in [Runs -> SUBSET Patchers]
  /\ mixed \subseteq Runs /\ cut \subseteq Runs

\* Opening a record in place, writing it and replacing it keep the types.
LEMMA OpensType ==
  ASSUME RecordType, NEW r \in Runs, NEW by \in Patchers, PatchOpens(r, by) PROVE RecordType'
BY DEF RecordType, PatchOpens, Record, Statuses

LEMMA WritesType ==
  ASSUME RecordType, NEW r \in Runs, NEW by \in Patchers, NEW s \in Statuses, PatchWrites(r, by, s) PROVE RecordType'
<1>1. status' \in [Runs -> Statuses]
  <2>1. CASE by \in patchers[r]
    <3>1. PICK x \in Statuses : status' = [status EXCEPT ![r] = x]
      BY <2>1 DEF PatchWrites, Record, Statuses
    <3> QED BY <3>1 DEF RecordType
  <2>2. CASE by \notin patchers[r]
    BY <2>2 DEF PatchWrites, RecordType
  <2> QED BY <2>1, <2>2
<1>2. patchers' \in [Runs -> SUBSET Patchers] /\ mixed' \subseteq Runs /\ cut' \subseteq Runs
  BY DEF RecordType, PatchWrites
<1> QED BY <1>1, <1>2 DEF RecordType

LEMMA ReplacesType ==
  ASSUME RecordType, NEW r \in Runs, NEW s \in Statuses, Replaces(r, s) PROVE RecordType'
BY DEF RecordType, Replaces, Record

\* So does taking a worker for dead, killed or not.
LEMMA KillType ==
  ASSUME TypeOK, NEW r \in Runs, KillsWorker(r)
  PROVE  worker' \in [Runs -> {"none", "gone"} \cup Alive] /\ spared' \subseteq Runs
<1>1. PICK w \in {"gone", worker[r]} : worker' = [worker EXCEPT ![r] = w]
  BY DEF KillsWorker
<1>2. w \in {"none", "gone"} \cup Alive
  BY DEF TypeOK
<1>3. spared' \subseteq Runs
  BY DEF KillsWorker, TakenForDead, TypeOK
<1> QED BY <1>1, <1>2, <1>3 DEF TypeOK

\* The variables' types are kept by every step.
LEMMA TypeStep == TypeOK /\ ResultInv /\ [Next]_vars => TypeOK'
<1> SUFFICES ASSUME TypeOK, ResultInv, [Next]_vars PROVE TypeOK'
  OBVIOUS
<1>0. TypeOK /\ RecordType /\ ("driver" \in Patchers /\ "scan" \in Patchers /\ "user" \in Patchers)
  BY DEF TypeOK, RecordType, Patchers
<1>10. {"none", "failed", "completed", "running"} \subseteq Statuses
  BY DEF Statuses, Terminal
<1> USE RunAssumption DEF TypeOK, Runs, Statuses, Terminal, Alive, Driving, Patchers
<1>1. ASSUME NEW r \in Runs, Start(r) PROVE TypeOK'
  BY <1>1 DEF Start, Drive, appvars, procvars, patchvars
<1>2. ASSUME NEW r \in Runs, DriverStep(r) PROVE TypeOK'
  <2> USE DEF Drive, Work, Returned, appvars, procvars, patchvars
  <2>1. CASE Spawns(r) BY <2>1 DEF Spawns
  <2>2. CASE SpawnFails(r) BY <2>2 DEF SpawnFails
  <2>3. CASE Answered(r)
    <3>1. CASE worker[r] = "ok" /\ Returned(r, "calling", "reaping", "ok") /\ UNCHANGED <<worker, spared>> BY <3>1
    <3>2. CASE worker[r] = "error" /\ Returned(r, "calling", "reaping", "failed") /\ UNCHANGED <<worker, spared>>
      BY <3>2
    <3> QED BY ONLY <2>3, <3>1, <3>2 DEF Answered
  <2>4. CASE Reaped(r) BY <2>4 DEF Reaped
  <2>5. CASE WorkerDied(r) BY <2>5 DEF WorkerDied
  <2>6. CASE GivesUp(r)
    <3>1. worker' \in [Runs -> {"none", "gone"} \cup Alive] /\ spared' \subseteq Runs
      BY <1>0, <2>6, KillType DEF GivesUp
    <3> QED BY <2>6, <3>1 DEF GivesUp
  <2>7. CASE Cancelled(r)
    <3>1. worker' \in [Runs -> {"none", "gone"} \cup Alive] /\ spared' \subseteq Runs
      BY <1>0, <2>7, KillType DEF Cancelled
    <3> QED BY <2>7, <3>1 DEF Cancelled
  <2>8. CASE Patches(r)
    <3>1. RecordType' BY <1>0, <2>8, OpensType DEF Patches
    <3> QED BY <2>8, <3>1 DEF Patches, RecordType
  <2>9. CASE Patched(r)
    <3>1. result[r] \in Statuses
      BY <2>9 DEF Patched, ResultInv
    <3>2. RecordType' BY <1>0, <2>9, <3>1, WritesType DEF Patched
    <3> QED BY <2>9, <3>2 DEF Patched, RecordType
  <2>10. CASE PatchesNothing(r) BY <2>10 DEF PatchesNothing
  <2>11. CASE Clears(r) BY <2>11 DEF Clears
  <2> QED BY <1>2, <2>1, <2>2, <2>3, <2>4, <2>5, <2>6, <2>7, <2>8, <2>9, <2>10, <2>11 DEF DriverStep
<1>3. ASSUME NEW r \in Runs, WorkerStep(r) PROVE TypeOK'
  <2> USE DEF Work, Forgets, apart, procvars, patchvars
  <2>1. CASE WorkerStarts(r)
    <3>1. RecordType' BY <1>0, <1>10, <2>1, ReplacesType DEF WorkerStarts
    <3> QED BY <2>1, <3>1 DEF WorkerStarts, RecordType
  <2>2. CASE WorkerCompletes(r)
    <3>1. RecordType' BY <1>0, <1>10, <2>2, ReplacesType DEF WorkerCompletes
    <3> QED BY <2>2, <3>1 DEF WorkerCompletes, RecordType
  <2>3. CASE WorkerFails(r)
    <3>0. "failed" \in Statuses BY <1>10
    <3>1. ASSUME Replaces(r, "failed") PROVE RecordType'
      BY ONLY <1>0, <1>3, <3>0, <3>1, ReplacesType
    <3>2. ASSUME UNCHANGED <<status, patchvars>> PROVE RecordType'
      BY ONLY <1>0, <3>2 DEF RecordType, patchvars
    <3>3. RecordType' BY ONLY <2>3, <3>1, <3>2 DEF WorkerFails
    <3>4. worker' = [worker EXCEPT ![r] = "error"] BY <2>3 DEF WorkerFails
    <3> QED BY <2>3, <3>3, <3>4 DEF WorkerFails, RecordType
  <2>4. CASE WorkerRefuses(r) BY <2>4 DEF WorkerRefuses
  <2>5. CASE WorkerDies(r) BY <2>5 DEF WorkerDies
  <2>6. CASE WorkerReads(r) BY <2>6 DEF WorkerReads
  <2>7. CASE WorkerLogs(r)
    <3>1. RecordType' BY <1>0, <2>7, ReplacesType DEF WorkerLogs
    <3> QED BY <2>7, <3>1 DEF WorkerLogs, RecordType
  <2> QED BY <1>3, <2>1, <2>2, <2>3, <2>4, <2>5, <2>6, <2>7 DEF WorkerStep
<1>4. ASSUME NEW r \in Runs, ScanStep(r) PROVE TypeOK'
  <2> USE DEF ScanNext, ScanGoes, Confirms, procvars, patchvars
  <2>1. CASE ScanSkips(r) BY <2>1 DEF ScanSkips
  <2>7. CASE ScanReads(r) BY <2>7 DEF ScanReads
  <2>6. CASE ScanFindsLive(r) BY <2>6 DEF ScanFindsLive
  <2>2. CASE ScanFindsDead(r)
    <3>1. RecordType' BY <1>0, <2>2, OpensType DEF ScanFindsDead
    <3> QED BY <2>2, <3>1 DEF ScanFindsDead, RecordType, TakenForDead
  <2>3. CASE ScanPatched(r)
    <3>1. RecordType' BY <1>0, <1>10, <2>3, WritesType DEF ScanPatched
    <3> QED BY <2>3, <3>1 DEF ScanPatched, RecordType
  <2>4. CASE KillOrphan(r)
    <3>1. RecordType' BY <1>0, <2>4, OpensType DEF KillOrphan
    <3>2. worker' \in [Runs -> {"none", "gone"} \cup Alive] /\ spared' \subseteq Runs
      BY <1>0, <2>4, KillType DEF KillOrphan
    <3> QED BY <2>4, <3>1, <3>2 DEF KillOrphan, RecordType
  <2>5. CASE OrphanPatched(r)
    <3>1. RecordType' BY <1>0, <1>10, <2>5, WritesType DEF OrphanPatched
    <3> QED BY <2>5, <3>1 DEF OrphanPatched, RecordType
  <2> QED BY <1>4, <2>1, <2>2, <2>3, <2>4, <2>5, <2>6, <2>7 DEF ScanStep
<1>5. ASSUME Stop PROVE TypeOK'
  BY <1>5 DEF Stop, appvars, procvars, patchvars
<1>9. ASSUME Exit PROVE TypeOK'
  <2>1. cancel' \in [Runs -> BOOLEAN] BY <1>9, Zenon DEF Exit
  <2> QED BY <1>9, <2>1 DEF Exit, patchvars
<1>6. ASSUME AppEnds PROVE TypeOK'
  BY <1>6 DEF AppEnds, Running
<1>7. ASSUME AppStarts PROVE TypeOK'
  BY <1>7 DEF AppStarts, patchvars
<1>8. ASSUME UNCHANGED vars PROVE TypeOK'
  BY <1>8 DEF vars, patchvars
<1> QED BY <1>1, <1>2, <1>3, <1>4, <1>5, <1>6, <1>7, <1>8, <1>9 DEF Next

LEMMA ResultStep == TypeOK /\ ResultInv /\ [Next]_vars => ResultInv'
<1> SUFFICES ASSUME TypeOK, ResultInv, [Next]_vars, NEW q \in Runs PROVE (driver[q] = "recording" => result[q] # "ok")'
  BY DEF ResultInv
<1>1. TypeOK /\ (driver[q] = "recording" => result[q] # "ok")
  BY DEF ResultInv
<1> USE DEF TypeOK, Driving
<1>2. ASSUME NEW r \in Runs, Start(r) \/ WorkerStep(r) \/ ScanStep(r)
      PROVE  UNCHANGED result /\ (driver'[q] = "recording" => driver[q] = "recording")
  BY <1>2, <1>1 DEF Start, Drive, appvars, procvars, patchvars, WorkerStep, WorkerStarts, WorkerRefuses, WorkerReads,
    WorkerLogs, WorkerCompletes, WorkerFails, WorkerDies, apart, ScanStep, ScanSkips, ScanReads, ScanFindsLive, ScanFindsDead,
    ScanPatched, KillOrphan, OrphanPatched, ScanGoes
<1>3. ASSUME NEW r \in Runs, DriverStep(r) PROVE (driver[q] = "recording" => result[q] # "ok")'
  BY <1>3, <1>1 DEF DriverStep, Drive, Returned, Spawns, SpawnFails, Answered, Reaped, WorkerDied, GivesUp, Cancelled,
    Patches, Patched, PatchesNothing, Clears
<1>4. ASSUME Stop \/ Exit \/ AppEnds \/ AppStarts \/ UNCHANGED vars
      PROVE driver'[q] # "recording" \/ (UNCHANGED result /\ driver[q] = "recording")
  BY <1>4, <1>1 DEF Stop, Exit, AppEnds, AppStarts, vars
<1> QED BY <1>1, <1>2, <1>3, <1>4 DEF Next

LEMMA InitType == Init => TypeOK /\ ResultInv
BY RunAssumption DEF Init, TypeOK, ResultInv, Runs, Statuses, Terminal, Alive, Driving, Patchers

\* Type correctness of the run record's model.
THEOREM RunTypeCorrect == Spec => []TypeOK
<1>1. Spec => [](TypeOK /\ ResultInv)
  BY InitType, TypeStep, ResultStep, PTL DEF Spec
<1> QED BY <1>1, PTL

---------------------------------------------------------------------------
LEMMA InitRecord == Init => RecordInv
BY DEF Init, RecordInv, WorkerInv, DriverInv, PatchInv, Settled, Terminal, Alive

\* A worker that the app took for dead stays among the spared.
LEMMA SparedGrows == ASSUME TypeOK, [Next]_vars PROVE spared \subseteq spared'
<1>0. ASSUME NEW r, TakenForDead(r) \/ KillsWorker(r) PROVE spared \subseteq spared'
  BY <1>0 DEF TakenForDead, KillsWorker
<1>1. ASSUME NEW r \in Runs, Start(r) \/ WorkerStep(r) PROVE spared' = spared
  BY <1>1 DEF Start, appvars, WorkerStep, WorkerStarts, WorkerRefuses, WorkerReads, WorkerLogs, WorkerCompletes,
    WorkerFails, WorkerDies, apart
<1>2. ASSUME NEW r \in Runs, DriverStep(r) PROVE spared \subseteq spared'
  BY <1>0, <1>2 DEF DriverStep, Spawns, SpawnFails, Answered, Reaped, WorkerDied, GivesUp, Cancelled, Patches, Patched,
    PatchesNothing, Clears, appvars
<1>3. ASSUME NEW r \in Runs, ScanStep(r) PROVE spared \subseteq spared'
  BY <1>0, <1>3 DEF ScanStep, ScanSkips, ScanReads, ScanFindsLive, ScanFindsDead, ScanPatched, KillOrphan, OrphanPatched
<1>4. ASSUME Stop \/ Exit \/ AppEnds \/ AppStarts \/ UNCHANGED vars PROVE spared' = spared
  BY <1>4 DEF Stop, Exit, AppEnds, AppStarts, vars, appvars
<1> QED BY <1>1, <1>2, <1>3, <1>4 DEF Next

\* What opening a record in place, writing it, and replacing it do to the record of
\* each run q.
LEMMA OpensForm ==
  ASSUME TypeOK, NEW r \in Runs, NEW by, PatchOpens(r, by), NEW q \in Runs
  PROVE  /\ status'[q] = IF q = r THEN "torn" ELSE status[q]
         /\ patchers'[q] = IF q = r THEN patchers[q] \cup {by} ELSE patchers[q]
         /\ cut \subseteq cut'
         /\ q \in mixed' => q \in mixed \/ q \in cut'
BY DEF PatchOpens, Record, TypeOK

\* The record of q after by wrote s over that of r.
Written(q, r, by, s) ==
  /\ status'[q] # status[q] => q = r /\ by \in patchers[r]
  /\ q = r /\ by \in patchers[r] => status'[q] \in {s, "torn"} /\ (status'[q] = s \/ r \in mixed)
  /\ patchers'[q] = IF q = r THEN patchers[q] \ {by} ELSE patchers[q]
  /\ cut' = cut /\ mixed' \subseteq mixed

LEMMA WritesForm ==
  ASSUME TypeOK, NEW r \in Runs, NEW by, NEW s, PatchWrites(r, by, s), NEW q \in Runs
  PROVE  Written(q, r, by, s)
<1>1. CASE by \in patchers[r]
  <2>1. PICK x \in {s} \cup (IF r \in mixed THEN {"torn"} ELSE {}) : status' = [status EXCEPT ![r] = x]
    BY <1>1 DEF PatchWrites, Record
  <2>2. x \in {s, "torn"} /\ (x = s \/ r \in mixed)
    BY <2>1
  <2>3. patchers' = [patchers EXCEPT ![r] = @ \ {by}] /\ cut' = cut /\ mixed' \subseteq mixed
    BY DEF PatchWrites
  <2> QED BY <1>1, <2>1, <2>2, <2>3 DEF Written, TypeOK
<1>2. CASE by \notin patchers[r]
  BY <1>2 DEF PatchWrites, Written, TypeOK
<1> QED BY <1>1, <1>2

LEMMA ReplacesForm ==
  ASSUME TypeOK, NEW r \in Runs, NEW s, Replaces(r, s), NEW q \in Runs
  PROVE  /\ status'[q] = IF q = r THEN s ELSE status[q]
         /\ patchers'[q] = IF q = r THEN {} ELSE patchers[q]
         /\ cut' = cut /\ mixed' \subseteq mixed
BY DEF Replaces, Record, TypeOK

\* After a kill, or a probe, the worker of a run that is not spared cannot write.
LEMMA KillForm ==
  ASSUME TypeOK, NEW r \in Runs, KillsWorker(r), NEW q \in Runs, q \notin spared'
  PROVE  /\ q # r => worker'[q] = worker[q]
         /\ worker'[q] \in {"gone", worker[q]} /\ (q = r => worker'[q] \notin Writing)
<1>1. PICK w \in {"gone", worker[r]} : worker' = [worker EXCEPT ![r] = w]
  BY DEF KillsWorker
<1>2. worker'[q] = IF q = r THEN w ELSE worker[q]
  BY <1>1 DEF TypeOK
<1>3. worker'[r] \in Writing => r \in spared'
  BY DEF KillsWorker, TakenForDead
<1> QED BY <1>1, <1>2, <1>3

\* The record of q in one step of the program.
LEMMA RecordStep ==
  ASSUME TypeOK, RecordInv, [Next]_vars PROVE RecordInv'
<1> SUFFICES ASSUME NEW q \in Runs, q \notin spared' PROVE (WorkerInv(q) /\ DriverInv(q) /\ PatchInv(q))'
  BY DEF RecordInv, Runs
<1>0. WorkerInv(q) /\ DriverInv(q) /\ PatchInv(q)
  BY SparedGrows DEF RecordInv
<1> USE DEF Settled, Terminal, Alive, Writing
<1>1. ASSUME NEW r \in Runs, Start(r) PROVE (WorkerInv(q) /\ DriverInv(q) /\ PatchInv(q))'
  BY <1>0, <1>1 DEF Start, Drive, appvars, procvars, patchvars, TypeOK, WorkerInv, DriverInv, PatchInv
<1>2. ASSUME NEW r \in Runs, DriverStep(r) PROVE (WorkerInv(q) /\ DriverInv(q) /\ PatchInv(q))'
  <2> USE <1>0 DEF TypeOK, Drive, Work, Returned, appvars, procvars, patchvars
  <2>1. CASE Spawns(r) BY <2>1 DEF Spawns, WorkerInv, DriverInv, PatchInv
  <2>2. CASE SpawnFails(r) BY <2>2 DEF SpawnFails, WorkerInv, DriverInv, PatchInv
  <2>3. CASE Answered(r)
    <3>1. CASE worker[r] = "ok" /\ Returned(r, "calling", "reaping", "ok") /\ UNCHANGED worker
      BY <3>1 DEF WorkerInv, DriverInv, PatchInv
    <3>2. CASE worker[r] = "error" /\ Returned(r, "calling", "reaping", "failed") /\ UNCHANGED worker
      BY <3>2 DEF WorkerInv, DriverInv, PatchInv
    <3> QED BY ONLY <2>3, <3>1, <3>2 DEF Answered
  <2>4. CASE Reaped(r) BY <2>4 DEF Reaped, WorkerInv, DriverInv, PatchInv
  <2>5. CASE WorkerDied(r) BY <2>5 DEF WorkerDied, WorkerInv, DriverInv, PatchInv
  <2>6. CASE GivesUp(r) \/ Cancelled(r)
    <3> USE DEF GivesUp, Cancelled
    <3>1. KillsWorker(r) BY <2>6
    <3>2. /\ q # r => worker'[q] = worker[q]
          /\ worker'[q] \in {"gone", worker[q]} /\ (q = r => worker'[q] \notin Writing)
      BY <3>1, KillForm
    <3>3. WorkerInv(q)' BY <2>6, <3>2 DEF WorkerInv
    <3>4. DriverInv(q)' BY <2>6, <3>2 DEF DriverInv
    <3>5. PatchInv(q)' BY <2>6, <3>2 DEF PatchInv
    <3> QED BY <3>3, <3>4, <3>5
  <2>8. CASE Patches(r)
    <3>0. /\ status'[q] = IF q = r THEN "torn" ELSE status[q]
          /\ patchers'[q] = IF q = r THEN patchers[q] \cup {"driver"} ELSE patchers[q]
          /\ cut \subseteq cut'
          /\ q \in mixed' => q \in mixed \/ q \in cut'
      BY <2>8, OpensForm DEF Patches
    <3>1. WorkerInv(q)' BY <2>8, <3>0 DEF Patches, WorkerInv, DriverInv
    <3>2. DriverInv(q)' BY <2>8, <3>0 DEF Patches, DriverInv
    <3>3. PatchInv(q)' BY <2>8, <3>0 DEF Patches, PatchInv
    <3> QED BY <3>1, <3>2, <3>3
  <2>9. CASE Patched(r)
    <3>0. Written(q, r, "driver", result[r])
      BY <2>9, WritesForm DEF Patched
    <3>4. q = r => result[r] \in {"failed", "cancelled"} BY <2>9 DEF Patched, DriverInv
    <3>1. WorkerInv(q)' BY <2>9, <3>0, <3>4 DEF Written, Patched, WorkerInv, DriverInv
    <3>2. DriverInv(q)' BY <2>9, <3>0, <3>4 DEF Written, Patched, DriverInv
    <3>3. PatchInv(q)' BY <2>9, <3>0, <3>4 DEF Written, Patched, PatchInv
    <3> QED BY <3>1, <3>2, <3>3
  <2>10. CASE PatchesNothing(r) BY <2>10 DEF PatchesNothing, WorkerInv, DriverInv, PatchInv
  <2>11. CASE Clears(r) BY <2>11 DEF Clears, WorkerInv, DriverInv, PatchInv
  <2> QED BY <1>2, <2>1, <2>2, <2>3, <2>4, <2>5, <2>6, <2>8, <2>9, <2>10, <2>11 DEF DriverStep
<1>3. ASSUME NEW r \in Runs, WorkerStep(r) PROVE (WorkerInv(q) /\ DriverInv(q) /\ PatchInv(q))'
  <2> USE <1>0 DEF TypeOK, Work, Forgets, apart, procvars, patchvars, WorkerInv, DriverInv, PatchInv
  <2>1. CASE WorkerStarts(r)
    BY <2>1, ReplacesForm DEF WorkerStarts
  <2>2. CASE WorkerRefuses(r) BY <2>2 DEF WorkerRefuses
  <2>3. CASE WorkerReads(r) BY <2>3 DEF WorkerReads
  <2>4. CASE WorkerLogs(r)
    BY <2>4, ReplacesForm DEF WorkerLogs
  <2>5. CASE WorkerCompletes(r)
    BY <2>5, ReplacesForm DEF WorkerCompletes
  <2>6. CASE WorkerFails(r)
    <3>1. worker[r] \in Writing /\ worker' = [worker EXCEPT ![r] = "error"]
      BY <2>6 DEF WorkerFails
    <3>2. CASE Replaces(r, "failed") BY <2>6, <3>1, <3>2, ReplacesForm DEF WorkerFails
    <3>3. CASE UNCHANGED <<status, patchvars>> BY <2>6, <3>1, <3>3 DEF WorkerFails
    <3> QED BY ONLY <2>6, <3>2, <3>3 DEF WorkerFails
  <2>7. CASE WorkerDies(r) BY <2>7 DEF WorkerDies
  <2> QED BY <1>3, <2>1, <2>2, <2>3, <2>4, <2>5, <2>6, <2>7 DEF WorkerStep
<1>4. ASSUME NEW r \in Runs, ScanStep(r) PROVE (WorkerInv(q) /\ DriverInv(q) /\ PatchInv(q))'
  <2> USE <1>0 DEF TypeOK, ScanNext, ScanGoes, procvars, patchvars
  <2>1. CASE ScanSkips(r) \/ ScanReads(r) \/ ScanFindsLive(r)
    BY <2>1 DEF ScanSkips, ScanReads, ScanFindsLive, WorkerInv, DriverInv, PatchInv, Statuses
  <2>2. CASE ScanFindsDead(r)
    <3>0. /\ status'[q] = IF q = r THEN "torn" ELSE status[q]
          /\ patchers'[q] = IF q = r THEN patchers[q] \cup {"scan"} ELSE patchers[q]
          /\ cut \subseteq cut'
          /\ q \in mixed' => q \in mixed \/ q \in cut'
      BY <2>2, OpensForm DEF ScanFindsDead
    <3>4. q = r => worker[q] \notin {"none", "booting", "training", "logging"}
      BY <2>2 DEF ScanFindsDead, TakenForDead, PatchInv
    <3>1. WorkerInv(q)' BY <2>2, <3>0, <3>4 DEF ScanFindsDead, WorkerInv
    <3>2. DriverInv(q)' BY <2>2, <3>0, <3>4 DEF ScanFindsDead, DriverInv
    <3>3. PatchInv(q)' BY <2>2, <3>0, <3>4 DEF ScanFindsDead, PatchInv
    <3> QED BY <3>1, <3>2, <3>3
  <2>3. CASE ScanPatched(r)
    <3>0. Written(q, r, "scan", "failed")
      BY <2>3, WritesForm DEF ScanPatched
    <3>4. q = r => worker[q] \notin {"none", "booting", "training", "logging"} /\ Settled(q)
      BY <2>3 DEF ScanPatched, PatchInv
    <3>1. WorkerInv(q)' BY <2>3, <3>0, <3>4 DEF Written, ScanPatched, WorkerInv
    <3>2. DriverInv(q)' BY <2>3, <3>0, <3>4 DEF Written, ScanPatched, DriverInv
    <3>3. PatchInv(q)' BY <2>3, <3>0, <3>4 DEF Written, ScanPatched, PatchInv
    <3> QED BY <3>1, <3>2, <3>3
  <2>4. CASE KillOrphan(r)
    <3>0. /\ status'[q] = IF q = r THEN "torn" ELSE status[q]
          /\ patchers'[q] = IF q = r THEN patchers[q] \cup {"user"} ELSE patchers[q]
          /\ cut \subseteq cut'
          /\ q \in mixed' => q \in mixed \/ q \in cut'
      BY <2>4, OpensForm DEF KillOrphan
    <3>4. /\ q # r => worker'[q] = worker[q]
          /\ worker'[q] \in {"gone", worker[q]} /\ (q = r => worker'[q] \notin Writing)
      BY <2>4, KillForm DEF KillOrphan
    <3>5. q = r => worker[q] \notin {"none", "booting"}
      BY <2>4 DEF KillOrphan, Confirms, PatchInv
    <3>1. WorkerInv(q)' BY <2>4, <3>0, <3>4, <3>5 DEF KillOrphan, WorkerInv
    <3>2. DriverInv(q)' BY <2>4, <3>0, <3>4, <3>5 DEF KillOrphan, DriverInv
    <3>3. PatchInv(q)' BY <2>4, <3>0, <3>4, <3>5 DEF KillOrphan, PatchInv
    <3> QED BY <3>1, <3>2, <3>3
  <2>5. CASE OrphanPatched(r)
    <3>0. Written(q, r, "user", "failed")
      BY <2>5, WritesForm DEF OrphanPatched
    <3>4. q = r => patchers[q] # {}
      BY <2>5 DEF OrphanPatched
    <3>1. WorkerInv(q)' BY <2>5, <3>0, <3>4 DEF Written, OrphanPatched, WorkerInv
    <3>2. DriverInv(q)' BY <2>5, <3>0, <3>4 DEF Written, OrphanPatched, DriverInv
    <3>3. PatchInv(q)' BY <2>5, <3>0, <3>4 DEF Written, OrphanPatched, PatchInv
    <3> QED BY <3>1, <3>2, <3>3
  <2> QED BY <1>4, <2>1, <2>2, <2>3, <2>4, <2>5 DEF ScanStep
<1>5. ASSUME Stop \/ Exit \/ UNCHANGED vars PROVE (WorkerInv(q) /\ DriverInv(q) /\ PatchInv(q))'
  BY <1>0, <1>5 DEF Stop, Exit, appvars, procvars, patchvars, vars, WorkerInv, DriverInv, PatchInv
<1>6. ASSUME AppEnds PROVE (WorkerInv(q) /\ DriverInv(q) /\ PatchInv(q))'
  BY <1>0, <1>6 DEF AppEnds, Driving, TypeOK, WorkerInv, DriverInv, PatchInv
<1>7. ASSUME AppStarts PROVE (WorkerInv(q) /\ DriverInv(q) /\ PatchInv(q))'
  BY <1>0, <1>7 DEF AppStarts, patchvars, WorkerInv, DriverInv, PatchInv
<1> QED BY <1>1, <1>2, <1>3, <1>4, <1>5, <1>6, <1>7 DEF Next

\* All of it, as an invariant of the specification.
THEOREM RecordInvariant == Spec => [](TypeOK /\ RecordInv)
<1>1. TypeOK /\ ResultInv /\ RecordInv /\ [Next]_vars => (TypeOK /\ ResultInv /\ RecordInv)'
  BY TypeStep, ResultStep, RecordStep
<1>2. Init => TypeOK /\ ResultInv /\ RecordInv
  BY InitType, InitRecord
<1>3. Spec => [](TypeOK /\ ResultInv /\ RecordInv)
  BY <1>1, <1>2, PTL DEF Spec
<1> QED BY <1>3, PTL

\* For any number of runs and sessions: once the driver has finished, the record
\* is terminal, but for one two writers of the app, or its end, left torn.
THEOREM DriverLeavesTerminal == Spec => []DriverSettles
<1>1. TypeOK /\ RecordInv => DriverSettles
  BY DEF DriverSettles, RecordInv, DriverInv, PatchInv, Settled
<1> QED BY RecordInvariant, <1>1, PTL

\* No live worker hides behind a record that neither the run list nor a scan
\* shows.
THEOREM UnlistedIsDead == Spec => []UnlistedRunIsDead
<1>1. TypeOK /\ RecordInv => UnlistedRunIsDead
  BY DEF UnlistedRunIsDead, Listed, RecordInv, WorkerInv, TypeOK, Alive
<1> QED BY RecordInvariant, <1>1, PTL

\* The scan leaves no dead run marked running without having reported it.
THEOREM ScanMissesNone == Spec => []ScanFindsCorpses
<1>1. TypeOK /\ RecordInv => ScanFindsCorpses
  BY DEF ScanFindsCorpses, RecordInv, PatchInv, Settled, Terminal
<1> QED BY RecordInvariant, <1>1, PTL

\* No terminal or torn record becomes a running one, but of a run whose worker
\* the app took for dead or failed to kill.
THEOREM TerminalStays == Spec => NoResurrection
<1>1. ASSUME TypeOK, RecordInv, [Next]_vars, NEW q \in Runs, status[q] \in Terminal \cup {"torn"}, q \notin spared
      PROVE status'[q] # "running"
  <2>0. WorkerInv(q) /\ status[q] # "running" /\ worker[q] \notin Writing
    BY <1>1 DEF RecordInv, WorkerInv, Terminal, Writing
  <2>1. ASSUME NEW r \in Runs, WorkerStep(r) PROVE status'[q] # "running"
    <3>1. status' = status \/ (worker[r] \in Writing /\ \E s : Replaces(r, s))
      BY <2>1, Zenon DEF WorkerStep, WorkerStarts, WorkerRefuses, WorkerReads, WorkerLogs, WorkerCompletes, WorkerFails,
        WorkerDies, Work, Writing
    <3>2. worker[r] \in Writing => r # q BY <2>0
    <3> QED BY <1>1, <2>0, <3>1, <3>2, ReplacesForm
  <2>2. ASSUME NEW r \in Runs, DriverStep(r) PROVE status'[q] # "running"
    <3>1. result[r] # "running" BY <1>1 DEF TypeOK
    <3>2. CASE Patches(r) BY <1>1, <2>0, <3>2, OpensForm DEF Patches
    <3>3. CASE Patched(r) BY <1>1, <2>0, <3>1, <3>3, WritesForm DEF Patched, Written
    <3>4. CASE ~Patches(r) /\ ~Patched(r)
      BY <2>0, <2>2, <3>4 DEF DriverStep, Returned, Spawns, SpawnFails, Answered, Reaped, WorkerDied, GivesUp, Cancelled,
        PatchesNothing, Clears
    <3> QED BY <3>2, <3>3, <3>4
  <2>3. ASSUME NEW r \in Runs, ScanStep(r) PROVE status'[q] # "running"
    <3>1. status' = status \/ (\E by : PatchOpens(r, by)) \/ \E by : PatchWrites(r, by, "failed")
      BY <2>3 DEF ScanStep, ScanSkips, ScanReads, ScanFindsLive, ScanFindsDead, ScanPatched, KillOrphan, OrphanPatched
    <3>2. ASSUME NEW by, PatchOpens(r, by) PROVE status'[q] # "running"
      BY <1>1, <2>0, <3>2, OpensForm
    <3>3. ASSUME NEW by, PatchWrites(r, by, "failed") PROVE status'[q] # "running"
      <4>1. Written(q, r, by, "failed") BY ONLY <1>1, <3>3, <2>3, WritesForm
      <4> QED BY <2>0, <4>1 DEF Written
    <3> QED BY <2>0, <3>1, <3>2, <3>3
  <2>4. ASSUME (\E r \in Runs : Start(r)) \/ Stop \/ Exit \/ AppEnds \/ AppStarts \/ UNCHANGED vars
        PROVE  status'[q] # "running"
    BY <2>0, <2>4 DEF Start, Stop, Exit, AppEnds, AppStarts, vars
  <2> QED BY <1>1, <2>1, <2>2, <2>3, <2>4 DEF Next
<1>2. TypeOK /\ RecordInv /\ [Next]_vars =>
        [\A r \in Runs : status[r] \in Terminal \cup {"torn"} /\ r \notin spared => status'[r] # "running"]_vars
  BY <1>1
<1> QED BY RecordInvariant, <1>2, PTL DEF Spec, NoResurrection
=============================================================================
