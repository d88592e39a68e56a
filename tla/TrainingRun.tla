---------------------------- MODULE TrainingRun ----------------------------
(***************************************************************************)
(* The record of a training run, runs/<id>/status.json, and who writes it: *)
(* the Python worker inside WSL (training/rpc.py, runner.py), the driver   *)
(* task of TrainingManager::start, and the orphan scan and orphan kill of  *)
(* the next app session (training/mod.rs, lib.rs).  The app can exit or    *)
(* crash at any step and be started again; a worker outlives a crash.      *)
(*                                                                         *)
(* Every look at the worker, and every kill, goes through wsl.exe and can  *)
(* fail: the probe then says that the worker is dead, and the kill leaves  *)
(* it alive.  The code goes on in either case.                             *)
(*                                                                         *)
(* Only the "status" field is kept of the record.  How a run gets its turn *)
(* on the GPU is GpuLifecycle; here a run starts when none is active.      *)
(***************************************************************************)
EXTENDS Naturals, FiniteSets

CONSTANTS
  MaxRuns,      \* bound: runs ever started
  MaxSessions,  \* bound: times the app is started
  MaxSpared     \* bound: workers that outlive a kill, or a probe that says dead

ASSUME RunAssumption ==
  MaxRuns \in Nat /\ MaxSessions \in Nat \ {0} /\ MaxSpared \in Nat

VARIABLES
  app,        \* "up", "exiting" (RunEvent::Exit) or "down"
  session,    \* times the app was started
  runs,       \* runs started so far
  active,     \* TrainingManager.state: the active run, 0 for None
  cancel,     \* the run's cancel channel holds true
  driver,     \* the driver task of each run
  result,     \* what call_worker_streaming returned to it
  worker,     \* the worker process of each run
  snap,       \* the status the worker read in the write_status it is in
  status,     \* the "status" field on disk: "none" while there is no file, "torn"
              \* while the file does not parse, "blank" if it parses without one
  scan,       \* where the session's orphan scan is with each run: "absent" if it
              \* found no record
  orphans,    \* runs the session's scan reported to the UI
  exited,     \* history: the run whose cancellation the exit asked for, or 0
  spared,     \* history: runs whose worker could still write the record after the
              \* app had taken it for dead, or had failed to kill it
  patchers,   \* who of the app has each record open for writing
  mixed,      \* runs two of whom were at once, until the last is done
  cut         \* history: runs whose record was so written, or was being written
              \* when the app ended

patchvars == <<patchers, mixed, cut>>
vars == <<app, session, runs, active, cancel, driver, result, worker, snap, status,
          scan, orphans, exited, spared, patchvars>>

Runs == 1..MaxRuns
Terminal == {"completed", "failed", "cancelled"}
Statuses == {"none", "torn", "blank", "running"} \cup Terminal

\* A worker process that exists: starting, in the handler, in the write of
\* write_status, or done with the request ("ok", "error").
Alive == {"booting", "training", "logging", "ok", "error"}
Writing == {"booting", "training", "logging"}
Driving == {"spawning", "calling", "reaping", "patching", "recording", "clearing"}
Patchers == {"driver", "scan", "user"}

TypeOK ==
  /\ app \in {"up", "exiting", "down"} /\ session \in 1..MaxSessions
  /\ runs \in 0..MaxRuns
  /\ active \in {0} \cup {r \in 1..runs : driver[r] \in Driving}
  /\ cancel \in [Runs -> BOOLEAN]
  /\ driver \in [Runs -> {"none", "gone", "lost"} \cup Driving]
  /\ result \in [Runs -> {"none", "ok", "failed", "cancelled"}]
  /\ worker \in [Runs -> {"none", "gone"} \cup Alive]
  /\ snap \in [Runs -> Statuses] /\ status \in [Runs -> Statuses]
  /\ scan \in [Runs -> {"todo", "checking", "patching", "done", "absent"}]
  /\ orphans \subseteq Runs /\ exited \in 0..MaxRuns /\ spared \subseteq Runs
  /\ patchers \in [Runs -> SUBSET Patchers] /\ mixed \subseteq Runs /\ cut \subseteq Runs

Init ==
  /\ app = "up" /\ session = 1 /\ runs = 0 /\ active = 0
  /\ cancel = [r \in Runs |-> FALSE]
  /\ driver = [r \in Runs |-> "none"]
  /\ result = [r \in Runs |-> "none"]
  /\ worker = [r \in Runs |-> "none"]
  /\ snap = [r \in Runs |-> "none"]
  /\ status = [r \in Runs |-> "none"]
  /\ scan = [r \in Runs |-> "todo"]
  /\ orphans = {} /\ exited = 0 /\ spared = {}
  /\ patchers = [r \in Runs |-> {}] /\ mixed = {} /\ cut = {}

Running == app \in {"up", "exiting"}

Drive(r, from, to) ==
  /\ Running
  /\ driver[r] = from
  /\ driver' = [driver EXCEPT ![r] = to]

Work(r, from, to) ==
  /\ worker[r] = from
  /\ worker' = [worker EXCEPT ![r] = to]

Record(r, s) == status' = [status EXCEPT ![r] = s]

\* patch_status_file writes in place.  The record is truncated,
PatchOpens(r, by) ==
  /\ Record(r, "torn")
  /\ patchers' = [patchers EXCEPT ![r] = @ \cup {by}]
  /\ IF patchers[r] = {} THEN UNCHANGED <<mixed, cut>>
     ELSE mixed' = mixed \cup {r} /\ cut' = cut \cup {r}

\* and written; over what another wrote at the same time, it may not parse.  Who
\* lost the file to a worker's replace writes to one that no name leads to.
PatchWrites(r, by, s) ==
  /\ IF by \in patchers[r]
     THEN \E x \in {s} \cup (IF r \in mixed THEN {"torn"} ELSE {}) : Record(r, x)
     ELSE UNCHANGED status
  /\ patchers' = [patchers EXCEPT ![r] = @ \ {by}]
  /\ mixed' = IF patchers[r] = {by} THEN mixed \ {r} ELSE mixed
  /\ UNCHANGED cut

\* write_status writes a file of its own and renames it over the record.
Replaces(r, s) ==
  /\ Record(r, s)
  /\ patchers' = [patchers EXCEPT ![r] = {}] /\ mixed' = mixed \ {r}
  /\ UNCHANGED cut

procvars == <<app, session, scan, orphans, exited>>
appvars == <<procvars, patchvars, spared>>

---------------------------------------------------------------------------
(* TrainingManager::start and stop                                         *)

Start(r) ==
  /\ app = "up" /\ active = 0 /\ r = runs + 1
  /\ Drive(r, "none", "spawning")
  /\ runs' = r
  /\ active' = r
  /\ UNCHANGED <<cancel, result, worker, snap, status, appvars>>

Stop ==
  /\ app = "up" /\ active # 0
  /\ cancel' = [cancel EXCEPT ![active] = TRUE]
  /\ UNCHANGED <<runs, active, driver, result, worker, snap, status, appvars>>

---------------------------------------------------------------------------
(* The driver: call_worker_streaming                                       *)

Spawns(r) ==
  /\ Drive(r, "spawning", "calling")
  /\ Work(r, "none", "booting")
  /\ UNCHANGED <<runs, active, cancel, result, snap, status, appvars>>

Returned(r, from, to, how) ==
  /\ Drive(r, from, to)
  /\ result' = [result EXCEPT ![r] = how]
  /\ UNCHANGED <<runs, active, cancel, snap, status, procvars, patchvars>>

SpawnFails(r) ==
  /\ Returned(r, "spawning", "patching", "failed")
  /\ UNCHANGED <<worker, spared>>

\* The response frame: stdin is dropped, and the child waited for.  From here
\* on neither the idle timer nor the cancel channel is looked at.
Answered(r) ==
  /\ \/ worker[r] = "ok" /\ Returned(r, "calling", "reaping", "ok")
     \/ worker[r] = "error" /\ Returned(r, "calling", "reaping", "failed")
  /\ UNCHANGED <<worker, spared>>

\* The child is wsl.exe; the worker has nothing left to write.
Reaped(r) ==
  /\ Drive(r, "reaping", "patching")
  /\ UNCHANGED <<runs, active, cancel, result, worker, snap, status, appvars>>

\* EOF without a response.
WorkerDied(r) ==
  /\ worker[r] = "gone"
  /\ Returned(r, "calling", "patching", "failed")
  /\ UNCHANGED <<worker, spared>>

\* The app goes on as if the worker were dead.
TakenForDead(r) ==
  /\ spared' = IF worker'[r] \in Writing THEN spared \cup {r} ELSE spared
  /\ Cardinality(spared') <= MaxSpared

\* A mutated form: nothing is killed.
KillsNothing(r) == UNCHANGED <<worker, spared>>

\* A kill through wsl.exe, which may not reach the worker inside WSL.
KillsWorker(r) ==
  /\ \E w \in {"gone", worker[r]} : worker' = [worker EXCEPT ![r] = w]
  /\ TakenForDead(r)

\* Silence past the idle timeout, a line that is not JSON, an I/O error; or wsl.exe
\* ended and its worker did not.
GivesUp(r) ==
  /\ Returned(r, "calling", "patching", "failed")
  /\ KillsWorker(r)

Cancelled(r) ==
  /\ cancel[r]
  /\ Returned(r, "calling", "patching", "cancelled")
  /\ KillsWorker(r)

---------------------------------------------------------------------------
(* The driver: the end of the run                                          *)

\* patch_status_file, unless the call succeeded; then agent.log and
\* last_run_id.
Patches(r) ==
  /\ result[r] # "ok"
  /\ Drive(r, "patching", "recording")
  /\ PatchOpens(r, "driver")
  /\ UNCHANGED <<runs, active, cancel, result, worker, snap, procvars, spared>>

Patched(r) ==
  /\ Drive(r, "recording", "clearing")
  /\ PatchWrites(r, "driver", result[r])
  /\ UNCHANGED <<runs, active, cancel, result, worker, snap, procvars, spared>>

\* A mutated form: only a cancelled run is patched, a failure being left to
\* the worker to record.
PatchesOnlyCancelled(r) ==
  /\ result[r] # "cancelled"
  /\ Drive(r, "patching", "clearing")
  /\ UNCHANGED <<runs, active, cancel, result, worker, snap, status, appvars>>

PatchesNothing(r) ==
  /\ result[r] = "ok"
  /\ Drive(r, "patching", "clearing")
  /\ UNCHANGED <<runs, active, cancel, result, worker, snap, status, appvars>>

\* A mutated form: the driver ends and leaves its run the active one.
ClearsNothing(r) ==
  /\ Drive(r, "clearing", "gone")
  /\ UNCHANGED <<runs, active, cancel, result, worker, snap, status, appvars>>

Clears(r) ==
  /\ Drive(r, "clearing", "gone")
  /\ active' = 0
  /\ cancel' = [cancel EXCEPT ![r] = FALSE]
  /\ result' = [result EXCEPT ![r] = "none"]
  /\ UNCHANGED <<runs, worker, snap, status, appvars>>

---------------------------------------------------------------------------
(* The worker: training.run                                                *)

apart == <<runs, active, cancel, driver, result, procvars, spared>>

\* worker.pid first, then status "running".
WorkerStarts(r) ==
  /\ Work(r, "booting", "training")
  /\ Replaces(r, "running")
  /\ UNCHANGED <<snap, apart>>

\* INVALID_PARAMS: nothing is recorded.
WorkerRefuses(r) ==
  /\ Work(r, "booting", "error")
  /\ UNCHANGED <<snap, status, patchvars, apart>>

\* on_log: write_status reads the record, an empty one if it does not parse, and
\* replaces it with the merge.
WorkerReads(r) ==
  /\ Work(r, "training", "logging")
  /\ snap' = [snap EXCEPT ![r] = IF status[r] = "torn" THEN "blank" ELSE status[r]]
  /\ UNCHANGED <<status, patchvars, apart>>

\* What was read is a local of write_status.
Forgets(r) == snap' = [snap EXCEPT ![r] = "none"]

WorkerLogs(r) ==
  /\ Work(r, "logging", "training")
  /\ Replaces(r, snap[r])
  /\ Forgets(r)
  /\ UNCHANGED apart

WorkerCompletes(r) ==
  /\ Work(r, "training", "ok")
  /\ Replaces(r, "completed")
  /\ UNCHANGED <<snap, apart>>

\* Any exception of the handler, of a write and of the broken notification pipe
\* included; the write that is to record it may fail as well, and is let fail.
WorkerFails(r) ==
  /\ \E from \in Writing : Work(r, from, "error")
  /\ Replaces(r, "failed") \/ UNCHANGED <<status, patchvars>>
  /\ Forgets(r)
  /\ UNCHANGED apart

\* Out of memory, a shutdown of WSL; or, the request done, EOF on stdin.
WorkerDies(r) ==
  /\ worker[r] \in Alive
  /\ worker' = [worker EXCEPT ![r] = "gone"]
  /\ Forgets(r)
  /\ UNCHANGED <<status, patchvars, apart>>

---------------------------------------------------------------------------
(* The app: exit, crash, start                                             *)

\* RunEvent::Exit: training.stop() is awaited, then the shutdown of the pool
\* and of the inference server; the driver runs on until the process ends.
Exit ==
  /\ app = "up"
  /\ app' = "exiting"
  /\ exited' = active
  /\ cancel' = [r \in Runs |-> cancel[r] \/ r = active]
  /\ UNCHANGED <<session, runs, active, driver, result, worker, snap, status, scan, orphans, spared, patchvars>>

\* The process ends, after Exit or in a crash: no destructor runs.
AppEnds ==
  /\ Running
  /\ app' = "down"
  /\ active' = 0
  /\ driver' = [r \in Runs |-> IF driver[r] \in Driving THEN "lost" ELSE driver[r]]
  /\ cancel' = [r \in Runs |-> FALSE] /\ result' = [r \in Runs |-> "none"]
  /\ patchers' = [r \in Runs |-> {}] /\ mixed' = {}
  /\ cut' = cut \cup {r \in Runs : patchers[r] # {}}
  /\ UNCHANGED <<session, runs, worker, snap, status, scan, orphans, exited, spared>>

AppStarts ==
  /\ app = "down" /\ session < MaxSessions
  /\ app' = "up"
  /\ session' = session + 1
  /\ scan' = [r \in Runs |-> "todo"]
  /\ orphans' = {} /\ exited' = 0
  /\ UNCHANGED <<runs, active, cancel, driver, result, worker, snap, status, spared, patchvars>>

---------------------------------------------------------------------------
(* scan_orphans, a task of its own beside everything else; kill_orphan     *)

\* The scan takes one run at a time, in no particular order.
ScanNext(r) == Running /\ scan[r] = "todo" /\ \A q \in Runs : scan[q] \notin {"checking", "patching"}

ScanGoes(r, to) ==
  /\ scan' = [scan EXCEPT ![r] = to]
  /\ UNCHANGED <<app, session, runs, active, cancel, driver, result, snap, exited>>

\* A record that does not parse is passed over like one that is not there.
ScanSkips(r) ==
  /\ ScanNext(r) /\ status[r] # "running"
  /\ ScanGoes(r, IF status[r] \in {"none", "torn"} THEN "absent" ELSE "done")
  /\ UNCHANGED <<worker, status, orphans, spared, patchvars>>

ScanReads(r) ==
  /\ ScanNext(r) /\ status[r] = "running"
  /\ ScanGoes(r, "checking")
  /\ UNCHANGED <<worker, status, orphans, spared, patchvars>>

\* wsl_pid_alive was awaited.  A process under the pid of worker.pid, be it the
\* worker or a later one, is reported,
ScanFindsLive(r) ==
  /\ Running /\ scan[r] = "checking"
  /\ ScanGoes(r, "done")
  /\ orphans' = orphans \cup {r}
  /\ UNCHANGED <<worker, status, spared, patchvars>>

\* A mutated form: a dead worker's run is passed over.
ScanForgetsDead(r) ==
  /\ Running /\ scan[r] = "checking"
  /\ ScanGoes(r, "done")
  /\ UNCHANGED <<worker, status, orphans, spared, patchvars>>

\* and without one, or without an answer of wsl.exe or a pid to ask for, the run is
\* patched, whatever its record says by now.
ScanFindsDead(r) ==
  /\ Running /\ scan[r] = "checking"
  /\ ScanGoes(r, "patching")
  /\ PatchOpens(r, "scan")
  /\ UNCHANGED <<worker, orphans>>
  /\ TakenForDead(r)

ScanPatched(r) ==
  /\ Running /\ scan[r] = "patching"
  /\ ScanGoes(r, "done")
  /\ PatchWrites(r, "scan", "failed")
  /\ UNCHANGED <<worker, orphans, spared>>

\* The user confirms, once the scan has returned.
Confirms(r) ==
  /\ app = "up" /\ r \in orphans /\ "user" \notin patchers[r]
  /\ \A q \in Runs : scan[q] \in {"done", "absent"}

\* A mutated form: the record is patched and the process left to the user.
PatchOrphan(r) ==
  /\ Confirms(r)
  /\ PatchOpens(r, "user")
  /\ UNCHANGED <<runs, active, cancel, driver, result, worker, snap, procvars, spared>>

\* wsl_kill of the pid, and the patch whatever it returned.
KillOrphan(r) ==
  /\ Confirms(r)
  /\ KillsWorker(r)
  /\ PatchOpens(r, "user")
  /\ UNCHANGED <<runs, active, cancel, driver, result, snap, procvars>>

OrphanPatched(r) ==
  /\ Running /\ "user" \in patchers[r]
  /\ PatchWrites(r, "user", "failed")
  /\ UNCHANGED <<runs, active, cancel, driver, result, worker, snap, procvars, spared>>

\* training_runs, list_runs
Listed == {r \in Runs : status[r] \notin {"none", "torn"}}

---------------------------------------------------------------------------
DriverStep(r) ==
  \/ Spawns(r) \/ SpawnFails(r) \/ Answered(r) \/ Reaped(r) \/ WorkerDied(r)
  \/ GivesUp(r) \/ Cancelled(r) \/ Patches(r) \/ Patched(r) \/ PatchesNothing(r) \/ Clears(r)

WorkerStep(r) ==
  \/ WorkerStarts(r) \/ WorkerRefuses(r) \/ WorkerReads(r) \/ WorkerLogs(r)
  \/ WorkerCompletes(r) \/ WorkerFails(r) \/ WorkerDies(r)

ScanStep(r) ==
  \/ ScanSkips(r) \/ ScanReads(r) \/ ScanFindsLive(r) \/ ScanFindsDead(r) \/ ScanPatched(r)
  \/ KillOrphan(r) \/ OrphanPatched(r)

Next ==
  \/ \E r \in Runs : Start(r) \/ DriverStep(r) \/ WorkerStep(r) \/ ScanStep(r)
  \/ Stop \/ Exit \/ AppEnds \/ AppStarts

Spec == Init /\ [][Next]_vars

---------------------------------------------------------------------------
(* Properties                                                              *)

\* When the driver has finished, the record is terminal, whoever of the worker,
\* the driver, the scan and the user wrote it.  Only a worker that outlived its
\* kill, two of the app's writers at once, or an end of the app inside a write
\* leave it otherwise.
DriverSettles ==
  \A r \in Runs : driver[r] = "gone" /\ r \notin cut \cup spared /\ patchers[r] = {} =>
    status[r] \in Terminal

\* Only a worker that the app took for dead, or failed to kill, puts "running" back
\* over a terminal record or a torn one: but for it, the read-merge-replace of
\* write_status never straddles a patch by the app.
NoResurrection ==
  [][\A r \in Runs : status[r] \in Terminal \cup {"torn"} /\ r \notin spared =>
       status'[r] # "running"]_vars

\* A run that is not listed, and that no scan will find, has no worker training,
\* but for one that the app took for dead or failed to kill: whoever patches in
\* place has done one or the other before it truncates the record, so that an end
\* of the app in between hides no other.
UnlistedRunIsDead ==
  \A r \in Runs : r \notin Listed \cup spared => worker[r] \notin {"training", "logging"}

\* A run that still reads "running" after the scan read its record, though its
\* process is gone, was reported to the user or has its driver in this session,
\* unless a worker that the app took for dead wrote it.
ScanFindsCorpses ==
  Running => \A r \in Runs :
    scan[r] = "done" /\ status[r] = "running" /\ worker[r] = "gone" =>
      r \in orphans \cup spared \/ driver[r] \in Driving

\* What the Exit handler's comment promises: the run that the exit cancelled
\* reads "cancelled", and is not an orphan, when the app starts again.
ExitLeavesNoOrphan ==
  [][app = "down" /\ app' = "up" /\ exited # 0 => status[exited] # "running"]_vars

\* What OrphanRun's comment says of a reported run: its owning app died.
OrphansAreOrphaned == \A r \in orphans : driver[r] \notin Driving
===========================================================================
