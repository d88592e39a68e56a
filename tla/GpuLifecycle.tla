--------------------------- MODULE GpuLifecycle ---------------------------
(***************************************************************************)
(* Who may put a model on the GPU, and when: the TrainingManager           *)
(* (crates/orchestrator/src/training/mod.rs), the agent tools and the      *)
(* desktop commands that start and stop the inference server, a training   *)
(* run, an adapter test or a GGUF export, and the idle watchdog of lib.rs. *)
(*                                                                         *)
(* A caller is an async task (an agent tool call or a Tauri command) that  *)
(* runs one handler at a time; pc[c] names where it is.  Between two of    *)
(* its steps any other task may run: each step ends at an await.  A        *)
(* refused call (run already active, bad arguments) changes nothing and is *)
(* left out: the handler's guard is the negation of the refusal.           *)
(***************************************************************************)
EXTENDS InferenceManager

CONSTANTS
  Callers,    \* tasks that run tool calls and desktop commands
  Watchdog,   \* the task that ticks check_idle_and_stop
  MaxRuns     \* bound: training runs ever started

ASSUME GpuAssumption ==
  /\ Tasks = Callers \cup {Watchdog}
  /\ Watchdog \notin Callers
  /\ MaxRuns \in Nat

VARIABLES
  tlock,      \* holder of TrainingManager.state
  active,     \* the Option<ActiveRun>: number of the active run, 0 for None
  runs,       \* runs started so far
  driver,     \* the background task of each run
  cancel,     \* the run's cancel watch channel holds true
  pc,         \* where each caller's handler is
  mark,       \* history: pids handed out when the caller asked status()
  runMark     \* history: that mark, for each run that was started

trvars == <<tlock, active, runs, driver, cancel, pc, mark, runMark>>
vars == <<imvars, trvars>>

Runs == 1..MaxRuns

\* Where a handler is after it has asked status() and before it goes on to
\* load the GPU; "st" is start_training, "job" is test_adapter or export.
Cleared == {"st_run", "job_run", "job"}
HoldsTraining == {"st_status", "st_stop", "st_run"}
PCs == {"idle", "server", "stopping", "boot", "chat", "send",
        "job_status", "job_stop"} \cup HoldsTraining \cup Cleared

\* Where the driver of a run is: it sends its request to the worker; reads the
\* worker's lines; waits for a worker that has answered, or closed its pipe, to
\* exit; and records the outcome.
Working == {"sending", "reading", "reaping"}
Driving == Working \cup {"ended"}

TypeOK ==
  /\ IMTypeOK
  /\ tlock \in Callers \cup {NoTask}
  /\ active \in 0..MaxRuns
  /\ runs \in 0..MaxRuns
  /\ driver \in [Runs -> {"none", "gone"} \cup Driving]
  /\ cancel \in [Runs -> BOOLEAN]
  /\ pc \in [Tasks -> PCs]
  /\ mark \in [Tasks -> 0..MaxSpawns]
  /\ runMark \in [Runs -> 0..MaxSpawns]

Init ==
  /\ IMInit
  /\ tlock = NoTask
  /\ active = 0
  /\ runs = 0
  /\ driver = [r \in Runs |-> "none"]
  /\ cancel = [r \in Runs |-> FALSE]
  /\ pc = [t \in Tasks |-> "idle"]
  /\ mark = [t \in Tasks |-> 0]
  /\ runMark = [r \in Runs |-> 0]

\* The handler of t moves from one label to another.
Goto(t, from, to) ==
  /\ pc[t] = from
  /\ pc' = [pc EXCEPT ![t] = to]

OnlyPc == UNCHANGED <<tlock, active, runs, driver, cancel, mark, runMark>>

---------------------------------------------------------------------------
(* start_inference_server, stop_inference_server                           *)

StartInferenceServer(c, m) ==
  /\ Goto(c, "idle", "server")
  /\ CallEnsure(c, m)
  /\ OnlyPc

\* Either result is reported to the agent; the status() read on success
\* changes nothing.
StartInferenceServerReturns(c) ==
  /\ Goto(c, "server", "idle")
  /\ Resume(c, "ok") \/ Resume(c, "err")
  /\ OnlyPc

StopInferenceServer(c) ==
  /\ Goto(c, "idle", "stopping")
  /\ CallStop(c)
  /\ OnlyPc

InferenceServerStopped(t) ==
  /\ Goto(t, "stopping", "idle")
  /\ Resume(t, "done")
  /\ OnlyPc

---------------------------------------------------------------------------
(* chat_preview_bootstrap, chat_preview_send                               *)

\* training.status() said no run is active; the picker named a model, or
\* status() is asked next.
BootstrapWithKey(c, m) ==
  /\ tlock = NoTask /\ active = 0
  /\ Goto(c, "idle", "chat")
  /\ CallEnsure(c, m)
  /\ OnlyPc

Bootstrap(c) ==
  /\ tlock = NoTask /\ active = 0
  /\ Goto(c, "idle", "boot")
  /\ OnlyPc /\ UNCHANGED imvars

BootstrapReuses(c) ==
  /\ ilock = NoTask /\ Running
  /\ Goto(c, "boot", "idle")
  /\ OnlyPc /\ UNCHANGED imvars

BootstrapDefault(c, m) ==
  /\ ilock = NoTask /\ ~Running
  /\ Goto(c, "boot", "chat")
  /\ CallEnsure(c, m)
  /\ OnlyPc

BootstrapFails(c) ==
  /\ Goto(c, "chat", "idle")
  /\ Resume(c, "err")
  /\ OnlyPc

BootstrapStarted(c) ==
  /\ Goto(c, "chat", "send")
  /\ Resume(c, "ok")
  /\ OnlyPc

\* chat_preview_send: the endpoint is read first and last_used bumped after.
ChatSend(c) ==
  /\ ilock = NoTask /\ Running
  /\ Goto(c, "idle", "send")
  /\ OnlyPc /\ UNCHANGED imvars

\* rag_chat; it retrieves and asks the endpoint after it has bumped last_used,
\* whatever has become of the server by then.
RagChat(c) == ChatSend(c)

\* mark_used(), in chat_preview_send, rag_chat and at the end of the bootstrap.
ChatMarks(c) ==
  /\ Goto(c, "send", "idle")
  /\ MarkUsed
  /\ OnlyPc

---------------------------------------------------------------------------
(* TrainingManager::start                                                  *)

\* A mutated form: a second start() while a run is active is not refused.
StartTrainingUnchecked(c) ==
  /\ tlock = NoTask
  /\ Goto(c, "idle", "st_status")
  /\ tlock' = c
  /\ UNCHANGED imvars
  /\ UNCHANGED <<active, runs, driver, cancel, mark, runMark>>

StartTraining(c) ==
  /\ tlock = NoTask /\ active = 0
  /\ Goto(c, "idle", "st_status")
  /\ tlock' = c
  /\ UNCHANGED imvars
  /\ UNCHANGED <<active, runs, driver, cancel, mark, runMark>>

\* A mutated form: a server that is up is left alone.
FreeVramSkipped(c, status, stop, next) ==
  /\ ilock = NoTask
  /\ Goto(c, status, next)
  /\ UNCHANGED imvars
  /\ mark' = [mark EXCEPT ![c] = spawned]
  /\ UNCHANGED <<tlock, active, runs, driver, cancel, runMark>>

\* The "VRAM hard mutex": ask status(), and stop a server that is running.
FreeVram(c, status, stop, next) ==
  /\ ilock = NoTask
  /\ IF Running
     THEN Goto(c, status, stop) /\ CallStop(c)
     ELSE Goto(c, status, next) /\ UNCHANGED imvars
  /\ mark' = [mark EXCEPT ![c] = spawned]
  /\ UNCHANGED <<tlock, active, runs, driver, cancel, runMark>>

TrainingFreesVram(c) == FreeVram(c, "st_status", "st_stop", "st_run")

TrainingStoppedServer(c) ==
  /\ Goto(c, "st_stop", "st_run")
  /\ Resume(c, "done")
  /\ OnlyPc

\* The run directory cannot be created.
ActivateFails(c) ==
  /\ Goto(c, "st_run", "idle")
  /\ tlock' = NoTask
  /\ mark' = [mark EXCEPT ![c] = 0]
  /\ UNCHANGED imvars
  /\ UNCHANGED <<active, runs, driver, cancel, runMark>>

Activate(c) ==
  /\ runs < MaxRuns
  /\ Goto(c, "st_run", "idle")
  /\ tlock' = NoTask
  /\ runs' = runs + 1
  /\ active' = runs + 1
  /\ driver' = [driver EXCEPT ![runs + 1] = "sending"]
  /\ runMark' = [runMark EXCEPT ![runs + 1] = mark[c]]
  /\ mark' = [mark EXCEPT ![c] = 0]
  /\ UNCHANGED imvars
  /\ UNCHANGED cancel

---------------------------------------------------------------------------
(* The run's background task, and stop                                     *)

StopTraining(c) ==
  /\ tlock = NoTask /\ active # 0
  /\ Goto(c, "idle", "idle")
  /\ cancel' = [cancel EXCEPT ![active] = TRUE]
  /\ UNCHANGED imvars
  /\ UNCHANGED <<tlock, active, runs, driver, mark, runMark>>

\* The driver of r moves from one label to another.
Drive(r, from, to) ==
  /\ driver[r] \in from
  /\ driver' = [driver EXCEPT ![r] = to]
  /\ UNCHANGED imvars
  /\ UNCHANGED <<tlock, active, runs, cancel, pc, mark, runMark>>

RequestSent(r) == Drive(r, {"sending"}, "reading")

\* The worker could not be started or written to; or it was silent for the idle
\* timeout or printed a malformed line, and was killed and waited for.
WorkerFails(r) == Drive(r, {"sending", "reading"}, "ended")

\* A response, or the end of the worker's output.
WorkerAnswers(r) == Drive(r, {"reading"}, "reaping")

\* child.wait(), with no timeout and no look at the cancel signal.
WorkerExits(r) == Drive(r, {"reaping"}, "ended")

\* The cancel branch of the select: the worker is killed and waited for.
DriverCancelled(r) == cancel[r] /\ Drive(r, {"reading"}, "ended")

\* A mutated form: the driver ends and leaves the manager's state as it was.
DriverForgets(r) ==
  /\ driver[r] = "ended"
  /\ tlock = NoTask
  /\ driver' = [driver EXCEPT ![r] = "gone"]
  /\ UNCHANGED imvars
  /\ UNCHANGED <<tlock, active, runs, cancel, pc, mark, runMark>>

\* After patching status.json the driver clears the manager's state, whatever
\* it holds.
DriverClears(r) ==
  /\ driver[r] = "ended"
  /\ tlock = NoTask
  /\ active' = 0
  /\ driver' = [driver EXCEPT ![r] = "gone"]
  /\ UNCHANGED imvars
  /\ UNCHANGED <<tlock, runs, cancel, pc, mark, runMark>>

---------------------------------------------------------------------------
(* test_adapter and export_domain_gguf: is_active() is asked once, and the *)
(* job is not registered with the TrainingManager.                         *)

TestAdapter(c) ==
  /\ tlock = NoTask /\ active = 0
  /\ Goto(c, "idle", "job_status")
  /\ OnlyPc /\ UNCHANGED imvars

ExportDomainGguf(c) ==
  /\ tlock = NoTask /\ active = 0
  /\ Goto(c, "idle", "job_status")
  /\ OnlyPc /\ UNCHANGED imvars

\* No run id, no eval questions, or no adapter directory.
JobRefused(c) ==
  /\ Goto(c, "job_status", "idle")
  /\ OnlyPc /\ UNCHANGED imvars

JobFreesVram(c) == FreeVram(c, "job_status", "job_stop", "job_run")

JobStoppedServer(c) ==
  /\ Goto(c, "job_stop", "job_run")
  /\ Resume(c, "done")
  /\ OnlyPc

JobStarts(c) ==
  /\ Goto(c, "job_run", "job")
  /\ OnlyPc /\ UNCHANGED imvars

JobEnds(c) ==
  /\ Goto(c, "job", "idle")
  /\ mark' = [mark EXCEPT ![c] = 0]
  /\ UNCHANGED imvars
  /\ UNCHANGED <<tlock, active, runs, driver, cancel, runMark>>

---------------------------------------------------------------------------
(* The idle watchdog: idle_past() and stop() take the mutex one after the  *)
(* other.                                                                  *)

WatchdogTick ==
  /\ ilock = NoTask /\ IdlePast
  /\ Goto(Watchdog, "idle", "stopping")
  /\ CallStop(Watchdog)
  /\ OnlyPc

---------------------------------------------------------------------------
(* Where a started handler goes on; where a new one begins.                *)

Continue(c) ==
  \/ StartInferenceServerReturns(c)
  \/ BootstrapReuses(c) \/ (\E m \in Models : BootstrapDefault(c, m))
  \/ BootstrapFails(c) \/ BootstrapStarted(c) \/ ChatMarks(c)
  \/ TrainingFreesVram(c) \/ TrainingStoppedServer(c)
  \/ ActivateFails(c) \/ Activate(c)
  \/ JobRefused(c) \/ JobFreesVram(c) \/ JobStoppedServer(c) \/ JobStarts(c) \/ JobEnds(c)

Begin(c) ==
  \/ \E m \in Models : StartInferenceServer(c, m) \/ BootstrapWithKey(c, m)
  \/ StopInferenceServer(c) \/ Bootstrap(c) \/ ChatSend(c) \/ RagChat(c)
  \/ StartTraining(c) \/ StopTraining(c) \/ TestAdapter(c) \/ ExportDomainGguf(c)

ManagerStep(t) == OpStep(t) /\ UNCHANGED trvars

DriverStep(r) ==
  \/ RequestSent(r) \/ WorkerFails(r) \/ WorkerAnswers(r) \/ WorkerExits(r)
  \/ DriverCancelled(r) \/ DriverClears(r)

World ==
  \/ \E p \in Pids : ProcessExits(p) /\ UNCHANGED trvars
  \/ TimePasses /\ UNCHANGED trvars

Next ==
  \/ \E c \in Callers : Begin(c) \/ Continue(c)
  \/ \E t \in Tasks : ManagerStep(t) \/ InferenceServerStopped(t)
  \/ \E r \in Runs : DriverStep(r)
  \/ WatchdogTick
  \/ World

Spec == Init /\ [][Next]_vars

\* What the code or the system bounds: the mutexes are FIFO (so a waiter that
\* finds the mutex free again and again gets it), the download's answer and the
\* health check have timeouts, a killed process goes, and the driver's select
\* keeps polling the cancel signal.  Nothing bounds what is not here: that a
\* worker which has answered exits, that it takes its request, how long a job
\* goes on printing.  And nothing makes a user call anything, a healthy process
\* die or a training run end by itself.
HandlerStep(t) ==
  \/ op[t] # "answered" /\ ManagerStep(t)
  \/ InferenceServerStopped(t)
  \/ t \in Callers /\ pc[t] # "job" /\ Continue(t)

Fairness ==
  /\ \A t \in Tasks : SF_vars(HandlerStep(t))
  /\ \A r \in Runs : WF_vars(DriverCancelled(r)) /\ SF_vars(DriverClears(r))
  /\ \A p \in Pids : WF_vars(p \in killed /\ ProcessExits(p) /\ UNCHANGED trvars)

FairSpec == Spec /\ Fairness

---------------------------------------------------------------------------
(* Properties                                                              *)

\* One run at a time: the manager names a run exactly while its driver has
\* not finished, so no two drivers coexist and none clears another's record.
OneRunAtATime ==
  \A r \in Runs : driver[r] \in Driving <=> active = r

\* What the VRAM check of start(), test_adapter and export does achieve: no
\* server that existed when status() was asked is still up (unkilled) once the
\* GPU work begins.  Only a server brought up after the check can overlap.
ServerPredatingWorkIsGone ==
  /\ \A c \in Callers : pc[c] \in Cleared => \A p \in Unkilled : p > mark[c]
  /\ \A r \in Runs : driver[r] \in Working => \A p \in Unkilled : p > runMark[r]

\* Every started handler returns (no deadlock between the two mutexes, no
\* mutex kept by an error path), as far as Python workers let it: unless its own
\* job goes on for ever, or a download's worker has answered and never exits,
\* which keeps the inference mutex and so everybody who needs it.
HandlersReturn ==
  \A t \in Tasks :
    \/ (pc[t] # "idle") ~> (pc[t] = "idle")
    \/ <>[](pc[t] = "job")
    \/ \E u \in Tasks : <>[](op[u] = "answered")

\* A stop that found an active run gets that run out of the manager's state,
\* whatever the worker prints, the handlers hold and other workers do; unless
\* this run's worker never takes its request, or has ended its output and never
\* exits.
CancelClearsRun ==
  \A r \in Runs :
    \/ (active = r /\ cancel[r]) ~> (active # r)
    \/ <>[](driver[r] \in {"sending", "reaping"})

---------------------------------------------------------------------------
(* What the documentation says of the program, and the code does not do.   *)

\* README: training is hard-mutexed against the inference server so the card
\* never double-loads.
NeverDoubleLoads ==
  slot \in Unkilled => \A r \in Runs : driver[r] # "reading"

\* ensure_running: "Ensure a server is running for `model`".
EnsureOkMeansRunning ==
  [][\A t \in Tasks :
       op[t] \in EnsureOps /\ op'[t] = "ok" => slot' \in procs']_vars
===========================================================================
