------------------------- MODULE InferenceManager -------------------------
(***************************************************************************)
(* The llama.cpp server manager of crates/orchestrator/src/inference: one  *)
(* tokio Mutex around an optional server record, held across the whole of  *)
(* ensure_running and stop.  A task inside one of the two operations has a *)
(* control point op[t], and its caller resumes from the result left there. *)
(* The short operations (status, mark_used, idle_past) take and release    *)
(* the mutex between two awaits of the same task: one step, enabled when   *)
(* it is free.                                                             *)
(*                                                                         *)
(* A process is a pid 1..spawned.  Killing it is a signal; it goes when    *)
(* ProcessExits happens, and a server may also die of its own accord.      *)
(* This module is extended by GpuLifecycle, which holds the callers.       *)
(***************************************************************************)
EXTENDS Integers, FiniteSets

CONSTANTS
  Tasks,      \* async tasks that call the manager
  NoTask,     \* the mutex holder when the mutex is free
  Models,     \* distinct ModelSpec values (repo, file, ctx, kv cache, ...)
  NoModel,    \* stands where no model is meant
  MaxSpawns   \* bound: server processes ever spawned

ASSUME ManagerAssumption ==
  /\ NoTask \notin Tasks
  /\ NoModel \notin Models
  /\ MaxSpawns \in Nat

VARIABLES
  ilock,    \* holder of InferenceManager.state
  slot,     \* the Option<ServerState>: pid of the recorded server, 0 for None
  stale,    \* last_used is further back than the idle TTL
  procs,    \* server processes that exist
  killed,   \* those a kill was sent to
  spawned,  \* pids handed out so far
  serving,  \* the ModelSpec in the record
  op,       \* where a task is inside ensure_running or stop
  want,     \* the model a task passed to ensure_running
  held,     \* the child a task is waiting for (being killed, or coming up)
  found     \* history: the slot as the mutex holder found it, while it resolves a model

imvars == <<ilock, slot, stale, procs, killed, spawned, serving, op, want, held, found>>

Pids == 1..MaxSpawns

\* The new model is being resolved: its download is under way, or has been
\* answered and call_worker waits for the worker to exit.
Resolving == {"resolve", "answered"}
HoldsLock == Resolving \cup {"reap", "spawn", "health", "stopreap"}
EnsureOps == Resolving \cup {"enter", "reap", "spawn", "health"}
Results == {"ok", "err", "done"}
Ops == {"none", "stop"} \cup HoldsLock \cup EnsureOps \cup Results

IMTypeOK ==
  /\ ilock \in Tasks \cup {NoTask}
  /\ slot \in 0..MaxSpawns
  /\ stale \in BOOLEAN
  /\ procs \in SUBSET Pids
  /\ killed \in SUBSET procs
  /\ spawned \in 0..MaxSpawns
  /\ serving \in Models \cup {NoModel}
  /\ op \in [Tasks -> Ops]
  /\ want \in [Tasks -> Models \cup {NoModel}]
  /\ held \in [Tasks -> 0..MaxSpawns]
  /\ found \in 0..MaxSpawns

IMInit ==
  /\ ilock = NoTask
  /\ slot = 0
  /\ stale = FALSE
  /\ procs = {}
  /\ killed = {}
  /\ spawned = 0
  /\ serving = NoModel
  /\ op = [t \in Tasks |-> "none"]
  /\ want = [t \in Tasks |-> NoModel]
  /\ held = [t \in Tasks |-> 0]
  /\ found = 0

Unkilled == procs \ killed

\* The record holds a server started for model m.
Records(m) == slot # 0 /\ serving = m

---------------------------------------------------------------------------
(* Calls and returns.                                                      *)

CallEnsure(t, m) ==
  /\ op[t] = "none"
  /\ op' = [op EXCEPT ![t] = "enter"]
  /\ want' = [want EXCEPT ![t] = m]
  /\ UNCHANGED <<ilock, slot, stale, procs, killed, spawned, serving, held, found>>

CallStop(t) ==
  /\ op[t] = "none"
  /\ op' = [op EXCEPT ![t] = "stop"]
  /\ UNCHANGED <<ilock, slot, stale, procs, killed, spawned, serving, want, held, found>>

\* Leaving ensure_running drops the guard.
Return(t, result) ==
  /\ ilock' = NoTask
  /\ op' = [op EXCEPT ![t] = result]
  /\ held' = [held EXCEPT ![t] = 0]
  /\ want' = [want EXCEPT ![t] = NoModel]
  /\ found' = 0

\* The caller goes on after the operation returned r.
Resume(t, r) ==
  /\ op[t] = r
  /\ op' = [op EXCEPT ![t] = "none"]
  /\ UNCHANGED <<ilock, slot, stale, procs, killed, spawned, serving, want, held, found>>

\* Two mutated forms of the next definition: the signal is never sent; a
\* process that has already exited is counted as one to wait for.
TakeOnly(t, next) ==
  /\ held' = [held EXCEPT ![t] = slot]
  /\ slot' = 0
  /\ serving' = NoModel
  /\ stale' = FALSE
  /\ op' = [op EXCEPT ![t] = next]
  /\ UNCHANGED killed

TakeAndKillBlind(t, next) ==
  /\ held' = [held EXCEPT ![t] = slot]
  /\ killed' = killed \cup {slot}
  /\ slot' = 0
  /\ serving' = NoModel
  /\ stale' = FALSE
  /\ op' = [op EXCEPT ![t] = next]

\* stop_state, first half: the record is taken and its child is signalled.
TakeAndKill(t, next) ==
  /\ held' = [held EXCEPT ![t] = slot]
  /\ killed' = killed \cup ({slot} \cap procs)
  /\ slot' = 0
  /\ serving' = NoModel
  /\ stale' = FALSE
  /\ op' = [op EXCEPT ![t] = next]

\* stop_state, second half: child.wait() returns once the process is gone.
ChildGone(t) == held[t] \notin procs

---------------------------------------------------------------------------
(* ensure_running                                                          *)

\* The recorded server already serves this model: bump last_used, hand out
\* its address.  The child itself is not looked at.
EnsureReuse(t) ==
  /\ op[t] = "enter"
  /\ ilock = NoTask
  /\ Records(want[t])
  /\ stale' = FALSE
  /\ Return(t, "ok")
  /\ UNCHANGED <<slot, procs, killed, spawned, serving>>

\* A mutated form of the next action: the old server is torn down as soon as a
\* switch is known to be needed, before the download.
EnsureEnterTearsDown(t) ==
  /\ op[t] = "enter"
  /\ ilock = NoTask
  /\ ~Records(want[t])
  /\ ilock' = t
  /\ TakeAndKill(t, "resolve")
  /\ found' = slot
  /\ UNCHANGED <<procs, spawned, want>>

EnsureEnter(t) ==
  /\ op[t] = "enter"
  /\ ilock = NoTask
  /\ ~Records(want[t])
  /\ ilock' = t
  /\ op' = [op EXCEPT ![t] = "resolve"]
  /\ found' = slot
  /\ UNCHANGED <<slot, stale, procs, killed, spawned, serving, want, held>>

\* The worker has printed its answer, an error or a path: what is left is
\* call_worker's wait for it to exit, after the end of the timeout's scope.
DownloadAnswers(t) ==
  /\ op[t] = "resolve"
  /\ op' = [op EXCEPT ![t] = "answered"]
  /\ UNCHANGED <<ilock, slot, stale, procs, killed, spawned, serving, want, held, found>>

\* The worker could not be started, died, timed out, or answered and exited and
\* download_model, validate_gguf or pick_free_port failed.
ResolveFails(t) ==
  /\ op[t] \in Resolving
  /\ Return(t, "err")
  /\ UNCHANGED <<slot, stale, procs, killed, spawned, serving>>

\* The new model is resolved, by a worker that has exited or as a local GGUF
\* that needs none: only now is the old server taken and killed.
Resolved(t) ==
  /\ op[t] \in Resolving
  /\ found' = 0
  /\ IF slot # 0
     THEN TakeAndKill(t, "reap")
     ELSE /\ op' = [op EXCEPT ![t] = "spawn"]
          /\ UNCHANGED <<slot, serving, stale, killed, held>>
  /\ UNCHANGED <<ilock, procs, spawned, want>>

Reaped(t) ==
  /\ op[t] = "reap"
  /\ ChildGone(t)
  /\ op' = [op EXCEPT ![t] = "spawn"]
  /\ UNCHANGED <<ilock, slot, stale, procs, killed, spawned, serving, want, held, found>>

Spawn(t) ==
  /\ op[t] = "spawn"
  /\ spawned < MaxSpawns
  /\ spawned' = spawned + 1
  /\ procs' = procs \cup {spawned + 1}
  /\ held' = [held EXCEPT ![t] = spawned + 1]
  /\ op' = [op EXCEPT ![t] = "health"]
  /\ UNCHANGED <<ilock, slot, stale, killed, serving, want, found>>

SpawnFails(t) ==
  /\ op[t] = "spawn"
  /\ Return(t, "err")
  /\ UNCHANGED <<slot, stale, procs, killed, spawned, serving>>

Healthy(t) ==
  /\ op[t] = "health"
  /\ held[t] \in procs
  /\ slot' = held[t]
  /\ serving' = want[t]
  /\ stale' = FALSE
  /\ Return(t, "ok")
  /\ UNCHANGED <<procs, killed, spawned>>

\* A mutated form of the next action: the child handle is leaked, not dropped.
HealthTimeoutLeaks(t) ==
  /\ op[t] = "health"
  /\ Return(t, "err")
  /\ UNCHANGED <<slot, stale, procs, killed, spawned, serving>>

\* wait_for_health gives up: the Child is dropped, and kill_on_drop signals it
\* without waiting for it to go.
HealthTimeout(t) ==
  /\ op[t] = "health"
  /\ killed' = killed \cup ({held[t]} \cap procs)
  /\ Return(t, "err")
  /\ UNCHANGED <<slot, stale, procs, spawned, serving>>

---------------------------------------------------------------------------
(* stop                                                                    *)

StopEnter(t) ==
  /\ op[t] = "stop"
  /\ ilock = NoTask
  /\ IF slot # 0
     THEN /\ ilock' = t
          /\ TakeAndKill(t, "stopreap")
     ELSE /\ op' = [op EXCEPT ![t] = "done"]
          /\ UNCHANGED <<ilock, slot, serving, stale, killed, held>>
  /\ UNCHANGED <<procs, spawned, want, found>>

StopDone(t) ==
  /\ op[t] = "stopreap"
  /\ ChildGone(t)
  /\ ilock' = NoTask
  /\ op' = [op EXCEPT ![t] = "done"]
  /\ held' = [held EXCEPT ![t] = 0]
  /\ UNCHANGED <<slot, stale, procs, killed, spawned, serving, want, found>>

---------------------------------------------------------------------------
(* The short operations, as conjuncts of the caller's step.                *)

\* status().running: the record, not the process, is what is asked.
Running == slot # 0

MarkUsed ==
  /\ ilock = NoTask
  /\ stale' = FALSE
  /\ UNCHANGED <<ilock, slot, procs, killed, spawned, serving, op, want, held, found>>

IdlePast == slot # 0 /\ stale

---------------------------------------------------------------------------
(* The world outside: processes end, time passes.                          *)

ProcessExits(p) ==
  /\ p \in procs
  /\ procs' = procs \ {p}
  /\ killed' = killed \ {p}
  /\ UNCHANGED <<ilock, slot, stale, spawned, serving, op, want, held, found>>

TimePasses ==
  /\ slot # 0
  /\ stale' = TRUE
  /\ UNCHANGED <<ilock, slot, procs, killed, spawned, serving, op, want, held, found>>

EnsureStep(t) ==
  \/ EnsureReuse(t) \/ EnsureEnter(t) \/ DownloadAnswers(t)
  \/ ResolveFails(t) \/ Resolved(t)
  \/ Reaped(t) \/ Spawn(t) \/ SpawnFails(t) \/ Healthy(t) \/ HealthTimeout(t)

StopStep(t) == StopEnter(t) \/ StopDone(t)

OpStep(t) == EnsureStep(t) \/ StopStep(t)

\* The manager as any set of callers may drive it.
IMNext ==
  \/ \E t \in Tasks :
       \/ OpStep(t)
       \/ CallStop(t) \/ (\E m \in Models : CallEnsure(t, m))
       \/ \E r \in Results : Resume(t, r)
  \/ MarkUsed
  \/ TimePasses
  \/ \E p \in Pids : ProcessExits(p)

IMSpec == IMInit /\ [][IMNext]_imvars

---------------------------------------------------------------------------
(* Properties                                                              *)

\* No stray server: a llama.cpp process nobody has killed is the one in the
\* manager's record, or the one the holder of the mutex is bringing up.  With
\* the mutex this bounds the loaded servers to one.
NoStrayServer ==
  \A p \in Unkilled :
    \/ p = slot
    \/ \E t \in Tasks : ilock = t /\ op[t] = "health" /\ held[t] = p

\* A switch costs nobody the running server before the new model is known to be
\* usable: from the moment ensure_running has taken the mutex, over the whole
\* download, to the error it may return, the record and its process are what it
\* found, whatever the other tasks do meanwhile.
FailedSwitchKeepsServer ==
  [][\A t \in Tasks :
       op[t] \in Resolving /\ op'[t] \in Resolving \cup {"err"} =>
         slot' = found /\ found \notin killed']_imvars
===========================================================================
