# TLA+ specifications of NarrowMind Studio

NarrowMind Studio is a desktop application (Tauri, Rust) whose agent builds a small
domain model on one 8 GB graphics card: it ingests sources, cleans and chunks them,
generates training pairs, trains a QLoRA adapter in a WSL worker, serves the result with
llama.cpp, and chats with it. The program is a set of async tasks over a few shared
managers, each behind a tokio mutex, and of child processes at the other end of pipes.
These specifications model those managers and tasks, TLC checks them on small instances,
and TLAPS proves what matters most, for every instance, in eight modules of theorems.

Paths below are relative to the repository; `orch/` stands for `crates/orchestrator/src/`
and `desktop/` for `apps/desktop/src-tauri/src/`.

## 1. The system's parts

| part | code | state it keeps | operations |
|---|---|---|---|
| Inference server manager | `orch/inference/mod.rs` | `Mutex<Option<ServerState>>`: child, port, model, last use | `ensure_running`, `stop`, `status`, `mark_used`, `idle_past`, `check_idle_and_stop` |
| GPU arbitration | `orch/training/mod.rs`, `orch/tools/training.rs`, `orch/tools/inference.rs`, `desktop/commands/chat.rs` | `Mutex<Option<ActiveRun>>` with the cancel channel | `start`, `stop`, `status`, `is_active`; `test_adapter`, `export_domain_gguf`, start and stop server, chat bootstrap and send |
| Training run record | `orch/training/mod.rs`, `orch/training/wsl.rs`, `workers/.../training/{rpc,runner}.py` | `runs/<id>/status.json`, `worker.pid` | written by the Python worker, the driver task, the orphan scan, the orphan kill |
| Streaming worker call | `orch/worker.rs` | one child per call, an idle deadline, a cancel watch | `call_worker_streaming` (training, export), one-shot `call_worker` |
| Worker pool | `orch/worker_pool.rs`, `workers/.../rpc/server.py` | one child per Python module behind a mutex, next request id | `call`, `stop`, `shutdown`, `status` |
| Agent session | `crates/agent/src/session.rs`, `desktop/commands/agent.rs`, `orch/agent_bridge.rs` | `AppState.conversation`, the turn's clone of it | `agent_send_message`, `agent_reset`, the provider/tool loop |
| Projects | `orch/project/`, `desktop/commands/projects.rs`, `orch/tools/projects.rs` | project directories, `project.toml`, `AppState.selected_project` | create, select, delete, update |
| Tool registry and context | `orch/tools/{registry,context}.rs` | none, and the selected project | dispatch by name |
| Provider stream | `crates/agent/src/anthropic.rs` | a byte buffer, the open content blocks, a channel of events | split into events, map to text, calls, usage, stop; three readers (`AgentSession::run`, `synth_one_chunk`, the judge of `run_eval`) |
| Datasets, chunks, corpora | `orch/tools/{build_dataset,chunks,corpora}.rs` | `sources/*`, `datasets/*.jsonl`, `corpora/<name>` | build, inspect, filter, export, import |
| Synthetic data, import | `orch/tools/synth_gen`, `import_sft_from_hf.rs` | `datasets/{sft,eval}.jsonl` | generate, import, split |
| Retrieval, evaluation | `orch/tools/{rag,eval}.rs` | vector store, reports | index, retrieve, run_eval |
| Python data workers | `workers/.../{ingestion,cleaning,rag}` | files of a source, an index | one RPC each |
| Retry policy | `orch/retry.rs` | none | `with_backoff`, `delay_for` |
| Sandboxed tools | `orch/tools/{fs,run_command,sandbox}.rs` | none | file and command tools |
| Desktop shell | `desktop/{lib,state}.rs`, `desktop/commands/*` | `AppState` | watchdog, startup scan, exit handler, commands |
| Secrets, models, paths | `orch/{secrets,models,app_paths}.rs` | the OS keychain | lookups |
| Front end | `apps/desktop/src` | view state, a busy flag | issues the commands |

### How they interact

* Every agent tool call and every Tauri command is a task; `AppState` hands all of them the
  same `InferenceManager`, `TrainingManager`, `WorkerPool`, conversation and selection.
* `TrainingManager::start` takes its own mutex and, holding it, calls `status()` and `stop()` of
  the inference manager: the one nesting of two mutexes in the program. The reverse nesting
  never occurs.
* `start` spawns the driver task, which streams from a worker inside WSL until a response, EOF,
  a silence, a malformed line or the cancel signal, patches `status.json` and clears the
  manager. The worker writes the same file.
* `lib.rs` spawns the idle watchdog (a tick, `idle_past`, then `stop`) and the orphan scan of
  all projects' runs, and on exit blocks on `training.stop()`, `pool.shutdown()`,
  `inference.stop()`, in this order.
* A turn clones the conversation at its start and writes it back at its end. The rail commands
  clear it in between.
* A provider call is a pump task that reads the body and a reader at the other end of a channel.
* Nothing locks a project's directory: agent tools, commands of the desktop and the training driver
  read and write the same files side by side. They meet in a few ways of writing: a temporary with
  a fixed name and a rename, a write in place, a read-modify-write, and two files one after
  the other. Corpora are copied out of one project and into another.

### What is hard, and what makes each part correct

* **GPU.** Downloads and health checks last minutes inside the mutex; the answer of
  `status()` is stale as soon as it is returned; a server may die at any time. Correct
  means: no llama.cpp process outside the record, one run at a time, the VRAM check
  removes what it saw, a server is up until the model that replaces it is known to be usable, every
  handler returns as far as its workers let it.
* **Worker pool.** The answer to a request that was given up must not reach the next call; the
  retry must not become a third execution; a stop must not overlap the respawn.
* **Training run.** Four writers of one file, one of them in another operating system that is only
  reached through `wsl.exe`, which can fail, and a crash at every step. Correct means: a finished
  driver leaves a terminal record, terminal records stay so, the scan misses no corpse; and where a
  kill or a probe failed, nothing goes wrong but with that worker's own record.
* **Agent session.** Whole-value write-back of a clone, and a protocol (each `tool_use` is
  answered by a `tool_result`, or the provider refuses the conversation for ever) that every
  error path must keep.
* **Provider stream.** The network cuts a body anywhere and may end it anywhere. Correct means:
  a whole answer is taken for one only when it is, a part of one is a prefix of what was sent, and
  its reader is always told the end.
* **Files.** Project configuration, datasets and corpora are read-modify-write or written file by
  file by concurrent tools, and a crash leaves what it leaves. Correct means: a completed edit
  stays, training and held-out pairs stay apart, dataset and index agree, a listed corpus is whole,
  a project's name is listed or free.

`PROJECT.json` lists the hazards one by one, at the line where each bites, with the
properties that cover it or the reason why none does yet.

## 2. The modules

| module | models | composed with |
|---|---|---|
| `InferenceManager` | the server manager, its mutex and processes | extended by `GpuLifecycle` |
| `GpuLifecycle` | everyone who loads or frees the GPU | |
| `WorkerCalls` | what `WorkerPool::call` promises (abstract) | implemented by `WorkerPool` |
| `WorkerPool` | the pool, one module's child and its pipes | |
| `TrainingRun` | `status.json`, its writers, exit, crash, restart | |
| `AgentSession` | the conversation, turns, the requests they send, project switches | |
| `ProviderStream` | `pump_sse`, its channel, its three readers, the retry policy | |
| `ProjectFiles` | the files of a project and the two ways they are written | extended by `ProjectStore` |
| `ProjectStore` | create, delete and `project.toml` | extended by `Datasets` |
| `Datasets` | chunks, `rag.jsonl`, the index, the pairs, training and evaluation on them | extended by `Corpora` |
| `Corpora` | export to and import from the library | extended by `ProjectFolder` |
| `ProjectFolder` | the directory as a whole: all operations side by side, broken off anywhere | |
| `InferenceManagerProofs`, `GpuLifecycleProofs`, `TrainingRunProofs`, `WorkerPoolProofs`, `AgentSessionProofs`, `ProviderStreamProofs`, `ProjectFolderProofs` | theorems | each extends the module of its name |
| `ProjectDataProofs` | theorems about what a project's files hold | extends `ProjectFolderProofs` |
| `MC*` | the small instances for TLC | |

**InferenceManager.** `ilock` is the mutex, `slot` the record (a pid, 0 for `None`), `serving` its
model, `stale` whether `last_used` is past the TTL, `procs` and `killed` the operating system's
view. A task inside an operation has a control point `op[t]`; every await of the code
(lock, download, reap, spawn, health) separates two actions. A download is two (`Resolving`): the wait for the
worker's answer, which has a timeout, and after `DownloadAnswers` the wait of `call_worker` for the worker to
exit (`orch/worker.rs:196`), which has none. `found` is history: the record as `ensure_running` found it. `TakeAndKill` and `ChildGone` are the
halves of `stop_state`; `HealthTimeout` is the `?` after `wait_for_health`, where only
`kill_on_drop` cleans up. Ports, arguments and the content of a GGUF are abstracted to success
or failure.

**GpuLifecycle.** One control point per caller; each handler is a few actions that ask, call
the manager, and resume from its result. The one `FreeVram` operator is used by `start()`,
`test_adapter` and `export_domain_gguf`, which contain the same check. `rag_chat` does to the
manager what a chat message does, and is the same action. Refusals that change
nothing are not actions. `driver[r]` is the run's background task, at one of four places: it writes the
request (`RequestSent`), selects between the worker's lines, silence and cancel (`WorkerFails`,
`WorkerAnswers`, `DriverCancelled`), waits for a worker that has answered or closed its output
(`WorkerExits`; neither timeout nor cancel is looked at there), and clears the manager (`DriverClears`).
`mark` and `runMark` are history variables: how many servers had been
spawned when the caller asked `status()`.

**WorkerPool.** `holder` is the mutex of one `PersistentWorker`, `slot` its child, `stdin` and
`stdout` the pipes as queues of requests and lines, `serving` the request in the Python
handler. `Expire` is the deadline, which may pass at each await of the round trip. `ReadEof` is the end of
a child's output, `ReadFails` a read error or a line that is not UTF-8 from a live one; both count as a dead
child, which is killed and replaced for the one retry. The child may stall, emit notifications or a line that is not JSON, or die, at each step. Distinct
modules share only the map that names them, so one module's worker is modelled.

**TrainingRun.** Keeps of the record only its `status` field. The worker's `write_status` is two steps
(`WorkerReads`, `WorkerLogs`) because it merges, and replaces the file by a rename. The app's
`patch_status_file` writes in place: it is two steps too, `PatchOpens`, which leaves the record
"torn", and `PatchWrites`. `patchers[r]` are the writers of the app that have it open; two at once,
or an end of the app between the two steps, leave it torn for good (`cut`). The scan and the run
list skip a torn record. `AppEnds` is the end of the process, in a crash or after `Exit`; the
worker outlives it, and can always die. The scan is a read and, after an awaited process probe, an
act on what was read. Kills and probes go through `wsl.exe` and are best-effort: `KillsWorker` may leave the
worker alive (a driver's cancel or idle timeout, the orphan kill), `ScanFindsDead` may be said of a live one, and the
code patches the record in either case. `spared` is history: the runs whose worker could still write after
that, `MaxSpared` their bound.

**AgentSession.** A message is a kind and the tool-call ids in it. `Streamed` covers every way a
provider stream ends; `Runs` is a dispatched call, whose result block exists whether it failed
or not. `Outgoing` and `Wire` are what becomes of the history in a request: the system prompt is put before
it, and lifted out again by the adapter. `select_project` and `delete_project` have one step per lock
they take, and any number of these commands (`Commands`) run side by side: `rail[c]` is where each is.
`StreamPanics` is a turn that ends in the slice of an error body inside a character
(`crates/agent/src/anthropic.rs:154-160`). `ran`, `era` and `crossed` are history.

**ProviderStream.** The body of a reply is a sequence of tokens: an `event:` line, a `data:` line that
stands for the event in its JSON, and the bytes CR and LF. `Frame` is one event of it, of a fixed
`Width` in each style, so that the token at any position is known from the event it belongs to. `Chunk` appends any number of tokens to
the buffer, so the network cuts wherever two tokens meet, inside CR LF CR LF too; `EndOfBody` and
`ByteError` may happen at any point. `Boundary` is `find_event_boundary` with the preference it has,
`Dispatch` one round of `drain_events`, with one operator per event type. `InOrder` lists, by position, what
a filter of the events leaves; the statements about texts, calls and usage are made with it. The readers differ in what
they do at a `Stop` and at an error; `with_backoff` runs around one of them, with the delays that
`delay_for` computes.

**ProjectFiles, ProjectStore, Datasets, Corpora, ProjectFolder.** One project is one directory with five
files (`toml`, `chunks`, `rag`, `sft`, `eval`), each with a temporary beside it, and an index. A file is
its data, the tasks that have it open, and whether two ever had it open together (`shared`) or one left
it before its end (`cut`). A rename moves all of that: handles on the temporary follow it into the
visible file. `job[t]` is a task's operation and where it is in it; a step that writes asks that the task has something
to write (`job[t].data # Absent`), which every operation has by then. Each operation is a chain of steps,
one for each file operation of the code that another task may come before. `ProjectFolder` composes
all of them and adds `BreaksOff`: an error, a timeout, a cancelled command or the end of the
application, at any step, with the files left as they are.
Data: chunks are a set of names, of which some are included; pairs are a set (two of the same text are two
pairs), each from one chunk. An import is given a request: its sources, its caps and `eval_split`, all
arguments of the call. `Drawn` is what a request gets with a seed, `HeldOut` what the shuffle with that seed puts
first; another request gets and holds out something else under the same seed. A synthesized set is split in
any way that an `eval_split` up to a half allows. One source; `filter_chunks` is called with ids and
the flag, the default tier, and a line that does not parse breaks it off. The retry of an ingestion may
come after its rename too (`IngestRenamesTwice`). Evaluation pairs are scored one by one, against the index of the moment,
gathered, and reported. `remove_dir_all` takes the entries in any order, of which four
representative ones are modelled. History: `raced` (two writers of chunks or of `project.toml`
overlapped), `job[t].alone`, `calm` (no rival since), `flags` and `told` (what completed edits and
updates set), `reseeded`, `deserted`, `trained`.

Operators that stand just before a definition and are described as "a mutated form" are not
part of the specification: they are plausible defects, used to confirm that each property
fails when the code has that defect (`mutants` in `PROJECT.json`).

## 3. What TLC checks

| run | instance | properties | result |
|---|---|---|---|
| `gpu` | 2 callers, watchdog, 2 models, 2 spawns, 2 runs | `TypeOK`, `NoStrayServer`, `OneRunAtATime`, `ServerPredatingWorkIsGone`, `FailedSwitchKeepsServer` | hold |
| `gpu_live` | 2 callers, watchdog, 2 models, 1 spawn, 1 run, fairness | `HandlersReturn`, `CancelClearsRun` | hold |
| `gpu_vram` | same bounds | `NeverDoubleLoads` | violated |
| `gpu_dead_server` | same bounds | `EnsureOkMeansRunning` | violated |
| `pool` | 3 calls, 3 spawns, 1 stray line, fairness | `TypeOK`, `OneChild`, `IdsDoNotCollide`, `KeepsPromise`, `StopReturns` | hold |
| `training_run` | 2 runs, 3 app sessions, 1 worker spared | `TypeOK`, `DriverSettles`, `UnlistedRunIsDead`, `ScanFindsCorpses`, `NoResurrection` | hold |
| `training_exit` | 2 runs, 2 sessions | `ExitLeavesNoOrphan` | violated |
| `training_orphan` | 2 runs, 2 sessions | `OrphansAreOrphaned` | violated |
| `agent` | 2 turns, 2 rail commands, 2 projects, 2 iterations, 2 calls a turn, 1 switch | `TypeOK`, `RequestsArePaired`, `BleedNeedsTurnInFlight` | hold |
| `agent_bleed` | the same with 1 iteration, 1 call | `SwitchingStartsFresh` | violated |
| `stream` | 6 replies, both line ends, 3 attempts, fairness | `TypeOK`, `AnswerIsWhole`, `ReadsAPrefix`, `NeverEndsSilently`, `EndReachesReader` | hold |
| `project` | 2 tasks, 2 operations, 2 chunks, 2 pairs, 2 seeds, 2 requests, 1 corpus name | `TypeOK`, `EditsSurvive`, `PairsAreHeldOut`, `EvaluatesOnHeldOut`, `BuildIsCurrent`, `CorpusIsWhole`, `MissIsAMiss`, `NameIsListedOrFree` | hold |

What the passing runs show:

* **gpu.** Whatever the order of the handlers, a llama.cpp process that nobody has killed
  is the recorded one or the one the mutex holder is starting (the health timeout, which
  drops a child without waiting, included). The manager names a run exactly while its driver has not
  finished, so the driver's unconditional clear cannot hit another run. The check of
  `start()` does what it can: no server older than the check survives to the work. From the moment
  `ensure_running` has the mutex, over the whole download and its failures, to the moment the new model is
  usable, the record and its process are the ones it found, and nobody has killed that process.
* **gpu_live.** The nesting of the mutexes does not deadlock and no error path keeps one: every handler
  returns, and a cancelled run leaves the manager, but for what the code puts no bound on. A handler may
  stay in a job of its own that goes on printing, and all may wait for ever behind a download whose
  worker has answered and never exits (`orch/worker.rs:196`, inside the inference mutex). A cancelled run may stay
  if its worker never takes the request (`:315`), or has answered or closed its output and never exits
  (`:370`, `:411`), where the cancel signal is no longer looked at.
* **pool.** One child; a late or stray line is never taken for the answer to another
  call; at most one retry; nothing is begun after a call was told "timeout"; `stop` returns.
  `KeepsPromise` is the refinement: `WorkerPool` implements `WorkerCalls`. It also
  showed that a request whose call got "malformed" may be begun afterwards, since
  that path leaves the child alone: `WorkerCalls` says so.
* **training_run.** With the app killed at every step, a patch half written included, and restarted
  twice, no terminal record returns to `running`, the scan leaves no dead run marked so, a driver that
  finishes leaves a terminal record, and a run that a torn record hides has no process left. Each holds up to what
  its statement names. All of them except a worker that a failed kill or a wrong probe has spared: its
  read-merge-replace puts `running` back over the patch, and a crash inside the patch hides it. One worker is spared in the run, and
  the other run's record is unharmed by it. `DriverSettles` also excepts two of the app's
  writers at once, or an end of the app inside a write.
* **agent.** All ends of a turn (refused stream, error event, failing tool, iteration limit, a panic),
  resets, two rail commands at once and overlapping write-backs keep the conversation well paired, in what is stored and in what
  the adapter sends. Results of an earlier project reach the stored conversation only
  through a turn in flight.
* **stream.** However the body is cut, in either style of line ends, a reader that takes it for a whole
  answer has all its text and calls; one that got less has a prefix, block by block (interleaved tool
  blocks included); the channel never closes on a reader that has not been told; and every end of
  the body reaches its reader. `TypeOK` includes the bound on what is waited in a backoff.
* **project.** Of any two operations, interleaved step by step or one after the other, and each broken
  off at any point: a completed edit of the chunks or of `project.toml` stays unless two edits
  overlapped; the two files of pairs stay apart, in the project and in the library; a request imported
  again, without a given seed, holds out the pairs it held out before, so that an adapter trained on the earlier import
  is not evaluated on what it was trained on; after an undisturbed build that embedded chunks, dataset,
  chunks and index agree; a listed corpus is whole; an evaluation calls only failed retrievals misses; a name is
  listed or free unless a create or a delete broke off or an operation outlived the project. The
  exceptions in the statements are what the code does: no lock orders two operations, and nothing
  undoes what one that broke off has left. Two statements are narrower than one might wish, because the code
  promises no more. An import with other sources, another cap or another `eval_split` under the
  stored seed may hold out pairs an adapter was trained on. A build that finds every chunk excluded
  leaves the `rag.jsonl` and the index of the build before it, and marks nothing current.

What the five violated runs show is where the code and what is written about it part:

1. `gpu_vram`. README line 44 and `orch/training/mod.rs:7-9` call the arbitration a hard
   mutex. It is a check: `start_inference_server` never asks the `TrainingManager`, and a bootstrap
   that asked before the run began loads its server after.
2. `gpu_dead_server`. `ensure_running` reports success on the record of a server that
   has died (`orch/inference/mod.rs:213-215, 223`).
3. `training_exit`. The exit handler's comment (`desktop/lib.rs:161-163`) says the cancel path
   kills the worker and patches the record; it awaits only the signal.
4. `training_orphan`. The scan (`orch/training/mod.rs:354-356, 389-401`) is still probing
   when a user starts training, and reports the run of this session as an orphan.
5. `agent_bleed`. `desktop/commands/projects.rs:99-100` says switching starts fresh; a turn in
   flight writes the old project's transcript back (`desktop/commands/agent.rs:85`).

Smaller observations made while modelling, without a run of their own:

* `crates/agent/src/types.rs:126` says of `Stop` that no further events follow. After an error the pump
  may still send usage and a second `Stop`. All readers leave at the first.
* `orch/project/store.rs:124` says that `list()` returns directories with a "parseable project.toml";
  the code asks whether the file exists. `Listed` in `ProjectStore` is the latter.
* `orch/tools/eval.rs:345` counts a retrieval that failed as a miss of recall.
* The description of `filter_chunks` promises an atomic write by a temporary and a rename; two concurrent
  edits share the temporary's name (`orch/tools/chunks.rs:283`), hence `raced` in `EditsSurvive`.
* `orch/tools/ingest.rs:285` calls the retry idempotent; with a generated source id, it makes a
  second source.
* The scan's comment on a run it records as failed is "Process is gone — the run can never finish. Record the
  truth." (`orch/training/mod.rs:408`). `wsl_pid_alive` is false whenever `wsl.exe` fails
  (`orch/training/wsl.rs:52-60`), and the worker may be alive: `ScanFindsDead` with `spared`.
* `build_dataset` takes "only chunks with include=true" (`orch/tools/build_dataset.rs:33`). When all are
  excluded it reports a `rag.jsonl` of no chunks (`:100`), and the file of the build before stays (`:247-250`).
* `delete_project` clears the selection so that no turn works in a missing directory
  (`desktop/commands/projects.rs:76-77`). A `select_project` that had looked the project up before
  selects it afterwards (`:93`); the model has this order of `SelectChecks`, `DeleteDeselects` and `SelectSets`.
* The index keeps the rows of chunks excluded since (`workers/.../rag/index.py:80`).

### Bounds

The bounds are constants: `MaxSpawns`, `MaxRuns`, `MaxSessions`, `MaxSpared`, `MaxNoise`,
`MaxIterations`, `MaxCalls`, `MaxSwitches`, `MaxAttempts`, `MaxOps`, and the sets of tasks, calls, models,
turns, commands, projects, replies, chunks, pairs, seeds, requests and names.

* Two callers and the watchdog are enough for each pair of handlers to interleave with a
  stop from a third party; two models for a switch; two spawns for a server and its replacement; two
  runs for a driver that outlives its run. The theorems of section 4 remove these bounds.
* Three calls: one leaves a stale frame behind, one meets it, one waits in the queue. Three
  spawns: a child, its respawn in the retry, the next caller's. One stray line is placed
  anywhere in the stream. `OneChild`, `IdsDoNotCollide` and `KeepsPromise` are proved without these bounds.
* Three sessions: a crash, a scan of what it left that is itself cut by a crash, and the
  next. Two runs: an old one and one started beside the scan. One spared worker, so that the properties
  still say something of the other run. Removed by the theorems.
* Two turns: one leaves results behind, the other is in flight over a clear. `MAX_TURN_ITERATIONS`
  is 2 instead of the code's, which keeps the limit reachable. One switch suffices since only
  the last matters to the properties. Two rail commands: a selection, and the deletion or selection that overtakes it.
* Six replies: text; text with two tool blocks whose deltas interleave; a tool without input
  between pings; one broken off by an error event; one cut at the token limit inside a tool's input;
  an unknown stop reason. Each is delivered in both line ends and every cut. `BaseDelay` 4 and
  `MaxDelay` 5 make the second delay the capped one; three of the policy's attempts show a first, a
  middle and a last.
* Two operations (`MaxOps`) on a project that may be in any of five stages (not there, created,
  ingested, built with generated pairs, built with downloaded pairs): every pair of
  operations meets at every pair of steps, or follows one another. Three would be needed for an import
  between an export and its project's next edit; the stages stand for a first operation of
  this kind. Two chunks and two pairs let an edit and a build differ, and a split hold one out; two seeds
  split differently, and of two requests one is capped and holds out nothing. What the library holds was exported with pairs or without.

`gpu` and `agent` use symmetry over interchangeable callers, models, turns, projects and rail commands; runs
with liveness properties use none. `project` has no symmetry but `ACTION_CONSTRAINT FirstOfAlike`: of
idle tasks the first begins, and a pair that is synthesized or held out alone is the first, since they are alike. In
`agent` `ACTION_CONSTRAINT TwoCalls` lets a turn make two tool calls, in one stream or in two. `CHECK_DEADLOCK FALSE` is set where the system may
stop because the bounds are used up: all sessions and runs spent (`training_*`), all turns
done with nothing left to switch (`agent*`), the answer read (`stream`), all operations done
(`project`). In `gpu*` and `pool` deadlock is checked.

### Fairness

* `GpuLifecycle!Fairness`: strong fairness of each handler's steps (`HandlerStep`), since tokio's mutexes are
  FIFO (a waiter for whom the mutex is free again and again gets it), and a download's answer and the health
  check have deadlines. Not among these steps are the wait for a download's worker that has answered
  (`op[t] = "answered"`) and a handler's own job, which the code does not bound. Weak fairness of
  `DriverCancelled`, which is enabled only while the driver selects and goes on being polled; strong
  fairness of `DriverClears`, which needs a FIFO mutex; a killed process goes. Nothing is assumed of the write of
  the request (`orch/worker.rs:315`) and of the reaps (`:196`, `:370`, `:411`), and nothing makes a user
  act, a server die or a run end by itself.
* `WorkerPool!Fairness`: each call proceeds, since its deadline bounds each await, and `stop`
  obtains the FIFO mutex. The child promises nothing.
* `ProviderStream!Fairness`: the pump task goes on with what it has and with its end, its reader reads,
  a sleep ends. The network promises nothing: neither that tokens arrive nor that the body ends.
* `TrainingRun`, `AgentSession` and `ProjectFolder` have no fairness, and no liveness properties: the
  code bounds neither the reaping of a worker that has answered nor the silence of a
  provider stream, and a file operation can always break off.

### Assumptions about the environment

* None about `wsl.exe`: every kill may miss and every probe may lie. The runs bound the workers that this
  leaves alive by `MaxSpared`, the theorems hold for any bound.
* Killed processes are gone once they have been waited for.
* A rename is atomic. A file that two handles have written is torn, or as one of them wrote it.
* A body is uniform in its line ends, as the API sends it. One that mixes them would lose events to
  the boundary search (`crates/agent/src/anthropic.rs:336`).
* The front end's busy flag is no guard of the back end and is lost on a reload, so two turns
  at once are allowed.

## 4. What is proved

All theorems hold for every value of the constants that satisfies the module's assumption:
`ManagerAssumption` and `GpuAssumption` ("no task" and "no model" are distinct from the tasks and
models, the tasks are the callers and the watchdog, bounds are naturals), `PoolAssumption` (the stop task
is not a call), `RunAssumption`, `SessionAssumption` ("no project" is not a project),
`StreamAssumption` (a reply is in the order the API documents), `FilesAssumption` and `StoreAssumption` (a missing
file, a torn one and a configuration are told apart; there is a seed) and `DatasetsAssumption` (there is a request, no
request is named as another origin of pairs is, and a seed holds out some of the pairs it draws for it). Added to them, for proofs alone: `CallsAssumption` (a run makes finitely many
calls, which the bound on request ids counts), `SentinelsAssumption` (a missing and a torn file are no
pairs and no set of chunks) and `OpsAssumption` (`MaxOps` is a natural). `StreamAssumption` has every message_delta
after the blocks and the stop reason in the last of them, and only event types the API documents.
Bounds may be any naturals.

* **Manager** (`InferenceManagerProofs`). `NoStrayServer` is not inductive: it must be known that only
  the mutex holder is between lock and unlock (`LockInv`) and that the recorded, held and spawned pids
  agree, with a pid that is handed out being new (`ServerInv`). `IMInv` is their conjunction with the
  types. From it follow `IMTypeCorrect`, `IMNoStrayServer`, `IMOneServer` (at most one process nobody has
  killed). For `FailedSwitchKeepsServer`, `IMInv` also relates the history `found` to the state: while the mutex holder
  resolves a model the record is what it found, and not killed, whatever the other tasks do (`IMFailedSwitch`).
* **GPU** (`GpuLifecycleProofs`). `GpuInv` adds that the training mutex belongs to the caller inside
  `start()` (`TLockInv`), what the record says of each driver, with drivers of unused run numbers absent
  (`RunInv`), and that a caller past the check has no older server alive, as has the run it
  started (`MarkInv`). Theorems: `GpuInvariant`, `TypeCorrect`, `ProgramNoStrayServer`, `RunMutex`,
  `VramCheck`. `UsesManager` proves that each step of `GpuLifecycle` is a step of the
  manager or leaves its variables alone, `Spec => IMSpec`, and through it the manager's
  action property holds of the program (`ProgramFailedSwitch`).
* **Training run** (`TrainingRunProofs`). Kills may miss and probes may lie, any number of times. `RecordInv` is
  inductive because it excepts the runs in `spared`, to which each such failure adds its own run and no
  other. For each other run it says what the worker's progress tells of the record (`WorkerInv`: while the
  worker lives nobody patches, which is why a merge never straddles a patch), what the driver's says of worker, result and record (`DriverInv`), and when a record is
  torn and what the scan knows (`PatchInv`). From it: `DriverLeavesTerminal`, `UnlistedIsDead`, `ScanMissesNone` and,
  for the action property, `TerminalStays`.
* **Worker pool** (`WorkerPoolProofs`). `PoolInv`: the mutex is held by the call at work on the child or by
  the stop that waits for it (`LockInv`), and every id in the pipes was handed out (`IdInv`); with the
  types it makes `OneChild` and `IdsDoNotCollide` inductive (`PoolOneChild`, `PoolIds`). The refinement
  needs where each request is: in at most one of stdin, the handler, stdout, and nowhere
  before it is written or, unless "malformed", in stdin after its call returned (`RequestInv`), and begun
  at most once per attempt (`BegunInv`). `PlaceInv` is their conjunction; `PoolKeepsPromise` maps each step of the
  pool to a `Begin`, `Answer` or `Fail` of `WorkerCalls`, or to a stutter. `PoolTypes`: `TypeOK` bounds the ids, and
  a spawn does not reset them. What bounds them is a count (`CountInv`): every id given out is for another
  attempt (`Written`), and there are two attempts to each of finitely many calls.
* **Agent session** (`AgentSessionProofs`). `SessionInv`: in every phase a turn's history is acceptable, or
  ends, while it dispatches, in an assistant message that asks for just the calls done and still pending (`Asks`);
  what is stored is empty or acceptable. `RequestsPaired` needs in addition that the conversion to the wire
  keeps a paired history paired: `WireIs` says, by induction on the length, that the adapter lifts
  out the system prompt and nothing else. `SessionTypes` needs
  `Budget`, since what bounds the ids of a turn is the iterations it has had. For `BleedsThroughTurns`, `BleedInv` adds that a
  result's call has run (`DatedInv`) and that, as long as no turn has crossed a switch, no result of
  an earlier era is stored or in flight (`FreshInv`). `RailType` is what is known of the rail commands, any number
  of them, wherever each is.
* **Provider stream** (`ProviderStreamProofs`). `ChannelInv`: what the reader has read has no `Stop` in it, and a
  pump that has closed left one; so `StreamNeverEndsSilently`. That an answer is whole is much further from being inductive,
  because nothing in the state says which event of the reply comes next. `StreamInv` says that there is a `c`, the
  number of events taken out so far, with `Taken(c)`: the buffer holds the part of the body that begins
  where event `c` ends (`Holds`, `Arrived`), the open tool blocks are those that started and have not
  stopped, each with the input parts seen so far (`BlocksFact`), the stop reason and the usage are those
  of the first `c` events (`ReasonFact`, `UsageFact`), and what was sent is the text and the calls of the
  first `c` events in order (`SentFact`). Around it: nothing has ended before the pump finishes (`NoEnd`), how
  it ends (`GoodEnd`), what the reader has taken of it (`ReaderInv`) and what it has waited (`RetryInv`). The lemmas
  below it: the first blank line of a buffer that `Holds` is the end of the first event, in both styles
  (`BoundaryIs`; with CR LF the search for LF LF must not find anything first, `NoBareBlankLine`); a chunk and an event keep `Holds`
  (`HoldsMore`, `HoldsLess`); `InOrder` grows by at most one at each position. Theorems: `ReadersReadAPrefix`,
  `AnswersAreWhole` and `StreamTypes`, for any replies, cut anywhere. The last contains the bound on the backoff, by the
  cap on each delay.
* **Project folder** (`ProjectFolderProofs`). `NameInv`: the directory is there without `project.toml` only while a
  create is about to write it or a delete has begun to remove, or after it was deserted. It needs that no swap
  goes over `project.toml` and that what is written to it is a whole configuration (`JobInv`), over any number of operations
  of any kind, each broken off anywhere. All steps but those of create, delete, an update's opening and a break are
  `Quiet`: they leave `project.toml` there and note a directory they make anew. `FolderInvariant` and `NameListedOrFree`. `FolderTypes` is the type
  correctness of the whole folder, by `TypesInv`: which steps, files and data a job of each operation can have
  (`JobFormed`), without which no file's content has a type.
* **Project data** (`ProjectDataProofs`). All of it rests on `Base`: the types; that two jobs which exclude each other's
  files are both noted, `raced` or no longer `alone` (`WritersInv`); and that a handle on a file belongs to a
  job that is at that file (`HandlesInv`). Each operation is restated once, field by field (`Does`), and each of the
  invariants below has a lemma for a task's own step and one for the step of another.
  * `EditsInv`, for `EditsSurviveAlways`: unless two writers met, the file is not there or holds what was promised, torn only
    while `project.toml` is open or after a writer left it (`ChunksFile`, `ConfigFile`), and a writer under way carries
    what it will promise, in a temporary of its own (`ChunksJob`, `ConfigJob`).
  * `Prepared`, for `PairsAreHeldOutAlways`, `BuildIsCurrentAlways` and `CorpusIsWholeAlways`. The properties speak of
    finished work; the invariant has to follow it on its way: what an undisturbed generator, build, export
    or import has put so far is still there (`PairsJob`, `BuildJob`, `ExportJob`, `ImportJob`), its temporary
    is its own (`SwapInv`), and a listed corpus is as good as the project it was exported from (`CorporaInv`).
  * `EvalInv`, for `MissIsAMissAlways`: a pair already scored as missed, its retrieval not failed, has no row in the index.
  * `SeededInv`, for `EvaluatesOnHeldOutAlways`: as long as no seed was given, whatever of a request is in the files or in
    the adapter is the split that the seed in `project.toml` makes of that request (`OneSeed`), and the running generators
    use this seed too (`SeedJob`); a project that is being created, or is gone, has nothing downloaded (`Unmixed`). The seed in `project.toml` is known from `EditsInv`.

The proof that a step preserves an invariant has one step per action; actions that leave the
variables of a conjunct alone are dealt with by a lemma per group. Facts about recursive functions are proved
by induction over a set of naturals (the least number outside it), which needs no theorem with an operator
parameter.

Every invariant and every action property of the passing runs is a theorem. Only model-checked are the liveness
properties (`HandlersReturn`, `CancelClearsRun`, `StopReturns`, `EndReachesReader`), which are beyond the prover since they
need `ENABLED`. The models avoid `SelectSeq` and `FlattenSeq` where a theorem depends on them: both are recursive operators
that the prover cannot expand, and recursive functions say the same.

## 5. What is not modelled

* Contents: prompts, chunk texts, pairs, metrics, scores; formatting, logging, JSON field names. Python's
  extraction, cleaning, deduplication and embedding are data processing inside one call.
* Sandboxed tools, secrets, settings, model tables: no shared state over several steps.
* The front end, whose commands the models issue at any time.
* Duration: a TTL or a deadline is an event that may occur, not a number, except for the
  backoff. A chat stream or an evaluation longer than the idle TTL is therefore a hazard without a property.
* The mirror of training metrics to the UI: progress numbers that no decision depends on.
* The processes of a one-shot `call_worker`: its grandchildren hold pipes that no model of this program
  decides. What it may do to who calls it under a mutex is modelled (`DownloadAnswers`). As the operation of a tool it may break off anywhere (`ProjectFolder`).
* `chat_completion_stream` (`orch/tools/rag.rs:449-545`), which relays the local model's stream and
  returns `Ok` for one that ends without `[DONE]`.
* More than one source in a project, and `remove_dir_all` entry by entry.

## 6. Plan

Done: the GPU, the worker pool with its abstract specification, the run record with torn writes, the
agent session with the wire format, the provider stream with the retry policy, and the project's
files with their store, datasets and corpora; proofs about each of them.

What would add most next:

1. An abstract specification of the pair of splits (replaced as one, or not at all) that `Datasets`
   implements as long as nothing breaks off or races, and its refinement proved from `Prepared`.
2. An abstract specification of a streamed answer (nothing, a prefix, the whole, an end) that `ProviderStream`
   implements: `StreamInv` has what that proof needs.
3. A second source in `Datasets`, for the retry of an ingestion without a source id.
4. An explicit idle clock in `GpuLifecycle` for long streams.
5. `chat_completion_stream` as a second adapter beside `ProviderStream`.
