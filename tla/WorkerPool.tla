---------------------------- MODULE WorkerPool ----------------------------
(***************************************************************************)
(* The long-lived worker pool (crates/orchestrator/src/worker_pool.rs) and *)
(* the Python server at the other end of the pipes (rpc/server.py), for    *)
(* one worker module: the workers of distinct modules share nothing but    *)
(* the map that names them.  One PersistentWorker is a tokio Mutex around  *)
(* an optional child; call() holds it over spawn, write, read, kill and    *)
(* the one retry.  A deadline may pass at every await of call().           *)
(*                                                                         *)
(* A call is one invocation of call() and happens once.  The pipes are     *)
(* those of the child in the slot (or the one stop() took out of it): a    *)
(* spawn makes new ones, and request ids start again from 1.               *)
(***************************************************************************)
EXTENDS Integers, Sequences, FiniteSets

CONSTANTS
  Calls,      \* invocations of WorkerPool::call
  Nobody,     \* the holder of a free mutex
  Stopper,    \* the task in stop() or shutdown()
  MaxSpawns,  \* bound: children ever spawned
  MaxNoise    \* bound: lines a child writes that are no response

ASSUME PoolAssumption ==
  /\ Nobody \notin Calls /\ Stopper \notin Calls /\ Nobody # Stopper
  /\ MaxSpawns \in Nat /\ MaxNoise \in Nat

\* A run makes finitely many calls: the bound on request ids counts them.
ASSUME CallsAssumption == IsFiniteSet(Calls)

VARIABLES
  holder,    \* who holds PersistentWorker.slot
  slot,      \* pid of the LiveChild in it, 0 for None
  leaving,   \* pid of the child stop() is waiting for
  procs,     \* children that run
  spawned,   \* pids handed out so far
  nextId,    \* LiveChild.next_id
  stdin,     \* requests in the child's stdin
  stdout,    \* lines in the child's stdout
  serving,   \* the request the child's handler is running, as a set
  noise,     \* lines written so far that are no response
  pc,        \* where a call is
  attempt,   \* the attempt it is in, 0 or 1
  reqId,     \* the id its request got
  stopper,   \* where stop() is
  outcome, answerOf, begun  \* what the caller sees: see WorkerCalls

childvars == <<procs, spawned, nextId, stdin, stdout, serving, noise>>
callvars == <<pc, attempt, reqId, outcome, answerOf>>
vars == <<holder, slot, leaving, childvars, callvars, stopper, begun>>

Ids == 1..(2 * Cardinality(Calls))
Requests == [id : Ids, call : Calls]
Response(r) == [kind |-> "response", id |-> r.id, call |-> {r.call}]
\* A notification, a frame with no id; and a line that is not JSON, or not even
\* UTF-8.
Notification == [kind |-> "notification", id |-> 0, call |-> {}]
Garbage == [kind |-> "garbage", id |-> 0, call |-> {}]
Lines == {Notification, Garbage} \cup {Response(r) : r \in Requests}

Busy == {"ensure", "write", "read", "dead", "expired"}

TypeOK ==
  /\ holder \in Calls \cup {Nobody, Stopper}
  /\ slot \in 0..MaxSpawns /\ leaving \in 0..MaxSpawns
  /\ procs \subseteq 1..MaxSpawns /\ spawned \in 0..MaxSpawns
  /\ nextId \in Ids \cup {2 * Cardinality(Calls) + 1}
  /\ stdin \in Seq(Requests) /\ stdout \in Seq(Lines)
  /\ serving \subseteq Requests /\ noise \in 0..MaxNoise
  /\ pc \in [Calls -> {"new", "queued", "done"} \cup Busy]
  /\ attempt \in [Calls -> 0..1] /\ reqId \in [Calls -> {0} \cup Ids]
  /\ stopper \in {"idle", "waiting", "stopping"}

Init ==
  /\ holder = Nobody /\ slot = 0 /\ leaving = 0
  /\ procs = {} /\ spawned = 0
  /\ nextId = 1 /\ stdin = <<>> /\ stdout = <<>> /\ serving = {} /\ noise = 0
  /\ pc = [k \in Calls |-> "new"]
  /\ attempt = [k \in Calls |-> 0]
  /\ reqId = [k \in Calls |-> 0]
  /\ stopper = "idle"
  /\ outcome = [k \in Calls |-> "none"]
  /\ answerOf = [k \in Calls |-> {}]
  /\ begun = [k \in Calls |-> 0]

Goto(k, from, to) ==
  /\ pc[k] = from
  /\ pc' = [pc EXCEPT ![k] = to]

\* The call returns o; the guard of the mutex, if it has it, is dropped.
Return(k, from, o) ==
  /\ Goto(k, from, "done")
  /\ outcome' = [outcome EXCEPT ![k] = o]
  /\ holder' = IF holder = k THEN Nobody ELSE holder

---------------------------------------------------------------------------
(* call(): the queue                                                       *)

Call(k) ==
  /\ Goto(k, "new", "queued")
  /\ UNCHANGED <<holder, slot, leaving, childvars, attempt, reqId, outcome, answerOf, stopper, begun>>

\* Timing out in the queue does not touch the worker.
QueueTimeout(k) ==
  /\ Return(k, "queued", "timeout")
  /\ UNCHANGED <<slot, leaving, childvars, attempt, reqId, answerOf, stopper, begun>>

Acquire(k) ==
  /\ holder = Nobody
  /\ Goto(k, "queued", "ensure")
  /\ holder' = k
  /\ UNCHANGED <<slot, leaving, childvars, attempt, reqId, outcome, answerOf, stopper, begun>>

---------------------------------------------------------------------------
(* ensure_live()                                                           *)

\* The slot holds a child, and try_wait() does not find it exited.
EnsureKeeps(k) ==
  /\ slot \in procs
  /\ Goto(k, "ensure", "write")
  /\ UNCHANGED <<holder, slot, leaving, childvars, attempt, reqId, outcome, answerOf, stopper, begun>>

EnsureSpawns(k) ==
  /\ slot \notin procs
  /\ spawned < MaxSpawns
  /\ Goto(k, "ensure", "write")
  /\ slot' = spawned + 1
  /\ spawned' = spawned + 1
  /\ procs' = procs \cup {spawned + 1}
  /\ nextId' = 1 /\ stdin' = <<>> /\ stdout' = <<>> /\ serving' = {}
  /\ UNCHANGED <<holder, leaving, noise, attempt, reqId, outcome, answerOf, stopper, begun>>

EnsureFails(k) ==
  /\ slot \notin procs
  /\ Return(k, "ensure", "spawn")
  /\ slot' = 0
  /\ UNCHANGED <<leaving, childvars, attempt, reqId, answerOf, stopper, begun>>

---------------------------------------------------------------------------
(* roundtrip()                                                             *)

\* A mutated form: every request goes out under the same id.
WriteSameId(k) ==
  /\ slot \in procs
  /\ Goto(k, "write", "read")
  /\ reqId' = [reqId EXCEPT ![k] = nextId]
  /\ stdin' = Append(stdin, [id |-> nextId, call |-> k])
  /\ UNCHANGED <<holder, slot, leaving, procs, spawned, nextId, stdout, serving, noise,
                 attempt, outcome, answerOf, stopper, begun>>

Write(k) ==
  /\ slot \in procs
  /\ Goto(k, "write", "read")
  /\ reqId' = [reqId EXCEPT ![k] = nextId]
  /\ nextId' = nextId + 1
  /\ stdin' = Append(stdin, [id |-> nextId, call |-> k])
  /\ UNCHANGED <<holder, slot, leaving, procs, spawned, stdout, serving, noise,
                 attempt, outcome, answerOf, stopper, begun>>

\* A broken pipe: the child is gone.
WriteFails(k) ==
  /\ slot \notin procs
  /\ Goto(k, "write", "dead")
  /\ UNCHANGED <<holder, slot, leaving, childvars, attempt, reqId, outcome, answerOf, stopper, begun>>

\* A mutated form: the first response that comes is taken for ours.
MatchesAny(k, line) == line.kind = "response"

\* The id of the frame is that of the request in flight.
Matches(k, line) == line.kind = "response" /\ line.id = reqId[k]

SkipLine(k) ==
  /\ pc[k] = "read" /\ stdout # <<>>
  /\ Head(stdout).kind # "garbage" /\ ~Matches(k, Head(stdout))
  /\ stdout' = Tail(stdout)
  /\ UNCHANGED <<holder, slot, leaving, procs, spawned, nextId, stdin, serving, noise,
                 callvars, stopper, begun>>

\* A result or an RPC error: either way the child stays up.
ReadResponse(k) ==
  /\ stdout # <<>> /\ Matches(k, Head(stdout))
  /\ Return(k, "read", "answered")
  /\ answerOf' = [answerOf EXCEPT ![k] = Head(stdout).call]
  /\ stdout' = Tail(stdout)
  /\ UNCHANGED <<slot, leaving, procs, spawned, nextId, stdin, serving, noise,
                 attempt, reqId, stopper, begun>>

\* Text that is not JSON: reported, and the child stays up with the request in its hands.
ReadMalformed(k) ==
  /\ stdout # <<>> /\ Head(stdout).kind = "garbage"
  /\ Return(k, "read", "malformed")
  /\ stdout' = Tail(stdout)
  /\ UNCHANGED <<slot, leaving, procs, spawned, nextId, stdin, serving, noise,
                 attempt, reqId, answerOf, stopper, begun>>

\* What was flushed before the child died is read first; then comes EOF.
ReadEof(k) ==
  /\ stdout = <<>> /\ slot \notin procs
  /\ Goto(k, "read", "dead")
  /\ UNCHANGED <<holder, slot, leaving, childvars, attempt, reqId, outcome, answerOf, stopper, begun>>

\* Bytes that are not UTF-8 are an error of the read, and taken for the death of
\* the child, which may well live: it is killed, and its pipe gone with it.
ReadFails(k) ==
  /\ stdout # <<>> /\ Head(stdout).kind = "garbage"
  /\ Goto(k, "read", "dead")
  /\ UNCHANGED <<holder, slot, leaving, childvars, attempt, reqId, outcome, answerOf, stopper, begun>>

\* A mutated form: the deadline covers the write and not the read.
ExpireInWrite(k) ==
  /\ Goto(k, "write", "expired")
  /\ UNCHANGED <<holder, slot, leaving, childvars, attempt, reqId, outcome, answerOf, stopper, begun>>

Expire(k) ==
  /\ Goto(k, "write", "expired") \/ Goto(k, "read", "expired")
  /\ UNCHANGED <<holder, slot, leaving, childvars, attempt, reqId, outcome, answerOf, stopper, begun>>

---------------------------------------------------------------------------
(* kill_and_clear(), and what call() does next                             *)

\* kill_tree() waits for the child before the slot is free for a respawn.
KillAndClear ==
  /\ procs' = procs \ {slot}
  /\ slot' = 0
  /\ stdin' = <<>> /\ stdout' = <<>> /\ serving' = {}
  /\ UNCHANGED <<spawned, nextId, noise>>

\* A mutated form: every death of the child is retried.
RetryAlways(k) ==
  /\ Goto(k, "dead", "ensure")
  /\ KillAndClear
  /\ attempt' = [attempt EXCEPT ![k] = @ + 1]
  /\ UNCHANGED <<holder, leaving, reqId, outcome, answerOf, stopper, begun>>

Retry(k) ==
  /\ attempt[k] = 0
  /\ Goto(k, "dead", "ensure")
  /\ KillAndClear
  /\ attempt' = [attempt EXCEPT ![k] = 1]
  /\ UNCHANGED <<holder, leaving, reqId, outcome, answerOf, stopper, begun>>

SurfaceDead(k) ==
  /\ attempt[k] = 1
  /\ Return(k, "dead", "dead")
  /\ KillAndClear
  /\ UNCHANGED <<leaving, attempt, reqId, answerOf, stopper, begun>>

KillExpired(k) ==
  /\ Return(k, "expired", "timeout")
  /\ KillAndClear
  /\ UNCHANGED <<leaving, attempt, reqId, answerOf, stopper, begun>>

---------------------------------------------------------------------------
(* stop(), shutdown(): graceful_stop() under the same mutex.  Neither      *)
(* closes the pool.                                                        *)

StopCall ==
  /\ stopper = "idle"
  /\ stopper' = "waiting"
  /\ UNCHANGED <<holder, slot, leaving, childvars, callvars, begun>>

StopNothing ==
  /\ stopper = "waiting" /\ holder = Nobody /\ slot = 0
  /\ stopper' = "idle"
  /\ UNCHANGED <<holder, slot, leaving, childvars, callvars, begun>>

\* A mutated form: the mutex is let go before the child has exited.
StopTakesUnlocked ==
  /\ stopper = "waiting" /\ holder = Nobody /\ slot # 0
  /\ stopper' = "stopping"
  /\ leaving' = slot
  /\ slot' = 0
  /\ UNCHANGED <<holder, childvars, callvars, begun>>

\* The child is taken out of the slot and its stdin closed.
StopTakes ==
  /\ stopper = "waiting" /\ holder = Nobody /\ slot # 0
  /\ stopper' = "stopping"
  /\ holder' = Stopper
  /\ leaving' = slot
  /\ slot' = 0
  /\ UNCHANGED <<childvars, callvars, begun>>

\* It exits within the grace period, or is killed: gone either way.
StopEnds ==
  /\ stopper = "stopping"
  /\ procs' = procs \ {leaving}
  /\ stdin' = <<>> /\ stdout' = <<>> /\ serving' = {}
  /\ leaving' = 0
  /\ holder' = Nobody
  /\ stopper' = "idle"
  /\ UNCHANGED <<slot, spawned, nextId, noise, callvars, begun>>

---------------------------------------------------------------------------
(* The child: one request at a time, in order.                             *)

ChildRuns == slot \in procs \/ leaving \in procs

ChildBegins ==
  /\ ChildRuns /\ serving = {} /\ stdin # <<>>
  /\ serving' = {Head(stdin)}
  /\ stdin' = Tail(stdin)
  /\ begun' = [begun EXCEPT ![Head(stdin).call] = @ + 1]
  /\ UNCHANGED <<holder, slot, leaving, procs, spawned, nextId, stdout, noise, callvars, stopper>>

ChildResponds ==
  /\ ChildRuns
  /\ \E r \in serving : stdout' = Append(stdout, Response(r))
  /\ serving' = {}
  /\ UNCHANGED <<holder, slot, leaving, procs, spawned, nextId, stdin, noise, callvars, stopper, begun>>

ChildNoise ==
  /\ ChildRuns /\ serving # {} /\ noise < MaxNoise
  /\ \E line \in {Notification, Garbage} : stdout' = Append(stdout, line)
  /\ noise' = noise + 1
  /\ UNCHANGED <<holder, slot, leaving, procs, spawned, nextId, stdin, serving, callvars, stopper, begun>>

\* What it wrote stays readable.  A line it had not finished is a ChildNoise
\* followed by this.
ChildDies ==
  /\ ChildRuns
  /\ procs' = procs \ {slot, leaving}
  /\ stdin' = <<>> /\ serving' = {}
  /\ UNCHANGED <<holder, slot, leaving, spawned, nextId, stdout, noise, callvars, stopper, begun>>

---------------------------------------------------------------------------
CallStep(k) ==
  \/ QueueTimeout(k) \/ Acquire(k)
  \/ EnsureKeeps(k) \/ EnsureSpawns(k) \/ EnsureFails(k)
  \/ Write(k) \/ WriteFails(k) \/ Expire(k)
  \/ SkipLine(k) \/ ReadResponse(k) \/ ReadMalformed(k) \/ ReadEof(k) \/ ReadFails(k)
  \/ Retry(k) \/ SurfaceDead(k) \/ KillExpired(k)

StopStep == StopNothing \/ StopTakes \/ StopEnds

Next ==
  \/ \E k \in Calls : Call(k) \/ CallStep(k)
  \/ StopCall \/ StopStep
  \/ ChildBegins \/ ChildResponds \/ ChildNoise \/ ChildDies

\* Deadlines pass, so no await of a call is for ever; the mutex is FIFO, so a
\* waiter that finds it free again and again gets it.  The child promises
\* nothing.
Fairness == (\A k \in Calls : WF_vars(CallStep(k))) /\ SF_vars(StopStep)

Spec == Init /\ [][Next]_vars /\ Fairness

---------------------------------------------------------------------------
(* Properties                                                              *)

\* One child per module: none runs outside the slot, except the one stop() is
\* waiting for while it holds the mutex (so no respawn overlaps it).
OneChild ==
  /\ procs \subseteq {slot, leaving}
  /\ slot # 0 => leaving = 0

\* An id names one request: whatever a worker still holds or has written under
\* the id of the call in flight belongs to that call.
IdsDoNotCollide ==
  \A k \in Calls : pc[k] = "read" =>
    /\ \A r \in serving : r.id = reqId[k] => r.call = k
    /\ \A i \in DOMAIN stdout : Matches(k, stdout[i]) => stdout[i].call = {k}
    /\ \A i \in DOMAIN stdin : stdin[i].id = reqId[k] => stdin[i].call = k

\* A call that timed out on a wedged worker, and a malformed line, never make
\* a later caller see a wrong answer; one retry; nothing begun after a
\* timeout: WorkerCalls, with MaxBegins 2.
Promise == INSTANCE WorkerCalls WITH MaxBegins <- 2
KeepsPromise == Promise!Spec

\* stop() and shutdown() get the mutex of a busy worker in the end.
StopReturns == stopper = "waiting" ~> stopper = "idle"
===========================================================================
