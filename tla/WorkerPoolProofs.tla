-------------------------- MODULE WorkerPoolProofs --------------------------
(* The pool keeps its promise, for any number of calls, spawns and lines.   *)
EXTENDS WorkerPool, SequenceTheorems, FiniteSetTheorems, TLAPS

Items == [id : Nat, call : Calls]
AnyLine == [kind : {"response", "notification", "garbage"}, id : Nat, call : SUBSET Calls]

\* The types of TypeOK, without its bounds on ids.
PoolType ==
  /\ holder \in Calls \cup {Nobody, Stopper}
  /\ slot \in Nat /\ leaving \in Nat /\ spawned \in Nat
  /\ procs \subseteq Nat \ {0}
  /\ nextId \in Nat
  /\ stdin \in Seq(Items) /\ stdout \in Seq(AnyLine) /\ serving \subseteq Items
  /\ pc \in [Calls -> {"new", "queued", "done"} \cup Busy]
  /\ attempt \in [Calls -> 0..1] /\ reqId \in [Calls -> Nat]
  /\ stopper \in {"idle", "waiting", "stopping"}
  /\ outcome \in [Calls -> {"none", "answered"} \cup {"timeout", "spawn", "dead", "malformed"}]
  /\ begun \in [Calls -> Nat]

\* The mutex is held by the call that is at work on the worker, or by the stop
\* that waits for it.
LockInv ==
  /\ \A k \in Calls : pc[k] \in Busy <=> holder = k
  /\ stopper = "stopping" <=> holder = Stopper
  /\ leaving # 0 => stopper = "stopping"
  /\ stopper = "stopping" => slot = 0

\* What the child still has, or has written, went out under ids handed out.
IdInv ==
  /\ \A r \in serving : r.id < nextId
  /\ \A i \in DOMAIN stdout : stdout[i].kind = "response" => stdout[i].id < nextId
  /\ \A i \in DOMAIN stdin : stdin[i].id < nextId

\* Where k's request is.
InStdin(k) == \E i \in DOMAIN stdin : stdin[i].call = k
InServing(k) == \E r \in serving : r.call = k
InStdout(k) == \E i \in DOMAIN stdout : stdout[i].kind = "response" /\ k \in stdout[i].call

Once(k) == \A i, j \in DOMAIN stdin : stdin[i].call = k /\ stdin[j].call = k => i = j

\* The request is in one place at most, nowhere before it is written, and not
\* to be begun any more when its call has returned anything but "malformed".
RequestInv(k) ==
  /\ pc[k] \in {"new", "queued", "ensure", "write"} => ~(InStdin(k) \/ InServing(k) \/ InStdout(k))
  /\ InStdin(k) => ~InServing(k) /\ ~InStdout(k)
  /\ InServing(k) => ~InStdout(k)
  /\ Once(k)
  /\ InStdin(k) => pc[k] \in {"read", "dead", "expired"} \/ outcome[k] = "malformed"

\* It was begun once per attempt at most.
BegunInv(k) ==
  /\ begun[k] <= attempt[k] + 1
  /\ pc[k] \in {"new", "queued", "ensure", "write"} \/ InStdin(k) => begun[k] <= attempt[k]
  /\ InServing(k) \/ InStdout(k) => begun[k] > 0
  /\ pc[k] \in {"new", "queued"} => attempt[k] = 0
  /\ pc[k] # "done" => outcome[k] = "none"

PoolInv == PoolType /\ LockInv /\ OneChild /\ IdInv /\ IdsDoNotCollide
PlaceInv == \A k \in Calls : RequestInv(k) /\ BegunInv(k)

---------------------------------------------------------------------------
(* Sequences, position by position                                         *)

LEMMA Appended ==
  ASSUME NEW S, NEW s \in Seq(S), NEW e \in S
  PROVE /\ Append(s, e) \in Seq(S) /\ Len(s) \in Nat
        /\ DOMAIN s = 1..Len(s) /\ DOMAIN Append(s, e) = 1..(Len(s) + 1)
        /\ \A i \in 1..Len(s) : s[i] \in S /\ Append(s, e)[i] = s[i]
        /\ Append(s, e)[Len(s) + 1] = e
BY AppendProperties, LenProperties, ElementOfSeq

LEMMA Taken ==
  ASSUME NEW S, NEW s \in Seq(S), s # <<>>
  PROVE /\ Tail(s) \in Seq(S) /\ Len(s) \in Nat \ {0}
        /\ DOMAIN s = 1..Len(s) /\ DOMAIN Tail(s) = 1..(Len(s) - 1)
        /\ \A i \in 1..(Len(s) - 1) : Tail(s)[i] = s[i + 1]
        /\ Head(s) = s[1] /\ s[1] \in S
<1>1. /\ Tail(s) \in Seq(S) /\ Len(Tail(s)) = Len(s) - 1 /\ Len(s) \in Nat \ {0}
      /\ \A i \in 1..(Len(s) - 1) : Tail(s)[i] = s[i + 1]
  BY HeadTailProperties, EmptySeq, LenProperties
<1>2. DOMAIN Tail(s) = 1..(Len(s) - 1) /\ DOMAIN s = 1..Len(s)
  BY <1>1, LenProperties
<1>3. Head(s) = s[1] /\ s[1] \in S
  BY <1>1, ElementOfSeq
<1> QED BY <1>1, <1>2, <1>3

LEMMA Nothing == \A S : <<>> \in Seq(S) /\ DOMAIN <<>> = {}
OBVIOUS

---------------------------------------------------------------------------
(* The invariant, conjunct by conjunct                                     *)

\* The steps of a call that move no line and no child.
Quiet(k) ==
  Call(k) \/ QueueTimeout(k) \/ Acquire(k) \/ EnsureKeeps(k) \/ WriteFails(k) \/ ReadEof(k) \/ ReadFails(k) \/ Expire(k)

LEMMA PoolSteps ==
  ASSUME [Next]_vars
  PROVE \/ \E k \in Calls : \/ Quiet(k) \/ EnsureSpawns(k) \/ EnsureFails(k) \/ Write(k) \/ SkipLine(k)
                           \/ ReadResponse(k) \/ ReadMalformed(k) \/ Retry(k) \/ SurfaceDead(k) \/ KillExpired(k)
        \/ StopCall \/ StopNothing \/ StopTakes \/ StopEnds
        \/ ChildBegins \/ ChildResponds \/ ChildNoise \/ ChildDies
        \/ UNCHANGED vars
BY DEF Next, CallStep, StopStep, Quiet

LEMMA TypeStep == ASSUME PoolType, [Next]_vars PROVE PoolType'
<1> USE PoolAssumption DEF PoolType, Busy, callvars, childvars
<1>1. ASSUME NEW k \in Calls, Quiet(k) PROVE PoolType'
  BY <1>1 DEF Quiet, Call, QueueTimeout, Acquire, EnsureKeeps, WriteFails, ReadEof, ReadFails, Expire, Return, Goto
<1>2. ASSUME NEW k \in Calls, EnsureSpawns(k) PROVE PoolType'
  BY <1>2, Nothing DEF EnsureSpawns, Goto
<1>3. ASSUME NEW k \in Calls, EnsureFails(k) PROVE PoolType'
  BY <1>3 DEF EnsureFails, Return, Goto
<1>4. ASSUME NEW k \in Calls, Write(k) PROVE PoolType'
  <2>1. [id |-> nextId, call |-> k] \in Items BY DEF Items
  <2>2. stdin' \in Seq(Items) BY <1>4, <2>1, Appended DEF Write
  <2> QED BY <1>4, <2>2 DEF Write, Goto
<1>5. ASSUME NEW k \in Calls, SkipLine(k) \/ ReadResponse(k) \/ ReadMalformed(k) PROVE PoolType'
  <2>0. stdout # <<>> /\ stdout' = Tail(stdout) BY <1>5 DEF SkipLine, ReadResponse, ReadMalformed
  <2>1. stdout' \in Seq(AnyLine) BY <2>0, Taken
  <2>2. CASE SkipLine(k) BY <2>1, <2>2 DEF SkipLine
  <2>3. CASE ReadResponse(k) BY <2>1, <2>3 DEF ReadResponse, Return, Goto
  <2>4. CASE ReadMalformed(k) BY <2>1, <2>4 DEF ReadMalformed, Return, Goto
  <2> QED BY <1>5, <2>2, <2>3, <2>4
<1>6. ASSUME NEW k \in Calls, Retry(k) \/ SurfaceDead(k) \/ KillExpired(k) PROVE PoolType'
  <2>1. <<>> \in Seq(Items) /\ <<>> \in Seq(AnyLine) BY Nothing
  <2> USE DEF KillAndClear, Goto, Return
  <2>2. CASE Retry(k) BY <2>1, <2>2 DEF Retry
  <2>3. CASE SurfaceDead(k) BY <2>1, <2>3 DEF SurfaceDead
  <2>4. CASE KillExpired(k) BY <2>1, <2>4 DEF KillExpired
  <2> QED BY <1>6, <2>2, <2>3, <2>4
<1>7. ASSUME StopCall \/ StopNothing \/ StopTakes \/ StopEnds PROVE PoolType'
  <2>1. <<>> \in Seq(Items) /\ <<>> \in Seq(AnyLine) BY Nothing
  <2>2. CASE StopCall \/ StopNothing BY <2>2 DEF StopCall, StopNothing
  <2>3. CASE StopTakes BY <2>3 DEF StopTakes
  <2>4. CASE StopEnds BY <2>1, <2>4 DEF StopEnds
  <2> QED BY <1>7, <2>2, <2>3, <2>4
<1>8. ASSUME ChildBegins PROVE PoolType'
  <2>1. stdin' \in Seq(Items) /\ Head(stdin) \in Items
    BY <1>8, Taken DEF ChildBegins
  <2>2. begun' \in [Calls -> Nat]
    BY <1>8, <2>1 DEF ChildBegins, Items
  <2> QED BY <1>8, <2>1, <2>2 DEF ChildBegins
<1>9. ASSUME ChildResponds PROVE PoolType'
  <2>1. PICK r \in serving : stdout' = Append(stdout, Response(r))
    BY <1>9 DEF ChildResponds
  <2>2. Response(r) \in AnyLine BY DEF Response, AnyLine, Items
  <2>3. stdout' \in Seq(AnyLine) BY <2>1, <2>2, Appended
  <2> QED BY <1>9, <2>3 DEF ChildResponds
<1>10. ASSUME ChildNoise PROVE PoolType'
  <2>1. PICK line \in {Notification, Garbage} : stdout' = Append(stdout, line)
    BY <1>10 DEF ChildNoise
  <2>2. line \in AnyLine BY DEF Notification, Garbage, AnyLine
  <2>3. stdout' \in Seq(AnyLine) BY <2>1, <2>2, Appended
  <2> QED BY <1>10, <2>3 DEF ChildNoise
<1>11. ASSUME ChildDies PROVE PoolType'
  BY <1>11, Nothing DEF ChildDies
<1>12. ASSUME UNCHANGED vars PROVE PoolType'
  BY <1>12 DEF vars
<1> QED BY PoolSteps, <1>1, <1>2, <1>3, <1>4, <1>5, <1>6, <1>7, <1>8, <1>9, <1>10, <1>11, <1>12

LEMMA LockStep == ASSUME PoolInv, [Next]_vars PROVE LockInv' /\ OneChild'
<1> USE PoolAssumption DEF PoolInv, PoolType, LockInv, OneChild, Busy, callvars, childvars, Goto
<1>1. ASSUME NEW k \in Calls, Quiet(k) PROVE LockInv' /\ OneChild'
  <2>1. UNCHANGED <<slot, leaving, procs, stopper>>
    BY <1>1 DEF Quiet, Call, QueueTimeout, Acquire, EnsureKeeps, WriteFails, ReadEof, ReadFails, Expire
  <2>2. CASE Call(k) \/ EnsureKeeps(k) \/ WriteFails(k) \/ ReadEof(k) \/ ReadFails(k) \/ Expire(k)
    BY <2>1, <2>2 DEF Call, EnsureKeeps, WriteFails, ReadEof, ReadFails, Expire
  <2>3. CASE QueueTimeout(k) BY <2>1, <2>3 DEF QueueTimeout, Return
  <2>4. CASE Acquire(k) BY <2>1, <2>4 DEF Acquire
  <2> QED BY <1>1, <2>2, <2>3, <2>4 DEF Quiet
<1>2. ASSUME NEW k \in Calls, EnsureSpawns(k) PROVE LockInv' /\ OneChild'
  BY <1>2 DEF EnsureSpawns
<1>3. ASSUME NEW k \in Calls, EnsureFails(k) PROVE LockInv' /\ OneChild'
  BY <1>3 DEF EnsureFails, Return
<1>4. ASSUME NEW k \in Calls, Write(k) PROVE LockInv' /\ OneChild'
  BY <1>4 DEF Write
<1>5. ASSUME NEW k \in Calls, SkipLine(k) PROVE LockInv' /\ OneChild'
  BY <1>5 DEF SkipLine
<1>6. ASSUME NEW k \in Calls, ReadResponse(k) \/ ReadMalformed(k) PROVE LockInv' /\ OneChild'
  <2>1. CASE ReadResponse(k) BY <2>1 DEF ReadResponse, Return
  <2>2. CASE ReadMalformed(k) BY <2>2 DEF ReadMalformed, Return
  <2> QED BY <1>6, <2>1, <2>2
<1>7. ASSUME NEW k \in Calls, Retry(k) \/ SurfaceDead(k) \/ KillExpired(k) PROVE LockInv' /\ OneChild'
  <2>1. CASE Retry(k) BY <2>1 DEF Retry, KillAndClear
  <2>2. CASE SurfaceDead(k) BY <2>2 DEF SurfaceDead, KillAndClear, Return
  <2>3. CASE KillExpired(k) BY <2>3 DEF KillExpired, KillAndClear, Return
  <2> QED BY <1>7, <2>1, <2>2, <2>3
<1>8. CASE StopCall \/ StopNothing BY <1>8 DEF StopCall, StopNothing
<1>9. CASE StopTakes BY <1>9 DEF StopTakes
<1>10. CASE StopEnds BY <1>10 DEF StopEnds
<1>11. CASE ChildBegins \/ ChildResponds \/ ChildNoise BY <1>11 DEF ChildBegins, ChildResponds, ChildNoise
<1>12. CASE ChildDies BY <1>12 DEF ChildDies
<1>13. CASE UNCHANGED vars BY <1>13 DEF vars
<1> QED BY PoolSteps, <1>1, <1>2, <1>3, <1>4, <1>5, <1>6, <1>7, <1>8, <1>9, <1>10, <1>11, <1>12, <1>13

\* Only the holder of the mutex reads, so a write meets no other reader.
LEMMA IdStep == ASSUME PoolInv, [Next]_vars PROVE IdInv' /\ IdsDoNotCollide'
<1> USE DEF IdInv, IdsDoNotCollide, Matches
<1>0. PoolType /\ LockInv /\ IdInv /\ IdsDoNotCollide BY DEF PoolInv
<1>1. ASSUME NEW k \in Calls, Quiet(k) \/ EnsureFails(k) PROVE IdInv' /\ IdsDoNotCollide'
  <2>1. UNCHANGED <<nextId, stdin, stdout, serving, reqId>>
    BY <1>1 DEF Quiet, Call, QueueTimeout, Acquire, EnsureKeeps, WriteFails, ReadEof, ReadFails, Expire,
                EnsureFails, childvars
  <2>2. \A q \in Calls : pc'[q] = "read" => pc[q] = "read"
    <3> USE <1>0 DEF PoolType, Goto, Return
    <3>1. CASE Call(k) BY <3>1 DEF Call
    <3>2. CASE QueueTimeout(k) BY <3>2 DEF QueueTimeout
    <3>3. CASE Acquire(k) BY <3>3 DEF Acquire
    <3>4. CASE EnsureKeeps(k) BY <3>4 DEF EnsureKeeps
    <3>5. CASE WriteFails(k) BY <3>5 DEF WriteFails
    <3>6. CASE ReadEof(k) \/ ReadFails(k) BY <3>6 DEF ReadEof, ReadFails
    <3>7. CASE Expire(k) BY <3>7 DEF Expire
    <3>8. CASE EnsureFails(k) BY <3>8 DEF EnsureFails
    <3> QED BY ONLY <1>1, <3>1, <3>2, <3>3, <3>4, <3>5, <3>6, <3>7, <3>8 DEF Quiet
  <2> QED BY <1>0, <2>1, <2>2
<1>2. ASSUME NEW k \in Calls, EnsureSpawns(k) \/ Retry(k) \/ SurfaceDead(k) \/ KillExpired(k)
      PROVE IdInv' /\ IdsDoNotCollide'
  <2>1. stdin' = <<>> /\ stdout' = <<>> /\ serving' = {}
    BY <1>2 DEF EnsureSpawns, Retry, SurfaceDead, KillExpired, KillAndClear
  <2> QED BY <2>1, Nothing
<1>3. ASSUME NEW k \in Calls, Write(k) PROVE IdInv' /\ IdsDoNotCollide'
  <2> DEFINE item == [id |-> nextId, call |-> k]
  <2>1. /\ stdin' = Append(stdin, item) /\ UNCHANGED <<stdout, serving>>
        /\ nextId' = nextId + 1 /\ nextId \in Nat
        /\ reqId' = [reqId EXCEPT ![k] = nextId] /\ reqId'[k] = nextId
        /\ pc[k] = "write"
    BY <1>0, <1>3 DEF Write, Goto, PoolType
  <2>2. item \in Items BY <2>1 DEF Items
  <2>3. /\ Len(stdin) \in Nat /\ DOMAIN stdin = 1..Len(stdin) /\ DOMAIN stdin' = 1..(Len(stdin) + 1)
        /\ \A i \in 1..Len(stdin) : stdin[i] \in Items /\ stdin'[i] = stdin[i]
        /\ stdin'[Len(stdin) + 1] = item
    BY <1>0, <2>1, <2>2, Appended DEF PoolType
  <2>4. \A r \in serving : r \in Items /\ r.id \in Nat BY <1>0 DEF PoolType, Items
  <2>5. \A i \in DOMAIN stdout : stdout[i].id \in Nat
    <3>1. stdout \in Seq(AnyLine) BY <1>0 DEF PoolType
    <3>2. DOMAIN stdout = 1..Len(stdout) BY <3>1, LenProperties
    <3>3. \A i \in 1..Len(stdout) : stdout[i] \in AnyLine BY <3>1, ElementOfSeq
    <3> QED BY <3>2, <3>3 DEF AnyLine
  <2>6. \A q \in Calls : pc'[q] = "read" => q = k
    BY <1>0, <1>3 DEF Write, Goto, PoolType, LockInv, Busy
  <2>7. IdInv' BY <1>0, <2>1, <2>3, <2>4, <2>5 DEF Items
  <2>8. \A r \in serving : r.id # nextId BY <1>0, <2>1, <2>4
  <2>9. \A i \in DOMAIN stdout : stdout[i].kind = "response" => stdout[i].id # nextId BY <1>0, <2>1, <2>5
  <2>10. \A i \in DOMAIN stdin' : stdin'[i].id = nextId => stdin'[i].call = k
    BY <1>0, <2>1, <2>3 DEF Items
  <2> QED BY <2>1, <2>6, <2>7, <2>8, <2>9, <2>10
<1>4. ASSUME NEW k \in Calls, SkipLine(k) \/ ReadResponse(k) \/ ReadMalformed(k) PROVE IdInv' /\ IdsDoNotCollide'
  <2>1. stdout # <<>> /\ stdout' = Tail(stdout) /\ UNCHANGED <<nextId, stdin, serving, reqId>>
    BY <1>4 DEF SkipLine, ReadResponse, ReadMalformed, callvars
  <2>2. \A q \in Calls : pc'[q] = "read" => pc[q] = "read"
    <3> USE <1>0 DEF PoolType, Goto, Return, callvars
    <3>1. CASE SkipLine(k) BY <3>1 DEF SkipLine
    <3>2. CASE ReadResponse(k) BY <3>2 DEF ReadResponse
    <3>3. CASE ReadMalformed(k) BY <3>3 DEF ReadMalformed
    <3> QED BY <1>4, <3>1, <3>2, <3>3
  <2>3. \A i \in DOMAIN stdout' : i + 1 \in DOMAIN stdout /\ stdout'[i] = stdout[i + 1]
    <3>1. /\ Len(stdout) \in Nat \ {0} /\ DOMAIN stdout = 1..Len(stdout) /\ DOMAIN stdout' = 1..(Len(stdout) - 1)
          /\ \A i \in 1..(Len(stdout) - 1) : stdout'[i] = stdout[i + 1]
      BY <1>0, <2>1, Taken DEF PoolType
    <3> QED BY <3>1
  <2> QED BY <1>0, <2>1, <2>2, <2>3
<1>5. ASSUME StopCall \/ StopNothing \/ StopTakes \/ UNCHANGED vars PROVE IdInv' /\ IdsDoNotCollide'
  <2>1. UNCHANGED <<nextId, stdin, stdout, serving, reqId, pc>>
    BY <1>5 DEF StopCall, StopNothing, StopTakes, vars, callvars, childvars
  <2> QED BY <1>0, <2>1
<1>6. CASE StopEnds
  <2>1. stdin' = <<>> /\ stdout' = <<>> /\ serving' = {} BY <1>6 DEF StopEnds
  <2> QED BY <2>1, Nothing
<1>7. CASE ChildBegins
  <2>1. /\ stdin # <<>> /\ stdin' = Tail(stdin) /\ serving' = {Head(stdin)}
        /\ UNCHANGED <<nextId, stdout, reqId, pc>>
    BY <1>7 DEF ChildBegins, callvars
  <2>2. /\ \A i \in DOMAIN stdin' : i + 1 \in DOMAIN stdin /\ stdin'[i] = stdin[i + 1]
        /\ 1 \in DOMAIN stdin /\ Head(stdin) = stdin[1]
    <3>1. /\ Len(stdin) \in Nat \ {0} /\ DOMAIN stdin = 1..Len(stdin) /\ DOMAIN stdin' = 1..(Len(stdin) - 1)
          /\ \A i \in 1..(Len(stdin) - 1) : stdin'[i] = stdin[i + 1]
          /\ Head(stdin) = stdin[1]
      BY <1>0, <2>1, Taken DEF PoolType
    <3> QED BY <3>1
  <2> QED BY <1>0, <2>1, <2>2
<1>8. CASE ChildResponds
  <2>1. PICK r \in serving : stdout' = Append(stdout, Response(r))
    BY <1>8 DEF ChildResponds
  <2>2. serving' = {} /\ UNCHANGED <<nextId, stdin, reqId, pc>> BY <1>8 DEF ChildResponds, callvars
  <2>3. r \in Items /\ Response(r) \in AnyLine BY <1>0 DEF PoolType, Response, AnyLine, Items
  <2>4. /\ Len(stdout) \in Nat /\ DOMAIN stdout = 1..Len(stdout) /\ DOMAIN stdout' = 1..(Len(stdout) + 1)
        /\ \A i \in 1..Len(stdout) : stdout'[i] = stdout[i]
        /\ stdout'[Len(stdout) + 1] = Response(r)
    BY <1>0, <2>1, <2>3, Appended DEF PoolType
  <2>5. Response(r).id = r.id /\ Response(r).call = {r.call} BY DEF Response
  <2> QED BY <1>0, <2>2, <2>4, <2>5
<1>9. CASE ChildNoise
  <2>1. PICK line \in {Notification, Garbage} : stdout' = Append(stdout, line)
    BY <1>9 DEF ChildNoise
  <2>2. UNCHANGED <<nextId, stdin, serving, reqId, pc>> BY <1>9 DEF ChildNoise, callvars
  <2>3. line \in AnyLine /\ line.kind # "response" BY DEF Notification, Garbage, AnyLine
  <2>4. /\ Len(stdout) \in Nat /\ DOMAIN stdout = 1..Len(stdout) /\ DOMAIN stdout' = 1..(Len(stdout) + 1)
        /\ \A i \in 1..Len(stdout) : stdout'[i] = stdout[i]
        /\ stdout'[Len(stdout) + 1] = line
    BY <1>0, <2>1, <2>3, Appended DEF PoolType
  <2> QED BY <1>0, <2>2, <2>3, <2>4
<1>10. CASE ChildDies
  <2>1. stdin' = <<>> /\ serving' = {} /\ UNCHANGED <<nextId, stdout, reqId, pc>>
    BY <1>10 DEF ChildDies, callvars
  <2> QED BY <1>0, <2>1, Nothing
<1> QED BY PoolSteps, <1>1, <1>2, <1>3, <1>4, <1>5, <1>6, <1>7, <1>8, <1>9, <1>10

LEMMA PoolInit == Init => PoolInv
<1> SUFFICES ASSUME Init PROVE PoolInv OBVIOUS
<1>1. PoolType BY Nothing, PoolAssumption DEF Init, PoolType, Busy
<1>2. LockInv /\ OneChild BY PoolAssumption DEF Init, LockInv, OneChild, Busy
<1>3. IdInv /\ IdsDoNotCollide BY Nothing DEF Init, IdInv, IdsDoNotCollide
<1> QED BY <1>1, <1>2, <1>3 DEF PoolInv

LEMMA PoolStep == PoolInv /\ [Next]_vars => PoolInv'
<1> SUFFICES ASSUME PoolInv, [Next]_vars PROVE PoolInv' OBVIOUS
<1> QED BY TypeStep, LockStep, IdStep DEF PoolInv

\* Whatever the calls, the stops and the child do, the mutex, the child and
\* the ids stay in step (call(), ensure_live(), graceful_stop()).
THEOREM PoolInvariant == Spec => []PoolInv
BY PoolInit, PoolStep, PTL DEF Spec

\* A respawn never overlaps the child it replaces: kill_and_clear() waits for
\* the child, and graceful_stop() keeps the mutex until its child is gone.
THEOREM PoolOneChild == Spec => []OneChild
BY PoolInvariant, PTL DEF PoolInv

\* next_id makes an id name one request for as long as the child lives.
THEOREM PoolIds == Spec => []IdsDoNotCollide
BY PoolInvariant, PTL DEF PoolInv

---------------------------------------------------------------------------
(* The types, with the bound on the ids                                    *)

\* The request of this attempt may have been written.
Tried(k, a) ==
  \/ attempt[k] > a
  \/ attempt[k] = a /\ pc[k] \in {"read", "dead", "expired", "done"}
Written == {w \in Calls \X (0..1) : Tried(w[1], w[2])}

\* An id given out since the last spawn is for an attempt of its own.
CountInv == nextId \in Nat \ {0} /\ nextId <= Cardinality(Written) + 1

\* Every call has two attempts.
LEMMA Attempts ==
  /\ IsFiniteSet(Calls \X (0..1)) /\ Cardinality(Calls) \in Nat
  /\ Cardinality(Calls \X (0..1)) = 2 * Cardinality(Calls)
<1>1. IsFiniteSet(Calls) BY CallsAssumption
<1>2. IsFiniteSet(0..1) /\ Cardinality(0..1) = 2
  <2>1. 0 \in Int /\ 1 \in Int OBVIOUS
  <2>2. IsFiniteSet(0..1) /\ Cardinality(0..1) = IF 0 > 1 THEN 0 ELSE 1 - 0 + 1
    BY <2>1, FS_Interval, Zenon
  <2>3. (IF 0 > 1 THEN 0 ELSE 1 - 0 + 1) = 2 OBVIOUS
  <2>4. Cardinality(0..1) = 2 BY <2>2, <2>3
  <2> QED BY <2>2, <2>4, Zenon
<1>3. /\ IsFiniteSet(Calls \X (0..1)) /\ Cardinality(Calls) \in Nat
      /\ Cardinality(Calls \X (0..1)) = Cardinality(Calls) * 2
  BY <1>1, <1>2, FS_Product, FS_CardinalityType
<1> QED BY <1>3

LEMMA WrittenFinite ==
  /\ Cardinality(Calls) \in Nat
  /\ IsFiniteSet(Written) /\ Cardinality(Written) \in Nat
  /\ Cardinality(Written) <= 2 * Cardinality(Calls)
<1>3. Written \subseteq Calls \X (0..1) BY DEF Written
<1>4. IsFiniteSet(Written) /\ Cardinality(Written) <= 2 * Cardinality(Calls)
  BY <1>3, Attempts, FS_Subset
<1> QED BY <1>4, Attempts, FS_CardinalityType

\* No call takes an attempt back.
LEMMA TriedKept ==
  ASSUME PoolType, [Next]_vars, NEW q \in Calls, NEW a \in 0..1, Tried(q, a)
  PROVE Tried(q, a)'
<1> USE DEF PoolType, Tried, Goto, Return, callvars
<1>1. ASSUME NEW k \in Calls, Quiet(k) \/ EnsureFails(k) PROVE Tried(q, a)'
  <2>1. CASE Call(k) BY <2>1 DEF Call
  <2>2. CASE QueueTimeout(k) BY <2>2 DEF QueueTimeout
  <2>3. CASE Acquire(k) BY <2>3 DEF Acquire
  <2>4. CASE EnsureKeeps(k) BY <2>4 DEF EnsureKeeps
  <2>5. CASE WriteFails(k) BY <2>5 DEF WriteFails
  <2>6. CASE ReadEof(k) \/ ReadFails(k) BY <2>6 DEF ReadEof, ReadFails
  <2>7. CASE Expire(k) BY <2>7 DEF Expire
  <2>8. CASE EnsureFails(k) BY <2>8 DEF EnsureFails
  <2> QED BY ONLY <1>1, <2>1, <2>2, <2>3, <2>4, <2>5, <2>6, <2>7, <2>8 DEF Quiet
<1>2. ASSUME NEW k \in Calls, EnsureSpawns(k) \/ Write(k) \/ SkipLine(k) PROVE Tried(q, a)'
  BY <1>2 DEF EnsureSpawns, Write, SkipLine
<1>3. ASSUME NEW k \in Calls, ReadResponse(k) \/ ReadMalformed(k) PROVE Tried(q, a)'
  BY <1>3 DEF ReadResponse, ReadMalformed
<1>4. ASSUME NEW k \in Calls, Retry(k) \/ SurfaceDead(k) \/ KillExpired(k) PROVE Tried(q, a)'
  <2>1. CASE Retry(k) BY <2>1 DEF Retry
  <2>2. CASE SurfaceDead(k) BY <2>2 DEF SurfaceDead
  <2>3. CASE KillExpired(k) BY <2>3 DEF KillExpired
  <2> QED BY <1>4, <2>1, <2>2, <2>3
<1>5. CASE StopCall \/ StopNothing \/ StopTakes \/ StopEnds BY <1>5 DEF StopCall, StopNothing, StopTakes, StopEnds
<1>6. CASE ChildBegins \/ ChildResponds \/ ChildNoise \/ ChildDies
  BY <1>6 DEF ChildBegins, ChildResponds, ChildNoise, ChildDies
<1>7. CASE UNCHANGED vars BY <1>7 DEF vars
<1> QED BY PoolSteps, <1>1, <1>2, <1>3, <1>4, <1>5, <1>6, <1>7

LEMMA WrittenGrows ==
  ASSUME PoolType, [Next]_vars
  PROVE /\ Written \subseteq Written'
        /\ IsFiniteSet(Written') /\ Cardinality(Written') \in Nat
        /\ Cardinality(Written') <= 2 * Cardinality(Calls)
        /\ Cardinality(Written) <= Cardinality(Written')
<1>1. Written \subseteq Written'
  BY TriedKept DEF Written
<1>2. (/\ Cardinality(Calls) \in Nat
       /\ IsFiniteSet(Written) /\ Cardinality(Written) \in Nat
       /\ Cardinality(Written) <= 2 * Cardinality(Calls))'
  BY WrittenFinite, PTL
<1> QED BY <1>1, <1>2, FS_Subset

LEMMA CountStep == ASSUME PoolType, CountInv, [Next]_vars PROVE CountInv'
<1>0. /\ Cardinality(Written) \in Nat /\ IsFiniteSet(Written)
      /\ Written \subseteq Written' /\ Cardinality(Written') \in Nat /\ IsFiniteSet(Written')
      /\ Cardinality(Written) <= Cardinality(Written')
  BY WrittenFinite, WrittenGrows
<1>1. CASE nextId' = nextId \/ nextId' = 1
  BY <1>0, <1>1 DEF CountInv
<1>2. ASSUME NEW k \in Calls, Write(k) PROVE CountInv'
  <2> DEFINE w == <<k, attempt[k]>>
  <2>1. /\ pc[k] = "write" /\ pc'[k] = "read" /\ attempt' = attempt /\ attempt[k] \in 0..1
        /\ nextId' = nextId + 1
    BY <1>2 DEF Write, Goto, PoolType
  <2>2. w \in Written' /\ w \notin Written
    BY <2>1 DEF Written, Tried
  <2>3. Cardinality(Written \cup {w}) = Cardinality(Written) + 1
    BY <1>0, <2>2, FS_AddElement
  <2>4. Cardinality(Written \cup {w}) <= Cardinality(Written')
    BY <1>0, <2>2, FS_Subset
  <2> HIDE DEF w
  <2> QED BY <1>0, <2>1, <2>3, <2>4 DEF CountInv
<1>3. nextId' = nextId \/ nextId' = 1 \/ \E k \in Calls : Write(k)
  <2> USE DEF childvars
  <2>1. ASSUME NEW k \in Calls, Quiet(k) \/ EnsureFails(k) PROVE nextId' = nextId
    BY <2>1 DEF Quiet, Call, QueueTimeout, Acquire, EnsureKeeps, WriteFails, ReadEof, ReadFails, Expire, EnsureFails
  <2>2. ASSUME NEW k \in Calls, EnsureSpawns(k) PROVE nextId' = 1 BY <2>2 DEF EnsureSpawns
  <2>3. ASSUME NEW k \in Calls, SkipLine(k) \/ ReadResponse(k) \/ ReadMalformed(k) PROVE nextId' = nextId
    BY <2>3 DEF SkipLine, ReadResponse, ReadMalformed
  <2>4. ASSUME NEW k \in Calls, Retry(k) \/ SurfaceDead(k) \/ KillExpired(k) PROVE nextId' = nextId
    BY <2>4 DEF Retry, SurfaceDead, KillExpired, KillAndClear
  <2>5. CASE StopCall \/ StopNothing \/ StopTakes \/ StopEnds
    BY <2>5 DEF StopCall, StopNothing, StopTakes, StopEnds
  <2>6. CASE ChildBegins \/ ChildResponds \/ ChildNoise \/ ChildDies
    BY <2>6 DEF ChildBegins, ChildResponds, ChildNoise, ChildDies
  <2>7. CASE UNCHANGED vars BY <2>7 DEF vars
  <2> QED BY ONLY PoolSteps, [Next]_vars, <2>1, <2>2, <2>3, <2>4, <2>5, <2>6, <2>7
<1> QED BY <1>1, <1>2, <1>3

\* There is an id left for a request that is about to be written.
LEMMA IdLeft ==
  ASSUME PoolType, CountInv, NEW k \in Calls, pc[k] = "write"
  PROVE nextId \in Ids /\ nextId + 1 \in Ids \cup {2 * Cardinality(Calls) + 1}
<1>0. /\ Cardinality(Written) \in Nat /\ IsFiniteSet(Written) /\ Cardinality(Calls) \in Nat
  BY WrittenFinite
<1> DEFINE w == <<k, attempt[k]>>
<1>2. w \in Calls \X (0..1) /\ w \notin Written
  BY DEF Written, Tried, PoolType
<1>3. Cardinality(Written \cup {w}) = Cardinality(Written) + 1
  BY <1>0, <1>2, FS_AddElement
<1>4. Written \cup {w} \subseteq Calls \X (0..1) BY <1>2 DEF Written
<1>5. Cardinality(Written \cup {w}) <= 2 * Cardinality(Calls)
  BY <1>4, Attempts, FS_Subset
<1> HIDE DEF w
<1> QED BY <1>0, <1>3, <1>5 DEF CountInv, Ids

LEMMA TypesStep == ASSUME PoolType, CountInv, TypeOK, [Next]_vars PROVE TypeOK'
<1>0. Cardinality(Calls) \in Nat BY WrittenFinite
<1> DEFINE N == 2 * Cardinality(Calls)
<1>00. N \in Nat /\ 1 \in Ids \cup {N + 1} BY <1>0 DEF Ids
<1> USE PoolAssumption, <1>00 DEF TypeOK, Busy, callvars, childvars
<1> HIDE DEF N
<1>1. ASSUME NEW k \in Calls, Quiet(k) PROVE TypeOK'
  BY <1>1 DEF Quiet, Call, QueueTimeout, Acquire, EnsureKeeps, WriteFails, ReadEof, ReadFails, Expire, Return, Goto
<1>2. ASSUME NEW k \in Calls, EnsureSpawns(k) PROVE TypeOK'
  BY <1>2, Nothing DEF EnsureSpawns, Goto, N
<1>3. ASSUME NEW k \in Calls, EnsureFails(k) PROVE TypeOK'
  BY <1>3 DEF EnsureFails, Return, Goto
<1>4. ASSUME NEW k \in Calls, Write(k) PROVE TypeOK'
  <2>0. nextId \in Ids /\ nextId' \in Ids \cup {2 * Cardinality(Calls) + 1}
    BY <1>4, IdLeft DEF Write, Goto
  <2>1. [id |-> nextId, call |-> k] \in Requests BY <2>0 DEF Requests
  <2>2. stdin' \in Seq(Requests) BY <1>4, <2>1, Appended DEF Write
  <2> QED BY <1>4, <2>0, <2>2 DEF Write, Goto
<1>5. ASSUME NEW k \in Calls, SkipLine(k) \/ ReadResponse(k) \/ ReadMalformed(k) PROVE TypeOK'
  <2>0. stdout # <<>> /\ stdout' = Tail(stdout) BY <1>5 DEF SkipLine, ReadResponse, ReadMalformed
  <2>1. stdout' \in Seq(Lines) BY <2>0, Taken
  <2>2. CASE SkipLine(k) BY <2>1, <2>2 DEF SkipLine
  <2>3. CASE ReadResponse(k) BY <2>1, <2>3 DEF ReadResponse, Return, Goto
  <2>4. CASE ReadMalformed(k) BY <2>1, <2>4 DEF ReadMalformed, Return, Goto
  <2> QED BY <1>5, <2>2, <2>3, <2>4
<1>6. ASSUME NEW k \in Calls, Retry(k) \/ SurfaceDead(k) \/ KillExpired(k) PROVE TypeOK'
  <2>1. <<>> \in Seq(Requests) /\ <<>> \in Seq(Lines) BY Nothing
  <2> USE DEF KillAndClear, Goto, Return
  <2>2. CASE Retry(k) BY <2>1, <2>2 DEF Retry
  <2>3. CASE SurfaceDead(k) BY <2>1, <2>3 DEF SurfaceDead
  <2>4. CASE KillExpired(k) BY <2>1, <2>4 DEF KillExpired
  <2> QED BY <1>6, <2>2, <2>3, <2>4
<1>7. ASSUME StopCall \/ StopNothing \/ StopTakes \/ StopEnds PROVE TypeOK'
  <2>1. <<>> \in Seq(Requests) /\ <<>> \in Seq(Lines) BY Nothing
  <2>2. CASE StopCall \/ StopNothing BY <2>2 DEF StopCall, StopNothing
  <2>3. CASE StopTakes BY <2>3 DEF StopTakes
  <2>4. CASE StopEnds BY <2>1, <2>4 DEF StopEnds
  <2> QED BY <1>7, <2>2, <2>3, <2>4
<1>8. ASSUME ChildBegins PROVE TypeOK'
  <2>1. stdin' \in Seq(Requests) /\ Head(stdin) \in Requests
    BY <1>8, Taken DEF ChildBegins
  <2> QED BY <1>8, <2>1 DEF ChildBegins
<1>9. ASSUME ChildResponds PROVE TypeOK'
  <2>1. PICK r \in serving : stdout' = Append(stdout, Response(r))
    BY <1>9 DEF ChildResponds
  <2>2. Response(r) \in Lines BY DEF Lines
  <2>3. stdout' \in Seq(Lines) BY <2>1, <2>2, Appended
  <2> QED BY <1>9, <2>3 DEF ChildResponds
<1>10. ASSUME ChildNoise PROVE TypeOK'
  <2>1. PICK line \in {Notification, Garbage} : stdout' = Append(stdout, line)
    BY <1>10 DEF ChildNoise
  <2>2. line \in Lines BY DEF Lines
  <2>3. stdout' \in Seq(Lines) BY <2>1, <2>2, Appended
  <2> QED BY <1>10, <2>3 DEF ChildNoise
<1>11. ASSUME ChildDies PROVE TypeOK'
  BY <1>11, Nothing DEF ChildDies
<1>12. ASSUME UNCHANGED vars PROVE TypeOK'
  BY <1>12 DEF vars
<1> QED BY PoolSteps, <1>1, <1>2, <1>3, <1>4, <1>5, <1>6, <1>7, <1>8, <1>9, <1>10, <1>11, <1>12

LEMMA TypesInit == Init => CountInv /\ TypeOK
<1> SUFFICES ASSUME Init PROVE CountInv /\ TypeOK OBVIOUS
<1>1. CountInv BY WrittenFinite DEF Init, CountInv
<1>2. 1 \in Ids \cup {2 * Cardinality(Calls) + 1} BY WrittenFinite DEF Ids
<1> QED BY <1>1, <1>2, PoolAssumption, Nothing DEF Init, TypeOK, Busy

\* A worker never hands out more ids than its calls have attempts, since only a
\* write takes one (roundtrip) and a spawn starts again from 1 (ensure_live);
\* pipes, child and mutex hold what they are meant to.
THEOREM PoolTypes == Spec => []TypeOK
<1>1. PoolType /\ CountInv /\ TypeOK /\ [Next]_vars => (CountInv /\ TypeOK)'
  BY CountStep, TypesStep
<1>2. PoolInv => PoolType BY DEF PoolInv
<1> QED BY PoolInvariant, TypesInit, <1>1, <1>2, PTL DEF Spec

---------------------------------------------------------------------------
(* Where each call's request is                                            *)

LEMMA Emptied ==
  ASSUME NEW q, stdin' = <<>>, serving' = {}
  PROVE Once(q)' /\ ~InStdin(q)' /\ ~InServing(q)' /\ (stdout' = <<>> => ~InStdout(q)')
BY Nothing DEF Once, InStdin, InServing, InStdout

LEMMA Unmoved ==
  ASSUME NEW q, UNCHANGED <<stdin, serving>>
  PROVE /\ Once(q)' = Once(q) /\ InStdin(q)' = InStdin(q) /\ InServing(q)' = InServing(q)
        /\ stdout' = stdout => InStdout(q)' = InStdout(q)
BY DEF Once, InStdin, InServing, InStdout

LEMMA LineTaken ==
  ASSUME NEW q, stdout \in Seq(AnyLine), stdout # <<>>, stdout' = Tail(stdout)
  PROVE InStdout(q)' => InStdout(q)
<1>1. /\ Len(stdout) \in Nat \ {0} /\ DOMAIN stdout = 1..Len(stdout) /\ DOMAIN stdout' = 1..(Len(stdout) - 1)
      /\ \A i \in 1..(Len(stdout) - 1) : stdout'[i] = stdout[i + 1]
  BY Taken
<1>2. \A i \in DOMAIN stdout' : i + 1 \in DOMAIN stdout /\ stdout'[i] = stdout[i + 1]
  BY <1>1
<1> QED BY <1>2 DEF InStdout

LEMMA LineWritten ==
  ASSUME NEW q, NEW line \in AnyLine, stdout \in Seq(AnyLine), stdout' = Append(stdout, line)
  PROVE InStdout(q)' <=> InStdout(q) \/ (line.kind = "response" /\ q \in line.call)
<1>1. /\ Len(stdout) \in Nat /\ DOMAIN stdout = 1..Len(stdout) /\ DOMAIN stdout' = 1..(Len(stdout) + 1)
      /\ \A i \in 1..Len(stdout) : stdout'[i] = stdout[i]
      /\ stdout'[Len(stdout) + 1] = line
  BY Appended
<1> QED BY <1>1 DEF InStdout

LEMMA RequestWritten ==
  ASSUME NEW q, NEW item \in Items, stdin \in Seq(Items), stdin' = Append(stdin, item),
         Once(q), q = item.call => ~InStdin(q)
  PROVE Once(q)' /\ (InStdin(q)' <=> InStdin(q) \/ q = item.call)
<1>1. /\ Len(stdin) \in Nat /\ DOMAIN stdin = 1..Len(stdin) /\ DOMAIN stdin' = 1..(Len(stdin) + 1)
      /\ \A i \in 1..Len(stdin) : stdin'[i] = stdin[i]
      /\ stdin'[Len(stdin) + 1] = item
  BY Appended
<1> QED BY <1>1 DEF InStdin, Once

LEMMA RequestTaken ==
  ASSUME NEW q, stdin \in Seq(Items), stdin # <<>>, stdin' = Tail(stdin), Once(q)
  PROVE /\ Once(q)' /\ (InStdin(q)' => InStdin(q))
        /\ q = Head(stdin).call => InStdin(q) /\ ~InStdin(q)'
<1>1. /\ Len(stdin) \in Nat \ {0} /\ DOMAIN stdin = 1..Len(stdin) /\ DOMAIN stdin' = 1..(Len(stdin) - 1)
      /\ \A i \in 1..(Len(stdin) - 1) : stdin'[i] = stdin[i + 1]
      /\ Head(stdin) = stdin[1]
  BY Taken
<1>2. \A i \in DOMAIN stdin' : i \in Nat \ {0} /\ i + 1 \in DOMAIN stdin /\ stdin'[i] = stdin[i + 1]
  BY <1>1
<1>3. 1 \in DOMAIN stdin BY <1>1
<1>4. Once(q)'
  <2>1. \A i, j \in DOMAIN stdin' : stdin'[i].call = q /\ stdin'[j].call = q => i + 1 = j + 1
    BY <1>2 DEF Once
  <2> QED BY <2>1, <1>2 DEF Once
<1>5. InStdin(q)' => InStdin(q) BY <1>2 DEF InStdin
<1>6. ASSUME q = Head(stdin).call PROVE InStdin(q) /\ ~InStdin(q)'
  <2>1. stdin[1].call = q BY <1>1, <1>6
  <2>2. \A i \in DOMAIN stdin' : stdin'[i].call # q
    <3> SUFFICES ASSUME NEW i \in DOMAIN stdin', stdin'[i].call = q PROVE FALSE OBVIOUS
    <3>1. i + 1 = 1 BY <1>2, <1>3, <2>1 DEF Once
    <3> QED BY <3>1, <1>2
  <2> QED BY <1>3, <2>1, <2>2 DEF InStdin
<1> QED BY <1>4, <1>5, <1>6

\* A response that matches is the answer to the call that reads it.
LEMMA MatchIsOwn ==
  ASSUME PoolInv, NEW k \in Calls, pc[k] = "read", stdout # <<>>, Matches(k, Head(stdout))
  PROVE Head(stdout).call = {k} /\ InStdout(k)
<1>1. stdout \in Seq(AnyLine) /\ IdsDoNotCollide BY DEF PoolInv, PoolType
<1>2. Head(stdout) = stdout[1] /\ 1 \in DOMAIN stdout
  <2>1. Head(stdout) = stdout[1] /\ Len(stdout) \in Nat \ {0} /\ DOMAIN stdout = 1..Len(stdout)
    BY <1>1, Taken
  <2> QED BY <2>1
<1>3. Head(stdout).call = {k} BY <1>1, <1>2 DEF IdsDoNotCollide
<1> QED BY <1>2, <1>3 DEF InStdout, Matches


\* A step of k that leaves the pipes and the child's request alone.
LEMMA QuietPlace ==
  ASSUME PoolInv, PlaceInv, NEW k \in Calls, Quiet(k) \/ EnsureFails(k), NEW q \in Calls
  PROVE RequestInv(q)' /\ BegunInv(q)'
<1>1. UNCHANGED <<stdin, stdout, serving, attempt, begun>>
  BY DEF Quiet, Call, QueueTimeout, Acquire, EnsureKeeps, WriteFails, ReadEof, ReadFails, Expire,
         EnsureFails, childvars
<1>2. Once(q)' = Once(q) /\ InStdin(q)' = InStdin(q) /\ InServing(q)' = InServing(q) /\ InStdout(q)' = InStdout(q)
  BY <1>1, Unmoved
<1>3. PoolType /\ RequestInv(q) /\ BegunInv(q) BY DEF PoolInv, PlaceInv
<1> USE <1>1, <1>2, <1>3 DEF PoolType, RequestInv, BegunInv, Goto, Return
<1>4. CASE Call(k) BY <1>4 DEF Call
<1>5. CASE QueueTimeout(k) BY <1>5 DEF QueueTimeout
<1>6. CASE Acquire(k) BY <1>6 DEF Acquire
<1>7. CASE EnsureKeeps(k) BY <1>7 DEF EnsureKeeps
<1>8. CASE WriteFails(k) BY <1>8 DEF WriteFails
<1>9. CASE ReadEof(k) \/ ReadFails(k) BY <1>9 DEF ReadEof, ReadFails
<1>10. CASE Expire(k) BY <1>10 DEF Expire
<1>11. CASE EnsureFails(k) BY <1>11 DEF EnsureFails
<1> QED BY ONLY <1>4, <1>5, <1>6, <1>7, <1>8, <1>9, <1>10, <1>11, Quiet(k) \/ EnsureFails(k) DEF Quiet

LEMMA PlaceStep == ASSUME PoolInv, PlaceInv, [Next]_vars PROVE PlaceInv'
<1> SUFFICES ASSUME NEW q \in Calls PROVE RequestInv(q)' /\ BegunInv(q)'
  BY DEF PlaceInv
<1>0. PoolType /\ RequestInv(q) /\ BegunInv(q) BY DEF PoolInv, PlaceInv
<1>1. ASSUME NEW k \in Calls, Quiet(k) \/ EnsureFails(k) PROVE RequestInv(q)' /\ BegunInv(q)'
  BY <1>1, QuietPlace
<1>2. ASSUME NEW k \in Calls, EnsureSpawns(k) \/ Retry(k) \/ SurfaceDead(k) \/ KillExpired(k)
      PROVE RequestInv(q)' /\ BegunInv(q)'
  <2>1. stdin' = <<>> /\ stdout' = <<>> /\ serving' = {} /\ begun' = begun
    BY <1>2 DEF EnsureSpawns, Retry, SurfaceDead, KillExpired, KillAndClear
  <2>2. Once(q)' /\ ~InStdin(q)' /\ ~InServing(q)' /\ ~InStdout(q)'
    BY <2>1, Emptied
  <2> USE <1>0, <2>1, <2>2 DEF PoolType, RequestInv, BegunInv, Goto, Return
  <2>3. CASE EnsureSpawns(k) BY <2>3 DEF EnsureSpawns
  <2>4. CASE Retry(k) BY <2>4 DEF Retry
  <2>5. CASE SurfaceDead(k) BY <2>5 DEF SurfaceDead
  <2>6. CASE KillExpired(k) BY <2>6 DEF KillExpired
  <2> QED BY ONLY <1>2, <2>3, <2>4, <2>5, <2>6
<1>3. ASSUME NEW k \in Calls, Write(k) PROVE RequestInv(q)' /\ BegunInv(q)'
  <2> DEFINE item == [id |-> nextId, call |-> k]
  <2>1. /\ stdin' = Append(stdin, item) /\ UNCHANGED <<stdout, serving, attempt, outcome, begun>>
        /\ pc[k] = "write" /\ pc' = [pc EXCEPT ![k] = "read"]
    BY <1>3 DEF Write, Goto
  <2>2. item \in Items /\ item.call = k BY <1>0 DEF Items, PoolType
  <2>3. q = k => ~InStdin(q) /\ ~InServing(q) /\ ~InStdout(q) BY <1>0, <2>1 DEF RequestInv
  <2>4. Once(q)' /\ (InStdin(q)' <=> InStdin(q) \/ q = k)
    BY <1>0, <2>1, <2>2, <2>3, RequestWritten DEF PoolType, RequestInv
  <2>5. InServing(q)' = InServing(q) /\ InStdout(q)' = InStdout(q)
    BY <2>1 DEF InServing, InStdout
  <2> QED BY <1>0, <2>1, <2>3, <2>4, <2>5 DEF PoolType, RequestInv, BegunInv
<1>4. ASSUME NEW k \in Calls, SkipLine(k) \/ ReadResponse(k) \/ ReadMalformed(k)
      PROVE RequestInv(q)' /\ BegunInv(q)'
  <2>1. stdout # <<>> /\ stdout' = Tail(stdout) /\ UNCHANGED <<stdin, serving, attempt, begun>>
    BY <1>4 DEF SkipLine, ReadResponse, ReadMalformed, callvars
  <2>2. Once(q)' = Once(q) /\ InStdin(q)' = InStdin(q) /\ InServing(q)' = InServing(q)
    BY <2>1, Unmoved
  <2>3. InStdout(q)' => InStdout(q) BY <1>0, <2>1, LineTaken DEF PoolType
  <2> USE <1>0, <2>1, <2>2, <2>3 DEF PoolType, RequestInv, BegunInv, Goto, Return, callvars
  <2>4. CASE SkipLine(k) BY <2>4 DEF SkipLine
  <2>5. CASE ReadResponse(k)
    <3>1. InStdout(k) BY <2>5, MatchIsOwn DEF ReadResponse
    <3> QED BY <2>5, <3>1 DEF ReadResponse
  <2>6. CASE ReadMalformed(k) BY <2>6 DEF ReadMalformed
  <2> QED BY ONLY <1>4, <2>4, <2>5, <2>6
<1>5. CASE StopCall \/ StopNothing \/ StopTakes \/ UNCHANGED vars
  <2>1. UNCHANGED <<stdin, stdout, serving, pc, attempt, outcome, begun>>
    BY <1>5 DEF StopCall, StopNothing, StopTakes, vars, callvars, childvars
  <2>2. Once(q)' = Once(q) /\ InStdin(q)' = InStdin(q) /\ InServing(q)' = InServing(q) /\ InStdout(q)' = InStdout(q)
    BY <2>1, Unmoved
  <2> QED BY <1>0, <2>1, <2>2 DEF RequestInv, BegunInv
<1>6. CASE StopEnds \/ ChildDies
  <2>1. /\ stdin' = <<>> /\ serving' = {} /\ stdout' \in {<<>>, stdout}
        /\ UNCHANGED <<pc, attempt, outcome, begun>>
    BY <1>6 DEF StopEnds, ChildDies, callvars
  <2>2. Once(q)' /\ ~InStdin(q)' /\ ~InServing(q)' /\ (InStdout(q)' => InStdout(q))
    BY <2>1, Emptied DEF InStdout
  <2> QED BY <1>0, <2>1, <2>2 DEF RequestInv, BegunInv
<1>7. CASE ChildBegins
  <2> DEFINE item == Head(stdin)
  <2>1. /\ stdin # <<>> /\ stdin' = Tail(stdin) /\ serving = {} /\ serving' = {item}
        /\ begun' = [begun EXCEPT ![item.call] = @ + 1]
        /\ UNCHANGED <<stdout, pc, attempt, outcome>>
    BY <1>7 DEF ChildBegins, callvars
  <2>2. item.call \in Calls
    <3>1. item \in Items BY <1>0, <2>1, Taken DEF PoolType
    <3> QED BY <3>1 DEF Items
  <2>3. /\ Once(q)' /\ (InStdin(q)' => InStdin(q))
        /\ q = item.call => InStdin(q) /\ ~InStdin(q)'
    BY <1>0, <2>1, RequestTaken DEF PoolType, RequestInv
  <2>4. (InServing(q)' <=> q = item.call) /\ InStdout(q)' = InStdout(q)
    BY <2>1 DEF InServing, InStdout
  <2>5. begun'[q] = IF q = item.call THEN begun[q] + 1 ELSE begun[q]
    BY <1>0, <2>1, <2>2 DEF PoolType
  <2>6. attempt[q] \in 0..1 /\ begun[q] \in Nat BY <1>0 DEF PoolType
  <2> HIDE DEF item
  <2> QED BY <1>0, <2>1, <2>3, <2>4, <2>5, <2>6 DEF RequestInv, BegunInv
<1>8. CASE ChildResponds
  <2>1. PICK r \in serving : stdout' = Append(stdout, Response(r))
    BY <1>8 DEF ChildResponds
  <2>2. serving' = {} /\ UNCHANGED <<stdin, pc, attempt, outcome, begun>> BY <1>8 DEF ChildResponds, callvars
  <2>3. Response(r) \in AnyLine /\ Response(r).call = {r.call}
    BY <1>0 DEF PoolType, Response, AnyLine, Items
  <2>4. InStdout(q)' => InStdout(q) \/ InServing(q)
    BY <1>0, <2>1, <2>3, LineWritten DEF PoolType, InServing
  <2>5. ~InServing(q)' /\ Once(q)' = Once(q) /\ InStdin(q)' = InStdin(q)
    BY <2>2 DEF InServing, Once, InStdin
  <2> QED BY <1>0, <2>2, <2>4, <2>5 DEF RequestInv, BegunInv
<1>9. CASE ChildNoise
  <2>1. PICK line \in {Notification, Garbage} : stdout' = Append(stdout, line)
    BY <1>9 DEF ChildNoise
  <2>2. UNCHANGED <<stdin, serving, pc, attempt, outcome, begun>> BY <1>9 DEF ChildNoise, callvars
  <2>3. line \in AnyLine /\ line.kind # "response" BY DEF Notification, Garbage, AnyLine
  <2>4. InStdout(q)' <=> InStdout(q) BY <1>0, <2>1, <2>3, LineWritten DEF PoolType
  <2>5. Once(q)' = Once(q) /\ InStdin(q)' = InStdin(q) /\ InServing(q)' = InServing(q)
    BY <2>2, Unmoved
  <2> QED BY <1>0, <2>2, <2>4, <2>5 DEF RequestInv, BegunInv
<1> QED BY PoolSteps, <1>1, <1>2, <1>3, <1>4, <1>5, <1>6, <1>7, <1>8, <1>9


LEMMA PlaceInit == Init => PlaceInv
BY Nothing DEF Init, PlaceInv, RequestInv, BegunInv, Once, InStdin, InServing, InStdout, Busy

LEMMA PlaceInvariant == Spec => [](PoolInv /\ PlaceInv)
<1>1. PoolInv /\ PlaceInv /\ [Next]_vars => (PoolInv /\ PlaceInv)'
  BY PoolStep, PlaceStep
<1> QED BY PoolInit, PlaceInit, <1>1, PTL DEF Spec

---------------------------------------------------------------------------
(* The refinement                                                          *)

\* A return that is no answer is a failure of the abstract call.
LEMMA ReturnFails ==
  ASSUME PoolInv, PlaceInv, NEW k \in Calls, NEW f \in {"timeout", "spawn", "dead", "malformed"},
         pc[k] # "done", outcome' = [outcome EXCEPT ![k] = f], UNCHANGED <<answerOf, begun>>
  PROVE Promise!Next
<1>1. outcome[k] = "none" BY DEF PlaceInv, BegunInv
<1>2. Promise!Fail(k) BY <1>1 DEF Promise!Fail, Promise!Failures
<1> QED BY <1>2 DEF Promise!Next

LEMMA PromiseStep ==
  ASSUME PoolInv, PlaceInv, [Next]_vars
  PROVE [Promise!Next]_<<outcome, answerOf, begun>>
<1> USE DEF Goto, Return, callvars, childvars
<1>0. PoolType BY DEF PoolInv
<1>1. ASSUME NEW k \in Calls, Quiet(k) PROVE [Promise!Next]_<<outcome, answerOf, begun>>
  <2>1. CASE QueueTimeout(k)
    <3>1. pc[k] # "done" /\ outcome' = [outcome EXCEPT ![k] = "timeout"] /\ UNCHANGED <<answerOf, begun>>
      BY <2>1 DEF QueueTimeout
    <3> QED BY <3>1, ReturnFails
  <2>2. CASE Call(k) \/ Acquire(k) \/ EnsureKeeps(k) \/ WriteFails(k) \/ ReadEof(k) \/ ReadFails(k) \/ Expire(k)
    BY <2>2 DEF Call, Acquire, EnsureKeeps, WriteFails, ReadEof, ReadFails, Expire
  <2> QED BY ONLY <1>1, <2>1, <2>2 DEF Quiet
<1>2. ASSUME NEW k \in Calls, EnsureFails(k) \/ ReadMalformed(k) \/ SurfaceDead(k) \/ KillExpired(k)
      PROVE [Promise!Next]_<<outcome, answerOf, begun>>
  <2>1. PICK f \in {"timeout", "spawn", "dead", "malformed"} :
          pc[k] # "done" /\ outcome' = [outcome EXCEPT ![k] = f] /\ UNCHANGED <<answerOf, begun>>
    BY <1>2 DEF EnsureFails, ReadMalformed, SurfaceDead, KillExpired
  <2> QED BY <2>1, ReturnFails
<1>3. ASSUME NEW k \in Calls, ReadResponse(k) PROVE [Promise!Next]_<<outcome, answerOf, begun>>
  <2>1. Head(stdout).call = {k} /\ InStdout(k)
    BY <1>3, MatchIsOwn DEF ReadResponse
  <2>2. outcome[k] = "none" /\ begun[k] > 0
    BY <1>3, <2>1 DEF ReadResponse, PlaceInv, BegunInv
  <2>3. Promise!Answer(k) BY <1>3, <2>1, <2>2 DEF ReadResponse, Promise!Answer
  <2> QED BY <2>3 DEF Promise!Next
<1>4. ASSUME NEW k \in Calls, EnsureSpawns(k) \/ Write(k) \/ SkipLine(k) \/ Retry(k)
      PROVE UNCHANGED <<outcome, answerOf, begun>>
  BY <1>4 DEF EnsureSpawns, Write, SkipLine, Retry
<1>5. CASE ChildBegins
  <2> DEFINE q == Head(stdin).call
  <2>1. stdin \in Seq(Items) /\ stdin # <<>> BY <1>0, <1>5 DEF PoolType, ChildBegins
  <2>2. Head(stdin) \in Items /\ Head(stdin) = stdin[1] /\ 1 \in DOMAIN stdin
    <3>1. /\ Head(stdin) = stdin[1] /\ stdin[1] \in Items
          /\ Len(stdin) \in Nat \ {0} /\ DOMAIN stdin = 1..Len(stdin)
      BY <2>1, Taken
    <3> QED BY <3>1
  <2>3. q \in Calls /\ InStdin(q) BY <2>2 DEF Items, InStdin
  <2>4. begun[q] \in Nat /\ attempt[q] \in 0..1 BY <1>0, <2>3 DEF PoolType
  <2>5. outcome[q] \in {"none", "malformed"} /\ begun[q] < 2
    <3> HIDE DEF q
    <3> QED BY <2>3, <2>4 DEF PlaceInv, RequestInv, BegunInv
  <2>6. Promise!Begin(q) BY <1>5, <2>5 DEF ChildBegins, Promise!Begin
  <2> HIDE DEF q
  <2> QED BY <2>3, <2>6 DEF Promise!Next
<1>6. CASE StopCall \/ StopNothing \/ StopTakes \/ StopEnds \/ ChildResponds \/ ChildNoise \/ ChildDies
  BY <1>6 DEF StopCall, StopNothing, StopTakes, StopEnds, ChildResponds, ChildNoise, ChildDies
<1>7. CASE UNCHANGED vars BY <1>7 DEF vars
<1> QED BY PoolSteps, <1>1, <1>2, <1>3, <1>4, <1>5, <1>6, <1>7

\* The pool implements WorkerCalls: whatever times out, dies or is stopped, a
\* call never sees another's answer, its request is begun twice at most and
\* never after a failure other than "malformed" (WorkerPool::call).
THEOREM PoolKeepsPromise == Spec => KeepsPromise
<1>1. Init => Promise!Init BY DEF Init, Promise!Init
<1>2. PoolInv /\ PlaceInv /\ [Next]_vars => [Promise!Next]_<<outcome, answerOf, begun>>
  BY PromiseStep
<1> QED BY PlaceInvariant, <1>1, <1>2, PTL DEF Spec, KeepsPromise, Promise!Spec

=============================================================================
