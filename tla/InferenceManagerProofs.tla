---------------------- MODULE InferenceManagerProofs ----------------------
(* The manager's mutex and its processes, for every set of callers,        *)
(* models and spawns.                                                      *)
EXTENDS InferenceManager, TLAPS

\* The mutex is held exactly by the task that is inside its critical section.
LockInv == \A t \in Tasks : op[t] \in HoldsLock <=> ilock = t

\* Pids are fresh, and from the moment a record is taken until the new server
\* is healthy the record is empty.
ServerInv ==
  /\ procs \subseteq 1..spawned
  /\ slot <= spawned
  /\ \A t \in Tasks : op[t] \in {"reap", "spawn", "health", "stopreap"} => slot = 0
  /\ \A t \in Tasks : op[t] = "health" => held[t] # 0

\* While a model is being resolved the record is what the mutex holder found,
\* and neither a recorded process nor one coming up has been sent a kill.
KeptInv ==
  /\ slot \notin killed
  /\ \A t \in Tasks : op[t] = "health" => held[t] \notin killed
  /\ \A t \in Tasks : op[t] \in Resolving => slot = found

IMInv == IMTypeOK /\ LockInv /\ ServerInv /\ NoStrayServer /\ KeptInv

\* The control points, spelled out.
LEMMA OpsAre ==
  Ops = {"none", "stop", "enter", "resolve", "answered", "reap", "spawn", "health", "stopreap",
         "ok", "err", "done"}
BY DEF Ops, HoldsLock, EnsureOps, Results, Resolving

\* The initial state of the manager satisfies its invariant.
LEMMA IMInitInv == IMInit => IMInv
<1> SUFFICES ASSUME IMInit PROVE IMInv
  OBVIOUS
<1> USE ManagerAssumption DEF IMInit
<1>1. IMTypeOK
  <2>1. slot \in 0..MaxSpawns /\ spawned \in 0..MaxSpawns /\ found \in 0..MaxSpawns
    OBVIOUS
  <2>2. procs \in SUBSET Pids /\ killed \in SUBSET procs
    OBVIOUS
  <2>3. held \in [Tasks -> 0..MaxSpawns] /\ want \in [Tasks -> Models \cup {NoModel}]
    OBVIOUS
  <2>4. op \in [Tasks -> Ops]
    BY OpsAre
  <2>5. stale \in BOOLEAN
    OBVIOUS
  <2> QED BY <2>1, <2>2, <2>3, <2>4, <2>5 DEF IMTypeOK
<1>2. LockInv
  BY DEF LockInv, HoldsLock, Resolving
<1>3. ServerInv
  BY DEF ServerInv
<1>4. NoStrayServer
  BY DEF NoStrayServer, Unkilled
<1>5. KeptInv
  BY DEF KeptInv, Resolving
<1> QED BY <1>1, <1>2, <1>3, <1>4, <1>5 DEF IMInv

\* Every step of the manager, and every step that leaves it alone, preserves
\* the types of its state.
LEMMA IMTypeStep == IMInv /\ [IMNext]_imvars => IMTypeOK'
<1> SUFFICES ASSUME IMInv, [IMNext]_imvars PROVE IMTypeOK'
  OBVIOUS
<1> USE ManagerAssumption, OpsAre DEF IMInv, IMTypeOK, Pids
<1>1. ASSUME NEW t \in Tasks, EnsureReuse(t) PROVE IMTypeOK'
  <2>1. stale' \in BOOLEAN
    BY <1>1 DEF EnsureReuse, Return
  <2> QED BY <1>1, <2>1 DEF EnsureReuse, Return
<1>2. ASSUME NEW t \in Tasks, EnsureEnter(t) PROVE IMTypeOK'
  BY <1>2 DEF EnsureEnter
<1>3. ASSUME NEW t \in Tasks, ResolveFails(t) PROVE IMTypeOK'
  BY <1>3 DEF ResolveFails, Return
<1>4. ASSUME NEW t \in Tasks, Resolved(t) PROVE IMTypeOK'
  <2>1. stale' \in BOOLEAN
    BY <1>4 DEF Resolved, TakeAndKill
  <2>2. killed' \in SUBSET procs'
    BY <1>4 DEF Resolved, TakeAndKill
  <2>3. op' \in [Tasks -> Ops] /\ held' \in [Tasks -> 0..MaxSpawns]
    BY <1>4 DEF Resolved, TakeAndKill
  <2> QED BY <1>4, <2>1, <2>2, <2>3 DEF Resolved, TakeAndKill
<1>5. ASSUME NEW t \in Tasks, Reaped(t) PROVE IMTypeOK'
  BY <1>5 DEF Reaped
<1>6. ASSUME NEW t \in Tasks, Spawn(t) PROVE IMTypeOK'
  <2>1. spawned + 1 \in Pids
    BY <1>6 DEF Spawn
  <2> QED BY <1>6, <2>1 DEF Spawn
<1>7. ASSUME NEW t \in Tasks, SpawnFails(t) PROVE IMTypeOK'
  BY <1>7 DEF SpawnFails, Return
<1>8. ASSUME NEW t \in Tasks, Healthy(t) PROVE IMTypeOK'
  <2>1. stale' \in BOOLEAN
    BY <1>8 DEF Healthy, Return
  <2> QED BY <1>8, <2>1 DEF Healthy, Return
<1>9. ASSUME NEW t \in Tasks, HealthTimeout(t) PROVE IMTypeOK'
  <2>1. stale' \in BOOLEAN
    BY <1>9 DEF HealthTimeout, Return
  <2>2. killed' \in SUBSET procs'
    BY <1>9 DEF HealthTimeout, Return
  <2>3. op' \in [Tasks -> Ops] /\ held' \in [Tasks -> 0..MaxSpawns]
    BY <1>9 DEF HealthTimeout, Return
  <2> QED BY <1>9, <2>1, <2>2, <2>3 DEF HealthTimeout, Return
<1>10. ASSUME NEW t \in Tasks, StopEnter(t) PROVE IMTypeOK'
  <2>1. stale' \in BOOLEAN
    BY <1>10 DEF StopEnter, TakeAndKill
  <2>2. killed' \in SUBSET procs'
    BY <1>10 DEF StopEnter, TakeAndKill
  <2>3. op' \in [Tasks -> Ops] /\ held' \in [Tasks -> 0..MaxSpawns]
    BY <1>10 DEF StopEnter, TakeAndKill
  <2> QED BY <1>10, <2>1, <2>2, <2>3 DEF StopEnter, TakeAndKill
<1>11. ASSUME NEW t \in Tasks, StopDone(t) PROVE IMTypeOK'
  BY <1>11 DEF StopDone
<1>12. ASSUME NEW t \in Tasks, CallStop(t) PROVE IMTypeOK'
  BY <1>12 DEF CallStop
<1>13. ASSUME NEW t \in Tasks, NEW m \in Models, CallEnsure(t, m) PROVE IMTypeOK'
  BY <1>13 DEF CallEnsure
<1>14. ASSUME NEW t \in Tasks, NEW r \in Results, Resume(t, r) PROVE IMTypeOK'
  BY <1>14 DEF Resume
<1>15. CASE MarkUsed
  BY <1>15 DEF MarkUsed
<1>16. CASE TimePasses
  BY <1>16 DEF TimePasses
<1>17. ASSUME NEW p \in Pids, ProcessExits(p) PROVE IMTypeOK'
  BY <1>17 DEF ProcessExits
<1>18. CASE UNCHANGED imvars
  BY <1>18 DEF imvars
<1>19. ASSUME NEW t \in Tasks, DownloadAnswers(t) PROVE IMTypeOK'
  BY <1>19 DEF DownloadAnswers
<1> QED
  BY <1>1, <1>2, <1>3, <1>4, <1>5, <1>6, <1>7, <1>8, <1>9, <1>10, <1>11, <1>12, <1>13,
     <1>14, <1>15, <1>16, <1>17, <1>18, <1>19 DEF IMNext, OpStep, EnsureStep, StopStep

\* Only the task that enters a critical section gains the mutex, and only the
\* one that leaves it releases it.
LEMMA IMLockStep == IMInv /\ [IMNext]_imvars => LockInv'
<1> SUFFICES ASSUME IMInv, [IMNext]_imvars PROVE LockInv'
  OBVIOUS
<1> USE ManagerAssumption, OpsAre DEF IMInv, IMTypeOK, LockInv, HoldsLock, Resolving
<1>1. ASSUME NEW t \in Tasks, EnsureReuse(t) PROVE LockInv'
  BY <1>1 DEF EnsureReuse, Return
<1>2. ASSUME NEW t \in Tasks, EnsureEnter(t) PROVE LockInv'
  BY <1>2 DEF EnsureEnter
<1>3. ASSUME NEW t \in Tasks, ResolveFails(t) PROVE LockInv'
  BY <1>3 DEF ResolveFails, Return
<1>4. ASSUME NEW t \in Tasks, Resolved(t) PROVE LockInv'
  BY <1>4 DEF Resolved, TakeAndKill
<1>5. ASSUME NEW t \in Tasks, Reaped(t) PROVE LockInv'
  BY <1>5 DEF Reaped
<1>6. ASSUME NEW t \in Tasks, Spawn(t) PROVE LockInv'
  BY <1>6 DEF Spawn
<1>7. ASSUME NEW t \in Tasks, SpawnFails(t) PROVE LockInv'
  BY <1>7 DEF SpawnFails, Return
<1>8. ASSUME NEW t \in Tasks, Healthy(t) PROVE LockInv'
  BY <1>8 DEF Healthy, Return
<1>9. ASSUME NEW t \in Tasks, HealthTimeout(t) PROVE LockInv'
  BY <1>9 DEF HealthTimeout, Return
<1>10. ASSUME NEW t \in Tasks, StopEnter(t) PROVE LockInv'
  BY <1>10 DEF StopEnter, TakeAndKill
<1>11. ASSUME NEW t \in Tasks, StopDone(t) PROVE LockInv'
  BY <1>11 DEF StopDone
<1>12. ASSUME NEW t \in Tasks, CallStop(t) PROVE LockInv'
  BY <1>12 DEF CallStop
<1>13. ASSUME NEW t \in Tasks, NEW m \in Models, CallEnsure(t, m) PROVE LockInv'
  BY <1>13 DEF CallEnsure
<1>14. ASSUME NEW t \in Tasks, NEW r \in Results, Resume(t, r) PROVE LockInv'
  BY <1>14 DEF Resume, Results
<1>15. CASE MarkUsed
  BY <1>15 DEF MarkUsed
<1>16. CASE TimePasses
  BY <1>16 DEF TimePasses
<1>17. ASSUME NEW p \in Pids, ProcessExits(p) PROVE LockInv'
  BY <1>17 DEF ProcessExits
<1>18. CASE UNCHANGED imvars
  BY <1>18 DEF imvars
<1>19. ASSUME NEW t \in Tasks, DownloadAnswers(t) PROVE LockInv'
  BY <1>19 DEF DownloadAnswers
<1> QED
  BY <1>1, <1>2, <1>3, <1>4, <1>5, <1>6, <1>7, <1>8, <1>9, <1>10, <1>11, <1>12,
     <1>13, <1>14, <1>15, <1>16, <1>17, <1>18, <1>19 DEF IMNext, OpStep, EnsureStep, StopStep

\* Pids stay fresh; while one task is inside, no other can fill the record.
LEMMA IMServerStep == IMInv /\ [IMNext]_imvars => ServerInv'
<1> SUFFICES ASSUME IMInv, [IMNext]_imvars PROVE ServerInv'
  OBVIOUS
<1> USE ManagerAssumption, OpsAre DEF IMInv, IMTypeOK, LockInv, HoldsLock, Resolving, ServerInv, Pids
<1>1. ASSUME NEW t \in Tasks, EnsureReuse(t) PROVE ServerInv'
  BY <1>1 DEF EnsureReuse, Return
<1>2. ASSUME NEW t \in Tasks, EnsureEnter(t) PROVE ServerInv'
  BY <1>2 DEF EnsureEnter
<1>3. ASSUME NEW t \in Tasks, ResolveFails(t) PROVE ServerInv'
  BY <1>3 DEF ResolveFails, Return
<1>4. ASSUME NEW t \in Tasks, Resolved(t) PROVE ServerInv'
  BY <1>4 DEF Resolved, TakeAndKill
<1>5. ASSUME NEW t \in Tasks, Reaped(t) PROVE ServerInv'
  BY <1>5 DEF Reaped
<1>6. ASSUME NEW t \in Tasks, Spawn(t) PROVE ServerInv'
  BY <1>6 DEF Spawn
<1>7. ASSUME NEW t \in Tasks, SpawnFails(t) PROVE ServerInv'
  BY <1>7 DEF SpawnFails, Return
<1>8. ASSUME NEW t \in Tasks, Healthy(t) PROVE ServerInv'
  BY <1>8 DEF Healthy, Return
<1>9. ASSUME NEW t \in Tasks, HealthTimeout(t) PROVE ServerInv'
  BY <1>9 DEF HealthTimeout, Return
<1>10. ASSUME NEW t \in Tasks, StopEnter(t) PROVE ServerInv'
  BY <1>10 DEF StopEnter, TakeAndKill
<1>11. ASSUME NEW t \in Tasks, StopDone(t) PROVE ServerInv'
  BY <1>11 DEF StopDone
<1>12. ASSUME NEW t \in Tasks, CallStop(t) PROVE ServerInv'
  BY <1>12 DEF CallStop
<1>13. ASSUME NEW t \in Tasks, NEW m \in Models, CallEnsure(t, m) PROVE ServerInv'
  BY <1>13 DEF CallEnsure
<1>14. ASSUME NEW t \in Tasks, NEW r \in Results, Resume(t, r) PROVE ServerInv'
  BY <1>14 DEF Resume, Results
<1>15. CASE MarkUsed
  BY <1>15 DEF MarkUsed
<1>16. CASE TimePasses
  BY <1>16 DEF TimePasses
<1>17. ASSUME NEW p \in Pids, ProcessExits(p) PROVE ServerInv'
  BY <1>17 DEF ProcessExits
<1>18. CASE UNCHANGED imvars
  BY <1>18 DEF imvars
<1>19. ASSUME NEW t \in Tasks, DownloadAnswers(t) PROVE ServerInv'
  BY <1>19 DEF DownloadAnswers
<1> QED
  BY <1>1, <1>2, <1>3, <1>4, <1>5, <1>6, <1>7, <1>8, <1>9, <1>10, <1>11, <1>12,
     <1>13, <1>14, <1>15, <1>16, <1>17, <1>18, <1>19 DEF IMNext, OpStep, EnsureStep, StopStep

\* No step leaves behind an unkilled process outside the record and outside
\* the hands of the mutex holder.
LEMMA IMStrayStep == IMInv /\ [IMNext]_imvars => NoStrayServer'
<1> SUFFICES ASSUME IMInv, [IMNext]_imvars PROVE NoStrayServer'
  OBVIOUS
<1> USE ManagerAssumption, OpsAre DEF IMInv, IMTypeOK, LockInv, HoldsLock, Resolving, ServerInv, NoStrayServer, Unkilled, Pids
<1>1. ASSUME NEW t \in Tasks, EnsureReuse(t) PROVE NoStrayServer'
  BY <1>1 DEF EnsureReuse, Return
<1>2. ASSUME NEW t \in Tasks, EnsureEnter(t) PROVE NoStrayServer'
  BY <1>2 DEF EnsureEnter
<1>3. ASSUME NEW t \in Tasks, ResolveFails(t) PROVE NoStrayServer'
  BY <1>3 DEF ResolveFails, Return
<1>4. ASSUME NEW t \in Tasks, Resolved(t) PROVE NoStrayServer'
  BY <1>4 DEF Resolved, TakeAndKill
<1>5. ASSUME NEW t \in Tasks, Reaped(t) PROVE NoStrayServer'
  BY <1>5 DEF Reaped
<1>6. ASSUME NEW t \in Tasks, Spawn(t) PROVE NoStrayServer'
  BY <1>6 DEF Spawn
<1>7. ASSUME NEW t \in Tasks, SpawnFails(t) PROVE NoStrayServer'
  BY <1>7 DEF SpawnFails, Return
<1>8. ASSUME NEW t \in Tasks, Healthy(t) PROVE NoStrayServer'
  BY <1>8 DEF Healthy, Return
<1>9. ASSUME NEW t \in Tasks, HealthTimeout(t) PROVE NoStrayServer'
  BY <1>9 DEF HealthTimeout, Return
<1>10. ASSUME NEW t \in Tasks, StopEnter(t) PROVE NoStrayServer'
  BY <1>10 DEF StopEnter, TakeAndKill
<1>11. ASSUME NEW t \in Tasks, StopDone(t) PROVE NoStrayServer'
  BY <1>11 DEF StopDone
<1>12. ASSUME NEW t \in Tasks, CallStop(t) PROVE NoStrayServer'
  BY <1>12 DEF CallStop
<1>13. ASSUME NEW t \in Tasks, NEW m \in Models, CallEnsure(t, m) PROVE NoStrayServer'
  BY <1>13 DEF CallEnsure
<1>14. ASSUME NEW t \in Tasks, NEW r \in Results, Resume(t, r) PROVE NoStrayServer'
  BY <1>14 DEF Resume, Results
<1>15. CASE MarkUsed
  BY <1>15 DEF MarkUsed
<1>16. CASE TimePasses
  BY <1>16 DEF TimePasses
<1>17. ASSUME NEW p \in Pids, ProcessExits(p) PROVE NoStrayServer'
  BY <1>17 DEF ProcessExits
<1>18. CASE UNCHANGED imvars
  BY <1>18 DEF imvars
<1>19. ASSUME NEW t \in Tasks, DownloadAnswers(t) PROVE NoStrayServer'
  BY <1>19 DEF DownloadAnswers
<1> QED
  BY <1>1, <1>2, <1>3, <1>4, <1>5, <1>6, <1>7, <1>8, <1>9, <1>10, <1>11, <1>12,
     <1>13, <1>14, <1>15, <1>16, <1>17, <1>18, <1>19 DEF IMNext, OpStep, EnsureStep, StopStep

\* Nobody but the mutex holder touches the record, and it does not before its
\* model is resolved; a kill goes to a process that is off the record.
LEMMA IMKeptStep == IMInv /\ [IMNext]_imvars => KeptInv'
<1> SUFFICES ASSUME IMInv, [IMNext]_imvars PROVE KeptInv'
  OBVIOUS
<1> USE ManagerAssumption, OpsAre DEF IMInv, IMTypeOK, LockInv, HoldsLock, Resolving, ServerInv, KeptInv, Pids
<1>1. ASSUME NEW t \in Tasks, EnsureReuse(t) PROVE KeptInv'
  BY <1>1 DEF EnsureReuse, Return
<1>2. ASSUME NEW t \in Tasks, EnsureEnter(t) PROVE KeptInv'
  BY <1>2 DEF EnsureEnter
<1>3. ASSUME NEW t \in Tasks, ResolveFails(t) PROVE KeptInv'
  BY <1>3 DEF ResolveFails, Return
<1>4. ASSUME NEW t \in Tasks, Resolved(t) PROVE KeptInv'
  BY <1>4 DEF Resolved, TakeAndKill
<1>5. ASSUME NEW t \in Tasks, Reaped(t) PROVE KeptInv'
  BY <1>5 DEF Reaped
<1>6. ASSUME NEW t \in Tasks, Spawn(t) PROVE KeptInv'
  BY <1>6 DEF Spawn
<1>7. ASSUME NEW t \in Tasks, SpawnFails(t) PROVE KeptInv'
  BY <1>7 DEF SpawnFails, Return
<1>8. ASSUME NEW t \in Tasks, Healthy(t) PROVE KeptInv'
  BY <1>8 DEF Healthy, Return
<1>9. ASSUME NEW t \in Tasks, HealthTimeout(t) PROVE KeptInv'
  BY <1>9 DEF HealthTimeout, Return
<1>10. ASSUME NEW t \in Tasks, StopEnter(t) PROVE KeptInv'
  BY <1>10 DEF StopEnter, TakeAndKill
<1>11. ASSUME NEW t \in Tasks, StopDone(t) PROVE KeptInv'
  BY <1>11 DEF StopDone
<1>12. ASSUME NEW t \in Tasks, CallStop(t) PROVE KeptInv'
  BY <1>12 DEF CallStop
<1>13. ASSUME NEW t \in Tasks, NEW m \in Models, CallEnsure(t, m) PROVE KeptInv'
  BY <1>13 DEF CallEnsure
<1>14. ASSUME NEW t \in Tasks, NEW r \in Results, Resume(t, r) PROVE KeptInv'
  BY <1>14 DEF Resume, Results
<1>15. CASE MarkUsed
  BY <1>15 DEF MarkUsed
<1>16. CASE TimePasses
  BY <1>16 DEF TimePasses
<1>17. ASSUME NEW p \in Pids, ProcessExits(p) PROVE KeptInv'
  BY <1>17 DEF ProcessExits
<1>18. CASE UNCHANGED imvars
  BY <1>18 DEF imvars
<1>19. ASSUME NEW t \in Tasks, DownloadAnswers(t) PROVE KeptInv'
  BY <1>19 DEF DownloadAnswers
<1> QED
  BY <1>1, <1>2, <1>3, <1>4, <1>5, <1>6, <1>7, <1>8, <1>9, <1>10, <1>11, <1>12,
     <1>13, <1>14, <1>15, <1>16, <1>17, <1>18, <1>19 DEF IMNext, OpStep, EnsureStep, StopStep

\* Every step of the manager keeps its invariant.
LEMMA IMInvStep == IMInv /\ [IMNext]_imvars => IMInv'
BY IMTypeStep, IMLockStep, IMServerStep, IMStrayStep, IMKeptStep DEF IMInv

\* The manager's state keeps its types.
THEOREM IMTypeCorrect == IMSpec => []IMTypeOK
<1>1. IMInit => IMInv
  BY IMInitInv
<1>2. IMInv /\ [IMNext]_imvars => IMInv'
  BY IMInvStep
<1>3. IMInv => IMTypeOK
  BY DEF IMInv
<1> QED
  BY <1>1, <1>2, <1>3, PTL DEF IMSpec

\* No stray server, whatever calls the manager: every llama.cpp process that
\* was not killed is the recorded one or the one being brought up under the
\* mutex.
THEOREM IMNoStrayServer == IMSpec => []NoStrayServer
<1>1. IMInit => IMInv
  BY IMInitInv
<1>2. IMInv /\ [IMNext]_imvars => IMInv'
  BY IMInvStep
<1>3. IMInv => NoStrayServer
  BY DEF IMInv
<1> QED
  BY <1>1, <1>2, <1>3, PTL DEF IMSpec

\* At most one server is up that nobody has killed: the recorded one, or the
\* new one, since the record is empty while a new one comes up.
THEOREM IMOneServer == IMSpec => [](\A p, q \in Unkilled : p = q)
<1>1. IMInit => IMInv
  BY IMInitInv
<1>2. IMInv /\ [IMNext]_imvars => IMInv'
  BY IMInvStep
<1>3. IMInv => \A p, q \in Unkilled : p = q
  <2> SUFFICES ASSUME IMInv, NEW p \in Unkilled, NEW q \in Unkilled PROVE p = q
    OBVIOUS
  <2>1. p # 0 /\ q # 0
    BY DEF IMInv, IMTypeOK, Unkilled, Pids
  <2> QED
    BY <2>1 DEF IMInv, IMTypeOK, LockInv, HoldsLock, Resolving, ServerInv, NoStrayServer
<1> QED
  BY <1>1, <1>2, <1>3, PTL DEF IMSpec

\* A step that leaves a switch unresolved, or ends it with an error, leaves the
\* record what it was and kills nothing that is on it.
LEMMA IMSwitchStep ==
  ASSUME IMInv, [IMNext]_imvars, NEW t \in Tasks,
         op[t] \in Resolving, op'[t] \in Resolving \cup {"err"}
  PROVE  slot' = found /\ found \notin killed'
<1> USE OpsAre DEF Resolving
<1>1. ilock = t /\ slot = found
  BY DEF IMInv, LockInv, HoldsLock, KeptInv
<1>2. slot' = slot
  <2>1. ASSUME NEW u \in Tasks, OpStep(u)
        PROVE  slot' = slot
    <3>1. CASE u = t
      BY <2>1, <3>1 DEF OpStep, EnsureStep, StopStep, EnsureReuse, EnsureEnter, DownloadAnswers,
         ResolveFails, Resolved, Reaped, Spawn, SpawnFails, Healthy, HealthTimeout, StopEnter,
         StopDone, TakeAndKill, Return, IMInv, IMTypeOK
    <3>2. CASE u # t
      <4>1. ilock # u /\ ilock # NoTask
        BY <1>1, <3>2, ManagerAssumption
      <4>2. op[u] \notin HoldsLock
        BY <4>1 DEF IMInv, LockInv
      <4> QED BY <2>1, <4>1, <4>2 DEF OpStep, EnsureStep, StopStep, EnsureReuse, EnsureEnter,
         DownloadAnswers, ResolveFails, Resolved, Reaped, Spawn, SpawnFails, Healthy,
         HealthTimeout, StopEnter, StopDone, HoldsLock
    <3> QED BY <3>1, <3>2
  <2>2. ASSUME NEW u \in Tasks, CallStop(u) \/ (\E m \in Models : CallEnsure(u, m))
                 \/ (\E r \in Results : Resume(u, r))
        PROVE  slot' = slot
    BY <2>2 DEF CallStop, CallEnsure, Resume
  <2>3. ASSUME MarkUsed \/ TimePasses \/ (\E p \in Pids : ProcessExits(p)) \/ UNCHANGED imvars
        PROVE  slot' = slot
    BY <2>3 DEF MarkUsed, TimePasses, ProcessExits, imvars
  <2> QED BY <2>1, <2>2, <2>3 DEF IMNext
<1>3. slot' \notin killed'
  BY IMKeptStep DEF KeptInv
<1> QED BY <1>1, <1>2, <1>3

\* A switch keeps the running server until its own model is resolved, for every
\* interleaving of every set of callers.
THEOREM IMFailedSwitch == IMSpec => FailedSwitchKeepsServer
<1>1. IMInit => IMInv
  BY IMInitInv
<1>2. IMInv /\ [IMNext]_imvars => IMInv'
  BY IMInvStep
<1>3. IMInv /\ [IMNext]_imvars =>
        [\A t \in Tasks :
           op[t] \in Resolving /\ op'[t] \in Resolving \cup {"err"} =>
             slot' = found /\ found \notin killed']_imvars
  BY IMSwitchStep
<1> QED
  BY <1>1, <1>2, <1>3, PTL DEF IMSpec, FailedSwitchKeepsServer
===========================================================================
