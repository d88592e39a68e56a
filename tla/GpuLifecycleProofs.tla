------------------------ MODULE GpuLifecycleProofs ------------------------
(* The manager's theorems carried over to the program that calls it, and   *)
(* the theorems on training runs, for every set of callers and models.     *)
EXTENDS GpuLifecycle, InferenceManagerProofs

\* The part of TypeOK that is not the manager's.
TrTypeOK ==
  /\ tlock \in Callers \cup {NoTask}
  /\ active \in 0..MaxRuns
  /\ runs \in 0..MaxRuns
  /\ driver \in [Runs -> {"none", "gone"} \cup Driving]
  /\ cancel \in [Runs -> BOOLEAN]
  /\ pc \in [Tasks -> PCs]
  /\ mark \in [Tasks -> 0..MaxSpawns]
  /\ runMark \in [Runs -> 0..MaxSpawns]

\* The training mutex is held exactly by the task inside start().
TLockInv == \A t \in Tasks : pc[t] \in HoldsTraining <=> tlock = t

\* Runs are numbered in order, and start() goes on only while none is active.
RunInv ==
  /\ active <= runs
  /\ \A r \in Runs : r > runs => driver[r] = "none"
  /\ tlock # NoTask => active = 0
  /\ OneRunAtATime

\* The marks taken so far, and those since which no older server is up.
Past == 0..spawned
Safe == {n \in Past : \A p \in Unkilled : p > n}

\* A server older than the VRAM check is gone as soon as the check has passed
\* or the stop it asked for has taken the record.
MarkInv ==
  /\ \A t \in Tasks : mark[t] \in Past
  /\ \A r \in Runs : runMark[r] \in Past
  /\ \A c \in Callers :
       pc[c] \in {"st_stop", "job_stop"} /\ op[c] \in {"stopreap", "done"} => mark[c] \in Safe
  /\ \A c \in Callers : pc[c] \in Cleared => mark[c] \in Safe
  /\ \A r \in Runs : driver[r] \in Working => runMark[r] \in Safe

GpuInv == IMInv /\ TrTypeOK /\ TLockInv /\ RunInv /\ MarkInv

\* A driver on its way through the streaming call.
DriverMoves(r) ==
  \/ Drive(r, {"sending"}, "reading") \/ Drive(r, {"sending", "reading"}, "ended")
  \/ Drive(r, {"reading"}, "reaping") \/ Drive(r, {"reaping"}, "ended")
  \/ Drive(r, {"reading"}, "ended")

\* The labels of the handlers, spelled out.
LEMMA PCsAre ==
  PCs = {"idle", "server", "stopping", "boot", "chat", "send", "job_status", "job_stop",
         "st_status", "st_stop", "st_run", "job_run", "job"}
BY DEF PCs, HoldsTraining, Cleared

\* Callers and the watchdog are tasks, and no caller stands for a free mutex.
LEMMA WhoIsWho == Callers \subseteq Tasks /\ Watchdog \in Tasks /\ NoTask \notin Callers
BY GpuAssumption, ManagerAssumption

\* Whatever the callers do, the manager takes one of its own steps.
LEMMA StepIsManagerStep == [Next]_vars => [IMNext]_imvars
<1> SUFFICES ASSUME [Next]_vars PROVE [IMNext]_imvars
  OBVIOUS
<1> USE WhoIsWho
<1>1. ASSUME NEW c \in Callers, NEW m \in Models, StartInferenceServer(c, m) PROVE [IMNext]_imvars
  BY <1>1 DEF StartInferenceServer, IMNext, Results, vars
<1>2. ASSUME NEW c \in Callers, NEW m \in Models, BootstrapWithKey(c, m) PROVE [IMNext]_imvars
  BY <1>2 DEF BootstrapWithKey, IMNext, Results, vars
<1>3. ASSUME NEW c \in Callers, StopInferenceServer(c) PROVE [IMNext]_imvars
  BY <1>3 DEF StopInferenceServer, IMNext, Results, vars
<1>4. ASSUME NEW c \in Callers, Bootstrap(c) PROVE [IMNext]_imvars
  BY <1>4 DEF Bootstrap, IMNext, Results, vars
<1>5. ASSUME NEW c \in Callers, ChatSend(c) PROVE [IMNext]_imvars
  BY <1>5 DEF ChatSend, IMNext, Results, vars
<1>6. ASSUME NEW c \in Callers, StartTraining(c) PROVE [IMNext]_imvars
  BY <1>6 DEF StartTraining, IMNext, Results, vars
<1>7. ASSUME NEW c \in Callers, StopTraining(c) PROVE [IMNext]_imvars
  BY <1>7 DEF StopTraining, IMNext, Results, vars
<1>8. ASSUME NEW c \in Callers, TestAdapter(c) PROVE [IMNext]_imvars
  BY <1>8 DEF TestAdapter, IMNext, Results, vars
<1>9. ASSUME NEW c \in Callers, ExportDomainGguf(c) PROVE [IMNext]_imvars
  BY <1>9 DEF ExportDomainGguf, IMNext, Results, vars
<1>10. ASSUME NEW c \in Callers, StartInferenceServerReturns(c) PROVE [IMNext]_imvars
  BY <1>10 DEF StartInferenceServerReturns, IMNext, Results, vars
<1>11. ASSUME NEW c \in Callers, BootstrapReuses(c) PROVE [IMNext]_imvars
  BY <1>11 DEF BootstrapReuses, IMNext, Results, vars
<1>12. ASSUME NEW c \in Callers, NEW m \in Models, BootstrapDefault(c, m) PROVE [IMNext]_imvars
  BY <1>12 DEF BootstrapDefault, IMNext, Results, vars
<1>13. ASSUME NEW c \in Callers, BootstrapFails(c) PROVE [IMNext]_imvars
  BY <1>13 DEF BootstrapFails, IMNext, Results, vars
<1>14. ASSUME NEW c \in Callers, BootstrapStarted(c) PROVE [IMNext]_imvars
  BY <1>14 DEF BootstrapStarted, IMNext, Results, vars
<1>15. ASSUME NEW c \in Callers, ChatMarks(c) PROVE [IMNext]_imvars
  BY <1>15 DEF ChatMarks, IMNext, Results, vars
<1>16. ASSUME NEW c \in Callers, TrainingFreesVram(c) PROVE [IMNext]_imvars
  BY <1>16 DEF TrainingFreesVram, FreeVram, IMNext, Results, vars
<1>17. ASSUME NEW c \in Callers, TrainingStoppedServer(c) PROVE [IMNext]_imvars
  BY <1>17 DEF TrainingStoppedServer, IMNext, Results, vars
<1>18. ASSUME NEW c \in Callers, ActivateFails(c) PROVE [IMNext]_imvars
  BY <1>18 DEF ActivateFails, IMNext, Results, vars
<1>19. ASSUME NEW c \in Callers, Activate(c) PROVE [IMNext]_imvars
  BY <1>19 DEF Activate, IMNext, Results, vars
<1>20. ASSUME NEW c \in Callers, JobRefused(c) PROVE [IMNext]_imvars
  BY <1>20 DEF JobRefused, IMNext, Results, vars
<1>21. ASSUME NEW c \in Callers, JobFreesVram(c) PROVE [IMNext]_imvars
  BY <1>21 DEF JobFreesVram, FreeVram, IMNext, Results, vars
<1>22. ASSUME NEW c \in Callers, JobStoppedServer(c) PROVE [IMNext]_imvars
  BY <1>22 DEF JobStoppedServer, IMNext, Results, vars
<1>23. ASSUME NEW c \in Callers, JobStarts(c) PROVE [IMNext]_imvars
  BY <1>23 DEF JobStarts, IMNext, Results, vars
<1>24. ASSUME NEW c \in Callers, JobEnds(c) PROVE [IMNext]_imvars
  BY <1>24 DEF JobEnds, IMNext, Results, vars
<1>25. ASSUME NEW t \in Tasks, InferenceServerStopped(t) PROVE [IMNext]_imvars
  BY <1>25 DEF InferenceServerStopped, IMNext, Results, vars
<1>26. ASSUME NEW t \in Tasks, ManagerStep(t) PROVE [IMNext]_imvars
  BY <1>26 DEF ManagerStep, trvars, IMNext, Results, vars
<1>27. ASSUME NEW r \in Runs, DriverMoves(r) PROVE [IMNext]_imvars
  BY <1>27 DEF DriverMoves, Drive, IMNext, Results, vars
<1>28. ASSUME NEW r \in Runs, DriverClears(r) PROVE [IMNext]_imvars
  BY <1>28 DEF DriverClears, IMNext, Results, vars
<1>29. CASE WatchdogTick
  BY <1>29 DEF WatchdogTick, IMNext, Results, vars
<1>30. CASE World
  BY <1>30 DEF World, trvars, IMNext, Results, vars
<1>31. CASE UNCHANGED vars
  BY <1>31 DEF vars, trvars, IMNext, Results, vars
<1> QED
  BY <1>1, <1>2, <1>3, <1>4, <1>5, <1>6, <1>7, <1>8, <1>9, <1>10, <1>11, <1>12, <1>13,
     <1>14, <1>15, <1>16, <1>17, <1>18, <1>19, <1>20, <1>21, <1>22, <1>23, <1>24,
     <1>25, <1>26, <1>27, <1>28, <1>29, <1>30, <1>31
     DEF Next, Begin, RagChat, Continue, DriverStep, RequestSent, WorkerFails, WorkerAnswers,
         WorkerExits, DriverCancelled, DriverMoves

\* Types of the training side.
LEMMA TrTypeStep == TrTypeOK /\ IMTypeOK /\ [Next]_vars => TrTypeOK'
<1> SUFFICES ASSUME TrTypeOK /\ IMTypeOK, [Next]_vars PROVE TrTypeOK'
  OBVIOUS
<1> USE GpuAssumption, WhoIsWho, PCsAre DEF TrTypeOK, Runs, Driving, Working
<1>1. ASSUME NEW c \in Callers, NEW m \in Models, StartInferenceServer(c, m) PROVE TrTypeOK'
  BY <1>1 DEF StartInferenceServer, CallEnsure, Goto, OnlyPc
<1>2. ASSUME NEW c \in Callers, NEW m \in Models, BootstrapWithKey(c, m) PROVE TrTypeOK'
  BY <1>2 DEF BootstrapWithKey, CallEnsure, Goto, OnlyPc
<1>3. ASSUME NEW c \in Callers, StopInferenceServer(c) PROVE TrTypeOK'
  BY <1>3 DEF StopInferenceServer, CallStop, Goto, OnlyPc
<1>4. ASSUME NEW c \in Callers, Bootstrap(c) PROVE TrTypeOK'
  BY <1>4 DEF Bootstrap, Goto, OnlyPc
<1>5. ASSUME NEW c \in Callers, ChatSend(c) PROVE TrTypeOK'
  BY <1>5 DEF ChatSend, Goto, OnlyPc
<1>6. ASSUME NEW c \in Callers, StartTraining(c) PROVE TrTypeOK'
  BY <1>6 DEF StartTraining, Goto, OnlyPc
<1>7. ASSUME NEW c \in Callers, StopTraining(c) PROVE TrTypeOK'
  BY <1>7 DEF StopTraining, Goto, OnlyPc
<1>8. ASSUME NEW c \in Callers, TestAdapter(c) PROVE TrTypeOK'
  BY <1>8 DEF TestAdapter, Goto, OnlyPc
<1>9. ASSUME NEW c \in Callers, ExportDomainGguf(c) PROVE TrTypeOK'
  BY <1>9 DEF ExportDomainGguf, Goto, OnlyPc
<1>10. ASSUME NEW c \in Callers, StartInferenceServerReturns(c) PROVE TrTypeOK'
  BY <1>10 DEF StartInferenceServerReturns, Resume, Goto, OnlyPc
<1>11. ASSUME NEW c \in Callers, BootstrapReuses(c) PROVE TrTypeOK'
  BY <1>11 DEF BootstrapReuses, Goto, OnlyPc
<1>12. ASSUME NEW c \in Callers, NEW m \in Models, BootstrapDefault(c, m) PROVE TrTypeOK'
  BY <1>12 DEF BootstrapDefault, CallEnsure, Goto, OnlyPc
<1>13. ASSUME NEW c \in Callers, BootstrapFails(c) PROVE TrTypeOK'
  BY <1>13 DEF BootstrapFails, Resume, Goto, OnlyPc
<1>14. ASSUME NEW c \in Callers, BootstrapStarted(c) PROVE TrTypeOK'
  BY <1>14 DEF BootstrapStarted, Resume, Goto, OnlyPc
<1>15. ASSUME NEW c \in Callers, ChatMarks(c) PROVE TrTypeOK'
  BY <1>15 DEF ChatMarks, MarkUsed, Goto, OnlyPc
<1>16. ASSUME NEW c \in Callers, TrainingFreesVram(c) PROVE TrTypeOK'
  BY <1>16, ManagerAssumption DEF TrainingFreesVram, FreeVram, CallStop, Goto, OnlyPc, IMTypeOK
<1>17. ASSUME NEW c \in Callers, TrainingStoppedServer(c) PROVE TrTypeOK'
  BY <1>17 DEF TrainingStoppedServer, Resume, Goto, OnlyPc
<1>18. ASSUME NEW c \in Callers, ActivateFails(c) PROVE TrTypeOK'
  BY <1>18, ManagerAssumption DEF ActivateFails, Goto, OnlyPc, IMTypeOK
<1>19. ASSUME NEW c \in Callers, Activate(c) PROVE TrTypeOK'
  BY <1>19, ManagerAssumption DEF Activate, Goto, OnlyPc, IMTypeOK
<1>20. ASSUME NEW c \in Callers, JobRefused(c) PROVE TrTypeOK'
  BY <1>20 DEF JobRefused, Goto, OnlyPc
<1>21. ASSUME NEW c \in Callers, JobFreesVram(c) PROVE TrTypeOK'
  BY <1>21, ManagerAssumption DEF JobFreesVram, FreeVram, CallStop, Goto, OnlyPc, IMTypeOK
<1>22. ASSUME NEW c \in Callers, JobStoppedServer(c) PROVE TrTypeOK'
  BY <1>22 DEF JobStoppedServer, Resume, Goto, OnlyPc
<1>23. ASSUME NEW c \in Callers, JobStarts(c) PROVE TrTypeOK'
  BY <1>23 DEF JobStarts, Goto, OnlyPc
<1>24. ASSUME NEW c \in Callers, JobEnds(c) PROVE TrTypeOK'
  BY <1>24, ManagerAssumption DEF JobEnds, Goto, OnlyPc, IMTypeOK
<1>25. ASSUME NEW t \in Tasks, InferenceServerStopped(t) PROVE TrTypeOK'
  BY <1>25 DEF InferenceServerStopped, Resume, Goto, OnlyPc
<1>26. ASSUME NEW t \in Tasks, ManagerStep(t) PROVE TrTypeOK'
  BY <1>26 DEF ManagerStep, trvars, Goto, OnlyPc
<1>27. ASSUME NEW r \in Runs, DriverMoves(r) PROVE TrTypeOK'
  BY <1>27 DEF DriverMoves, Drive
<1>28. ASSUME NEW r \in Runs, DriverClears(r) PROVE TrTypeOK'
  BY <1>28 DEF DriverClears, Goto, OnlyPc
<1>29. CASE WatchdogTick
  BY <1>29 DEF WatchdogTick, CallStop, Goto, OnlyPc
<1>30. CASE World
  BY <1>30 DEF World, ProcessExits, TimePasses, trvars, Goto, OnlyPc
<1>31. CASE UNCHANGED vars
  BY <1>31 DEF vars, trvars, Goto, OnlyPc
<1> QED
  BY <1>1, <1>2, <1>3, <1>4, <1>5, <1>6, <1>7, <1>8, <1>9, <1>10, <1>11, <1>12, <1>13,
     <1>14, <1>15, <1>16, <1>17, <1>18, <1>19, <1>20, <1>21, <1>22, <1>23, <1>24,
     <1>25, <1>26, <1>27, <1>28, <1>29, <1>30, <1>31
     DEF Next, Begin, RagChat, Continue, DriverStep, RequestSent, WorkerFails, WorkerAnswers,
         WorkerExits, DriverCancelled, DriverMoves

\* Only start() takes the training mutex, and both its ends release it.
LEMMA TLockStep == TrTypeOK /\ TLockInv /\ [Next]_vars => TLockInv'
<1> SUFFICES ASSUME TrTypeOK /\ TLockInv, [Next]_vars PROVE TLockInv'
  OBVIOUS
<1> USE GpuAssumption, WhoIsWho, PCsAre DEF TrTypeOK, TLockInv, HoldsTraining
<1>1. ASSUME NEW c \in Callers, NEW m \in Models, StartInferenceServer(c, m) PROVE TLockInv'
  BY <1>1 DEF StartInferenceServer, CallEnsure, Goto, OnlyPc
<1>2. ASSUME NEW c \in Callers, NEW m \in Models, BootstrapWithKey(c, m) PROVE TLockInv'
  BY <1>2 DEF BootstrapWithKey, CallEnsure, Goto, OnlyPc
<1>3. ASSUME NEW c \in Callers, StopInferenceServer(c) PROVE TLockInv'
  BY <1>3 DEF StopInferenceServer, CallStop, Goto, OnlyPc
<1>4. ASSUME NEW c \in Callers, Bootstrap(c) PROVE TLockInv'
  BY <1>4 DEF Bootstrap, Goto, OnlyPc
<1>5. ASSUME NEW c \in Callers, ChatSend(c) PROVE TLockInv'
  BY <1>5 DEF ChatSend, Goto, OnlyPc
<1>6. ASSUME NEW c \in Callers, StartTraining(c) PROVE TLockInv'
  BY <1>6, ManagerAssumption DEF StartTraining, Goto, OnlyPc
<1>7. ASSUME NEW c \in Callers, StopTraining(c) PROVE TLockInv'
  BY <1>7 DEF StopTraining, Goto, OnlyPc
<1>8. ASSUME NEW c \in Callers, TestAdapter(c) PROVE TLockInv'
  BY <1>8 DEF TestAdapter, Goto, OnlyPc
<1>9. ASSUME NEW c \in Callers, ExportDomainGguf(c) PROVE TLockInv'
  BY <1>9 DEF ExportDomainGguf, Goto, OnlyPc
<1>10. ASSUME NEW c \in Callers, StartInferenceServerReturns(c) PROVE TLockInv'
  BY <1>10 DEF StartInferenceServerReturns, Resume, Goto, OnlyPc
<1>11. ASSUME NEW c \in Callers, BootstrapReuses(c) PROVE TLockInv'
  BY <1>11 DEF BootstrapReuses, Goto, OnlyPc
<1>12. ASSUME NEW c \in Callers, NEW m \in Models, BootstrapDefault(c, m) PROVE TLockInv'
  BY <1>12 DEF BootstrapDefault, CallEnsure, Goto, OnlyPc
<1>13. ASSUME NEW c \in Callers, BootstrapFails(c) PROVE TLockInv'
  BY <1>13 DEF BootstrapFails, Resume, Goto, OnlyPc
<1>14. ASSUME NEW c \in Callers, BootstrapStarted(c) PROVE TLockInv'
  BY <1>14 DEF BootstrapStarted, Resume, Goto, OnlyPc
<1>15. ASSUME NEW c \in Callers, ChatMarks(c) PROVE TLockInv'
  BY <1>15 DEF ChatMarks, MarkUsed, Goto, OnlyPc
<1>16. ASSUME NEW c \in Callers, TrainingFreesVram(c) PROVE TLockInv'
  BY <1>16 DEF TrainingFreesVram, FreeVram, CallStop, Goto, OnlyPc
<1>17. ASSUME NEW c \in Callers, TrainingStoppedServer(c) PROVE TLockInv'
  BY <1>17 DEF TrainingStoppedServer, Resume, Goto, OnlyPc
<1>18. ASSUME NEW c \in Callers, ActivateFails(c) PROVE TLockInv'
  BY <1>18, ManagerAssumption DEF ActivateFails, Goto, OnlyPc
<1>19. ASSUME NEW c \in Callers, Activate(c) PROVE TLockInv'
  BY <1>19, ManagerAssumption DEF Activate, Goto, OnlyPc
<1>20. ASSUME NEW c \in Callers, JobRefused(c) PROVE TLockInv'
  BY <1>20 DEF JobRefused, Goto, OnlyPc
<1>21. ASSUME NEW c \in Callers, JobFreesVram(c) PROVE TLockInv'
  BY <1>21 DEF JobFreesVram, FreeVram, CallStop, Goto, OnlyPc
<1>22. ASSUME NEW c \in Callers, JobStoppedServer(c) PROVE TLockInv'
  BY <1>22 DEF JobStoppedServer, Resume, Goto, OnlyPc
<1>23. ASSUME NEW c \in Callers, JobStarts(c) PROVE TLockInv'
  BY <1>23 DEF JobStarts, Goto, OnlyPc
<1>24. ASSUME NEW c \in Callers, JobEnds(c) PROVE TLockInv'
  BY <1>24 DEF JobEnds, Goto, OnlyPc
<1>25. ASSUME NEW t \in Tasks, InferenceServerStopped(t) PROVE TLockInv'
  BY <1>25 DEF InferenceServerStopped, Resume, Goto, OnlyPc
<1>26. ASSUME NEW t \in Tasks, ManagerStep(t) PROVE TLockInv'
  BY <1>26 DEF ManagerStep, trvars, Goto, OnlyPc
<1>27. ASSUME NEW r \in Runs, DriverMoves(r) PROVE TLockInv'
  BY <1>27 DEF DriverMoves, Drive
<1>28. ASSUME NEW r \in Runs, DriverClears(r) PROVE TLockInv'
  BY <1>28 DEF DriverClears, Goto, OnlyPc
<1>29. CASE WatchdogTick
  BY <1>29 DEF WatchdogTick, CallStop, Goto, OnlyPc
<1>30. CASE World
  BY <1>30 DEF World, ProcessExits, TimePasses, trvars, Goto, OnlyPc
<1>31. CASE UNCHANGED vars
  BY <1>31 DEF vars, trvars, Goto, OnlyPc
<1> QED
  BY <1>1, <1>2, <1>3, <1>4, <1>5, <1>6, <1>7, <1>8, <1>9, <1>10, <1>11, <1>12, <1>13,
     <1>14, <1>15, <1>16, <1>17, <1>18, <1>19, <1>20, <1>21, <1>22, <1>23, <1>24,
     <1>25, <1>26, <1>27, <1>28, <1>29, <1>30, <1>31
     DEF Next, Begin, RagChat, Continue, DriverStep, RequestSent, WorkerFails, WorkerAnswers,
         WorkerExits, DriverCancelled, DriverMoves

\* A run starts only under the training mutex, when none is active, and only
\* the driver of the active run clears it.
LEMMA RunStep == TrTypeOK /\ TLockInv /\ RunInv /\ [Next]_vars => RunInv'
<1> SUFFICES ASSUME TrTypeOK /\ TLockInv /\ RunInv, [Next]_vars PROVE RunInv'
  OBVIOUS
<1> USE GpuAssumption, WhoIsWho DEF TrTypeOK, TLockInv, HoldsTraining, RunInv, OneRunAtATime, Runs,
    Driving, Working
<1>1. ASSUME NEW c \in Callers, NEW m \in Models, StartInferenceServer(c, m) PROVE RunInv'
  BY <1>1 DEF StartInferenceServer, CallEnsure, Goto, OnlyPc
<1>2. ASSUME NEW c \in Callers, NEW m \in Models, BootstrapWithKey(c, m) PROVE RunInv'
  BY <1>2 DEF BootstrapWithKey, CallEnsure, Goto, OnlyPc
<1>3. ASSUME NEW c \in Callers, StopInferenceServer(c) PROVE RunInv'
  BY <1>3 DEF StopInferenceServer, CallStop, Goto, OnlyPc
<1>4. ASSUME NEW c \in Callers, Bootstrap(c) PROVE RunInv'
  BY <1>4 DEF Bootstrap, Goto, OnlyPc
<1>5. ASSUME NEW c \in Callers, ChatSend(c) PROVE RunInv'
  BY <1>5 DEF ChatSend, Goto, OnlyPc
<1>6. ASSUME NEW c \in Callers, StartTraining(c) PROVE RunInv'
  BY <1>6 DEF StartTraining, Goto, OnlyPc
<1>7. ASSUME NEW c \in Callers, StopTraining(c) PROVE RunInv'
  BY <1>7 DEF StopTraining, Goto, OnlyPc
<1>8. ASSUME NEW c \in Callers, TestAdapter(c) PROVE RunInv'
  BY <1>8 DEF TestAdapter, Goto, OnlyPc
<1>9. ASSUME NEW c \in Callers, ExportDomainGguf(c) PROVE RunInv'
  BY <1>9 DEF ExportDomainGguf, Goto, OnlyPc
<1>10. ASSUME NEW c \in Callers, StartInferenceServerReturns(c) PROVE RunInv'
  BY <1>10 DEF StartInferenceServerReturns, Resume, Goto, OnlyPc
<1>11. ASSUME NEW c \in Callers, BootstrapReuses(c) PROVE RunInv'
  BY <1>11 DEF BootstrapReuses, Goto, OnlyPc
<1>12. ASSUME NEW c \in Callers, NEW m \in Models, BootstrapDefault(c, m) PROVE RunInv'
  BY <1>12 DEF BootstrapDefault, CallEnsure, Goto, OnlyPc
<1>13. ASSUME NEW c \in Callers, BootstrapFails(c) PROVE RunInv'
  BY <1>13 DEF BootstrapFails, Resume, Goto, OnlyPc
<1>14. ASSUME NEW c \in Callers, BootstrapStarted(c) PROVE RunInv'
  BY <1>14 DEF BootstrapStarted, Resume, Goto, OnlyPc
<1>15. ASSUME NEW c \in Callers, ChatMarks(c) PROVE RunInv'
  BY <1>15 DEF ChatMarks, MarkUsed, Goto, OnlyPc
<1>16. ASSUME NEW c \in Callers, TrainingFreesVram(c) PROVE RunInv'
  BY <1>16 DEF TrainingFreesVram, FreeVram, CallStop, Goto, OnlyPc
<1>17. ASSUME NEW c \in Callers, TrainingStoppedServer(c) PROVE RunInv'
  BY <1>17 DEF TrainingStoppedServer, Resume, Goto, OnlyPc
<1>18. ASSUME NEW c \in Callers, ActivateFails(c) PROVE RunInv'
  BY <1>18 DEF ActivateFails, Goto, OnlyPc
<1>19. ASSUME NEW c \in Callers, Activate(c) PROVE RunInv'
  BY <1>19 DEF Activate, Goto, OnlyPc
<1>20. ASSUME NEW c \in Callers, JobRefused(c) PROVE RunInv'
  BY <1>20 DEF JobRefused, Goto, OnlyPc
<1>21. ASSUME NEW c \in Callers, JobFreesVram(c) PROVE RunInv'
  BY <1>21 DEF JobFreesVram, FreeVram, CallStop, Goto, OnlyPc
<1>22. ASSUME NEW c \in Callers, JobStoppedServer(c) PROVE RunInv'
  BY <1>22 DEF JobStoppedServer, Resume, Goto, OnlyPc
<1>23. ASSUME NEW c \in Callers, JobStarts(c) PROVE RunInv'
  BY <1>23 DEF JobStarts, Goto, OnlyPc
<1>24. ASSUME NEW c \in Callers, JobEnds(c) PROVE RunInv'
  BY <1>24 DEF JobEnds, Goto, OnlyPc
<1>25. ASSUME NEW t \in Tasks, InferenceServerStopped(t) PROVE RunInv'
  BY <1>25 DEF InferenceServerStopped, Resume, Goto, OnlyPc
<1>26. ASSUME NEW t \in Tasks, ManagerStep(t) PROVE RunInv'
  BY <1>26 DEF ManagerStep, trvars, Goto, OnlyPc
<1>27. ASSUME NEW r \in Runs, DriverMoves(r) PROVE RunInv'
  BY <1>27 DEF DriverMoves, Drive
<1>28. ASSUME NEW r \in Runs, DriverClears(r) PROVE RunInv'
  BY <1>28 DEF DriverClears, Goto, OnlyPc
<1>29. CASE WatchdogTick
  BY <1>29 DEF WatchdogTick, CallStop, Goto, OnlyPc
<1>30. CASE World
  BY <1>30 DEF World, ProcessExits, TimePasses, trvars, Goto, OnlyPc
<1>31. CASE UNCHANGED vars
  BY <1>31 DEF vars, trvars, Goto, OnlyPc
<1> QED
  BY <1>1, <1>2, <1>3, <1>4, <1>5, <1>6, <1>7, <1>8, <1>9, <1>10, <1>11, <1>12, <1>13,
     <1>14, <1>15, <1>16, <1>17, <1>18, <1>19, <1>20, <1>21, <1>22, <1>23, <1>24,
     <1>25, <1>26, <1>27, <1>28, <1>29, <1>30, <1>31
     DEF Next, Begin, RagChat, Continue, DriverStep, RequestSent, WorkerFails, WorkerAnswers,
         WorkerExits, DriverCancelled, DriverMoves

\* Only Spawn adds a process, and it gets the next pid.
LEMMA OnlySpawnAdds ==
  ASSUME IMInv, [IMNext]_imvars
  PROVE  /\ spawned <= spawned' /\ spawned \in Nat
         /\ \A p \in Unkilled' : p \in Unkilled \/ p > spawned
<1> USE DEF IMInv, IMTypeOK, Unkilled
<1>1. ASSUME NEW t \in Tasks, Spawn(t) PROVE spawned <= spawned' /\ \A p \in Unkilled' : p \in Unkilled \/ p > spawned
  BY <1>1 DEF Spawn
<1>2. ASSUME NEW t \in Tasks, OpStep(t), ~Spawn(t)
      PROVE  spawned' = spawned /\ Unkilled' \subseteq Unkilled
  BY <1>2 DEF OpStep, EnsureStep, StopStep, EnsureReuse, EnsureEnter, DownloadAnswers, ResolveFails,
     Resolved, Reaped, SpawnFails, Healthy, HealthTimeout, StopEnter, StopDone,
     TakeAndKill, Return
<1>3. ASSUME NEW t \in Tasks, CallStop(t) \/ (\E m \in Models : CallEnsure(t, m))
               \/ (\E r \in Results : Resume(t, r))
      PROVE  spawned' = spawned /\ Unkilled' = Unkilled
  BY <1>3 DEF CallStop, CallEnsure, Resume
<1>4. ASSUME MarkUsed \/ TimePasses \/ (\E p \in Pids : ProcessExits(p)) \/ UNCHANGED imvars
      PROVE  spawned' = spawned /\ Unkilled' \subseteq Unkilled
  BY <1>4 DEF MarkUsed, TimePasses, ProcessExits, imvars
<1> QED
  BY <1>1, <1>2, <1>3, <1>4 DEF IMNext

\* When the mutex is free or its holder is not bringing up a server, and the
\* record is empty, nothing unkilled is up.
LEMMA NothingUp ==
  ASSUME IMInv, slot = 0, \A t \in Tasks : ilock = t => op[t] # "health"
  PROVE  Safe = Past
BY DEF IMInv, IMTypeOK, NoStrayServer, Unkilled, Pids, Safe

\* A server that is gone does not come back, and a new one is newer than any
\* mark.
LEMMA SafeGrows ==
  ASSUME IMInv, [IMNext]_imvars
  PROVE  Past \subseteq Past' /\ Safe \subseteq Safe'
<1>1. /\ spawned <= spawned' /\ spawned \in Nat /\ spawned' \in Nat
      /\ \A p \in Unkilled' : p \in Unkilled \/ p > spawned
  BY OnlySpawnAdds, IMTypeStep DEF IMTypeOK
<1>2. Past \subseteq Past'
  BY <1>1 DEF Past
<1>3. ASSUME NEW n \in Safe PROVE n \in Safe'
  <2>1. n \in Past' /\ n \in Nat /\ n <= spawned
    BY <1>1, <1>2 DEF Safe, Past
  <2>2. ASSUME NEW p \in Unkilled' PROVE p > n
    <3>1. CASE p \in Unkilled
      BY <3>1 DEF Safe
    <3>2. CASE p > spawned
      <4>1. p \in Nat
        BY IMTypeStep DEF Unkilled, IMTypeOK, Pids
      <4> QED BY <3>2, <4>1, <2>1, <1>1
    <3> QED BY <1>1, <3>1, <3>2
  <2> QED BY <2>1, <2>2 DEF Safe
<1> QED BY <1>2, <1>3

\* The check of FreeVram finds no record, or the stop it asks for takes the
\* record it finds; after either nothing unkilled is up, and what is spawned
\* later has a greater pid than the mark.
LEMMA MarkStep == GpuInv /\ [Next]_vars => MarkInv'
<1> SUFFICES ASSUME GpuInv, [Next]_vars PROVE MarkInv'
  OBVIOUS
<1> USE GpuAssumption, WhoIsWho DEF GpuInv, MarkInv, TrTypeOK, IMInv, IMTypeOK, Runs, Cleared, Driving, Working
<1>a. Past \subseteq Past' /\ Safe \subseteq Safe'
  BY StepIsManagerStep, SafeGrows
<1>b. 0 \in Past /\ spawned \in Past
  BY DEF Past
<1>c. ASSUME slot' = 0, \A t \in Tasks : ilock' = t => op'[t] # "health"
      PROVE  Safe' = Past'
  <2>1. IMInv'
    BY StepIsManagerStep, IMInvStep
  <2> QED BY <1>c, <2>1 DEF NoStrayServer, Unkilled, Pids, Safe
<1> USE <1>a
<1>1. ASSUME NEW c \in Callers, NEW m \in Models, StartInferenceServer(c, m) PROVE MarkInv'
  BY <1>1 DEF StartInferenceServer, CallEnsure, Goto, OnlyPc, imvars
<1>2. ASSUME NEW c \in Callers, NEW m \in Models, BootstrapWithKey(c, m) PROVE MarkInv'
  BY <1>2 DEF BootstrapWithKey, CallEnsure, Goto, OnlyPc, imvars
<1>3. ASSUME NEW c \in Callers, StopInferenceServer(c) PROVE MarkInv'
  BY <1>3 DEF StopInferenceServer, CallStop, Goto, OnlyPc, imvars
<1>4. ASSUME NEW c \in Callers, Bootstrap(c) PROVE MarkInv'
  BY <1>4 DEF Bootstrap, Goto, OnlyPc, imvars
<1>5. ASSUME NEW c \in Callers, ChatSend(c) PROVE MarkInv'
  BY <1>5 DEF ChatSend, Goto, OnlyPc, imvars
<1>6. ASSUME NEW c \in Callers, StartTraining(c) PROVE MarkInv'
  BY <1>6 DEF StartTraining, Goto, OnlyPc, imvars
<1>7. ASSUME NEW c \in Callers, StopTraining(c) PROVE MarkInv'
  BY <1>7 DEF StopTraining, Goto, OnlyPc, imvars
<1>8. ASSUME NEW c \in Callers, TestAdapter(c) PROVE MarkInv'
  BY <1>8 DEF TestAdapter, Goto, OnlyPc, imvars
<1>9. ASSUME NEW c \in Callers, ExportDomainGguf(c) PROVE MarkInv'
  BY <1>9 DEF ExportDomainGguf, Goto, OnlyPc, imvars
<1>10. ASSUME NEW c \in Callers, StartInferenceServerReturns(c) PROVE MarkInv'
  BY <1>10 DEF StartInferenceServerReturns, Resume, Goto, OnlyPc, imvars
<1>11. ASSUME NEW c \in Callers, BootstrapReuses(c) PROVE MarkInv'
  BY <1>11 DEF BootstrapReuses, Goto, OnlyPc, imvars
<1>12. ASSUME NEW c \in Callers, NEW m \in Models, BootstrapDefault(c, m) PROVE MarkInv'
  BY <1>12 DEF BootstrapDefault, CallEnsure, Goto, OnlyPc, imvars
<1>13. ASSUME NEW c \in Callers, BootstrapFails(c) PROVE MarkInv'
  BY <1>13 DEF BootstrapFails, Resume, Goto, OnlyPc, imvars
<1>14. ASSUME NEW c \in Callers, BootstrapStarted(c) PROVE MarkInv'
  BY <1>14 DEF BootstrapStarted, Resume, Goto, OnlyPc, imvars
<1>15. ASSUME NEW c \in Callers, ChatMarks(c) PROVE MarkInv'
  BY <1>15 DEF ChatMarks, MarkUsed, Goto, OnlyPc, imvars
<1>16. ASSUME NEW c \in Callers, TrainingFreesVram(c) PROVE MarkInv'
  <2>1. CASE Running
    BY <1>16, <2>1, <1>b DEF TrainingFreesVram, FreeVram, CallStop, Goto
  <2>2. CASE ~Running
    <3>1. Safe = Past
      BY <1>16, <2>2, NothingUp, ManagerAssumption DEF TrainingFreesVram, FreeVram, CallStop, Running
    <3>2. spawned \in Safe'
      BY <3>1, <1>a, <1>b
    <3> QED
      BY <1>16, <2>2, <3>2, <1>b DEF TrainingFreesVram, FreeVram, CallStop, Goto, imvars
  <2> QED BY <2>1, <2>2
<1>17. ASSUME NEW c \in Callers, TrainingStoppedServer(c) PROVE MarkInv'
  BY <1>17 DEF TrainingStoppedServer, Resume, Goto, OnlyPc, imvars
<1>18. ASSUME NEW c \in Callers, ActivateFails(c) PROVE MarkInv'
  BY <1>18, <1>b DEF ActivateFails, Goto, OnlyPc, imvars
<1>19. ASSUME NEW c \in Callers, Activate(c) PROVE MarkInv'
  BY <1>19, <1>b DEF Activate, Goto, OnlyPc, imvars
<1>20. ASSUME NEW c \in Callers, JobRefused(c) PROVE MarkInv'
  BY <1>20 DEF JobRefused, Goto, OnlyPc, imvars
<1>21. ASSUME NEW c \in Callers, JobFreesVram(c) PROVE MarkInv'
  <2>1. CASE Running
    BY <1>21, <2>1, <1>b DEF JobFreesVram, FreeVram, CallStop, Goto
  <2>2. CASE ~Running
    <3>1. Safe = Past
      BY <1>21, <2>2, NothingUp, ManagerAssumption DEF JobFreesVram, FreeVram, CallStop, Running
    <3>2. spawned \in Safe'
      BY <3>1, <1>a, <1>b
    <3> QED
      BY <1>21, <2>2, <3>2, <1>b DEF JobFreesVram, FreeVram, CallStop, Goto, imvars
  <2> QED BY <2>1, <2>2
<1>22. ASSUME NEW c \in Callers, JobStoppedServer(c) PROVE MarkInv'
  BY <1>22 DEF JobStoppedServer, Resume, Goto, OnlyPc, imvars
<1>23. ASSUME NEW c \in Callers, JobStarts(c) PROVE MarkInv'
  BY <1>23 DEF JobStarts, Goto, OnlyPc, imvars
<1>24. ASSUME NEW c \in Callers, JobEnds(c) PROVE MarkInv'
  BY <1>24, <1>b DEF JobEnds, Goto, OnlyPc, imvars
<1>25. ASSUME NEW t \in Tasks, InferenceServerStopped(t) PROVE MarkInv'
  BY <1>25 DEF InferenceServerStopped, Resume, Goto, OnlyPc, imvars
<1>26. ASSUME NEW t \in Tasks, ManagerStep(t) PROVE MarkInv'
  <2>1. CASE StopEnter(t)
    <3>1. CASE slot # 0
      <4>1. slot' = 0 /\ \A u \in Tasks : ilock' = u => op'[u] # "health"
        BY <1>26, <2>1, <3>1 DEF StopEnter, TakeAndKill
      <4>2. Safe' = Past'
        BY <4>1, <1>c
      <4> QED BY <1>26, <2>1, <3>1, <4>2 DEF ManagerStep, trvars, StopEnter, TakeAndKill
    <3>2. CASE slot = 0
      <4>1. Safe = Past
        BY <2>1, <3>2, NothingUp, ManagerAssumption DEF StopEnter
      <4> QED BY <1>26, <2>1, <3>2, <4>1 DEF ManagerStep, trvars, StopEnter
    <3> QED BY <3>1, <3>2
  <2>2. CASE StopDone(t)
    BY <1>26, <2>2 DEF ManagerStep, trvars, StopDone
  <2>3. CASE EnsureStep(t)
    <3>1. /\ \A u \in Tasks : u # t => op'[u] = op[u]
          /\ op'[t] \notin {"stopreap", "done"}
      BY <2>3 DEF EnsureStep, EnsureReuse, EnsureEnter, DownloadAnswers, ResolveFails, Resolved, Reaped, Spawn,
         SpawnFails, Healthy, HealthTimeout, TakeAndKill, Return
    <3> QED BY <1>26, <3>1 DEF ManagerStep, trvars
  <2> QED BY <1>26, <2>1, <2>2, <2>3 DEF ManagerStep, OpStep, StopStep
<1>27. ASSUME NEW r \in Runs, DriverMoves(r) PROVE MarkInv'
  BY <1>27 DEF DriverMoves, Drive, imvars
<1>28. ASSUME NEW r \in Runs, DriverClears(r) PROVE MarkInv'
  BY <1>28 DEF DriverClears, Goto, OnlyPc, imvars
<1>29. CASE WatchdogTick
  BY <1>29 DEF WatchdogTick, CallStop, Goto, OnlyPc, imvars
<1>30. CASE World
  BY <1>30 DEF World, ProcessExits, TimePasses, trvars, Goto, OnlyPc, imvars
<1>31. CASE UNCHANGED vars
  BY <1>31 DEF vars, trvars, Goto, OnlyPc, imvars
<1> QED
  BY <1>1, <1>2, <1>3, <1>4, <1>5, <1>6, <1>7, <1>8, <1>9, <1>10, <1>11, <1>12, <1>13,
     <1>14, <1>15, <1>16, <1>17, <1>18, <1>19, <1>20, <1>21, <1>22, <1>23, <1>24,
     <1>25, <1>26, <1>27, <1>28, <1>29, <1>30, <1>31
     DEF Next, Begin, RagChat, Continue, DriverStep, RequestSent, WorkerFails, WorkerAnswers,
         WorkerExits, DriverCancelled, DriverMoves

\* The initial state of the program satisfies the invariant.
LEMMA GpuInitInv == Init => GpuInv
<1> SUFFICES ASSUME Init PROVE GpuInv
  OBVIOUS
<1> USE GpuAssumption, ManagerAssumption, PCsAre DEF Init, IMInit
<1>1. IMInv
  BY IMInitInv
<1>2. TrTypeOK
  BY DEF TrTypeOK
<1>3. TLockInv
  BY DEF TLockInv, HoldsTraining
<1>4. RunInv
  BY DEF RunInv, OneRunAtATime, Runs, Driving, Working
<1>5. MarkInv
  BY DEF MarkInv, Past, Cleared, Working
<1> QED
  BY <1>1, <1>2, <1>3, <1>4, <1>5 DEF GpuInv

\* Every step of the program keeps it.
LEMMA GpuInvStep == GpuInv /\ [Next]_vars => GpuInv'
<1> SUFFICES ASSUME GpuInv, [Next]_vars PROVE GpuInv'
  OBVIOUS
<1>1. IMInv'
  BY StepIsManagerStep, IMInvStep DEF GpuInv
<1>2. TrTypeOK' /\ TLockInv' /\ RunInv' /\ MarkInv'
  BY TrTypeStep, TLockStep, RunStep, MarkStep DEF GpuInv, IMInv
<1> QED
  BY <1>1, <1>2 DEF GpuInv

\* The conjuncts a reader asks for.
LEMMA GpuInvGives ==
  GpuInv => TypeOK /\ NoStrayServer /\ OneRunAtATime /\ ServerPredatingWorkIsGone
<1> SUFFICES ASSUME GpuInv
             PROVE  TypeOK /\ NoStrayServer /\ OneRunAtATime /\ ServerPredatingWorkIsGone
  OBVIOUS
<1>1. TypeOK
  BY DEF GpuInv, IMInv, TrTypeOK, TypeOK
<1>2. NoStrayServer /\ OneRunAtATime
  BY DEF GpuInv, IMInv, RunInv
<1>3. ServerPredatingWorkIsGone
  BY DEF GpuInv, MarkInv, Safe, ServerPredatingWorkIsGone
<1> QED
  BY <1>1, <1>2, <1>3

\* Every state the program reaches satisfies the inductive invariant.
THEOREM GpuInvariant == Spec => []GpuInv
BY GpuInitInv, GpuInvStep, PTL DEF Spec

\* Types of the whole state.
THEOREM TypeCorrect == Spec => []TypeOK
BY GpuInvariant, GpuInvGives, PTL

\* No llama.cpp process escapes the manager, with all the handlers that call it.
THEOREM ProgramNoStrayServer == Spec => []NoStrayServer
BY GpuInvariant, GpuInvGives, PTL

\* One training run at a time, and its driver clears no other run's record.
THEOREM RunMutex == Spec => []OneRunAtATime
BY GpuInvariant, GpuInvGives, PTL

\* No server that was up when the VRAM check was made survives to the GPU work
\* that the check admits.
THEOREM VramCheck == Spec => []ServerPredatingWorkIsGone
BY GpuInvariant, GpuInvGives, PTL

\* The program as a whole uses the manager as the manager's specification says.
THEOREM UsesManager == Spec => IMSpec
<1>1. Init => IMInit
  BY DEF Init
<1>2. [Next]_vars => [IMNext]_imvars
  BY StepIsManagerStep
<1> QED
  BY <1>1, <1>2, PTL DEF Spec, IMSpec

\* With all the handlers that call it: a switch costs nobody the running server
\* before its model is resolved.
THEOREM ProgramFailedSwitch == Spec => FailedSwitchKeepsServer
BY UsesManager, IMFailedSwitch
===========================================================================
