-------------------------- MODULE NodeTasksProofs --------------------------
(***************************************************************************)
(* What holds of NodeTasks for any threads and any number of requests,     *)
(* faults and losses of the key, as long as the HA loop does not overtake  *)
(* a forced reinitialize (~Overtaken): the types, that one program at a    *)
(* time writes the data directory, and that a promotion or a start that    *)
(* was called off never brings a primary back.                             *)
(***************************************************************************)
EXTENDS NodeTasks, TLAPS, FiniteSetTheorems

\* The thread carries out a task, from run_async to the end of run.
Active(t) == thr[t].task \in Tasks

Common == {"begin", "reset", "program", "end"}
Promoting == {"pre_promote", "script ok", "script failed", "pg_ctl promote", "wait promote"}
Serving == {"stop", "start", "launch", "wait", "follow", "call"}
Forcing == {"cancel", "cancel wait", "cancelled"}
Steps == {"idle"} \cup Common \cup Promoting \cup Serving \cup Forcing

\* The tasks that run a program under CancellableSubprocess.
Programmed == {"promote", "clone", "reinitialize", "rewind", "recovery"}

\* The steps a thread can be at with a task.
StepsOf(task) ==
  IF task = "none" THEN {"idle"} ELSE IF task = "force" THEN Forcing
  ELSE (Common \cup (IF task = "promote" THEN Promoting ELSE Serving))
         \ (IF task \in Programmed THEN {} ELSE {"program"})

Records == [task : Tasks \cup {"none", "force"}, pc : Steps]
Threading == thr \in [Threads -> Records] /\ \A t \in Threads : thr[t].pc \in StepsOf(thr[t].task)

PgStates == {"down", "starting", "standby", "primary"}
FileStates == {"ok", "crash", "diverged", "broken", "empty"}
Roles == {"primary", "promoted", "replica", "demoted", "uninitialized"}
Executors == [action : Tasks \cup {"none"}, cancelled : BOOLEAN, finished : BOOLEAN]
Subprocesses == [cancelled : BOOLEAN, process : BOOLEAN]
StartTasks == [cancelled : BOOLEAN, result : {"none", "postmaster"}]
PromoteTasks == [cancelled : BOOLEAN, result : {"none", "ok", "failed"}]

Values ==
  /\ key \in BOOLEAN /\ signal \in BOOLEAN /\ sched \in BOOLEAN
  /\ pg \in PgStates /\ files \in FileStates /\ role \in Roles
  /\ exec \in Executors /\ sub \in Subprocesses /\ crit \in StartTasks /\ resp \in PromoteTasks
  /\ cut \subseteq Threads
  /\ by \in Threads \cup {None}

\* One task at a time, and it is the one the executor says, until the HA loop has left.
Alone ==
  /\ \A t, u \in Threads : Active(t) /\ Active(u) => t = u
  /\ \A t \in Threads : Active(t) => exec.action = thr[t].task \/ ha \in {"stop and exit", "off"}
  /\ thr[Rest].task = "force" => ApiUp

\* The steps of a task that have no postmaster below them.
Offline(task) ==
  (IF task \in {"clone", "recovery"} THEN {"begin", "reset"} ELSE {})
    \cup (IF task \in {"clone", "recovery", "reinitialize"} THEN {"call"} ELSE {})
    \cup (IF task \in {"clone", "recovery", "reinitialize", "rewind"} THEN {"program"} ELSE {})
Dry == \A t \in Threads : thr[t].pc \in Offline(thr[t].task) => pg = "down"

\* What is left to a task that was called off.
Harmless(t) ==
  /\ by # t
  /\ \/ /\ thr[t].task = "promote" /\ resp.cancelled /\ resp.result = "none"
        /\ thr[t].pc \notin {"pg_ctl promote", "wait promote"}
     \/ Critical(t) /\ (crit.cancelled \/ thr[t].pc \in {"wait", "end"})

\* The two CriticalTasks tell the HA loop how far the task is.
Reported ==
  /\ by \in Threads =>
       /\ Active(by)
       /\ thr[by].task = "promote" => resp.result = "ok" /\ thr[by].pc \in {"wait promote", "end"}
       /\ Critical(by) => crit.result = "postmaster"
  /\ crit.result = "postmaster" => \E t \in Threads : Critical(t) /\ thr[t].pc \in {"wait", "end"}
  /\ \A t \in Threads : thr[t].pc \in {"pg_ctl promote", "wait promote"} => resp.result = "ok"

CalledOff == Reported /\ \A t \in cut : Harmless(t)

IInv == Values /\ Threading /\ Alone /\ Dry /\ CalledOff
-----------------------------------------------------------------------------
(* Steps of threads *)

LEMMA NoneIsNoTask == "none" \notin Tasks /\ "force" \notin Tasks
BY DEF Tasks

\* The thread t goes on to the step pc with the task it has, or begins or ends one; no other moves.
Becomes(t, task, pc) ==
  \A u \in Threads : /\ thr'[u].task = IF u = t THEN task ELSE thr[u].task
                     /\ thr'[u].pc = IF u = t THEN pc ELSE thr[u].pc

LEMMA RecordChange ==
  ASSUME thr \in [Threads -> Records], NEW t \in Threads, NEW r \in Records, thr' = [thr EXCEPT ![t] = r]
  PROVE  thr' \in [Threads -> Records] /\ Becomes(t, r.task, r.pc)
<1>1. \A u \in Threads : thr'[u] = IF u = t THEN r ELSE thr[u]
  OBVIOUS
<1>2. QED
  BY <1>1 DEF Becomes

LEMMA Stepping ==
  ASSUME Threading, NEW t \in Threads, NEW pc \in Steps, Goto(t, pc)
  PROVE  thr' \in [Threads -> Records] /\ Becomes(t, thr[t].task, pc)
<1> DEFINE r == [task |-> thr[t].task, pc |-> pc]
<1>1. r \in Records /\ r.task = thr[t].task /\ r.pc = pc
  BY DEF Threading, Records
<1>2. thr' = [thr EXCEPT ![t] = r]
  <2>1. thr[t] \in Records /\ [thr[t] EXCEPT !.pc = pc] = r
    BY DEF Threading, Records
  <2>2. thr' = [thr EXCEPT ![t] = [thr[t] EXCEPT !.pc = pc]]
    BY DEF Goto
  <2>3. QED
    BY <2>1, <2>2
<1> HIDE DEF r
<1>3. QED
  BY <1>1, <1>2, RecordChange DEF Threading

LEMMA StepFits ==
  ASSUME Threading, NEW t \in Threads, NEW pc \in Steps, Goto(t, pc), pc \in StepsOf(thr[t].task)
  PROVE  Threading'
BY Stepping DEF Threading, Becomes

\* An idle thread begins a task.
Begins(w, task) ==
  /\ At(w, "idle")
  /\ thr' = [thr EXCEPT ![w] = [task |-> task, pc |-> "begin"]]

LEMMA Beginning ==
  ASSUME Threading, NEW w \in Threads, NEW task \in Tasks, Begins(w, task)
  PROVE  Threading' /\ Becomes(w, task, "begin") /\ thr[w].task = "none"
<1> DEFINE r == [task |-> task, pc |-> "begin"]
<1>1. r \in Records /\ r.task = task /\ r.pc = "begin"
  BY DEF Records, Steps, Common
<1>2. thr' = [thr EXCEPT ![w] = r]
  BY DEF Begins
<1> HIDE DEF r
<1>3. thr' \in [Threads -> Records] /\ Becomes(w, task, "begin")
  BY <1>1, <1>2, RecordChange DEF Threading
<1>4. "begin" \in StepsOf(task)
  BY NoneIsNoTask DEF StepsOf, Common
<1>5. thr[w].task = "none"
  BY DEF Begins, At, Threading, Records, StepsOf, Common, Promoting, Serving, Forcing
<1>6. QED
  BY <1>3, <1>4, <1>5 DEF Threading, Becomes

LEMMA AWorkerIsFree ==
  ASSUME NEW w \in Workers, At(w, "idle")
  PROVE  NextWorker \in Workers /\ At(NextWorker, "idle")
BY Zenon DEF NextWorker

LEMMA RunsInOne ==
  ASSUME NEW task \in Tasks, RunAsync(task)
  PROVE  Schedule(task) /\ \E w \in Workers : Begins(w, task)
BY AWorkerIsFree, Zenon DEF RunAsync, Begins

\* When nothing is scheduled no thread has a task, unless the HA loop has left.
LEMMA Free ==
  ASSUME Alone, ~Busy, ha \notin {"stop and exit", "off"}
  PROVE  \A t \in Threads : ~Active(t)
BY NoneIsNoTask DEF Alone, Busy, Active

-----------------------------------------------------------------------------
(* Threads and their tasks *)

\* Where a program's task goes on.
LEMMA ProgramSteps ==
  ASSUME NEW task, NEW ok, NEW o \in Outcomes(task, ok)
  PROVE  IF task = "promote" THEN o.pc \in {"script ok", "script failed"} ELSE o.pc \in {"end", "follow"}
<1>1. CASE task = "promote"
  <2> DEFINE step == IF ok THEN "script ok" ELSE "script failed"
  <2>1. step \in {"script ok", "script failed"}
    OBVIOUS
  <2>2. o \in ScriptOutcomes(ok)
    BY <1>1 DEF Outcomes
  <2>3. o = [files |-> files, pc |-> step]
    BY <2>2 DEF ScriptOutcomes
  <2> HIDE DEF step
  <2>4. QED
    BY <1>1, <2>1, <2>3
<1>2. CASE task # "promote"
  BY <1>2 DEF Outcomes, RewindOutcomes, RecoveryOutcomes, CloneOutcomes
<1>3. QED
  BY <1>1, <1>2

\* A step of a thread that is not its last one.
Goes(t) ==
  /\ Active(t)
  /\ \E pc \in Steps : Goto(t, pc) /\ pc \in StepsOf(thr[t].task)

LEMMA ThreadGoes ==
  ASSUME Threading, NEW t \in Threads, Thread(t)
  PROVE  (Active(t) /\ EndRun(t)) \/ Goes(t) \/ UNCHANGED thr
<1> DEFINE T == thr[t].task
           P == thr[t].pc
<1>0. P \in StepsOf(T) /\ T \in Tasks \cup {"none", "force"}
  BY DEF Threading, Records
<1>1. P \in Common \cup Promoting \cup Serving => Active(t)
  BY <1>0 DEF StepsOf, Active, Common, Promoting, Serving, Forcing
<1>2. Active(t) => {"begin", "reset", "end"} \subseteq StepsOf(T)
  BY NoneIsNoTask DEF StepsOf, Active, Common
<1>3. P \in Promoting => Promoting \subseteq StepsOf(T)
  BY <1>0 DEF StepsOf, Common, Promoting, Serving, Forcing
<1>4. P \in Serving => Serving \subseteq StepsOf(T)
  BY <1>0 DEF StepsOf, Common, Promoting, Serving, Forcing
<1> DEFINE Way(pc) == Goto(t, pc) /\ pc \in StepsOf(T)
<1>5. ASSUME NEW pc, Way(pc), P \in Common \cup Promoting \cup Serving PROVE Goes(t)
  <2>1. pc \in Steps
    BY <1>0, <1>5 DEF StepsOf, Steps
  <2>2. QED
    BY <1>1, <1>5, <2>1 DEF Goes
<1>6. CASE BeginRun(t)
  BY <1>1, <1>2, <1>5, <1>6 DEF BeginRun, At, Common
<1>7. CASE EndRun(t)
  <2>1. At(t, "end")
    BY <1>7 DEF EndRun
  <2>2. QED
    BY <1>1, <1>7, <2>1 DEF At, Common
<1>8. ASSUME NEW pc, P \in Common \cup Promoting \cup Serving, Goto(t, pc), pc \in {"reset", "end"} PROVE Goes(t)
  BY <1>1, <1>2, <1>5, <1>8
<1>9. ASSUME NEW pc, P \in Promoting, Goto(t, pc), pc \in Promoting PROVE Goes(t)
  BY <1>3, <1>5, <1>9
<1>10. ASSUME NEW pc, P \in Serving, Goto(t, pc), pc \in Serving PROVE Goes(t)
  BY <1>4, <1>5, <1>10
<1>27. ASSUME P \in Promoting \cup Serving, Goto(t, "program"), T \in Programmed PROVE Goes(t)
  <2>1. "program" \in StepsOf(T)
    BY <1>27 DEF StepsOf, Common, Programmed
  <2>2. QED
    BY <1>5, <1>27, <2>1
<1> DEFINE First == FirstStep(T)
<1>11. Active(t) => First \in StepsOf(T)
  BY NoneIsNoTask DEF FirstStep, StepsOf, Active, Tasks, Promoting, Serving
<1> HIDE DEF Way
<1>12. CASE ResetIsCancelled(t)
  BY <1>1, <1>5, <1>11, <1>12 DEF ResetIsCancelled, At, Common, Way
<1>13. CASE PrePromote(t)
  <2>1. P = "pre_promote" /\ (Goto(t, "end") \/ Goto(t, "program"))
    BY <1>13 DEF PrePromote, Call, At
  <2>2. T \in Programmed
    BY <1>0, <2>1 DEF StepsOf, Common, Serving, Forcing, Programmed
  <2>3. QED
    BY <1>8, <1>27, <2>1, <2>2 DEF Promoting
<1>14. CASE Decide(t)
  BY <1>8, <1>9, <1>14 DEF Decide, At, Common, Promoting
<1>15. CASE Promote(t)
  BY <1>8, <1>9, <1>15 DEF Promote, At, Common, Promoting
<1>16. CASE WaitPromote(t)
  BY <1>8, <1>16 DEF WaitPromote, At, Common, Promoting
<1>17. CASE StopPg(t)
  BY <1>10, <1>17 DEF StopPg, At, Serving
<1>18. CASE Follow(t)
  BY <1>10, <1>18 DEF Follow, At, Serving
<1>19. CASE StartPg(t)
  BY <1>8, <1>10, <1>19 DEF StartPg, At, Serving, Common
<1>20. CASE Launch(t)
  BY <1>8, <1>10, <1>20 DEF Launch, At, Serving, Common
<1>21. CASE WaitForStartup(t)
  BY <1>8, <1>21 DEF WaitForStartup, At, Serving, Common
<1>22. CASE CallBasebackup(t)
  BY <1>8, <1>27, <1>22 DEF CallBasebackup, Call, At, Serving, Programmed
<1>23. CASE CallRewind(t)
  BY <1>8, <1>27, <1>23 DEF CallRewind, Call, At, Serving, Programmed
<1>24. CASE CallSingleUser(t)
  BY <1>8, <1>27, <1>24 DEF CallSingleUser, Call, At, Serving, Programmed
<1>25. CASE ProgramEnds(t)
  <2>1. P = "program"
    BY <1>25 DEF ProgramEnds, At
  <2>2. PICK ok \in BOOLEAN : \E o \in Outcomes(T, ok /\ ~sub.cancelled) : Goto(t, o.pc)
    BY <1>25 DEF ProgramEnds
  <2>3. PICK o \in Outcomes(T, ok /\ ~sub.cancelled) : Goto(t, o.pc)
    BY <2>2
  <2>4. T = "promote" => o.pc \in Promoting
    BY <2>3, ProgramSteps DEF Promoting
  <2>5. T # "promote" => o.pc \in {"end", "follow"}
    BY <2>3, ProgramSteps
  <2>6. Active(t)
    BY <1>1, <2>1 DEF Common
  <2>7. o.pc \in StepsOf(T)
    BY <2>4, <2>5, <2>6, NoneIsNoTask DEF StepsOf, Active, Common, Serving, Promoting
  <2>8. QED
    BY <1>5, <2>1, <2>3, <2>7 DEF Way, Common
<1>26. QED
  BY <1>6, <1>7, <1>12, <1>13, <1>14, <1>15, <1>16, <1>17, <1>18, <1>19, <1>20, <1>21, <1>22, <1>23,
     <1>24, <1>25 DEF Thread
-----------------------------------------------------------------------------
(* The types *)

LEMMA TaskNames ==
  /\ "promote" \in Tasks /\ "restart" \in Tasks /\ "start" \in Tasks /\ "follow" \in Tasks
  /\ "rewind" \in Tasks /\ "recovery" \in Tasks /\ "clone" \in Tasks /\ "reinitialize" \in Tasks
BY DEF Tasks

LEMMA ScheduleType ==
  ASSUME NEW task \in Tasks, Schedule(task)
  PROVE  exec' \in Executors /\ exec.action = "none" /\ exec'.action = task
BY DEF Schedule, Executors, Busy

LEMMA ProgramFiles ==
  ASSUME Values, NEW task, NEW ok \in BOOLEAN, NEW o \in Outcomes(task, ok)
  PROVE  o.files \in FileStates
<1>1. CASE task = "promote"
  <2> DEFINE step == IF ok THEN "script ok" ELSE "script failed"
  <2>1. o \in ScriptOutcomes(ok)
    BY <1>1 DEF Outcomes
  <2>2. o = [files |-> files, pc |-> step]
    BY <2>1 DEF ScriptOutcomes
  <2> HIDE DEF step
  <2>3. QED
    BY <2>2 DEF Values
<1>2. CASE task = "rewind"
  BY <1>2 DEF Outcomes, RewindOutcomes, FileStates
<1>3. CASE task = "recovery"
  BY <1>3 DEF Outcomes, RecoveryOutcomes, FileStates
<1>4. CASE task \notin {"promote", "rewind", "recovery"}
  BY <1>4 DEF Outcomes, CloneOutcomes, FileStates
<1>5. QED
  BY <1>1, <1>2, <1>3, <1>4

LEMMA ValuesThread ==
  ASSUME Values, NEW t \in Threads, Thread(t)
  PROVE  Values'
<1>1. CASE BeginRun(t)
  BY <1>1 DEF BeginRun, Executors, Values, pgVars, execVars
<1>2. CASE ResetIsCancelled(t)
  BY <1>2 DEF ResetIsCancelled, Subprocesses, Values, pgVars, execVars
<1>3. CASE EndRun(t)
  BY <1>3 DEF EndRun, Executors, StartTasks, NoTask, Values, pgVars, execVars
<1>4. CASE PrePromote(t)
  BY <1>4 DEF PrePromote, Call, Subprocesses, Values, pgVars, execVars
<1>5. CASE Decide(t)
  BY <1>5 DEF Decide, PromoteTasks, Values, pgVars, execVars
<1>6. CASE Promote(t)
  BY <1>6 DEF Promote, PgStates, Roles, Values, pgVars, execVars
<1>7. CASE WaitPromote(t)
  BY <1>7 DEF WaitPromote, Roles, Values, pgVars, execVars
<1>8. CASE StopPg(t)
  BY <1>8 DEF StopPg, PgStates, FileStates, Values, pgVars, execVars
<1>9. CASE Follow(t)
  BY <1>9 DEF Follow, Values, pgVars, execVars
<1>10. CASE StartPg(t)
  BY <1>10 DEF StartPg, Roles, Values, pgVars, execVars
<1>11. CASE Launch(t)
  BY <1>11 DEF Launch, PgStates, StartTasks, Values, pgVars, execVars
<1>12. CASE WaitForStartup(t)
  BY <1>12 DEF WaitForStartup, Values, pgVars, execVars
<1>13. CASE CallBasebackup(t)
  BY <1>13 DEF CallBasebackup, Call, FileStates, Roles, Subprocesses, Values, pgVars, execVars
<1>14. CASE CallRewind(t)
  BY <1>14 DEF CallRewind, Call, PgStates, FileStates, Subprocesses, Values, pgVars, execVars
<1>15. CASE CallSingleUser(t)
  BY <1>15 DEF CallSingleUser, Call, Subprocesses, Values, pgVars, execVars
<1>16. CASE ProgramEnds(t)
  <2>1. files' \in FileStates
    BY <1>16, ProgramFiles DEF ProgramEnds, Values, Subprocesses
  <2>2. QED
    BY <1>16, <2>1 DEF ProgramEnds, Values, Subprocesses
<1>17. QED
  BY <1>1, <1>2, <1>3, <1>4, <1>5, <1>6, <1>7, <1>8, <1>9, <1>10, <1>11, <1>12, <1>13, <1>14, <1>15, <1>16 DEF Thread

\* A step of the HA loop, the REST API or PostgreSQL, not of a task.
Outside == HaWaits \/ HaCycle \/ Api \/ Started \/ Crash \/ LoseKey

LEMMA ValuesOutside ==
  ASSUME Values, Outside
  PROVE  Values'
<1>1. CASE KillScript
  BY <1>1 DEF KillScript, StopSub, Subprocesses, Values, pgVars, execVars
<1>2. CASE Killed
  BY <1>2 DEF Killed, Values, pgVars, execVars
<1>3. CASE RecoveryKilled
  BY <1>3 DEF RecoveryKilled, Values, pgVars, execVars
<1>4. CASE DemoteStop
  BY <1>4 DEF DemoteStop, PgStates, FileStates, Values, pgVars, execVars
<1>5. CASE DemoteFollow
  BY <1>5, ScheduleType, TaskNames DEF DemoteFollow, Roles, RunAsync, Values, pgVars, execVars
<1>6. CASE LeaveCancel
  BY <1>6 DEF LeaveCancel, StopSub, Subprocesses, Values, pgVars, execVars
<1>7. CASE LeaveWait
  BY <1>7 DEF LeaveWait, Forget, Executors, Values, pgVars, execVars
<1>8. CASE Exit
  BY <1>8 DEF Exit, PgStates, Values, pgVars, execVars
<1>9. CASE CallOffPromotion
  BY <1>9 DEF CallOffPromotion, PromoteTasks, Values, pgVars, execVars
<1>10. CASE CallOffStart
  BY <1>10 DEF CallOffStart, TerminatePostmaster, PgStates, StartTasks, Values, pgVars, execVars
<1>11. CASE CrashRecoveryTimeout
  BY <1>11 DEF CrashRecoveryTimeout, StopSub, Subprocesses, Values, pgVars, execVars
<1>12. CASE DemotePrimary
  BY <1>12 DEF DemotePrimary, Values, pgVars, execVars
<1>13. CASE Bootstrap
  BY <1>13, ScheduleType, TaskNames DEF Bootstrap, Try, RunAsync, Values, pgVars, execVars
<1>14. CASE ReleaseKeyOfEmpty
  BY <1>14 DEF ReleaseKeyOfEmpty, Values, pgVars, execVars
<1>15. CASE StartPrimary
  BY <1>15, ScheduleType, TaskNames DEF StartPrimary, Try, RunAsync, Values, pgVars, execVars
<1>16. CASE HandleCrashRecovery
  BY <1>16, ScheduleType, TaskNames DEF HandleCrashRecovery, Try, RunAsync, Values, pgVars, execVars
<1>17. CASE StartReadOnly
  BY <1>17, ScheduleType, TaskNames DEF StartReadOnly, Try, RunAsync, Values, pgVars, execVars
<1>18. CASE FollowLeader
  BY <1>18, ScheduleType, TaskNames DEF FollowLeader, Try, RunAsync, Values, pgVars, execVars
<1>19. CASE HandleRewind
  BY <1>19, ScheduleType, TaskNames DEF HandleRewind, Try, RunAsync, Values, pgVars, execVars
<1>20. CASE HandleReinitialize
  BY <1>20, ScheduleType, TaskNames DEF HandleReinitialize, Try, RunAsync, Values, pgVars, execVars
<1>21. CASE EnforcePrimaryRole
  BY <1>21, ScheduleType, TaskNames DEF EnforcePrimaryRole, NoTask, PromoteTasks, RunAsync, Values, pgVars, execVars
<1>22. CASE GiveUpPromotion
  BY <1>22 DEF GiveUpPromotion, NoTask, PromoteTasks, Values, pgVars, execVars
<1>23. CASE ScheduledRestart
  BY <1>23, ScheduleType, TaskNames DEF ScheduledRestart, RunAsync, Values, pgVars, execVars
<1>24. CASE Leave
  BY <1>24 DEF Leave, Mark, Executors, Values, pgVars, execVars
<1>25. CASE PostRestart
  BY <1>25, ScheduleType, TaskNames DEF PostRestart, Values, pgVars, execVars
<1>26. CASE PostScheduledRestart
  BY <1>26 DEF PostScheduledRestart, Values, pgVars, execVars
<1>27. CASE DeleteScheduledRestart
  BY <1>27 DEF DeleteScheduledRestart, Values, pgVars, execVars
<1>28. CASE PostReinitialize
  BY <1>28, ScheduleType, TaskNames DEF PostReinitialize, Mark, Executors, RunAsync, Values, pgVars, execVars
<1>29. CASE ForceCancel
  BY <1>29 DEF ForceCancel, StopSub, Subprocesses, Values, pgVars, execVars
<1>30. CASE ForceWait
  BY <1>30 DEF ForceWait, Forget, Executors, Values, pgVars, execVars
<1>31. CASE ForceReinitialize
  BY <1>31, ScheduleType, TaskNames DEF ForceReinitialize, Values, pgVars, execVars
<1>32. CASE Started
  BY <1>32 DEF Started, PgStates, FileStates, Values, pgVars, execVars
<1>33. CASE Crash
  BY <1>33 DEF Crash, PgStates, FileStates, Values, pgVars, execVars
<1>34. CASE LoseKey
  BY <1>34 DEF LoseKey, Values, pgVars, execVars
<1>35. QED
  BY <1>1, <1>2, <1>3, <1>4, <1>5, <1>6, <1>7, <1>8, <1>9, <1>10, <1>11, <1>12, <1>13, <1>14, <1>15, <1>16, <1>17, <1>18, <1>19, <1>20, <1>21, <1>22, <1>23, <1>24, <1>25, <1>26, <1>27, <1>28, <1>29, <1>30, <1>31, <1>32, <1>33, <1>34 DEF Outside, HaWaits, HaCycle, Api

-----------------------------------------------------------------------------
(* The threads, whoever moves them *)

\* The executor is free: the task becomes its action, and an idle thread begins it.
Starts(task) ==
  /\ Schedule(task)
  /\ ha \notin {"stop and exit", "off"}
  /\ task \in {"clone", "recovery"} => pg = "down"
  /\ \E w \in Threads : /\ thr[w].task = "none"
                        /\ Becomes(w, task, "begin")

LEMMA RunAsyncStarts ==
  ASSUME Threading, NEW task \in Tasks, RunAsync(task), ha \notin {"stop and exit", "off"},
         task \in {"clone", "recovery"} => pg = "down"
  PROVE  Threading' /\ Starts(task)
<1>1. Schedule(task) /\ \E w \in Workers : Begins(w, task)
  BY RunsInOne
<1>2. PICK w \in Workers : Begins(w, task)
  BY <1>1
<1>3. w \in Threads
  BY DEF Threads
<1>4. QED
  BY <1>1, <1>2, <1>3, Beginning DEF Starts

\* The REST thread goes on with a forced reinitialize, or ends it.
Forces ==
  /\ ApiUp
  /\ thr[Rest].task \in {"none", "force"}
  /\ (\E pc \in Forcing : Becomes(Rest, "force", pc)) \/ Becomes(Rest, "none", "idle")

LEMMA ForcingFits ==
  ASSUME Threading, NEW r \in Records, r.pc \in StepsOf(r.task), r.task \in {"none", "force"},
         thr[Rest].task \in {"none", "force"}, thr' = [thr EXCEPT ![Rest] = r], ApiUp
  PROVE  Threading' /\ Forces
<1>0. Rest \in Threads
  BY DEF Threads
<1>1. thr' \in [Threads -> Records] /\ Becomes(Rest, r.task, r.pc)
  BY <1>0, RecordChange DEF Threading
<1>2. Threading'
  BY <1>1 DEF Threading, Becomes
<1>3. r.task = "none" => r.pc = "idle"
  BY DEF StepsOf
<1>4. r.task = "force" => r.pc \in Forcing
  BY DEF StepsOf
<1>5. QED
  BY <1>1, <1>2, <1>3, <1>4 DEF Forces

\* The forced reinitialize begins in a worker while its REST thread ends.
StartsForced ==
  /\ Schedule("reinitialize")
  /\ thr[Rest].task = "force"
  /\ ha \notin {"stop and exit", "off"}
  /\ \E w \in Workers :
       \A u \in Threads : IF u = w THEN thr[u].task = "none" /\ thr'[u].task = "reinitialize" /\ thr'[u].pc = "begin"
                          ELSE IF u = Rest THEN thr'[u].task = "none" /\ thr'[u].pc = "idle"
                          ELSE thr'[u].task = thr[u].task /\ thr'[u].pc = thr[u].pc

LEMMA RestSteps ==
  ASSUME Threading
  PROVE  /\ thr[Rest].pc \in Forcing => thr[Rest].task = "force"
         /\ thr[Rest].pc = "idle" => thr[Rest].task = "none"
BY DEF Threading, Threads, Records, StepsOf, Common, Promoting, Serving, Forcing

LEMMA ForcedStart ==
  ASSUME Threading, ForceReinitialize, ApiUp, ~Busy
  PROVE  Threading' /\ StartsForced
<1>1. PICK w \in Workers : At(w, "idle")
  BY DEF ForceReinitialize
<1>2. PICK v \in Workers : v = NextWorker /\ At(v, "idle")
  BY <1>1, AWorkerIsFree
<1> DEFINE r == [task |-> "reinitialize", pc |-> "begin"]
<1>3. r \in Records /\ r.task = "reinitialize" /\ r.pc = "begin"
  BY TaskNames DEF Records, Steps, Common
<1>4. thr' = [thr EXCEPT ![Rest] = Idle, ![v] = r]
  BY <1>2 DEF ForceReinitialize
<1> HIDE DEF r
<1>5. Idle \in Records /\ Idle.task = "none" /\ Idle.pc = "idle"
  BY DEF Idle, Records, Steps
<1>6. v # Rest /\ v \in Threads /\ Rest \in Threads
  BY ThreadsAssumption DEF Threads
<1>7. thr' \in [Threads -> Records] /\ \A u \in Threads : thr'[u] = IF u = v THEN r ELSE IF u = Rest THEN Idle ELSE thr[u]
  BY <1>3, <1>4, <1>5, <1>6 DEF Threading
<1>8. thr[v].task = "none"
  BY <1>2, <1>6 DEF At, Threading, Records, StepsOf, Common, Promoting, Serving, Forcing
<1>9. "begin" \in StepsOf("reinitialize") /\ "idle" \in StepsOf("none")
  BY DEF StepsOf, Common
<1>10. Threading'
  BY <1>3, <1>5, <1>7, <1>9 DEF Threading
<1>11. thr[Rest].task = "force"
  BY RestSteps DEF ForceReinitialize, At, Forcing
<1>12. Schedule("reinitialize")
  BY DEF ForceReinitialize
<1>13. QED
  BY <1>3, <1>5, <1>6, <1>7, <1>8, <1>10, <1>11, <1>12 DEF StartsForced, ApiUp

LEMMA OutsideThreads ==
  ASSUME Threading, Alone, Outside
  PROVE  Threading' /\ (UNCHANGED thr \/ (\E task \in Tasks : Starts(task)) \/ Forces \/ StartsForced)
<1> DEFINE Goal == Threading' /\ (UNCHANGED thr \/ (\E task \in Tasks : Starts(task)) \/ Forces \/ StartsForced)
<1>1. UNCHANGED thr => Goal
  BY DEF Threading
<1>2. ASSUME NEW task \in Tasks, RunAsync(task), ha \notin {"stop and exit", "off"},
             task \in {"clone", "recovery"} => pg = "down"
      PROVE  Goal
  BY <1>2, RunAsyncStarts
<1>3. ASSUME NEW pc \in Forcing, thr[Rest].task \in {"none", "force"}, ApiUp,
             thr' = [thr EXCEPT ![Rest] = [task |-> "force", pc |-> pc]]
      PROVE  Goal
  <2> DEFINE r == [task |-> "force", pc |-> pc]
  <2>1. r \in Records /\ r.task = "force" /\ r.pc \in StepsOf("force")
    BY DEF Records, Steps, StepsOf
  <2>2. thr' = [thr EXCEPT ![Rest] = r]
    BY <1>3
  <2> HIDE DEF r
  <2>3. QED
    BY <1>3, <2>1, <2>2, ForcingFits
<1>4. ASSUME NEW pc \in Forcing, thr[Rest].task = "force", Goto(Rest, pc) PROVE Goal
  <2>1. thr[Rest] \in Records /\ Rest \in Threads
    BY DEF Threading, Threads
  <2>2. [thr[Rest] EXCEPT !.pc = pc] = [task |-> "force", pc |-> pc]
    BY <1>4, <2>1 DEF Records
  <2>3. thr' = [thr EXCEPT ![Rest] = [thr[Rest] EXCEPT !.pc = pc]]
    BY <1>4 DEF Goto
  <2>4. ApiUp
    BY <1>4 DEF Alone
  <2>5. QED
    BY <1>3, <1>4, <2>2, <2>3, <2>4
<1> SUFFICES Goal
  OBVIOUS
<1> HIDE DEF Goal
<1>5. CASE \/ KillScript \/ Killed \/ RecoveryKilled \/ DemoteStop
           \/ LeaveCancel \/ LeaveWait \/ Exit
  BY <1>1, <1>5 DEF KillScript, Killed, RecoveryKilled, DemoteStop, LeaveCancel, LeaveWait, Exit, execVars
<1>6. CASE \/ CallOffPromotion \/ CallOffStart \/ CrashRecoveryTimeout \/ DemotePrimary
           \/ ReleaseKeyOfEmpty \/ GiveUpPromotion \/ Leave
  BY <1>1, <1>6 DEF CallOffPromotion, CallOffStart, CrashRecoveryTimeout, DemotePrimary, ReleaseKeyOfEmpty, GiveUpPromotion, Leave, execVars
<1>7. CASE \/ PostScheduledRestart \/ DeleteScheduledRestart \/ Started \/ Crash
           \/ LoseKey
  BY <1>1, <1>7 DEF PostScheduledRestart, DeleteScheduledRestart, Started, Crash, LoseKey, execVars
<1>8. CASE Bootstrap
  BY <1>2, <1>8, TaskNames DEF Bootstrap, Cycle, Try, Running
<1>9. CASE StartPrimary
  BY <1>2, <1>9, TaskNames DEF StartPrimary, Cycle, Try, Down
<1>10. CASE HandleCrashRecovery
  BY <1>2, <1>10, TaskNames DEF HandleCrashRecovery, Cycle, Try, Down, Running
<1>11. CASE StartReadOnly
  BY <1>2, <1>11, TaskNames DEF StartReadOnly, Cycle, Try, Down
<1>12. CASE FollowLeader
  BY <1>2, <1>12, TaskNames DEF FollowLeader, Cycle, Try, Down
<1>13. CASE HandleRewind
  BY <1>2, <1>13, TaskNames DEF HandleRewind, Cycle, Try
<1>14. CASE HandleReinitialize
  BY <1>2, <1>14, TaskNames DEF HandleReinitialize, Cycle, Try
<1>15. CASE DemoteFollow
  BY <1>1, <1>2, <1>15, TaskNames DEF DemoteFollow, Cycle
<1>16. CASE EnforcePrimaryRole
  BY <1>1, <1>2, <1>16, TaskNames DEF EnforcePrimaryRole, Cycle
<1>17. CASE ScheduledRestart
  BY <1>1, <1>2, <1>17, TaskNames DEF ScheduledRestart, Cycle, RestartIsDue
<1>18. CASE PostRestart
  <2>1. Begins(Rest, "restart") /\ Rest \in Threads
    BY <1>18 DEF PostRestart, Begins, Threads
  <2>2. Threading' /\ Becomes(Rest, "restart", "begin") /\ thr[Rest].task = "none"
    BY <2>1, Beginning, TaskNames
  <2>3. QED
    BY <1>18, <2>1, <2>2, TaskNames DEF PostRestart, Starts, ApiUp, Goal
<1>19. CASE PostReinitialize
  <2>1. ha \notin {"stop and exit", "off"} /\ thr[Rest].task = "none" /\ ApiUp
    BY <1>19, RestSteps DEF PostReinitialize, ApiUp, At
  <2>2. CASE RunAsync("reinitialize")
    BY <1>2, <2>1, <2>2, TaskNames
  <2>3. CASE ~RunAsync("reinitialize")
    BY <1>3, <1>19, <2>1, <2>3 DEF PostReinitialize, Forcing
  <2>4. QED
    BY <2>2, <2>3
<1>20. CASE ForceCancel
  BY <1>4, <1>20, RestSteps DEF ForceCancel, At, Forcing
<1>21. CASE ForceWait
  BY <1>4, <1>21, RestSteps DEF ForceWait, At, Forcing
<1>22. CASE ForceReinitialize
  <2>1. thr[Rest].task = "force" /\ ApiUp
    BY <1>22, RestSteps DEF ForceReinitialize, At, Forcing, Alone
  <2>2. CASE Busy
    <3>1. thr' = [thr EXCEPT ![Rest] = Idle]
      BY <1>22, <2>2 DEF ForceReinitialize
    <3>2. Idle \in Records /\ Idle.task = "none" /\ Idle.pc \in StepsOf("none")
      BY DEF Idle, Records, Steps, StepsOf
    <3>3. QED
      BY <2>1, <3>1, <3>2, ForcingFits DEF Goal
  <2>3. CASE ~Busy
    BY <1>22, <2>1, <2>3, ForcedStart DEF Goal
  <2>4. QED
    BY <2>2, <2>3
<1>23. QED
  BY <1>5, <1>6, <1>7, <1>8, <1>9, <1>10, <1>11, <1>12, <1>13, <1>14, <1>15, <1>16, <1>17, <1>18, <1>19, <1>20, <1>21, <1>22 DEF Goal, Outside, HaWaits, HaCycle, Api

LEMMA Ending ==
  ASSUME Threading, NEW t \in Threads, EndRun(t)
  PROVE  Threading' /\ Becomes(t, "none", "idle")
<1>1. Idle \in Records /\ Idle.task = "none" /\ Idle.pc = "idle" /\ "idle" \in StepsOf("none")
  BY DEF Idle, Records, Steps, StepsOf
<1>2. thr' = [thr EXCEPT ![t] = Idle]
  BY DEF EndRun
<1>3. thr' \in [Threads -> Records] /\ Becomes(t, "none", "idle")
  BY <1>1, <1>2, RecordChange DEF Threading
<1>4. QED
  BY <1>1, <1>3 DEF Threading, Becomes

LEMMA ThreadingThread ==
  ASSUME Threading, NEW t \in Threads, Thread(t)
  PROVE  Threading'
<1>1. CASE EndRun(t)
  BY <1>1, Ending
<1>2. CASE Goes(t)
  BY <1>2, StepFits DEF Goes
<1>3. CASE UNCHANGED thr
  BY <1>3 DEF Threading
<1>4. QED
  BY <1>1, <1>2, <1>3, ThreadGoes

-----------------------------------------------------------------------------
(* One task at a time *)

\* A task that is not over leaves the executor's action and the HA loop as they are.
LEMMA TaskKeepsAction ==
  ASSUME Values, NEW t \in Threads, Thread(t), ~EndRun(t)
  PROVE  exec'.action = exec.action /\ ha' = ha
<1>1. BeginRun(t) => exec'.action = exec.action /\ ha' = ha
  BY DEF BeginRun, Values, Executors
<1>2. ~BeginRun(t) => exec' = exec /\ ha' = ha
  BY DEF Thread, ResetIsCancelled, PrePromote, Decide, Promote, WaitPromote, StopPg, Follow, StartPg, Launch,
         WaitForStartup, CallBasebackup, CallRewind, CallSingleUser, ProgramEnds
<1>3. QED
  BY <1>1, <1>2

LEMMA AloneThread ==
  ASSUME Values, Threading, Alone, NEW t \in Threads, Thread(t)
  PROVE  Alone'
<1>1. CASE Active(t) /\ EndRun(t)
  <2>1. Becomes(t, "none", "idle") /\ ha' = ha
    BY <1>1, Ending DEF EndRun
  <2>2. \A u \in Threads : ~Active(u)'
    BY <1>1, <2>1, NoneIsNoTask DEF Alone, Active, Becomes
  <2>3. thr'[Rest].task = "force" => thr[Rest].task = "force"
    BY <2>1 DEF Becomes, Threads
  <2>4. QED
    BY <2>1, <2>2, <2>3 DEF Alone, ApiUp
<1>2. ASSUME \A u \in Threads : thr'[u].task = thr[u].task, ~EndRun(t) PROVE Alone'
  <2>1. exec'.action = exec.action /\ ha' = ha
    BY <1>2, TaskKeepsAction
  <2>2. Rest \in Threads
    BY DEF Threads
  <2>3. QED
    BY <1>2, <2>1, <2>2 DEF Alone, Active, ApiUp
<1>3. CASE Goes(t) /\ ~EndRun(t)
  BY <1>2, <1>3, Stepping DEF Goes, Becomes
<1>4. CASE EndRun(t)
  <2>1. At(t, "end")
    BY <1>4 DEF EndRun
  <2>2. Active(t)
    BY <2>1 DEF At, Active, Threading, Records, StepsOf, Common, Forcing
  <2>3. QED
    BY <1>1, <1>4, <2>2
<1>5. QED
  BY <1>2, <1>3, <1>4, ThreadGoes

\* Whoever the HA loop and the REST API start, stop or wait for, the executor knows the only task.
LEMMA AloneStarts ==
  ASSUME Alone, NEW task \in Tasks, Starts(task), ApiUp => ApiUp'
  PROVE  Alone'
<1>1. \A u \in Threads : ~Active(u)
  BY Free DEF Starts, Schedule
<1>2. exec'.action = task
  BY ScheduleType DEF Starts
<1>3. PICK w \in Threads : Becomes(w, task, "begin")
  BY DEF Starts
<1>4. Rest \in Threads
  BY DEF Threads
<1>5. thr'[Rest].task = "force" => thr[Rest].task = "force"
  BY <1>3, <1>4, NoneIsNoTask DEF Becomes
<1>6. \A u \in Threads : Active(u)' <=> u = w
  BY <1>1, <1>3 DEF Active, Becomes
<1>7. \A u \in Threads : Active(u)' => thr'[u].task = task
  BY <1>3, <1>6 DEF Becomes
<1>8. QED
  BY <1>2, <1>5, <1>6, <1>7 DEF Alone

Left == {"stop and exit", "off"}

\* The HA loop that has left stays away, and it does not leave a forced reinitialize behind.
LEMMA OutsideHa ==
  ASSUME ~Overtaken, Outside
  PROVE  /\ ha \in Left => ha' \in Left
         /\ ApiUp => ApiUp' \/ (thr[Rest].task # "force" /\ UNCHANGED thr)
<1>1. CASE HaWaits
  BY <1>1 DEF HaWaits, KillScript, Killed, RecoveryKilled, DemoteStop, DemoteFollow, LeaveCancel, LeaveWait, Exit,
              ApiUp, Left
<1>2. CASE Leave
  BY <1>2 DEF Leave, Cycle, ApiUp, Left
<1>3. CASE HaCycle /\ ~Leave
  <2>1. ha = "idle" /\ ha' \in {"idle", "kill script", "stop", "kill recovery"}
    BY <1>3 DEF HaCycle, CallOffPromotion, CallOffStart, CrashRecoveryTimeout, DemotePrimary, Bootstrap,
                ReleaseKeyOfEmpty, StartPrimary, HandleCrashRecovery, StartReadOnly, FollowLeader, HandleRewind,
                HandleReinitialize, EnforcePrimaryRole, GiveUpPromotion, ScheduledRestart, Cycle, Down, Try,
                RestartIsDue
  <2>2. QED
    BY <2>1 DEF ApiUp, Left
<1>4. CASE Api \/ Started \/ Crash \/ LoseKey
  <2>1. ha' = ha
    BY <1>4 DEF Api, PostRestart, PostScheduledRestart, DeleteScheduledRestart, PostReinitialize, ForceCancel,
                ForceWait, ForceReinitialize, Started, Crash, LoseKey
  <2>2. QED
    BY <2>1 DEF ApiUp
<1>5. QED
  BY <1>1, <1>2, <1>3, <1>4 DEF Outside

\* The action of the executor changes from under no task.
LEMMA OutsideAction ==
  ASSUME ~Overtaken, Values, Threading, Alone, Outside
  PROVE  exec'.action = exec.action \/ ha' \in Left \/ \A t \in Threads : ~Active(t)
<1> DEFINE Goal == exec'.action = exec.action \/ ha' \in Left \/ \A t \in Threads : ~Active(t)
<1> SUFFICES Goal
  OBVIOUS
<1>1. ASSUME NEW task, Schedule(task), ha \notin Left PROVE Goal
  BY <1>1, Free DEF Schedule, Left
<1>2. ASSUME NEW task, RunAsync(task), ha \notin Left PROVE Goal
  BY <1>1, <1>2 DEF RunAsync
<1>3. UNCHANGED exec => Goal
  OBVIOUS
<1>4. Mark => Goal
  BY DEF Mark, Values, Executors
<1> HIDE DEF Goal
<1>5. CASE \/ KillScript \/ Killed \/ RecoveryKilled \/ DemoteStop \/ LeaveCancel
           \/ Exit \/ CallOffPromotion \/ CallOffStart \/ CrashRecoveryTimeout \/ DemotePrimary
           \/ ReleaseKeyOfEmpty \/ GiveUpPromotion
  BY <1>3, <1>5 DEF KillScript, Killed, RecoveryKilled, DemoteStop, LeaveCancel, Exit, CallOffPromotion, CallOffStart, CrashRecoveryTimeout, DemotePrimary, ReleaseKeyOfEmpty, GiveUpPromotion, execVars
<1>6. CASE \/ PostScheduledRestart \/ DeleteScheduledRestart \/ ForceCancel \/ Started \/ Crash
           \/ LoseKey
  BY <1>3, <1>6 DEF PostScheduledRestart, DeleteScheduledRestart, ForceCancel, Started, Crash, LoseKey, execVars
<1>7. CASE Leave
  BY <1>3, <1>4, <1>7 DEF Leave
<1>8. CASE \/ Bootstrap \/ StartPrimary \/ HandleCrashRecovery \/ StartReadOnly \/ FollowLeader
           \/ HandleRewind \/ HandleReinitialize
  BY <1>2, <1>8 DEF Bootstrap, StartPrimary, HandleCrashRecovery, StartReadOnly, FollowLeader, HandleRewind, HandleReinitialize, Down, Cycle, Try, Left
<1>9. CASE DemoteFollow \/ EnforcePrimaryRole \/ ScheduledRestart
  BY <1>2, <1>3, <1>9 DEF DemoteFollow, EnforcePrimaryRole, ScheduledRestart, RestartIsDue, Cycle, Left
<1>10. CASE PostRestart \/ PostReinitialize
  BY <1>1, <1>2, <1>4, <1>10 DEF PostRestart, PostReinitialize, ApiUp, Left
<1>11. CASE LeaveWait
  BY <1>11 DEF LeaveWait, Goal, Left
<1>12. CASE ForceWait
  <2>1. \A w \in Workers : thr[w].pc = "idle"
    BY <1>12 DEF ForceWait, At
  <2>2. \A w \in Workers : ~Active(w)
    <3> SUFFICES ASSUME NEW w \in Workers PROVE ~Active(w)
      OBVIOUS
    <3>1. thr[w].pc = "idle" /\ w \in Threads
      BY <2>1 DEF Threads
    <3>2. QED
      BY <3>1, NoneIsNoTask DEF Active, Threading, Records, StepsOf, Common, Promoting, Serving
  <2>3. ~Active(Rest)
    BY <1>12, RestSteps, NoneIsNoTask DEF ForceWait, At, Forcing, Active
  <2>4. QED
    BY <2>2, <2>3 DEF Threads, Goal
<1>13. CASE ForceReinitialize
  <2>1. thr[Rest].task = "force"
    BY <1>13, RestSteps DEF ForceReinitialize, At, Forcing
  <2>2. ha \notin Left
    BY <2>1 DEF Alone, ApiUp, Left
  <2>3. QED
    BY <1>1, <1>3, <1>13, <2>2 DEF ForceReinitialize
<1>14. QED
  BY <1>5, <1>6, <1>7, <1>8, <1>9, <1>10, <1>11, <1>12, <1>13 DEF Outside, HaWaits, HaCycle, Api

LEMMA AloneOutside ==
  ASSUME ~Overtaken, Values, Threading, Alone, Outside
  PROVE  Alone'
<1>0. Rest \in Threads
  BY DEF Threads
<1>1. ASSUME \A t \in Threads : thr'[t].task = thr[t].task PROVE Alone'
  <2>1. \A t \in Threads : Active(t)' <=> Active(t)
    BY <1>1 DEF Active
  <2>2. \A t \in Threads : Active(t)' => exec'.action = thr'[t].task \/ ha' \in Left
    BY <1>1, <2>1, OutsideHa, OutsideAction DEF Alone, Left
  <2>3. thr'[Rest].task = "force" => ApiUp'
    BY <1>0, <1>1, OutsideHa DEF Alone
  <2>4. QED
    BY <2>1, <2>2, <2>3 DEF Alone, Left
<1>2. CASE UNCHANGED thr
  BY <1>1, <1>2
<1>3. ASSUME NEW task \in Tasks, Starts(task) PROVE Alone'
  <2>1. ~UNCHANGED thr
    BY <1>3, NoneIsNoTask DEF Starts, Becomes
  <2>2. QED
    BY <1>3, <2>1, AloneStarts, OutsideHa
<1>4. CASE Forces
  <2>1. \A t \in Threads : (Active(t)' <=> Active(t)) /\ (Active(t) => thr'[t].task = thr[t].task)
    BY <1>4, NoneIsNoTask DEF Forces, Active, Becomes
  <2>2. \A t \in Threads : Active(t)' => exec'.action = thr'[t].task \/ ha' \in Left
    BY <2>1, OutsideHa, OutsideAction DEF Alone, Left
  <2>3. thr'[Rest].task = "force" => ApiUp'
    BY <1>4, OutsideHa DEF Forces
  <2>4. QED
    BY <2>1, <2>2, <2>3 DEF Alone, Left
<1>5. CASE StartsForced
  <2>1. \A t \in Threads : ~Active(t)
    BY <1>5, Free DEF StartsForced, Schedule
  <2>2. PICK w \in Workers :
          \A u \in Threads : IF u = w THEN thr[u].task = "none" /\ thr'[u].task = "reinitialize" /\ thr'[u].pc = "begin"
                             ELSE IF u = Rest THEN thr'[u].task = "none" /\ thr'[u].pc = "idle"
                             ELSE thr'[u].task = thr[u].task /\ thr'[u].pc = thr[u].pc
    BY <1>5 DEF StartsForced
  <2>3. \A u \in Threads : Active(u)' <=> u = w
    BY <2>1, <2>2, NoneIsNoTask, TaskNames DEF Active
  <2>4. exec'.action = "reinitialize"
    BY <1>5, ScheduleType, TaskNames DEF StartsForced
  <2>5. thr'[Rest].task # "force" /\ \A u \in Threads : Active(u)' => thr'[u].task = "reinitialize"
    BY <1>0, <2>2, <2>3
  <2>6. QED
    BY <2>3, <2>4, <2>5 DEF Alone
<1>6. QED
  BY <1>2, <1>3, <1>4, <1>5, OutsideThreads

-----------------------------------------------------------------------------
(* No postmaster below a task that rewrites the data directory *)

LEMMA NoneIsOffline == Offline("none") = {} /\ Offline("force") = {}
BY DEF Offline

LEMMA DryGoes ==
  ASSUME Threading, Alone, NEW t \in Threads, Active(t), NEW pc \in Steps, Goto(t, pc),
         pc \in Offline(thr[t].task) => pg' = "down"
  PROVE  Dry'
<1>1. Becomes(t, thr[t].task, pc)
  BY Stepping
<1>2. SUFFICES ASSUME NEW u \in Threads, thr'[u].pc \in Offline(thr'[u].task) PROVE pg' = "down"
  BY DEF Dry
<1>3. CASE u = t
  BY <1>1, <1>2, <1>3 DEF Becomes
<1>4. CASE u # t
  <2>1. ~Active(u) /\ thr'[u].task = thr[u].task
    BY <1>1, <1>4 DEF Alone, Becomes
  <2>2. thr'[u].task \in {"none", "force"}
    BY <2>1 DEF Active, Threading, Records
  <2>3. QED
    BY <1>2, <2>2, NoneIsOffline
<1>5. QED
  BY <1>3, <1>4

LEMMA DryThread ==
  ASSUME Threading, Alone, Dry, NEW t \in Threads, Thread(t)
  PROVE  Dry'
<1> DEFINE T == thr[t].task
           P == thr[t].pc
           Way(pc) == pc \in Steps /\ Goto(t, pc) /\ (pc \in Offline(T) => pg' = "down")
<1>1. P \in Common \cup Promoting \cup Serving => Active(t)
  BY DEF Threading, Records, StepsOf, Active, Common, Promoting, Serving, Forcing
<1>2. ASSUME NEW pc, P \in Common \cup Promoting \cup Serving, Way(pc) PROVE Dry'
  BY <1>1, <1>2, DryGoes
<1>3. P \in Offline(T) => pg = "down"
  BY DEF Dry
<1>4. CASE EndRun(t)
  <2>1. Becomes(t, "none", "idle") /\ pg' = pg
    BY <1>4, Ending DEF EndRun
  <2>2. QED
    BY <2>1, NoneIsOffline DEF Dry, Becomes
<1>5. CASE BeginRun(t)
  <2>1. P = "begin" /\ pg' = pg
    BY <1>5 DEF BeginRun, At, pgVars
  <2>2. "reset" \in Offline(T) => "begin" \in Offline(T)
    BY DEF Offline
  <2>3. "end" \notin Offline(T)
    BY DEF Offline
  <2>4. Way("end") \/ Way("reset")
    BY <1>3, <1>5, <2>1, <2>2, <2>3 DEF BeginRun, Steps, Common
  <2>5. QED
    BY <1>2, <2>1, <2>4 DEF Common
<1>6. CASE ResetIsCancelled(t)
  <2>1. P = "reset" /\ pg' = pg /\ Goto(t, FirstStep(T))
    BY <1>6 DEF ResetIsCancelled, At, pgVars
  <2>2. Active(t)
    BY <1>1, <2>1 DEF Common
  <2>3. FirstStep(T) \in Steps
    BY <2>2 DEF FirstStep, Active, Tasks, Steps, Promoting, Serving
  <2>4. FirstStep(T) \in Offline(T) => "reset" \in Offline(T)
    BY <2>2 DEF FirstStep, Active, Tasks, Offline
  <2>5. Way(FirstStep(T))
    BY <1>3, <2>1, <2>3, <2>4
  <2>6. QED
    BY <1>2, <2>1, <2>5 DEF Common
<1>7. ASSUME NEW pc \in {"end", "script ok", "script failed", "pg_ctl promote", "wait promote", "stop", "start",
                         "launch", "wait", "follow"},
             P \in Common \cup Promoting \cup Serving, Goto(t, pc)
      PROVE  Dry'
  <2>1. pc \notin Offline(T) /\ pc \in Steps
    BY DEF Offline, Steps, Common, Promoting, Serving
  <2>2. QED
    BY <1>2, <1>7, <2>1
<1>8. CASE PrePromote(t)
  <2>1. P = "pre_promote" /\ (Goto(t, "end") \/ Goto(t, "program"))
    BY <1>8 DEF PrePromote, At, Call
  <2>2. T = "promote"
    BY <2>1 DEF Threading, Records, StepsOf, Common, Promoting, Serving, Forcing
  <2>3. "program" \notin Offline(T) /\ "end" \notin Offline(T)
    BY <2>2 DEF Offline
  <2>4. Way("end") \/ Way("program")
    BY <2>1, <2>3 DEF Steps, Common
  <2>5. QED
    BY <1>2, <2>1, <2>4 DEF Promoting
<1>9. CASE Decide(t) \/ Promote(t) \/ WaitPromote(t)
  BY <1>7, <1>9 DEF Decide, Promote, WaitPromote, At, Promoting
<1>10. CASE StopPg(t)
  <2>1. P = "stop" /\ pg' = "down" /\ (Goto(t, "call") \/ Goto(t, "start"))
    BY <1>10 DEF StopPg, At
  <2>2. Way("call") \/ Way("start")
    BY <2>1 DEF Steps, Serving
  <2>3. QED
    BY <1>2, <2>1, <2>2 DEF Serving
<1>11. CASE Follow(t) \/ StartPg(t) \/ Launch(t) \/ WaitForStartup(t)
  BY <1>7, <1>11 DEF Follow, StartPg, Launch, WaitForStartup, At, Serving
<1>12. ASSUME P = "call", pg' = pg, pg = "down" \/ "call" \in Offline(T), Call(t) PROVE Dry'
  <2>1. Way("end") \/ Way("program")
    BY <1>3, <1>12 DEF Call, Steps, Common, Offline
  <2>2. QED
    BY <1>2, <1>12, <2>1 DEF Serving
<1>13. CASE CallBasebackup(t)
  <2>1. P = "call" /\ T \in {"clone", "reinitialize"} /\ pg' = pg /\ Call(t)
    BY <1>13 DEF CallBasebackup, At
  <2>2. "call" \in Offline(T)
    BY <2>1 DEF Offline
  <2>3. QED
    BY <1>12, <2>1, <2>2
<1>14. CASE CallRewind(t)
  <2>1. CASE pg # "down"
    BY <1>14, <2>1 DEF CallRewind, Dry
  <2>2. CASE pg = "down"
    BY <1>12, <1>14, <2>2 DEF CallRewind, At
  <2>3. QED
    BY <2>1, <2>2
<1>15. CASE CallSingleUser(t)
  <2>1. P = "call" /\ T = "recovery" /\ pg' = pg /\ Call(t)
    BY <1>15 DEF CallSingleUser, At
  <2>2. "call" \in Offline(T)
    BY <2>1 DEF Offline
  <2>3. QED
    BY <1>12, <2>1, <2>2
<1>16. CASE ProgramEnds(t)
  <2>1. P = "program"
    BY <1>16 DEF ProgramEnds, At
  <2>2. PICK ok \in BOOLEAN : \E o \in Outcomes(T, ok /\ ~sub.cancelled) : Goto(t, o.pc)
    BY <1>16 DEF ProgramEnds
  <2>3. PICK o \in Outcomes(T, ok /\ ~sub.cancelled) : Goto(t, o.pc)
    BY <2>2
  <2>4. o.pc \in {"script ok", "script failed", "end", "follow"}
    BY <2>3, ProgramSteps
  <2>5. QED
    BY <1>7, <2>1, <2>3, <2>4 DEF Common
<1>17. QED
  BY <1>4, <1>5, <1>6, <1>8, <1>9, <1>10, <1>11, <1>13, <1>14, <1>15, <1>16 DEF Thread

LEMMA DryOutside ==
  ASSUME Threading, Alone, Dry, Outside
  PROVE  Dry'
<1>0. Rest \in Threads /\ Workers \subseteq Threads
  BY DEF Threads
<1>1. pg = "down" => pg' = "down"
  BY DEF Outside, HaWaits, KillScript, Killed, RecoveryKilled, DemoteStop, DemoteFollow, LeaveCancel, LeaveWait, Exit,
         HaCycle, CallOffPromotion, CallOffStart, TerminatePostmaster, CrashRecoveryTimeout, DemotePrimary, Bootstrap,
         ReleaseKeyOfEmpty, StartPrimary, HandleCrashRecovery, StartReadOnly, FollowLeader, HandleRewind,
         HandleReinitialize, Try, EnforcePrimaryRole, GiveUpPromotion, ScheduledRestart, Leave,
         Api, PostRestart, PostScheduledRestart, DeleteScheduledRestart, PostReinitialize, ForceCancel, ForceWait,
         ForceReinitialize, Started, Crash, LoseKey, pgVars
<1>2. CASE UNCHANGED thr
  BY <1>1, <1>2 DEF Dry
<1>3. ASSUME NEW task \in Tasks, Starts(task) PROVE Dry'
  <2>1. PICK w \in Threads : Becomes(w, task, "begin")
    BY <1>3 DEF Starts
  <2>2. "begin" \in Offline(task) => pg = "down"
    BY <1>3 DEF Starts, Offline
  <2>3. QED
    BY <1>1, <2>1, <2>2 DEF Dry, Becomes
<1>4. CASE Forces
  BY <1>0, <1>1, <1>4, NoneIsOffline DEF Forces, Dry, Becomes
<1>5. CASE StartsForced
  <2>1. "begin" \notin Offline("reinitialize")
    BY DEF Offline
  <2>2. QED
    BY <1>1, <1>5, <2>1, NoneIsOffline DEF StartsForced, Dry
<1>6. QED
  BY <1>2, <1>3, <1>4, <1>5, OutsideThreads

-----------------------------------------------------------------------------
(* A task that was called off *)

\* A task that goes on without a new postmaster and without a word to the HA loop.
LEMMA QuietGoes ==
  ASSUME Values, Threading, CalledOff, NEW t \in Threads, NEW pc \in Steps, Goto(t, pc),
         UNCHANGED <<resp, crit, cut>>, by' \in {by, None}, pc \notin {"pg_ctl promote", "wait promote"},
         thr[t].pc \in {"wait", "wait promote", "end"} => pc = "end"
  PROVE  CalledOff'
<1>1. \A u \in Threads : thr'[u].task = thr[u].task /\ thr'[u].pc = IF u = t THEN pc ELSE thr[u].pc
  BY Stepping DEF Becomes
<1>2. Reported'
  <2>1. \A u \in Threads : (Active(u)' <=> Active(u)) /\ (Critical(u)' <=> Critical(u))
    BY <1>1 DEF Active, Critical
  <2>2. by' \in Threads => by' = by
    BY ThreadsAssumption
  <2>3. \A u \in Threads : thr[u].pc \in {"wait", "end"} => thr'[u].pc \in {"wait", "end"}
    BY <1>1
  <2>4. \A u \in Threads : thr[u].pc \in {"wait promote", "end"} => thr'[u].pc \in {"wait promote", "end"}
    BY <1>1
  <2>5. by' \in Threads =>
          /\ Active(by)'
          /\ thr'[by'].task = "promote" => resp'.result = "ok" /\ thr'[by'].pc \in {"wait promote", "end"}
          /\ Critical(by)' => crit'.result = "postmaster"
    BY <1>1, <2>1, <2>2, <2>4 DEF CalledOff, Reported, Active, Critical
  <2>6. crit'.result = "postmaster" => \E u \in Threads : Critical(u)' /\ thr'[u].pc \in {"wait", "end"}
    BY <2>1, <2>3 DEF CalledOff, Reported
  <2>7. \A u \in Threads : thr'[u].pc \in {"pg_ctl promote", "wait promote"} => resp'.result = "ok"
    BY <1>1 DEF CalledOff, Reported
  <2>8. QED
    BY <2>5, <2>6, <2>7 DEF Reported
<1>3. ASSUME NEW u \in cut, u \in Threads PROVE Harmless(u)'
  <2>1. Harmless(u) /\ by' # u
    BY <1>3, ThreadsAssumption DEF CalledOff, Harmless
  <2>2. thr'[u].task = thr[u].task /\ (Critical(u)' <=> Critical(u))
    BY <1>1, <1>3 DEF Critical
  <2>3. thr[u].pc \in {"wait", "end"} => thr'[u].pc \in {"wait", "end"}
    BY <1>1, <1>3
  <2>4. thr[u].pc \notin {"pg_ctl promote", "wait promote"} => thr'[u].pc \notin {"pg_ctl promote", "wait promote"}
    BY <1>1, <1>3
  <2>5. QED
    BY <2>1, <2>2, <2>3, <2>4 DEF Harmless
<1>4. QED
  BY <1>2, <1>3 DEF CalledOff, Values

\* Only a task that goes on: nothing else is active, called off, or stands behind the postmaster.
LEMMA OnlyOne ==
  ASSUME Values, Alone, CalledOff, NEW t \in Threads, Active(t)
  PROVE  /\ \A u \in Threads : Active(u) => u = t
         /\ cut \subseteq {t}
         /\ by \in {t, None}
         /\ crit.result = "postmaster" => Critical(t) /\ thr[t].pc \in {"wait", "end"}
<1>1. \A u \in Threads : Active(u) => u = t
  BY DEF Alone
<1>2. \A u \in Threads : Critical(u) => Active(u)
  BY TaskNames DEF Critical, Active
<1>3. \A u \in cut : Active(u)
  BY <1>2, TaskNames DEF CalledOff, Harmless, Active, Values
<1>4. QED
  BY <1>1, <1>2, <1>3 DEF CalledOff, Reported, Values

LEMMA DecideKeeps ==
  ASSUME Values, Threading, Alone, CalledOff, NEW t \in Threads, Decide(t)
  PROVE  CalledOff'
<1>1. /\ thr[t].pc \in {"script ok", "script failed"} /\ UNCHANGED <<crit, cut, by>>
      /\ \E pc \in {"end", "pg_ctl promote"} :
           /\ Goto(t, pc)
           /\ IF resp.cancelled THEN pc = "end" /\ UNCHANGED resp
              ELSE resp' = [resp EXCEPT !.result = IF At(t, "script ok") THEN "ok" ELSE "failed"]
                   /\ (pc = "pg_ctl promote" => At(t, "script ok"))
  BY DEF Decide, pgVars
<1>2. PICK pc \in {"end", "pg_ctl promote"} :
           /\ Goto(t, pc)
           /\ IF resp.cancelled THEN pc = "end" /\ UNCHANGED resp
              ELSE resp' = [resp EXCEPT !.result = IF At(t, "script ok") THEN "ok" ELSE "failed"]
                   /\ (pc = "pg_ctl promote" => At(t, "script ok"))
  BY <1>1
<1>3. pc \in Steps
  BY DEF Steps, Common, Promoting
<1>4. CASE resp.cancelled
  BY <1>1, <1>2, <1>3, <1>4, QuietGoes
<1>5. CASE ~resp.cancelled
  <2>1. thr[t].task = "promote" /\ Active(t)
    BY <1>1, TaskNames DEF Active, Threading, Records, StepsOf, Common, Promoting, Serving, Forcing
  <2>2. cut = {}
    BY <1>1, <1>5, <2>1, OnlyOne DEF CalledOff, Harmless, Critical
  <2>3. by = None
    BY <1>1, <2>1, OnlyOne, ThreadsAssumption DEF CalledOff, Reported
  <2>4. \A u \in Threads : thr'[u].task = thr[u].task /\ thr'[u].pc = IF u = t THEN pc ELSE thr[u].pc
    BY <1>2, <1>3, Stepping DEF Becomes
  <2>5. crit'.result # "postmaster"
    BY <1>1, <2>1, OnlyOne
  <2>6. \A u \in Threads : u # t => ~Active(u)
    BY <2>1, OnlyOne
  <2>7. \A u \in Threads : u # t => thr[u].pc \notin {"pg_ctl promote", "wait promote"}
    BY <2>6 DEF Active, Threading, Records, StepsOf, Forcing
  <2>8. pc = "pg_ctl promote" => resp'.result = "ok"
    BY <1>2, <1>5 DEF Values, PromoteTasks
  <2>9. QED
    BY <1>1, <2>2, <2>3, <2>4, <2>5, <2>7, <2>8, ThreadsAssumption DEF CalledOff, Reported
<1>6. QED
  BY <1>4, <1>5

LEMMA PromoteKeeps ==
  ASSUME Values, Threading, Alone, CalledOff, NEW t \in Threads, Promote(t)
  PROVE  CalledOff'
<1>0. UNCHANGED <<resp, crit, cut>> /\ thr[t].pc = "pg_ctl promote"
  BY DEF Promote, At
<1>1. thr[t].task = "promote" /\ Active(t)
  BY <1>0, TaskNames DEF Active, Threading, Records, StepsOf, Common, Promoting, Serving, Forcing
<1>2. cut = {} /\ resp.result = "ok" /\ crit.result # "postmaster"
  BY <1>0, <1>1, OnlyOne DEF CalledOff, Reported, Harmless, Critical
<1>3. CASE Goto(t, "end") /\ by' = by
  BY <1>0, <1>3, QuietGoes DEF Values, Steps, Common
<1>4. CASE Goto(t, "wait promote") /\ by' = t
  <2>1. Becomes(t, thr[t].task, "wait promote")
    BY <1>4, Stepping DEF Steps, Promoting
  <2>2. QED
    BY <1>0, <1>1, <1>2, <1>4, <2>1 DEF CalledOff, Reported, Becomes, Active, Critical
<1>5. QED
  BY <1>3, <1>4 DEF Promote, pgVars

LEMMA LaunchKeeps ==
  ASSUME Values, Threading, Alone, CalledOff, NEW t \in Threads, Launch(t)
  PROVE  CalledOff'
<1>0. UNCHANGED <<resp, cut>> /\ thr[t].pc = "launch"
  BY DEF Launch, At
<1>1. thr[t].task # "promote" /\ Active(t)
  BY <1>0 DEF Active, Threading, Records, StepsOf, Common, Promoting, Serving, Forcing
<1>2. CASE Goto(t, "end") /\ UNCHANGED <<by, crit>>
  BY <1>0, <1>2, QuietGoes DEF Values, Steps, Common
<1>3. CASE /\ Goto(t, "wait") /\ by' = t /\ ~(Critical(t) /\ crit.cancelled)
           /\ crit' = IF Critical(t) THEN [crit EXCEPT !.result = "postmaster"] ELSE crit
  <2>1. Becomes(t, thr[t].task, "wait")
    BY <1>3, Stepping DEF Steps, Serving
  <2>2. cut = {}
    BY <1>0, <1>1, <1>3, OnlyOne DEF CalledOff, Harmless
  <2>3. Critical(t) => crit'.result = "postmaster"
    BY <1>3 DEF Values, StartTasks
  <2>4. ~Critical(t) => crit'.result # "postmaster"
    BY <1>0, <1>1, <1>3, OnlyOne
  <2>5. Active(t)' /\ (Critical(t)' <=> Critical(t)) /\ thr'[t].task = thr[t].task /\ thr'[t].pc = "wait"
    BY <1>1, <2>1 DEF Becomes, Active, Critical
  <2>6. \A u \in Threads : thr'[u].pc \in {"pg_ctl promote", "wait promote"} => resp'.result = "ok"
    BY <1>0, <2>1 DEF CalledOff, Reported, Becomes
  <2>7. QED
    BY <1>0, <1>1, <1>3, <2>2, <2>3, <2>4, <2>5, <2>6 DEF CalledOff, Reported, Active, Critical
<1>4. QED
  BY <1>2, <1>3 DEF Launch

LEMMA EndKeeps ==
  ASSUME Values, Threading, Alone, CalledOff, NEW t \in Threads, EndRun(t)
  PROVE  CalledOff'
<1>1. Becomes(t, "none", "idle") /\ thr[t].pc = "end"
  BY Ending DEF EndRun, At
<1>2. Active(t)
  BY <1>1 DEF Active, Threading, Records, StepsOf, Common, Promoting, Serving, Forcing
<1>3. UNCHANGED resp /\ crit' = NoTask /\ cut' = cut \ {t} /\ by' = IF by = t THEN None ELSE by
  BY DEF EndRun
<1>4. cut' = {} /\ by' = None
  BY <1>2, <1>3, OnlyOne
<1>5. crit'.result # "postmaster"
  BY <1>3 DEF NoTask
<1>6. \A u \in Threads : thr'[u].pc \in {"pg_ctl promote", "wait promote"} => resp'.result = "ok"
  BY <1>1, <1>3 DEF Becomes, CalledOff, Reported
<1>7. QED
  BY <1>4, <1>5, <1>6, ThreadsAssumption DEF CalledOff, Reported

LEMMA CalledOffThread ==
  ASSUME Values, Threading, Alone, CalledOff, NEW t \in Threads, Thread(t)
  PROVE  CalledOff'
<1> DEFINE P == thr[t].pc
           Quiet == {"end", "reset", "pre_promote", "program", "script ok", "script failed", "stop", "start", "launch",
                     "follow", "call"}
<1>1. ASSUME NEW pc \in Quiet, Goto(t, pc), UNCHANGED <<resp, crit, cut>>, by' \in {by, None},
             pc = "end" \/ P \notin {"wait", "wait promote", "end"}
      PROVE  CalledOff'
  BY <1>1, QuietGoes DEF Steps, Common, Promoting, Serving
<1>2. by \in {by, None}
  OBVIOUS
<1> HIDE DEF P
<1>3. CASE BeginRun(t)
  BY <1>1, <1>3 DEF BeginRun, At, pgVars, P
<1>4. CASE ResetIsCancelled(t)
  <2>1. Active(t)
    BY <1>4 DEF ResetIsCancelled, At, Active, Threading, Records, StepsOf, Forcing
  <2>2. FirstStep(thr[t].task) \in Quiet
    BY <2>1 DEF FirstStep, Active, Tasks
  <2>3. QED
    BY <1>1, <1>4, <2>2 DEF ResetIsCancelled, At, pgVars, P
<1>5. CASE PrePromote(t)
  BY <1>1, <1>5 DEF PrePromote, Call, At, pgVars, P
<1>6. CASE WaitPromote(t)
  BY <1>1, <1>6 DEF WaitPromote, pgVars
<1>7. CASE StopPg(t)
  BY <1>1, <1>7 DEF StopPg, At, P
<1>8. CASE Follow(t)
  BY <1>1, <1>8 DEF Follow, At, P
<1>9. CASE StartPg(t)
  BY <1>1, <1>9 DEF StartPg, At, P
<1>10. CASE WaitForStartup(t)
  BY <1>1, <1>10 DEF WaitForStartup, pgVars
<1>11. CASE CallBasebackup(t)
  BY <1>1, <1>11 DEF CallBasebackup, Call, At, P
<1>12. CASE CallRewind(t)
  <2>1. CASE pg # "down"
    <3>1. UNCHANGED <<thr, resp, crit, cut>> /\ by' = None
      BY <1>12, <2>1 DEF CallRewind
    <3>2. QED
      BY <3>1, ThreadsAssumption DEF CalledOff, Reported, Harmless, Critical, Values
  <2>2. CASE pg = "down"
    BY <1>1, <1>12, <2>2 DEF CallRewind, Call, At, P
  <2>3. QED
    BY <2>1, <2>2
<1>13. CASE CallSingleUser(t)
  BY <1>1, <1>13 DEF CallSingleUser, Call, At, P
<1>14. CASE ProgramEnds(t)
  <2>1. P = "program" /\ UNCHANGED <<resp, crit, cut, by>>
    BY <1>14 DEF ProgramEnds, At, P
  <2>2. PICK ok \in BOOLEAN : \E o \in Outcomes(thr[t].task, ok /\ ~sub.cancelled) : Goto(t, o.pc)
    BY <1>14 DEF ProgramEnds
  <2>3. PICK o \in Outcomes(thr[t].task, ok /\ ~sub.cancelled) : Goto(t, o.pc)
    BY <2>2
  <2>4. o.pc \in {"script ok", "script failed", "end", "follow"}
    BY <2>3, ProgramSteps
  <2>5. QED
    BY <1>1, <2>1, <2>3, <2>4
<1>15. QED
  BY <1>3, <1>4, <1>5, <1>6, <1>7, <1>8, <1>9, <1>10, <1>11, <1>12, <1>13, <1>14, DecideKeeps, PromoteKeeps,
     LaunchKeeps, EndKeeps DEF Thread

\* The HA loop that calls a task off has looked at how far it is.
LEMMA CallOffPromotionKeeps ==
  ASSUME Values, Threading, CalledOff, CallOffPromotion
  PROVE  CalledOff'
<1>1. resp.result = "none" /\ resp' = [resp EXCEPT !.cancelled = TRUE] /\ UNCHANGED <<thr, crit, by>>
      /\ cut' = cut \cup {t \in Threads : thr[t].task = "promote"}
  BY DEF CallOffPromotion, pgVars
<1>2. resp'.result = "none" /\ resp'.cancelled
  BY <1>1 DEF Values, PromoteTasks
<1>3. Reported'
  BY <1>1, <1>2 DEF CalledOff, Reported, Active, Critical
<1>4. ASSUME NEW t \in cut PROVE Harmless(t)'
  BY <1>1, <1>2, <1>4 DEF CalledOff, Harmless, Critical
<1>5. ASSUME NEW t \in Threads, thr[t].task = "promote" PROVE Harmless(t)'
  BY <1>1, <1>2, <1>5 DEF CalledOff, Reported, Harmless
<1>6. QED
  BY <1>1, <1>3, <1>4, <1>5 DEF CalledOff

LEMMA CallOffStartKeeps ==
  ASSUME Values, Threading, Alone, CalledOff, CallOffStart
  PROVE  CalledOff'
<1>1. UNCHANGED <<thr, resp>> /\ ha = "idle" /\ cut' = cut \cup {t \in Threads : Critical(t)}
  BY DEF CallOffStart, Cycle, Critical
<1>2. CASE exec.action \notin {"restart", "start"}
  <2>1. \A t \in Threads : ~Critical(t)
    BY <1>1, <1>2, TaskNames DEF Alone, Active, Critical
  <2>2. UNCHANGED <<by, crit>>
    BY <1>2 DEF CallOffStart
  <2>3. QED
    BY <1>1, <2>1, <2>2 DEF CalledOff, Reported, Harmless, Active, Critical
<1>3. CASE crit.result = "none" /\ crit' = [crit EXCEPT !.cancelled = TRUE] /\ by' = by
  <2>1. crit'.result = "none" /\ crit'.cancelled
    BY <1>3 DEF Values, StartTasks
  <2>2. Reported'
    BY <1>1, <1>3, <2>1 DEF CalledOff, Reported, Active, Critical
  <2>3. ASSUME NEW t \in cut PROVE Harmless(t)'
    BY <1>1, <1>3, <2>1 DEF CalledOff, Harmless, Critical
  <2>4. ASSUME NEW t \in Threads, Critical(t) PROVE Harmless(t)'
    BY <1>1, <1>3, <2>1, <2>4 DEF CalledOff, Reported, Harmless, Critical
  <2>5. QED
    BY <1>1, <2>2, <2>3, <2>4 DEF CalledOff
<1>4. CASE crit.result # "none" /\ crit' = crit /\ by' = None
  <2>1. PICK u \in Threads : Critical(u) /\ thr[u].pc \in {"wait", "end"}
    BY <1>4 DEF Values, StartTasks, CalledOff, Reported
  <2>2. \A t \in Threads : Critical(t) => t = u
    BY <2>1, TaskNames DEF Alone, Active, Critical
  <2>3. Reported'
    BY <1>1, <1>4, ThreadsAssumption DEF CalledOff, Reported, Critical
  <2>4. ASSUME NEW t \in cut PROVE Harmless(t)'
    BY <1>1, <1>4, ThreadsAssumption DEF CalledOff, Harmless, Critical, Values
  <2>5. ASSUME NEW t \in Threads, Critical(t) PROVE Harmless(t)'
    BY <1>1, <1>4, <2>1, <2>2, <2>5, ThreadsAssumption DEF Harmless, Critical
  <2>6. QED
    BY <1>1, <2>3, <2>4, <2>5 DEF CalledOff
<1>5. QED
  BY <1>2, <1>3, <1>4 DEF CallOffStart, TerminatePostmaster

\* What the rest of the HA loop and the REST API do to the reports.
LEMMA OutsideReports ==
  ASSUME Outside, ~CallOffPromotion, ~CallOffStart
  PROVE  /\ UNCHANGED <<crit, cut>> /\ by' \in {by, None}
         /\ resp' = resp \/ (~Busy /\ ha = "idle")
<1>1. CASE HaWaits
  BY <1>1 DEF HaWaits, KillScript, Killed, RecoveryKilled, DemoteStop, DemoteFollow, LeaveCancel, LeaveWait, Exit,
              pgVars, execVars
<1>2. CASE HaCycle
  BY <1>2 DEF HaCycle, CrashRecoveryTimeout, DemotePrimary, Bootstrap, ReleaseKeyOfEmpty, StartPrimary,
              HandleCrashRecovery, StartReadOnly, FollowLeader, HandleRewind, HandleReinitialize, Try,
              EnforcePrimaryRole, GiveUpPromotion, ScheduledRestart, Leave, Cycle, pgVars, execVars
<1>3. CASE Api \/ Started \/ Crash \/ LoseKey
  BY <1>3 DEF Api, PostRestart, PostScheduledRestart, DeleteScheduledRestart, PostReinitialize, ForceCancel,
              ForceWait, ForceReinitialize, Started, Crash, LoseKey, pgVars, execVars
<1>4. QED
  BY <1>1, <1>2, <1>3 DEF Outside

\* The threads that carry out a task are as they were.
TasksStay ==
  \A t \in Threads : IF Active(t) THEN thr'[t].task = thr[t].task /\ thr'[t].pc = thr[t].pc
                     ELSE thr'[t].task \in {"none", "force"}

LEMMA CalledOffOutside ==
  ASSUME Values, Threading, Alone, CalledOff, Outside
  PROVE  CalledOff'
<1>1. CASE CallOffPromotion \/ CallOffStart
  BY <1>1, CallOffPromotionKeeps, CallOffStartKeeps
<1>2. CASE ~CallOffPromotion /\ ~CallOffStart
  <2>0. UNCHANGED <<crit, cut>> /\ by' \in {by, None} /\ (resp' = resp \/ \A t \in Threads : ~Active(t))
    BY <1>2, OutsideReports, Free
  <2>1. ASSUME resp' = resp, TasksStay
        PROVE  CalledOff'
    <3>1. \A t \in Threads : thr'[t].pc \in {"pg_ctl promote", "wait promote"} => resp'.result = "ok"
      <4> SUFFICES ASSUME NEW t \in Threads, thr'[t].pc \in {"pg_ctl promote", "wait promote"} PROVE resp.result = "ok"
        BY <2>1
      <4>1. Threading'
        BY OutsideThreads
      <4>2. thr'[t].task \notin {"none", "force"}
        BY <4>1 DEF Threading, StepsOf, Forcing
      <4>3. QED
        BY <2>1, <4>2 DEF CalledOff, Reported, TasksStay
    <3>2. \A t \in Threads : Critical(t) => Active(t) /\ Critical(t)'
      BY <2>1, TaskNames DEF Critical, Active, TasksStay
    <3>3. \A t \in Threads : Critical(t)' => Critical(t)
      BY <2>1 DEF Critical, TasksStay
    <3>4. Reported'
      BY <2>0, <2>1, <3>1, <3>2, <3>3, ThreadsAssumption DEF CalledOff, Reported, Active, TasksStay
    <3>5. ASSUME NEW t \in cut PROVE Harmless(t)'
      <4>1. Active(t) /\ t \in Threads
        BY TaskNames DEF CalledOff, Harmless, Critical, Active, Values
      <4>2. QED
        BY <2>0, <2>1, <3>2, <4>1, ThreadsAssumption DEF CalledOff, Harmless, TasksStay
    <3>6. QED
      BY <2>0, <3>4, <3>5 DEF CalledOff
  <2>2. ASSUME \A t \in Threads : ~Active(t), \A t \in Threads : thr'[t].pc \notin {"pg_ctl promote", "wait promote"}
        PROVE  CalledOff'
    <3>1. cut = {} /\ by = None /\ crit.result # "postmaster"
      BY ZenonT(60), <2>2, TaskNames DEF CalledOff, Reported, Harmless, Critical, Active, Values
    <3>2. QED
      BY <2>0, <2>2, <3>1, ThreadsAssumption DEF CalledOff, Reported
  <2>3. CASE UNCHANGED thr
    <3>1. \A t \in Threads : ~Active(t) => thr[t].task \in {"none", "force"} /\ thr[t].pc \notin {"pg_ctl promote", "wait promote"}
      BY DEF Active, Threading, Records, StepsOf, Forcing
    <3>2. QED
      BY <2>0, <2>1, <2>2, <2>3, <3>1 DEF TasksStay
  <2>4. CASE Forces
    <3>1. TasksStay
      BY <2>4, NoneIsNoTask DEF Forces, Becomes, Active, Threading, Records, TasksStay
    <3>2. Threading'
      BY OutsideThreads
    <3>3. \A t \in Threads : ~Active(t) => thr'[t].pc \notin {"pg_ctl promote", "wait promote"}
      BY <3>1, <3>2 DEF Threading, StepsOf, Forcing, TasksStay
    <3>4. QED
      BY <2>0, <2>1, <2>2, <3>1, <3>3
  <2>5. ASSUME NEW task \in Tasks, Starts(task) PROVE CalledOff'
    <3>1. \A t \in Threads : ~Active(t)
      BY <2>5, Free DEF Starts, Schedule
    <3>2. PICK w \in Threads : Becomes(w, task, "begin")
      BY <2>5 DEF Starts
    <3>3. \A t \in Threads : thr'[t].pc \notin {"pg_ctl promote", "wait promote"}
      BY <3>1, <3>2 DEF Becomes, Active, Threading, Records, StepsOf, Forcing
    <3>4. QED
      BY <2>2, <3>1, <3>3
  <2>6. CASE StartsForced
    <3>1. \A t \in Threads : ~Active(t)
      BY <2>6, Free DEF StartsForced, Schedule
    <3>2. \A t \in Threads : thr[t].pc \notin {"pg_ctl promote", "wait promote"}
      BY <3>1 DEF Active, Threading, Records, StepsOf, Forcing
    <3>3. \A t \in Threads : thr'[t].pc \notin {"pg_ctl promote", "wait promote"}
      BY <2>6, <3>2 DEF StartsForced
    <3>4. QED
      BY <2>2, <3>1, <3>3
  <2>7. QED
    BY <2>3, <2>4, <2>5, <2>6, OutsideThreads
<1>3. QED
  BY <1>1, <1>2

-----------------------------------------------------------------------------
(* The theorems *)

LEMMA InitInv == Init => IInv
<1> SUFFICES ASSUME Init PROVE IInv
  OBVIOUS
<1>1. thr = [t \in Threads |-> Idle] /\ \A t \in Threads : thr[t].task = "none" /\ thr[t].pc = "idle"
  BY DEF Init, Idle
<1>2. Values
  <2>1. PICK up \in {"primary", "standby", "down"} :
          /\ pg = up
          /\ key \in (CASE up = "primary" -> {TRUE} [] up = "standby" -> {FALSE} [] OTHER -> BOOLEAN)
          /\ files = IF up = "down" THEN "empty" ELSE "ok"
          /\ signal = (up = "standby")
          /\ role = CASE up = "primary" -> "primary" [] up = "standby" -> "replica" [] OTHER -> "uninitialized"
    BY DEF Init
  <2>2. key \in BOOLEAN /\ signal \in BOOLEAN
    BY <2>1
  <2>3. pg \in PgStates /\ files \in FileStates /\ role \in Roles
    BY <2>1 DEF PgStates, FileStates, Roles
  <2>4. exec \in Executors /\ sub \in Subprocesses /\ crit \in StartTasks /\ resp \in PromoteTasks
    BY DEF Init, NoTask, Executors, Subprocesses, StartTasks, PromoteTasks
  <2>5. QED
    BY <2>2, <2>3, <2>4 DEF Init, Values
<1>3. Threading
  <2>1. Idle \in Records /\ "idle" \in StepsOf("none")
    BY DEF Idle, Records, Steps, StepsOf
  <2>2. QED
    BY <1>1, <2>1 DEF Threading
<1>4. Alone
  BY <1>1, NoneIsNoTask DEF Alone, Active, Threads
<1>5. Dry
  BY <1>1, NoneIsOffline DEF Dry
<1>6. CalledOff
  BY <1>1, ThreadsAssumption DEF Init, NoTask, CalledOff, Reported
<1>7. QED
  BY <1>2, <1>3, <1>4, <1>5, <1>6 DEF IInv

LEMMA NextInv == ASSUME ~Overtaken PROVE IInv /\ [Next]_vars => IInv'
<1> SUFFICES ASSUME IInv, [Next]_vars PROVE IInv'
  OBVIOUS
<1>1. CASE UNCHANGED vars
  <2>1. UNCHANGED <<key, pg, files, signal, role, by, exec, sub, crit, resp, thr, ha, sched, cut>>
    BY <1>1 DEF vars, pgVars, execVars
  <2>2. Values' /\ Threading'
    BY <2>1 DEF IInv, Values, Threading
  <2>3. Alone' /\ Dry'
    BY <2>1 DEF IInv, Alone, Active, ApiUp, Dry
  <2>4. CalledOff'
    BY <2>1 DEF IInv, CalledOff, Reported, Harmless, Active, Critical
  <2>5. QED
    BY <2>2, <2>3, <2>4 DEF IInv
<1>2. ASSUME NEW t \in Threads, Thread(t) PROVE IInv'
  BY <1>2, ValuesThread, ThreadingThread, AloneThread, DryThread, CalledOffThread DEF IInv
<1>3. CASE Outside
  BY <1>3, ValuesOutside, OutsideThreads, AloneOutside, DryOutside, CalledOffOutside DEF IInv
<1>4. QED
  BY <1>1, <1>2, <1>3 DEF Next, Outside

LEMMA SpecInv == ASSUME ~Overtaken PROVE Spec => []IInv
BY InitInv, NextInv, PTL DEF Spec

\* The variables keep their types, for any number of threads, requests and faults, and even when the
\* HA loop overtakes a forced reinitialize.
THEOREM TypeCorrect == Spec => []TypeOK
<1>1. Init => Values
  BY InitInv DEF IInv
<1>2. Values /\ [Next]_vars => Values'
  <2>1. SUFFICES ASSUME Values, [Next]_vars PROVE Values'
    OBVIOUS
  <2>2. CASE UNCHANGED vars
    BY <2>1, <2>2 DEF vars, pgVars, execVars, Values
  <2>3. CASE Next
    BY <2>1, <2>3, ValuesThread, ValuesOutside DEF Next, Outside
  <2>4. QED
    BY <2>1, <2>2, <2>3
<1>3. Values => TypeOK
  BY DEF Values, TypeOK, PgStates, FileStates, Roles, Executors
<1>4. QED
  BY <1>1, <1>2, <1>3, PTL DEF Spec

\* pg_basebackup, pg_rewind and a single-user PostgreSQL have the data directory to themselves: no
\* postmaster runs on it and no second program writes it, however the HA loop, the REST API and the
\* task threads interleave, and whatever crashes and times out.
THEOREM DataDirectoryHasOneWriter == ASSUME ~Overtaken PROVE Spec => []OneWriter
<1>1. IInv => OneWriter
  <2> SUFFICES ASSUME IInv PROVE OneWriter
    OBVIOUS
  <2> DEFINE writing == {t \in Threads : At(t, "program") /\ thr[t].task # "promote"}
  <2>1. \A t \in writing : Active(t)
    BY DEF At, Active, IInv, Threading, Records, StepsOf, Forcing
  <2>2. \A t \in writing : thr[t].task \in {"clone", "recovery", "reinitialize", "rewind"} => pg = "down"
    BY DEF At, IInv, Dry, Offline
  <2>3. \A t \in writing : thr[t].task \in {"clone", "recovery", "reinitialize", "rewind"}
    BY DEF At, IInv, Threading, StepsOf, Forcing, Programmed
  <2>4. Cardinality(writing) <= 1
    <3>1. CASE writing = {}
      BY <3>1, FS_EmptySet
    <3>2. CASE writing # {}
      <4>1. PICK t \in writing : TRUE
        BY <3>2
      <4>2. writing = {t}
        BY <2>1, <4>1 DEF IInv, Alone
      <4>3. QED
        BY <4>2, FS_Singleton
    <3>3. QED
      BY <3>1, <3>2
  <2>5. QED
    BY <2>2, <2>3, <2>4 DEF OneWriter, Running
<1>2. QED
  BY <1>1, SpecInv, PTL

\* Once the HA loop has called a promotion or a start off because the key was lost, the task it was
\* does not bring a primary back, however far it had come and whatever is asked meanwhile.
THEOREM NoPrimaryReturns == ASSUME ~Overtaken PROVE Spec => []CalledOffStaysDown
<1>1. IInv => CalledOffStaysDown
  BY DEF IInv, CalledOff, Harmless, CalledOffStaysDown
<1>2. QED
  BY <1>1, SpecInv, PTL
=============================================================================
