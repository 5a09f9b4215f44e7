----------------------------- MODULE NodeTasks -----------------------------
(***************************************************************************)
(* The threads of one Patroni process around one PostgreSQL: the HA loop   *)
(* (Ha.run_cycle, which holds the lock of the AsyncExecutor for a whole    *)
(* cycle), the threads that carry out its long actions, and the thread of  *)
(* the REST API, which runs a restart itself.  They share the executor,    *)
(* the subprocess that may be cancelled, two CriticalTasks and the data    *)
(* directory.                                                              *)
(***************************************************************************)
EXTENDS Naturals, FiniteSets

CONSTANTS Workers,    \* the threads started by AsyncExecutor.run_async
          Rest,       \* the thread of the REST API
          None,
          Overtaken,  \* whether the HA loop may overtake a forced reinitialize: cancel() returns before
                      \* the task it cancels is over, or the process leaves in between
          MaxEvents   \* bound: requests, losses of the key and faults

Threads == Workers \cup {Rest}

ASSUME ThreadsAssumption == Rest \notin Workers /\ None \notin Threads

VARIABLES key,    \* this node owns the leader key
          pg,     \* the postmaster: "down", "starting", "standby" or "primary"
          files,  \* the data directory: "ok", "crash" (not shut down), "diverged", "broken" or "empty"
          signal, \* standby.signal is in the data directory
          role,   \* Postgresql.role
          exec,   \* AsyncExecutor: _scheduled_action, _is_cancelled, _finish_event
          sub,    \* CancellableSubprocess: _is_cancelled, and whether it holds a _process
          crit,   \* AsyncExecutor.critical_task
          resp,   \* Ha._async_response
          thr,    \* per thread: the task it runs and the step it is at
          ha,     \* the step of the HA loop
          sched,  \* a restart is scheduled
          cut,    \* threads whose task the HA loop has called off because the key was lost
          by,     \* the thread whose running task started or promoted the postmaster
          events

pgVars == <<pg, files, signal, role, by>>
execVars == <<exec, sub, crit, resp, thr>>
vars == <<key, pgVars, execVars, ha, sched, cut, events>>

Idle == [task |-> "none", pc |-> "idle"]
NoTask == [cancelled |-> FALSE, result |-> "none"]
Tasks == {"promote", "restart", "start", "follow", "rewind", "recovery", "clone", "reinitialize"}

Busy == exec.action # "none"
\* Between its steps the HA loop keeps the executor's lock when it waits inside a cycle.
LockFree == ha \in {"idle", "cancel", "cancel sub", "cancel wait", "cancelled", "stop and exit", "off"}

Init ==
  /\ \E up \in {"primary", "standby", "down"} :
       /\ pg = up
       /\ key \in (CASE up = "primary" -> {TRUE} [] up = "standby" -> {FALSE} [] OTHER -> BOOLEAN)
       /\ files = IF up = "down" THEN "empty" ELSE "ok"
       /\ signal = (up = "standby")
       /\ role = CASE up = "primary" -> "primary" [] up = "standby" -> "replica" [] OTHER -> "uninitialized"
  /\ exec = [action |-> "none", cancelled |-> FALSE, finished |-> FALSE]
  /\ sub = [cancelled |-> FALSE, process |-> FALSE]
  /\ crit = NoTask
  /\ resp = NoTask
  /\ thr = [t \in Threads |-> Idle]
  /\ ha = "idle"
  /\ sched = FALSE
  /\ cut = {}
  /\ by = None
  /\ events = 0

Event == events < MaxEvents /\ events' = events + 1
At(t, pc) == thr[t].pc = pc
Goto(t, pc) == thr' = [thr EXCEPT ![t].pc = pc]

-----------------------------------------------------------------------------
(* AsyncExecutor and CancellableSubprocess. *)

\* schedule: nothing else is scheduled, an earlier cancellation is forgotten.
Schedule(action) ==
  /\ ~Busy
  /\ exec' = [action |-> action, cancelled |-> FALSE, finished |-> TRUE]

\* The thread that run_async starts; Workers bounds how many there are at a time.
NextWorker == CHOOSE w \in Workers : At(w, "idle")

\* try_run_async
RunAsync(task) ==
  /\ Schedule(task)
  /\ \E w \in Workers : At(w, "idle")
  /\ thr' = [thr EXCEPT ![NextWorker] = [task |-> task, pc |-> "begin"]]

FirstStep(task) ==
  CASE task = "promote"                  -> "pre_promote"
    [] task \in {"restart", "reinitialize"} -> "stop"
    [] task = "start"                    -> "start"
    [] task = "follow"                   -> "follow"
    [] task \in {"rewind", "recovery", "clone"} -> "call"

\* run: a task that was cancelled before its thread came this far is not run.
BeginRun(t) ==
  /\ At(t, "begin") /\ LockFree
  /\ IF exec.cancelled THEN Goto(t, "end") /\ UNCHANGED exec
     ELSE exec' = [exec EXCEPT !.finished = FALSE] /\ Goto(t, "reset")
  /\ UNCHANGED <<key, pgVars, sub, crit, resp, ha, sched, cut, events>>

\* CancellableSubprocess.reset_is_cancelled, outside of the executor's lock
ResetIsCancelled(t) ==
  /\ At(t, "reset")
  /\ sub' = [sub EXCEPT !.cancelled = FALSE]
  /\ Goto(t, FirstStep(thr[t].task))
  /\ UNCHANGED <<key, pgVars, exec, crit, resp, ha, sched, cut, events>>

\* Mutant: _finish_event is not set.
EndRunSilent(t) ==
  /\ At(t, "end") /\ LockFree
  /\ exec' = [exec EXCEPT !.action = "none"]
  /\ crit' = NoTask
  /\ thr' = [thr EXCEPT ![t] = Idle]
  /\ cut' = cut \ {t}
  /\ by' = IF by = t THEN None ELSE by
  /\ UNCHANGED <<key, pg, files, signal, role, sub, resp, ha, sched, events>>

\* The finally of run, also after an exception.
EndRun(t) ==
  /\ At(t, "end") /\ LockFree
  /\ exec' = [exec EXCEPT !.action = "none", !.finished = TRUE]
  /\ crit' = NoTask
  /\ thr' = [thr EXCEPT ![t] = Idle]
  /\ cut' = cut \ {t}
  /\ by' = IF by = t THEN None ELSE by
  /\ UNCHANGED <<key, pg, files, signal, role, sub, resp, ha, sched, events>>

\* CancellableSubprocess.call: the program of the task is started, unless it was cancelled.
Call(t) ==
  IF sub.cancelled
    THEN Goto(t, "end") /\ UNCHANGED sub
    ELSE sub' = [sub EXCEPT !.process = TRUE] /\ Goto(t, "program")

\* AsyncExecutor.cancel, by the HA loop that leaves or by a forced reinitialize.  The four steps of
\* a caller: mark the task (in the lock), stop its subprocess, wait for its end, forget the action.
Mark == exec' = [exec EXCEPT !.cancelled = TRUE]
StopSub == sub' = [sub EXCEPT !.cancelled = TRUE]
\* CancellableSubprocess.cancel has waited for the process or killed it; then _finish_event.wait()
TaskIsOver == ~sub.process /\ exec.finished
Forget == exec' = [exec EXCEPT !.action = "none"]

-----------------------------------------------------------------------------
(* Postgresql.promote *)

PrePromote(t) ==
  /\ At(t, "pre_promote")
  /\ Call(t)
  /\ UNCHANGED <<key, pgVars, exec, crit, resp, ha, sched, cut, events>>

\* with task: the last point where the HA loop can call the promotion off
Decide(t) ==
  /\ thr[t].pc \in {"script ok", "script failed"}
  /\ IF resp.cancelled THEN Goto(t, "end") /\ UNCHANGED resp
     ELSE /\ resp' = [resp EXCEPT !.result = IF At(t, "script ok") THEN "ok" ELSE "failed"]
          /\ Goto(t, IF At(t, "script ok") THEN "pg_ctl promote" ELSE "end")
  /\ UNCHANGED <<key, pgVars, exec, sub, crit, ha, sched, cut, events>>

\* pg_ctl promote removes standby.signal; on_promote and before_promote are part of the step.
Promote(t) ==
  /\ At(t, "pg_ctl promote")
  /\ IF sub.cancelled \/ pg # "standby"
       THEN Goto(t, "end") /\ UNCHANGED pgVars
       ELSE /\ pg' = "primary" /\ role' = "promoted" /\ signal' = FALSE /\ by' = t
            /\ UNCHANGED files
            /\ Goto(t, "wait promote")
  /\ UNCHANGED <<key, exec, sub, crit, resp, ha, sched, cut, events>>

\* _wait_promote: the controldata shows a primary, or loop_wait is over
WaitPromote(t) ==
  /\ At(t, "wait promote")
  /\ \/ pg = "primary" /\ role' = "primary"
     \/ UNCHANGED role
  /\ Goto(t, "end")
  /\ UNCHANGED <<key, pg, files, signal, by, exec, sub, crit, resp, ha, sched, cut, events>>

-----------------------------------------------------------------------------
(* Postgresql.stop, start, restart and follow *)

\* A fast stop, of a restart or a rewind, leaves a clean directory; an immediate one does not.
StopPg(t) ==
  /\ At(t, "stop")
  /\ pg' = "down" /\ by' = None
  /\ files' = IF thr[t].task = "reinitialize" /\ pg = "primary" THEN "crash" ELSE files
  /\ Goto(t, IF thr[t].task = "reinitialize" THEN "call" ELSE "start")
  /\ UNCHANGED <<key, signal, role, exec, sub, crit, resp, ha, sched, cut, events>>

\* follow writes the recovery configuration of a standby, then restarts or starts.
Follow(t) ==
  /\ At(t, "follow")
  /\ signal' = TRUE
  /\ Goto(t, IF pg = "down" THEN "start" ELSE "stop")
  /\ UNCHANGED <<key, pg, files, role, by, exec, sub, crit, resp, ha, sched, cut, events>>

\* Mutant: the role's old name.
StartPgMaster(t) ==
  /\ At(t, "start")
  /\ IF pg # "down" THEN Goto(t, "end") /\ UNCHANGED role
     ELSE role' = (IF signal THEN "replica" ELSE "master") /\ Goto(t, "launch")
  /\ UNCHANGED <<key, pg, files, signal, by, exec, sub, crit, resp, ha, sched, cut, events>>

\* start, up to the lock of the critical task
StartPg(t) ==
  /\ At(t, "start")
  /\ IF pg # "down" THEN Goto(t, "end") /\ UNCHANGED role
     ELSE role' = (IF signal THEN "replica" ELSE "primary") /\ Goto(t, "launch")
  /\ UNCHANGED <<key, pg, files, signal, by, exec, sub, crit, resp, ha, sched, cut, events>>

Critical(t) == thr[t].task \in {"restart", "start"}

\* Mutant: the critical task is not looked at.
LaunchUnchecked(t) ==
  /\ At(t, "launch")
  /\ IF sub.cancelled \/ pg # "down"
       THEN Goto(t, "end") /\ UNCHANGED <<pg, by, crit>>
       ELSE /\ pg' = "starting" /\ by' = t
            /\ crit' = IF Critical(t) THEN [crit EXCEPT !.result = "postmaster"] ELSE crit
            /\ Goto(t, "wait")
  /\ UNCHANGED <<key, files, signal, role, exec, sub, resp, ha, sched, cut, events>>

\* PostmasterProcess.start, in the lock of the critical task when there is one
Launch(t) ==
  /\ At(t, "launch")
  /\ IF sub.cancelled \/ (Critical(t) /\ crit.cancelled) \/ pg # "down"
       THEN Goto(t, "end") /\ UNCHANGED <<pg, by, crit>>
       ELSE /\ pg' = "starting" /\ by' = t
            /\ crit' = IF Critical(t) THEN [crit EXCEPT !.result = "postmaster"] ELSE crit
            /\ Goto(t, "wait")
  /\ UNCHANGED <<key, files, signal, role, exec, sub, resp, ha, sched, cut, events>>

\* wait_for_port_open and wait_for_startup
WaitForStartup(t) ==
  /\ At(t, "wait")
  /\ pg # "starting" \/ sub.cancelled
  /\ Goto(t, "end")
  /\ UNCHANGED <<key, pgVars, exec, sub, crit, resp, ha, sched, cut, events>>

\* PostgreSQL comes up in the role its data directory has, or gives up.
Started ==
  /\ pg = "starting"
  /\ pg' = IF files \in {"broken", "empty"} THEN "down" ELSE IF signal THEN "standby" ELSE "primary"
  /\ files' = IF files = "crash" THEN "ok" ELSE files
  /\ by' = IF files \in {"broken", "empty"} THEN None ELSE by
  /\ UNCHANGED <<key, signal, role, execVars, ha, sched, cut, events>>

\* PostgreSQL crashes.
Crash ==
  /\ pg # "down" /\ Event
  /\ pg' = "down" /\ by' = None
  /\ files' = IF pg = "primary" THEN "crash" ELSE files
  /\ UNCHANGED <<key, signal, role, execVars, ha, sched, cut>>

-----------------------------------------------------------------------------
(* The tasks that rewrite the data directory. *)

\* create_replica and basebackup: the directory is removed before the program starts; a
\* cancelled task removes it all the same (Ha.clone).
CallBasebackup(t) ==
  /\ At(t, "call") /\ thr[t].task \in {"clone", "reinitialize"}
  /\ Call(t)
  /\ files' = IF sub.cancelled THEN "empty" ELSE "broken"
  /\ signal' = FALSE
  /\ role' = "uninitialized"
  /\ UNCHANGED <<key, pg, by, exec, crit, resp, ha, sched, cut, events>>

\* Mutant: the running standby is not stopped.
CallRewindOnline(t) ==
  /\ At(t, "call") /\ thr[t].task = "rewind"
  /\ Call(t)
  /\ files' = IF sub.cancelled THEN files ELSE "broken"
  /\ UNCHANGED <<key, pg, signal, role, by, exec, crit, resp, ha, sched, cut, events>>

\* Rewind.execute stops PostgreSQL first.
CallRewind(t) ==
  /\ At(t, "call") /\ thr[t].task = "rewind"
  /\ IF pg # "down" THEN pg' = "down" /\ by' = None /\ UNCHANGED <<files, sub, thr>>
     ELSE /\ Call(t)
          /\ files' = IF sub.cancelled THEN files ELSE "broken"
          /\ UNCHANGED <<pg, by>>
  /\ UNCHANGED <<key, signal, role, exec, crit, resp, ha, sched, cut, events>>

\* ensure_clean_shutdown: the recovery configuration is removed, then PostgreSQL runs alone.
CallSingleUser(t) ==
  /\ At(t, "call") /\ thr[t].task = "recovery"
  /\ Call(t)
  /\ signal' = FALSE
  /\ UNCHANGED <<key, pg, files, role, by, exec, crit, resp, ha, sched, cut, events>>

\* What each program leaves in the data directory, and where its task goes on.
ScriptOutcomes(ok) == {[files |-> files, pc |-> IF ok THEN "script ok" ELSE "script failed"]}
CloneOutcomes(ok) == {[files |-> IF ok THEN "ok" ELSE "empty", pc |-> IF ok THEN "follow" ELSE "end"]}
RewindOutcomes(ok) == {[files |-> f, pc |-> "end"] : f \in IF ok THEN {"ok"} ELSE {"broken", "empty"}}
RecoveryOutcomes(ok) == {[files |-> f, pc |-> "end"] : f \in IF ok THEN {"ok", "diverged"} ELSE {"crash"}}

Outcomes(task, ok) ==
  CASE task = "promote"  -> ScriptOutcomes(ok)
    [] task = "rewind"   -> RewindOutcomes(ok)
    [] task = "recovery" -> RecoveryOutcomes(ok)
    [] OTHER             -> CloneOutcomes(ok)

\* The program ends: the finally of CancellableSubprocess.call.
ProgramEnds(t) ==
  /\ At(t, "program")
  /\ \E ok \in BOOLEAN : \E o \in Outcomes(thr[t].task, ok /\ ~sub.cancelled) :
       files' = o.files /\ Goto(t, o.pc)
  /\ sub' = [sub EXCEPT !.process = FALSE]
  /\ UNCHANGED <<key, pg, signal, role, by, exec, crit, resp, ha, sched, cut, events>>

-----------------------------------------------------------------------------
(* The HA loop. *)

Cycle == ha = "idle"
Running == pg # "down"

LoseKey ==
  /\ key /\ Event
  /\ key' = FALSE
  /\ UNCHANGED <<pgVars, execVars, ha, sched, cut>>

\* handle_long_action_in_progress without the key: the promotion is called off while it can be.
CallOffPromotion ==
  /\ Cycle /\ Busy /\ ~key
  /\ exec.action = "promote" /\ resp.result = "none"
  /\ resp' = [resp EXCEPT !.cancelled = TRUE]
  /\ cut' = cut \cup {t \in Threads : thr[t].task = "promote"}
  /\ ha' = "kill script"
  /\ UNCHANGED <<key, pgVars, exec, sub, crit, thr, sched, events>>

KillScript ==
  /\ ha = "kill script"
  /\ StopSub
  /\ ha' = "killing"
  /\ UNCHANGED <<key, pgVars, exec, crit, resp, thr, sched, cut, events>>

Killed ==
  /\ ha = "killing" /\ ~sub.process
  /\ ha' = "idle"
  /\ UNCHANGED <<key, pgVars, execVars, sched, cut, events>>

TerminatePostmaster == pg' = "down" /\ by' = None

\* The same for a primary: a start in progress is called off, or the postmaster that it has
\* started is stopped; then demote('immediate-nolock').
CallOffStart ==
  /\ Cycle /\ Busy /\ ~key
  /\ ~(exec.action = "promote" /\ resp.result = "none")
  /\ role = "primary"
  /\ IF exec.action \notin {"restart", "start"} THEN UNCHANGED <<pg, by, crit>>
     ELSE IF crit.result = "none" THEN crit' = [crit EXCEPT !.cancelled = TRUE] /\ UNCHANGED <<pg, by>>
     ELSE TerminatePostmaster /\ UNCHANGED crit
  /\ cut' = cut \cup {t \in Threads : thr[t].task \in {"restart", "start"}}
  /\ ha' = "stop"
  /\ UNCHANGED <<key, files, signal, role, exec, sub, resp, thr, sched, events>>

\* Single-user recovery has taken longer than primary_start_timeout: it is killed, then demote('immediate').
CrashRecoveryTimeout ==
  /\ Cycle /\ key /\ exec.action = "recovery" /\ Event
  /\ StopSub
  /\ ha' = "kill recovery"
  /\ UNCHANGED <<key, pgVars, exec, crit, resp, thr, sched, cut>>

RecoveryKilled ==
  /\ ha = "kill recovery" /\ ~sub.process
  /\ key' = FALSE
  /\ ha' = "stop"
  /\ UNCHANGED <<pgVars, execVars, sched, cut, events>>

\* A primary without the key: process_healthy_cluster, demote('immediate-nolock')
DemotePrimary ==
  /\ Cycle /\ ~Busy /\ ~key /\ Running /\ role \in {"primary", "promoted"}
  /\ ha' = "stop"
  /\ UNCHANGED <<key, pgVars, execVars, sched, cut, events>>

\* demote: the immediate stop
DemoteStop ==
  /\ ha = "stop"
  /\ pg' = "down" /\ by' = None
  /\ files' = IF pg = "primary" THEN "crash" ELSE files
  /\ ha' = "demoted"
  /\ UNCHANGED <<key, signal, role, execVars, sched, cut, events>>

\* The rest of demote: 'starting after demotion', unless the task that was running is still there.
DemoteFollow ==
  /\ ha = "demoted"
  /\ role' = "demoted"
  /\ IF Busy THEN UNCHANGED <<exec, thr>> ELSE RunAsync("follow")
  /\ ha' = "idle"
  /\ UNCHANGED <<key, pg, files, signal, by, sub, crit, resp, sched, cut, events>>

\* The cycle starts a task that needs no more than the executor.
Try(task) ==
  /\ RunAsync(task)
  /\ UNCHANGED <<key, pgVars, sub, crit, resp, ha, sched, cut, events>>

Bootstrap == Cycle /\ ~Busy /\ files = "empty" /\ ~Running /\ ~key /\ Try("clone")

\* An empty directory gives the key back.
ReleaseKeyOfEmpty ==
  /\ Cycle /\ ~Busy /\ files = "empty" /\ key
  /\ key' = FALSE
  /\ UNCHANGED <<pgVars, execVars, ha, sched, cut, events>>

\* recover, branch by branch
Down == Cycle /\ ~Busy /\ ~Running /\ files # "empty"
StartPrimary == Down /\ key /\ files # "broken" /\ role = "primary" /\ ~signal /\ Try("start")
HandleCrashRecovery == Down /\ files = "crash" /\ (key => signal \/ role # "primary") /\ Try("recovery")
StartReadOnly == Down /\ files # "crash" /\ key /\ Try("follow")
FollowLeader == Down /\ files \notin {"crash", "diverged"} /\ ~key /\ Try("follow")
HandleRewind == Cycle /\ ~Busy /\ ~key /\ files = "diverged" /\ pg \in {"down", "standby"} /\ Try("rewind")
HandleReinitialize == Cycle /\ ~Busy /\ ~key /\ files = "diverged" /\ ~Running /\ Try("reinitialize")

\* A standby that wins the leader race, or has won it, promotes: enforce_primary_role.
EnforcePrimaryRole ==
  /\ Cycle /\ ~Busy /\ pg = "standby" /\ role = "replica" /\ resp.result # "failed"
  /\ \/ key /\ UNCHANGED <<key, events>>
     \/ ~key /\ key' = TRUE /\ Event
  /\ resp' = NoTask
  /\ RunAsync("promote")
  /\ UNCHANGED <<pgVars, sub, crit, ha, sched, cut>>

\* The pre_promote script failed: the key is given back.
GiveUpPromotion ==
  /\ Cycle /\ ~Busy /\ key /\ resp.result = "failed"
  /\ key' = FALSE
  /\ resp' = NoTask
  /\ UNCHANGED <<pgVars, exec, sub, crit, thr, ha, sched, cut, events>>

\* evaluate_scheduled_restart, at the end of a cycle that found PostgreSQL healthy
RestartIsDue == Cycle /\ ~Busy /\ sched /\ pg \in {"standby", "primary"} /\ key = (role \in {"primary", "promoted"})

ScheduledRestart ==
  /\ RestartIsDue
  /\ sched' = FALSE
  /\ RunAsync("restart")
  /\ UNCHANGED <<key, pgVars, sub, crit, resp, ha, cut, events>>

\* Ha.shutdown, after the REST API was stopped
Leave ==
  /\ Cycle /\ Event
  /\ Overtaken \/ thr[Rest].task # "force"
  /\ ha' = IF Busy THEN "cancel" ELSE "stop and exit"
  /\ IF Busy THEN Mark ELSE UNCHANGED exec
  /\ UNCHANGED <<key, pgVars, sub, crit, resp, thr, sched, cut>>

LeaveCancel ==
  /\ ha = "cancel"
  /\ StopSub
  /\ ha' = "cancel wait"
  /\ UNCHANGED <<key, pgVars, exec, crit, resp, thr, sched, cut, events>>

LeaveWait ==
  /\ ha = "cancel wait" /\ TaskIsOver
  /\ Forget
  /\ ha' = "stop and exit"
  /\ UNCHANGED <<key, pgVars, sub, crit, resp, thr, sched, cut, events>>

Exit ==
  /\ ha = "stop and exit"
  /\ pg' = "down" /\ by' = None
  /\ key' = FALSE
  /\ ha' = "off"
  /\ UNCHANGED <<files, signal, role, execVars, sched, cut, events>>

-----------------------------------------------------------------------------
(* The REST API. *)

ApiUp == ha \notin {"cancel", "cancel wait", "stop and exit", "off"}

\* POST /restart runs Ha.restart in its own thread.
PostRestart ==
  /\ ApiUp /\ LockFree /\ At(Rest, "idle") /\ Event
  /\ Schedule("restart")
  /\ thr' = [thr EXCEPT ![Rest] = [task |-> "restart", pc |-> "begin"]]
  /\ UNCHANGED <<key, pgVars, sub, crit, resp, ha, sched, cut>>

\* POST /restart with a schedule, and DELETE /restart
PostScheduledRestart ==
  /\ ApiUp /\ LockFree /\ ~sched /\ Event
  /\ sched' = TRUE
  /\ UNCHANGED <<key, pgVars, execVars, ha, cut>>

DeleteScheduledRestart ==
  /\ ApiUp /\ LockFree /\ sched
  /\ sched' = FALSE
  /\ UNCHANGED <<key, pgVars, execVars, ha, cut, events>>

\* POST /reinitialize, of a node that is not the leader
PostReinitialize ==
  /\ ApiUp /\ LockFree /\ ~key /\ At(Rest, "idle") /\ Event
  /\ \/ /\ RunAsync("reinitialize")
     \/ /\ Busy
        /\ Mark
        /\ thr' = [thr EXCEPT ![Rest] = [task |-> "force", pc |-> "cancel"]]
  /\ UNCHANGED <<key, pgVars, sub, crit, resp, ha, sched, cut>>

ForceCancel ==
  /\ At(Rest, "cancel")
  /\ StopSub
  /\ Goto(Rest, "cancel wait")
  /\ UNCHANGED <<key, pgVars, exec, crit, resp, ha, sched, cut, events>>

ForceWait ==
  /\ At(Rest, "cancel wait") /\ TaskIsOver /\ LockFree
  /\ Overtaken \/ \A w \in Workers : At(w, "idle")
  /\ Forget
  /\ Goto(Rest, "cancelled")
  /\ UNCHANGED <<key, pgVars, sub, crit, resp, ha, sched, cut, events>>

ForceReinitialize ==
  /\ At(Rest, "cancelled") /\ LockFree
  /\ IF Busy THEN UNCHANGED exec /\ thr' = [thr EXCEPT ![Rest] = Idle]
     ELSE /\ Schedule("reinitialize")
          /\ \E w \in Workers : At(w, "idle")
          /\ thr' = [thr EXCEPT ![Rest] = Idle, ![NextWorker] = [task |-> "reinitialize", pc |-> "begin"]]
  /\ UNCHANGED <<key, pgVars, sub, crit, resp, ha, sched, cut, events>>

-----------------------------------------------------------------------------
Thread(t) ==
  \/ BeginRun(t) \/ ResetIsCancelled(t) \/ EndRun(t)
  \/ PrePromote(t) \/ Decide(t) \/ Promote(t) \/ WaitPromote(t)
  \/ StopPg(t) \/ Follow(t) \/ StartPg(t) \/ Launch(t) \/ WaitForStartup(t)
  \/ CallBasebackup(t) \/ CallRewind(t) \/ CallSingleUser(t) \/ ProgramEnds(t)

HaWaits ==
  \/ KillScript \/ Killed \/ RecoveryKilled \/ DemoteStop \/ DemoteFollow
  \/ LeaveCancel \/ LeaveWait \/ Exit

HaCycle ==
  \/ CallOffPromotion \/ CallOffStart \/ CrashRecoveryTimeout \/ DemotePrimary
  \/ Bootstrap \/ ReleaseKeyOfEmpty \/ StartPrimary \/ HandleCrashRecovery \/ StartReadOnly
  \/ FollowLeader \/ HandleRewind \/ HandleReinitialize \/ EnforcePrimaryRole \/ GiveUpPromotion
  \/ ScheduledRestart \/ Leave

Api ==
  \/ PostRestart \/ PostScheduledRestart \/ DeleteScheduledRestart \/ PostReinitialize
  \/ ForceCancel \/ ForceWait \/ ForceReinitialize

Next == (\E t \in Threads : Thread(t)) \/ HaWaits \/ HaCycle \/ Api \/ Started \/ Crash \/ LoseKey

\* Threads that run do not stop, a program that was started ends, and a postmaster that was
\* started comes up or gives up.  Nothing obliges the HA loop to begin a cycle.
Spec ==
  /\ Init /\ [][Next]_vars
  /\ \A t \in Threads : WF_vars(Thread(t))
  /\ WF_vars(HaWaits) /\ WF_vars(Started)

-----------------------------------------------------------------------------
TypeOK ==
  /\ key \in BOOLEAN /\ signal \in BOOLEAN /\ sched \in BOOLEAN
  /\ pg \in {"down", "starting", "standby", "primary"}
  /\ files \in {"ok", "crash", "diverged", "broken", "empty"}
  /\ role \in {"primary", "promoted", "replica", "demoted", "uninitialized"}
  /\ exec \in [action : Tasks \cup {"none"}, cancelled : BOOLEAN, finished : BOOLEAN]
  /\ cut \subseteq Threads

\* The data directory is never rewritten by pg_basebackup, pg_rewind or a single-user PostgreSQL
\* while a postmaster runs on it, nor by two of them at once, whatever the order of the HA loop,
\* the REST API and the task threads.
OneWriter ==
  LET writing == {t \in Threads : At(t, "program") /\ thr[t].task # "promote"} IN
  /\ Cardinality(writing) <= 1
  /\ writing # {} => ~Running

\* A task that the HA loop has called off after it lost the key (CriticalTask.cancel) never
\* brings a primary back, however far the task had come.
CalledOffStaysDown == (pg \in {"starting", "primary"} /\ ~signal) => by \notin cut

\* Ha.shutdown waits for the task in progress and then stops PostgreSQL: it always gets there.
ShutdownEnds == (ha = "cancel") ~> (ha = "off")
=============================================================================
