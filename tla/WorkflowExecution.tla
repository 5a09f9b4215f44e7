-------------------------- MODULE WorkflowExecution --------------------------
(***************************************************************************)
(* From a trigger's event to the action's effect.  A call of               *)
(* triggerWorkflowExecution (or of the manual executeWorkflow) reads the   *)
(* workflow, starts a Temporal run, and then inserts a row of              *)
(* `workflow_executions` for it; a worker process carries the run out, one *)
(* activity with retries.  Server, worker and database fail independently, *)
(* and workflows are deactivated and deleted meanwhile.                    *)
(*                                                                         *)
(* Temporal itself is external: runs are identified by a workflow id that  *)
(* may not be open twice, a run is closed by its execution timeout, and an *)
(* attempt whose worker is slow or dead is given up after its own timeout  *)
(* although its code may still be running.                                 *)
(***************************************************************************)
EXTENDS WorkflowIds, Naturals, FiniteSets

CONSTANTS
  Calls,        \* the events and manual executions of a behaviour
  Broken,       \* workflows the workflow code throws a plain Error for (no
                \* credentials, unsupported action): the worker retries the task, no activity starts
  MaxAttempts,  \* the retry policy's maximumAttempts
  MaxClock,     \* bound on the clock, in milliseconds
  MaxFaults     \* bound on server crashes, failed statements and failed RPCs

ASSUME ExecutionAssumption ==
  /\ Broken \subseteq Workflows
  /\ MaxAttempts \in Nat \ {0} /\ MaxClock \in Nat /\ MaxFaults \in Nat

VARIABLES
  status,   \* the workflows table: "active", "inactive" or "deleted"
  deleting, \* where the delete handler of each workflow is
  call,     \* the calls, with the workflow each is for
  exec,     \* workflow_executions: the row each call inserted, by its status column
  run,      \* the Temporal run each call started
  clock,    \* Date.now()
  faults

executionVars == <<status, deleting, call, exec, run, clock, faults>>
tables == <<status, deleting, exec>>

NoRun  == [state |-> "none", attempts |-> 0, waiting |-> FALSE, stray |-> 0, effects |-> 0]
NewRun == [NoRun EXCEPT !.state = "open"]

InTable(w)  == status[w] # "deleted"
HasRow(e)   == exec[e] = "running"
Started(e)  == run[e].state # "none"
Open(e)     == run[e].state = "open"
RowsOf(w)   == {e \in Calls : call[e].w = w /\ HasRow(e)}

\* The id `workflow-<id>-<milliseconds>` of call e is already open.
IdTaken(e) ==
  \E f \in Calls \ {e} : Open(f) /\ call[f].w = call[e].w /\ call[f].ms = call[e].ms

ExecutionInit ==
  /\ status \in [Workflows -> {"active", "inactive"}]
  /\ deleting = [w \in Workflows |-> "no"]
  /\ call = [e \in Calls |-> [pc |-> "idle", w |-> NoWorkflow, ms |-> 0]]
  /\ exec = [e \in Calls |-> "none"]
  /\ run = [e \in Calls |-> NoRun]
  /\ clock = 0 /\ faults = 0

-----------------------------------------------------------------------------
(* triggerWorkflowExecution and executeWorkflow, cut at their awaits.      *)

Advance(e, pc) == call' = [call EXCEPT ![e].pc = pc]

\* A trigger fires for w: its registration outlives neither check nor row.
TriggerFires(e, w) ==
  /\ call[e].pc = "idle"
  /\ call' = [call EXCEPT ![e] = [pc |-> "check", w |-> w, ms |-> 0]]
  /\ UNCHANGED <<tables, run, clock, faults>>

\* POST /workflows/:id/execute goes straight to executeWorkflow.
ManualExecute(e, w) ==
  /\ call[e].pc = "idle"
  /\ call' = [call EXCEPT ![e] = [pc |-> "read", w |-> w, ms |-> 0]]
  /\ UNCHANGED <<tables, run, clock, faults>>

CheckActive(e) ==
  /\ call[e].pc = "check"
  /\ Advance(e, IF status[call[e].w] = "active" THEN "read" ELSE "failed")
  /\ UNCHANGED <<tables, run, clock, faults>>

\* getWorkflowById, then the id is made from the clock.
ReadWorkflow(e) ==
  /\ call[e].pc = "read"
  /\ IF InTable(call[e].w)
       THEN call' = [call EXCEPT ![e].pc = "start", ![e].ms = clock]
       ELSE Advance(e, "failed")
  /\ UNCHANGED <<tables, run, clock, faults>>

\* Mutant of StartRun: a refused start is not noticed.
StartRunUnchecked(e) ==
  /\ call[e].pc = "start"
  /\ Advance(e, "insert")
  /\ run' = IF IdTaken(e) THEN run ELSE [run EXCEPT ![e] = NewRun]
  /\ UNCHANGED <<tables, clock, faults>>

StartRun(e) ==
  /\ call[e].pc = "start"
  /\ IF IdTaken(e)
       THEN Advance(e, "failed") /\ UNCHANGED run
       ELSE Advance(e, "insert") /\ run' = [run EXCEPT ![e] = NewRun]
  /\ UNCHANGED <<tables, clock, faults>>

\* The foreign key on workflows refuses the row of a deleted workflow.
InsertRow(e) ==
  /\ call[e].pc = "insert"
  /\ IF InTable(call[e].w)
       THEN exec' = [exec EXCEPT ![e] = "running"] /\ Advance(e, "stamp")
       ELSE Advance(e, "failed") /\ UNCHANGED exec
  /\ UNCHANGED <<status, deleting, run, clock, faults>>

\* The update of workflows.last_run, which changes nothing modelled here.
StampLastRun(e) ==
  /\ call[e].pc = "stamp"
  /\ Advance(e, "done")
  /\ UNCHANGED <<tables, run, clock, faults>>

\* A statement or the start RPC fails; it may have been carried out.
CallFails(e) ==
  /\ faults < MaxFaults
  /\ faults' = faults + 1
  /\ call[e].pc \in {"check", "read", "start", "insert", "stamp"}
  /\ Advance(e, "failed")
  /\ \/ UNCHANGED <<exec, run>>
     \/ /\ call[e].pc = "start" /\ ~IdTaken(e)
        /\ run' = [run EXCEPT ![e] = NewRun]
        /\ UNCHANGED exec
     \/ /\ call[e].pc = "insert" /\ InTable(call[e].w)
        /\ exec' = [exec EXCEPT ![e] = "running"]
        /\ UNCHANGED run
  /\ UNCHANGED <<status, deleting, clock>>

-----------------------------------------------------------------------------
(* The workflow meanwhile.                                                 *)

\* activateWorkflow and deactivateWorkflow: module WorkflowLifecycle has the detail.
SetActive(w, s) ==
  /\ InTable(w)
  /\ status' = [status EXCEPT ![w] = s]
  /\ UNCHANGED <<deleting, call, exec, run, clock, faults>>

DeletionStarts(w) ==
  /\ InTable(w)
  /\ deleting[w] = "no"
  /\ status' = [status EXCEPT ![w] = "inactive"]
  /\ deleting' = [deleting EXCEPT ![w] = "executions"]
  /\ UNCHANGED <<call, exec, run, clock, faults>>

DeleteExecutions(w) ==
  /\ deleting[w] = "executions"
  /\ exec' = [e \in Calls |-> IF e \in RowsOf(w) THEN "deleted" ELSE exec[e]]
  /\ deleting' = [deleting EXCEPT ![w] = "row"]
  /\ UNCHANGED <<status, call, run, clock, faults>>

\* Mutant of DropRow: the table has no foreign key.
DropRowUnchecked(w) ==
  /\ deleting[w] = "row"
  /\ status' = [status EXCEPT ![w] = "deleted"]
  /\ deleting' = [deleting EXCEPT ![w] = "no"]
  /\ UNCHANGED <<call, exec, run, clock, faults>>

\* Refused by the foreign key when a row was inserted in between.
DropRow(w) ==
  /\ deleting[w] = "row"
  /\ status' = IF RowsOf(w) = {} THEN [status EXCEPT ![w] = "deleted"] ELSE status
  /\ deleting' = [deleting EXCEPT ![w] = "no"]
  /\ UNCHANGED <<call, exec, run, clock, faults>>

\* The server dies with the handlers in flight; tables and runs survive.
ServerCrash ==
  /\ faults < MaxFaults
  /\ faults' = faults + 1
  /\ call' = [e \in Calls |->
                IF call[e].pc \in {"idle", "done", "failed"} THEN call[e]
                ELSE [call[e] EXCEPT !.pc = "failed"]]
  /\ deleting' = [w \in Workflows |-> "no"]
  /\ UNCHANGED <<status, exec, run, clock>>

Tick == clock < MaxClock /\ clock' = clock + 1
        /\ UNCHANGED <<tables, call, run, faults>>

-----------------------------------------------------------------------------
(* The worker: one activity per run, proxied with startToCloseTimeout and  *)
(* a retry policy.  `waiting` says that the server waits for an attempt,   *)
(* `stray` counts attempts it has given up but whose code still runs.      *)

RunStep(e, r) == run' = [run EXCEPT ![e] = r]
                 /\ UNCHANGED <<tables, call, clock, faults>>

\* Mutant of AttemptStarts: attempts are not counted, as without maximumAttempts.
AttemptStartsUncounted(e) ==
  /\ Open(e) /\ call[e].w \notin Broken
  /\ ~run[e].waiting
  /\ RunStep(e, [run[e] EXCEPT !.waiting = TRUE])

AttemptStarts(e) ==
  /\ Open(e) /\ call[e].w \notin Broken
  /\ ~run[e].waiting
  /\ run[e].attempts < MaxAttempts
  /\ RunStep(e, [run[e] EXCEPT !.attempts = @ + 1, !.waiting = TRUE])

AttemptSucceeds(e) ==
  /\ Open(e) /\ run[e].waiting
  /\ RunStep(e, [run[e] EXCEPT !.state = "completed", !.waiting = FALSE, !.effects = @ + 1])

\* What the server does with a failed attempt: the last one fails the run.
Failed(r) == [r EXCEPT !.waiting = FALSE,
                       !.state = IF r.attempts = MaxAttempts THEN "failed" ELSE "open"]

\* The activity throws, or its worker dies, before or after the effect.
AttemptFails(e) ==
  /\ Open(e) /\ run[e].waiting
  /\ \E n \in {0, 1} : RunStep(e, [Failed(run[e]) EXCEPT !.effects = @ + n])

AttemptTimesOut(e) ==
  /\ Open(e) /\ run[e].waiting
  /\ RunStep(e, [Failed(run[e]) EXCEPT !.stray = @ + 1])

\* Mutant of StrayEnds: an attempt that was never given up ends.
StrayEndsUnstarted(e) ==
  /\ Started(e)
  /\ RunStep(e, [run[e] EXCEPT !.stray = @ - 1])

StrayEnds(e) ==
  /\ run[e].stray > 0
  /\ \E n \in {0, 1} : RunStep(e, [run[e] EXCEPT !.stray = @ - 1, !.effects = @ + n])

\* workflowExecutionTimeout: "10 minutes".
RunTimesOut(e) ==
  /\ Open(e)
  /\ RunStep(e, [run[e] EXCEPT !.state = "timed out", !.waiting = FALSE,
                               !.stray = @ + IF run[e].waiting THEN 1 ELSE 0])

-----------------------------------------------------------------------------
CallStep(e) ==
  CheckActive(e) \/ ReadWorkflow(e) \/ StartRun(e) \/ InsertRow(e) \/ StampLastRun(e)

DeleteStep(w) == DeleteExecutions(w) \/ DropRow(w)

Worker(e) ==
  \/ AttemptStarts(e) \/ AttemptSucceeds(e) \/ AttemptFails(e)
  \/ AttemptTimesOut(e) \/ StrayEnds(e)

ExecutionNext ==
  \/ \E e \in Calls, w \in Workflows : TriggerFires(e, w) \/ ManualExecute(e, w)
  \/ \E e \in Calls : CallStep(e) \/ CallFails(e) \/ Worker(e) \/ RunTimesOut(e)
  \/ \E w \in Workflows :
       \/ \E s \in {"active", "inactive"} : SetActive(w, s)
       \/ DeletionStarts(w) \/ DeleteStep(w)
  \/ ServerCrash
  \/ Tick

\* The server's event loop answers every call, and Temporal's timers fire;
\* nothing is assumed of the worker, which may never run at all.
Fairness ==
  /\ \A e \in Calls : WF_executionVars(CallStep(e)) /\ WF_executionVars(RunTimesOut(e))
  /\ \A w \in Workflows : WF_executionVars(DeleteStep(w))

ExecutionSpec == ExecutionInit /\ [][ExecutionNext]_executionVars
FairSpec == ExecutionSpec /\ Fairness

-----------------------------------------------------------------------------
ExecutionTypeOK ==
  /\ status \in [Workflows -> {"active", "inactive", "deleted"}]
  /\ deleting \in [Workflows -> {"no", "executions", "row"}]
  /\ call \in [Calls -> [pc : {"idle", "check", "read", "start", "insert", "stamp", "done", "failed"},
                         w : Workflows \cup {NoWorkflow}, ms : Nat]]
  /\ \A e \in Calls : call[e].pc # "idle" => call[e].w \in Workflows
  /\ exec \in [Calls -> {"none", "running", "deleted"}]
  /\ run \in [Calls -> [state : {"none", "open", "completed", "failed", "timed out"},
                        attempts : Nat, waiting : BOOLEAN, stray : Nat, effects : Nat]]
  /\ clock \in Nat /\ faults \in Nat

\* The audit log and Temporal agree: a row always stands for a run that was
\* really started, and a run without a row belongs to a call that has still to
\* insert it or that ended in an error.  executeWorkflow has no transaction that
\* spans the two; the property rests on starting before inserting.
RowsMatchRuns ==
  \A e \in Calls :
    /\ exec[e] # "none" => Started(e)
    /\ Started(e) /\ exec[e] = "none" => call[e].pc \in {"insert", "failed"}

\* No execution row refers to a workflow that is gone, although deleteWorkflow
\* clears the executions in a statement of its own and calls that read the
\* workflow before the deletion insert theirs after it.
NoOrphanRows ==
  \A w \in Workflows : ~InTable(w) => RowsOf(w) = {}

\* One event acts on the outside world at most maximumAttempts times, with
\* attempts that time out, whose answer is lost, or that outlive the whole run.
EffectsBounded == \A e \in Calls : run[e].effects <= MaxAttempts

\* backend/ARCHITECTURE.md: "4. Result stored in workflow_executions table", and
\* USER_GUIDE.md shows a row with "status": "completed".
StatusSettles == \A e \in Calls : HasRow(e) /\ ~Open(e) ~> ~HasRow(e)
=============================================================================
