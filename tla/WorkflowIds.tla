----------------------------- MODULE WorkflowIds -----------------------------
(* The keys of the workflows table, for WorkflowLifecycle and              *)
(* WorkflowExecution.                                                      *)
CONSTANTS Workflows,  \* primary keys of the workflows table (serial: never reused)
          NoWorkflow

ASSUME IdAssumption == NoWorkflow \notin Workflows
=============================================================================
