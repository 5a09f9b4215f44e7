------------------------- MODULE MCWorkflowExecution -------------------------
(***************************************************************************)
(* TLC instance of WorkflowExecution: calls are interchangeable.           *)
(***************************************************************************)
EXTENDS WorkflowExecution, TLC

CallSymmetry == Permutations(Calls)
=============================================================================
