------------------------ MODULE MCWorkflowLifecycle ------------------------
(* Small instances of WorkflowLifecycle for TLC.                           *)
EXTENDS WorkflowLifecycle, TLC

CONSTANTS gmail, cron,            \* two triggers that keep a map
          mailA, hourly, daily, noCron  \* their configurations

\* mailA selects the Gmail trigger; the three others select cron: hourly is
\* supported, daily ("0 9 * * *") passes validateConfig but getSchedule throws
\* on it, and noCron stands for an empty configuration, which validateConfig
\* rejects.
MCTriggerOf == [c \in Configs |-> IF c = mailA THEN gmail ELSE cron]

\* Requests are interchangeable.
RequestSymmetry == Permutations(Requests)
=============================================================================
