-------------------------- MODULE WorkflowLifecycle --------------------------
(***************************************************************************)
(* The life of an automation workflow in the backend: a row of the         *)
(* `workflows` table, and the registration that makes a trigger fire for   *)
(* it, which lives only in the memory of the server process.               *)
(*                                                                         *)
(* WorkflowsService keeps the two in step by hand.  Every HTTP handler is  *)
(* an async function: it reads the row, awaits, and then acts on what it   *)
(* read, so handlers for one workflow interleave at each await.  The       *)
(* module has one action for each stretch of a handler between two awaits  *)
(* that touch shared state.                                                *)
(*                                                                         *)
(* Also modelled: the database failing in the middle of a handler (with or *)
(* without the statement having been applied), a crash of the server, and  *)
(* the start-up, where WorkflowsModule loads the active workflows.         *)
(***************************************************************************)
EXTENDS WorkflowIds, Naturals, FiniteSets

CONSTANTS
  Triggers,      \* the triggers of the feature modules that keep a registration map
  Configs,       \* what an update replaces as a whole: trigger and its configuration
  TriggerOf,     \* TriggerOf[c]: the trigger that configuration c selects
  ValidConfigs,  \* those validateConfig does not throw on
  Unschedulable, \* valid, but register() throws on them, as CronTrigger does on
                 \* an expression getSchedule does not support
  EmptyConfigs,  \* configurations with no key, which createWorkflow does not validate
  Requests,      \* HTTP requests that may be in flight at the same time
  RegisteredBeforeLoad, \* triggers in the registry when the loader runs: none under
                        \* Nest, which inits WorkflowsModule before the modules that import it
  MaxCrashes,    \* bound on the crashes of the server in a behaviour
  MaxDbErrors,   \* bound on the database errors in a behaviour
  NoConfig

ASSUME ConfigAssumption ==
  /\ TriggerOf \in [Configs -> Triggers]
  /\ ValidConfigs \subseteq Configs
  /\ Unschedulable \subseteq ValidConfigs
  /\ EmptyConfigs \subseteq Configs
  /\ NoConfig \notin Configs

ASSUME EnvironmentAssumption ==
  /\ RegisteredBeforeLoad \subseteq Triggers
  /\ MaxCrashes \in Nat /\ MaxDbErrors \in Nat

VARIABLES
  row,       \* the workflows table
  reg,       \* reg[t][w]: the configuration w is registered with in trigger t's map
  registry,  \* triggers in the TriggerRegistryService
  phase,     \* where the server process is
  toLoad,    \* rows loadActiveWorkflows still has to visit
  req,       \* the handlers in flight, with what each has read
  flagged,   \* history: workflows whose last trouble was reported, by a 500 answer or in the log
  crashes,   \* crashes of the server so far
  dbErrors   \* database errors so far

faultVars == <<crashes, dbErrors>>

vars == <<row, reg, registry, phase, toLoad, req, flagged, crashes, dbErrors>>

-----------------------------------------------------------------------------
Statuses == {"absent", "inactive", "active", "deleted"}
Phases   == {"down", "loading", "up"}
PCs      == {"idle", "update", "set_active", "register", "rollback",
             "unregister", "set_inactive", "reread", "delete_row"}

Idle == [pc |-> "idle", w |-> NoWorkflow, cfg |-> NoConfig, deleting |-> FALSE]

Exists(w) == row[w].status \in {"inactive", "active"}
Active(w) == row[w].status = "active"

RegisteredAnywhere(w) == \E t \in Triggers : reg[t][w] # NoConfig

\* The table after the UPDATE or DELETE ... WHERE id = w that handler r is at:
\* the statement touches no row when w is gone, and its condition is the id alone.
Written(r) ==
  LET w == req[r].w  pc == req[r].pc  c == req[r].cfg IN
  IF ~Exists(w) \/ (pc = "update" /\ c = NoConfig) THEN row
  ELSE CASE pc = "update"     -> [row EXCEPT ![w].cfg = c]
         [] pc = "set_active" -> [row EXCEPT ![w].status = "active"]
         [] pc \in {"rollback", "set_inactive"} -> [row EXCEPT ![w].status = "inactive"]
         [] pc = "delete_row" -> [row EXCEPT ![w] = [status |-> "deleted", cfg |-> NoConfig]]
         [] OTHER -> row

\* Trigger t's map after set(w, c), and after delete(w).
Registered(w, c)   == [reg EXCEPT ![TriggerOf[c]][w] = c]
Unregistered(w, c) == [reg EXCEPT ![TriggerOf[c]][w] = NoConfig]

NothingRegistered == [t \in Triggers |-> [w \in Workflows |-> NoConfig]]

Init ==
  /\ row = [w \in Workflows |-> [status |-> "absent", cfg |-> NoConfig]]
  /\ reg = NothingRegistered
  /\ registry = {}
  /\ phase = "down"
  /\ toLoad = {}
  /\ req = [r \in Requests |-> Idle]
  /\ flagged = {}
  /\ crashes = 0 /\ dbErrors = 0

-----------------------------------------------------------------------------
(* Start-up: WorkflowsModule.onModuleInit, then the hooks of the feature   *)
(* modules, then the server listens.                                       *)

BootSelect ==
  /\ phase = "down"
  /\ phase' = "loading"
  /\ registry' = RegisteredBeforeLoad
  /\ toLoad' = {w \in Workflows : Active(w)}
  /\ UNCHANGED <<row, reg, req, flagged, faultVars>>

\* One turn of the loop: register, or log and go on to the next row.
LoadRegisters(w) ==
  /\ TriggerOf[row[w].cfg] \in registry
  /\ row[w].cfg \notin Unschedulable
  /\ reg' = Registered(w, row[w].cfg)
  /\ flagged' = flagged \ {w}

LoadLogsFailure(w) ==
  /\ TriggerOf[row[w].cfg] \notin registry \/ row[w].cfg \in Unschedulable
  /\ flagged' = flagged \cup {w}
  /\ UNCHANGED reg

LoadOne(w) ==
  /\ phase = "loading"
  /\ w \in toLoad
  /\ LoadRegisters(w) \/ LoadLogsFailure(w)
  /\ toLoad' = toLoad \ {w}
  /\ UNCHANGED <<row, registry, phase, req, faultVars>>

BootDone ==
  /\ phase = "loading"
  /\ toLoad = {}
  /\ registry' = Triggers
  /\ phase' = "up"
  /\ UNCHANGED <<row, reg, toLoad, req, flagged, faultVars>>

-----------------------------------------------------------------------------
(* The handlers.  A handler that answers 400 or 404 before it has written  *)
(* anything is not a step.                                                 *)

Goto(r, pc) == req' = [req EXCEPT ![r].pc = pc]
Done(r)     == req' = [req EXCEPT ![r] = Idle]

Start(r, w, pc, c, del) ==
  /\ phase = "up"
  /\ req[r] = Idle
  /\ req' = [req EXCEPT ![r] = [pc |-> pc, w |-> w, cfg |-> c, deleting |-> del]]

\* createWorkflow touches the table in one statement only.
Create(w, c) ==
  /\ phase = "up"
  /\ row[w].status = "absent"
  /\ TriggerOf[c] \in registry
  /\ c \in ValidConfigs \cup EmptyConfigs
  /\ row' = [row EXCEPT ![w] = [status |-> "inactive", cfg |-> c]]
  /\ UNCHANGED <<reg, registry, phase, toLoad, req, flagged, faultVars>>

\* c = NoConfig is a request body without a trigger.
UpdateStart(r, w, c) ==
  /\ row[w].status = "inactive"
  /\ c # NoConfig => TriggerOf[c] \in registry /\ c \in ValidConfigs
  /\ Start(r, w, "update", c, FALSE)
  /\ UNCHANGED <<row, reg, registry, phase, toLoad, flagged, faultVars>>

\* Mutant of UpdateWrite: writes the trigger of the body even when there is none.
UpdateWriteBlindly(r) ==
  /\ req[r].pc = "update"
  /\ row' = IF Exists(req[r].w) THEN [row EXCEPT ![req[r].w].cfg = req[r].cfg] ELSE row
  /\ Done(r)
  /\ UNCHANGED <<reg, registry, phase, toLoad, flagged, faultVars>>

UpdateWrite(r) ==
  /\ req[r].pc = "update"
  /\ row' = Written(r)
  /\ Done(r)
  /\ UNCHANGED <<reg, registry, phase, toLoad, flagged, faultVars>>

\* Mutant of ActivateStart: no validation before the activation.
ActivateUnvalidated(r, w) ==
  /\ row[w].status = "inactive"
  /\ TriggerOf[row[w].cfg] \in registry
  /\ Start(r, w, "set_active", row[w].cfg, FALSE)
  /\ UNCHANGED <<row, reg, registry, phase, toLoad, flagged, faultVars>>

ActivateStart(r, w) ==
  /\ row[w].status = "inactive"
  /\ TriggerOf[row[w].cfg] \in registry
  /\ row[w].cfg \in ValidConfigs
  /\ Start(r, w, "set_active", row[w].cfg, FALSE)
  /\ UNCHANGED <<row, reg, registry, phase, toLoad, flagged, faultVars>>

ActivateSet(r) ==
  /\ req[r].pc = "set_active"
  /\ row' = Written(r)
  /\ Goto(r, "register")
  /\ UNCHANGED <<reg, registry, phase, toLoad, flagged, faultVars>>

ActivateRegister(r) ==
  /\ req[r].pc = "register"
  /\ req[r].cfg \notin Unschedulable
  /\ reg' = Registered(req[r].w, req[r].cfg)
  /\ flagged' = flagged \ {req[r].w}
  /\ Done(r)
  /\ UNCHANGED <<row, registry, phase, toLoad, faultVars>>

\* Mutant of ActivateRegisterThrows: the activation is not rolled back.
ThrowsWithoutRollback(r) ==
  /\ req[r].pc = "register"
  /\ req[r].cfg \in Unschedulable
  /\ reg' = Unregistered(req[r].w, req[r].cfg)
  /\ Done(r)
  /\ UNCHANGED <<row, registry, phase, toLoad, flagged, faultVars>>

\* CronTrigger.register drops the registration it had before it throws.
ActivateRegisterThrows(r) ==
  /\ req[r].pc = "register"
  /\ req[r].cfg \in Unschedulable
  /\ reg' = Unregistered(req[r].w, req[r].cfg)
  /\ Goto(r, "rollback")
  /\ UNCHANGED <<row, registry, phase, toLoad, flagged, faultVars>>

ActivateRollback(r) ==
  /\ req[r].pc = "rollback"
  /\ row' = Written(r)
  /\ Done(r)
  /\ UNCHANGED <<reg, registry, phase, toLoad, flagged, faultVars>>

DeactivateStart(r, w) ==
  /\ Active(w)
  /\ Start(r, w, "unregister", row[w].cfg, FALSE)
  /\ UNCHANGED <<row, reg, registry, phase, toLoad, flagged, faultVars>>

DeactivateUnregister(r) ==
  /\ req[r].pc = "unregister"
  /\ reg' = Unregistered(req[r].w, req[r].cfg)
  /\ Goto(r, "set_inactive")
  /\ UNCHANGED <<row, registry, phase, toLoad, flagged, faultVars>>

DeactivateSet(r) ==
  /\ req[r].pc = "set_inactive"
  /\ row' = Written(r)
  /\ IF req[r].deleting THEN Goto(r, "delete_row") ELSE Done(r)
  /\ UNCHANGED <<reg, registry, phase, toLoad, flagged, faultVars>>

DeleteStart(r, w) ==
  /\ Exists(w)
  /\ Start(r, w, IF Active(w) THEN "reread" ELSE "delete_row", NoConfig, TRUE)
  /\ UNCHANGED <<row, reg, registry, phase, toLoad, flagged, faultVars>>

\* The read of the deactivateWorkflow that deleteWorkflow calls: it throws, and
\* so ends the whole request, when the row is gone or no longer active.
DeleteReread(r) ==
  /\ req[r].pc = "reread"
  /\ IF Active(req[r].w)
       THEN req' = [req EXCEPT ![r] = [pc |-> "unregister", w |-> req[r].w,
                                       cfg |-> row[req[r].w].cfg, deleting |-> TRUE]]
       ELSE Done(r)
  /\ UNCHANGED <<row, reg, registry, phase, toLoad, flagged, faultVars>>

DeleteRow(r) ==
  /\ req[r].pc = "delete_row"
  /\ row' = Written(r)
  /\ Done(r)
  /\ UNCHANGED <<reg, registry, phase, toLoad, flagged, faultVars>>

-----------------------------------------------------------------------------
(* Failures.                                                               *)

\* The database fails at a statement of a handler, which throws: the client gets
\* a 500, and the statement may or may not have been applied.
DbFails(r) ==
  /\ dbErrors < MaxDbErrors
  /\ req[r].pc \in {"update", "set_active", "rollback", "set_inactive", "reread", "delete_row"}
  /\ row' \in {row, Written(r)}
  /\ flagged' = flagged \cup {req[r].w}
  /\ dbErrors' = dbErrors + 1
  /\ Done(r)
  /\ UNCHANGED <<reg, registry, phase, toLoad, crashes>>

\* The process dies: only the table survives.
Crash ==
  /\ crashes < MaxCrashes
  /\ phase # "down"
  /\ crashes' = crashes + 1
  /\ phase' = "down"
  /\ reg' = NothingRegistered
  /\ registry' = {}
  /\ toLoad' = {}
  /\ req' = [r \in Requests |-> Idle]
  /\ UNCHANGED <<row, flagged, dbErrors>>

-----------------------------------------------------------------------------
RequestStep(r) ==
  \/ UpdateWrite(r)
  \/ ActivateSet(r)
  \/ ActivateRegister(r)
  \/ ActivateRegisterThrows(r)
  \/ ActivateRollback(r)
  \/ DeactivateUnregister(r)
  \/ DeactivateSet(r)
  \/ DeleteReread(r)
  \/ DeleteRow(r)

RequestArrives(r, w) ==
  \/ \E c \in Configs \cup {NoConfig} : UpdateStart(r, w, c)
  \/ ActivateStart(r, w)
  \/ DeactivateStart(r, w)
  \/ DeleteStart(r, w)

Boot == BootSelect \/ (\E w \in Workflows : LoadOne(w)) \/ BootDone

Next ==
  \/ Boot
  \/ \E w \in Workflows, c \in Configs : Create(w, c)
  \/ \E r \in Requests, w \in Workflows : RequestArrives(r, w)
  \/ \E r \in Requests : RequestStep(r) \/ DbFails(r)
  \/ Crash

Spec == Init /\ [][Next]_vars

-----------------------------------------------------------------------------
(* Properties.                                                             *)

RequestRecords ==
  [pc : PCs, w : Workflows \cup {NoWorkflow}, cfg : Configs \cup {NoConfig},
   deleting : BOOLEAN]

\* The types of the variables.  A handler in flight always has a workflow, and
\* one that will register or unregister has the configuration it read.
TypeOK ==
  /\ row \in [Workflows -> [status : Statuses, cfg : Configs \cup {NoConfig}]]
  /\ reg \in [Triggers -> [Workflows -> Configs \cup {NoConfig}]]
  /\ registry \subseteq Triggers
  /\ phase \in Phases
  /\ toLoad \subseteq Workflows
  /\ req \in [Requests -> RequestRecords]
  /\ flagged \subseteq Workflows
  /\ crashes \in Nat /\ dbErrors \in Nat
  /\ \A w \in Workflows : Exists(w) => row[w].cfg \in Configs
  /\ \A r \in Requests : req[r].pc # "idle" => req[r].w \in Workflows
  /\ \A r \in Requests :
        req[r].pc \in {"set_active", "register", "rollback", "unregister"}
          => req[r].cfg \in Configs

\* No handler for w is in flight.
Quiet(w) == \A r \in Requests : req[r].w # w

\* Once every handler on a workflow has been answered, an active row is a row
\* some trigger listens for, whatever the order in which the handlers ran;
\* the only exceptions are workflows whose trouble was reported (flagged).
\* activateWorkflow writes the row before it registers, deactivateWorkflow
\* unregisters before it writes: the property depends on both orders.
NoSilentlyDeadWorkflow ==
  \A w \in Workflows :
    phase = "up" /\ Quiet(w) /\ Active(w) /\ w \notin flagged => RegisteredAnywhere(w)

\* The same statement in every state of a running server: an active row that is
\* neither registered nor flagged is one the loader has still to visit, or one a
\* handler is about to register or to deactivate.
Accounted(w) ==
  \/ RegisteredAnywhere(w)
  \/ w \in toLoad
  \/ \E r \in Requests :
       req[r].w = w /\ req[r].pc \in {"register", "rollback", "set_inactive"}

ActiveAccounted ==
  /\ phase = "up" => toLoad = {}
  /\ \A w \in Workflows :
       phase # "down" /\ Active(w) /\ w \notin flagged => Accounted(w)

\* What is registered, or active, has passed the validation of its own trigger,
\* although createWorkflow skips it for an empty configuration and an update
\* may land between the validation and the write of an activation.
OnlyValidConfigsRun ==
  /\ \A w \in Workflows : Active(w) => row[w].cfg \in ValidConfigs
  /\ \A t \in Triggers, w \in Workflows :
       reg[t][w] # NoConfig => reg[t][w] \in ValidConfigs /\ TriggerOf[reg[t][w]] = t

\* backend/TRIGGERS.md says triggers are unregistered when workflows are
\* deactivated or deleted; with overlapping handlers one can stay behind.
NoGhostRegistration ==
  \A w \in Workflows : Quiet(w) /\ ~Active(w) => ~RegisteredAnywhere(w)

\* POST /workflows/:id/activate: "Once activated, the workflow will automatically
\* execute when its trigger fires."  Without database errors, an active workflow
\* that can be registered at all listens whenever the server is up, after a
\* restart as well.
ActiveListens ==
  \A w \in Workflows :
    phase = "up" /\ Quiet(w) /\ Active(w) /\ row[w].cfg \notin Unschedulable
      => RegisteredAnywhere(w)
=============================================================================
