--------------------------- MODULE WorkflowProofs ---------------------------
(***************************************************************************)
(* The safety properties of WorkflowLifecycle and WorkflowExecution, for   *)
(* any workflows, triggers, requests, calls, retries and faults.           *)
(***************************************************************************)
EXTENDS WorkflowLifecycle, WorkflowExecution, TLAPS

-----------------------------------------------------------------------------
(* WorkflowLifecycle                                                       *)


Rows == [Workflows -> [status : Statuses, cfg : Configs \cup {NoConfig}]]

-----------------------------------------------------------------------------
(* The UPDATE and DELETE statements.                                       *)

\* A statement keeps the table well typed, and leaves every existing row a
\* configuration.
LEMMA WrittenIsTable ==
  ASSUME TypeOK, NEW r \in Requests, req[r].pc # "idle"
  PROVE  /\ Written(r) \in Rows
         /\ \A w \in Workflows :
              Written(r)[w].status \in {"inactive", "active"} => Written(r)[w].cfg \in Configs
<1> DEFINE W == req[r].w
<1>1. W \in Workflows /\ row \in Rows /\ req[r].cfg \in Configs \cup {NoConfig}
  BY DEF TypeOK, RequestRecords, Rows
<1>2. CASE ~Exists(W) \/ (req[r].pc = "update" /\ req[r].cfg = NoConfig)
  BY <1>1, <1>2 DEF Written, TypeOK, Exists, Rows
<1>3. CASE Exists(W) /\ req[r].pc = "update" /\ req[r].cfg # NoConfig
  BY <1>1, <1>3 DEF Written, TypeOK, Exists, Rows, Statuses
<1>4. CASE Exists(W) /\ req[r].pc = "set_active"
  BY <1>1, <1>4 DEF Written, TypeOK, Exists, Rows, Statuses
<1>5. CASE Exists(W) /\ req[r].pc \in {"rollback", "set_inactive"}
  BY <1>1, <1>5 DEF Written, TypeOK, Exists, Rows, Statuses
<1>6. CASE Exists(W) /\ req[r].pc = "delete_row"
  BY <1>1, <1>6 DEF Written, TypeOK, Exists, Rows, Statuses
<1>7. CASE /\ Exists(W)
           /\ req[r].pc \notin {"update", "set_active", "rollback", "set_inactive", "delete_row"}
  BY <1>1, <1>7 DEF Written, TypeOK, Exists, Rows, Statuses
<1>8. QED
  BY <1>2, <1>3, <1>4, <1>5, <1>6, <1>7

\* A statement activates no row but that of an activation, and creates none.
LEMMA WrittenActivates ==
  ASSUME TypeOK, NEW r \in Requests, req[r].pc # "idle", NEW w \in Workflows
  PROVE  /\ Written(r)[w].status = "active" /\ ~Active(w)
              => w = req[r].w /\ req[r].pc = "set_active" /\ Exists(w)
         /\ Written(r)[w].status \in {"inactive", "active"} => Exists(w)
         /\ w # req[r].w => Written(r)[w] = row[w]
<1>1. req[r].w \in Workflows /\ row \in Rows
  BY DEF TypeOK, RequestRecords, Rows
<1>2. QED
  BY <1>1 DEF Written, Exists, Active, Rows

-----------------------------------------------------------------------------
(* Type correctness.                                                       *)

Maps == [Triggers -> [Workflows -> Configs \cup {NoConfig}]]

\* Setting or deleting one entry of one trigger's map keeps the maps well typed.
LEMMA EntryIsTyped ==
  ASSUME reg \in Maps, NEW t, NEW w \in Workflows, NEW c \in Configs \cup {NoConfig}
  PROVE  [reg EXCEPT ![t][w] = c] \in Maps
<1>1. CASE t \in Triggers
  <2>1. [reg[t] EXCEPT ![w] = c] \in [Workflows -> Configs \cup {NoConfig}]
    BY <1>1 DEF Maps
  <2>2. QED
    BY <1>1, <2>1 DEF Maps
<1>2. CASE t \notin Triggers
  BY <1>2 DEF Maps
<1>3. QED
  BY <1>1, <1>2

\* Every step keeps the variables in their types.
LEMMA TypeStep == TypeOK /\ [Next]_vars => TypeOK'
<1> SUFFICES ASSUME TypeOK, [Next]_vars PROVE TypeOK'
  OBVIOUS
<1> USE ConfigAssumption, EnvironmentAssumption, IdAssumption
<1>1. CASE BootSelect
  BY <1>1 DEF BootSelect, TypeOK, Phases, Exists, faultVars
<1>2. ASSUME NEW w \in Workflows, LoadOne(w) PROVE TypeOK'
  <2>1. row[w].cfg \in Configs \cup {NoConfig}
    BY DEF TypeOK
  <2>2. reg' \in Maps
    <3>1. reg \in Maps
      BY DEF TypeOK, Maps
    <3>2. Registered(w, row[w].cfg) \in Maps
      BY <2>1, <3>1, EntryIsTyped DEF Registered
    <3>3. QED
      BY <1>2, <3>1, <3>2 DEF LoadOne, LoadRegisters, LoadLogsFailure
  <2>3. QED
    BY <1>2, <2>2 DEF Maps, LoadOne, LoadRegisters, LoadLogsFailure, TypeOK, Exists, faultVars
<1>3. CASE BootDone
  BY <1>3 DEF BootDone, TypeOK, Phases, Exists, faultVars
<1>4. ASSUME NEW w \in Workflows, NEW c \in Configs, Create(w, c) PROVE TypeOK'
  BY <1>4 DEF Create, TypeOK, Exists, Statuses, faultVars
<1>5. ASSUME NEW r \in Requests, NEW w \in Workflows, RequestArrives(r, w) PROVE TypeOK'
  <2>1. PICK pc \in PCs \ {"idle"}, c \in Configs \cup {NoConfig}, d \in BOOLEAN :
          /\ Start(r, w, pc, c, d)
          /\ pc \in {"set_active", "register", "rollback", "unregister"} => c \in Configs
          /\ UNCHANGED <<row, reg, registry, phase, toLoad, flagged, faultVars>>
    <3>1. row[w].status \in {"inactive", "active"} => row[w].cfg \in Configs
      BY DEF TypeOK, Exists
    <3>2. QED
      BY <1>5, <3>1 DEF RequestArrives, UpdateStart, ActivateStart, DeactivateStart,
           DeleteStart, PCs, Active
  <2>2. req' \in [Requests -> RequestRecords]
    BY <2>1 DEF Start, TypeOK, RequestRecords
  <2>3. QED
    BY <2>1, <2>2 DEF Start, TypeOK, Exists, faultVars
<1>6. ASSUME NEW r \in Requests, RequestStep(r) PROVE TypeOK'
  <2>1. req[r].pc # "idle" /\ req[r].w \in Workflows
    BY <1>6 DEF RequestStep, UpdateWrite, ActivateSet, ActivateRegister,
         ActivateRegisterThrows, ActivateRollback, DeactivateUnregister, DeactivateSet,
         DeleteReread, DeleteRow, TypeOK
  <2>2. row' \in Rows /\ \A w \in Workflows : Exists(w)' => row'[w].cfg \in Configs
    <3>1. row' = row \/ row' = Written(r)
      BY <1>6 DEF RequestStep, UpdateWrite, ActivateSet, ActivateRegister,
           ActivateRegisterThrows, ActivateRollback, DeactivateUnregister, DeactivateSet,
           DeleteReread, DeleteRow
    <3>2. QED
      BY <2>1, <3>1, WrittenIsTable DEF Exists, TypeOK, Rows
  <2>3. reg' \in Maps
    <3>1. \/ UNCHANGED reg
          \/ reg' = Registered(req[r].w, req[r].cfg)
          \/ reg' = Unregistered(req[r].w, req[r].cfg)
      BY <1>6 DEF RequestStep, UpdateWrite, ActivateSet, ActivateRegister,
           ActivateRegisterThrows, ActivateRollback, DeactivateUnregister, DeactivateSet,
           DeleteReread, DeleteRow
    <3>2. reg \in Maps /\ req[r].cfg \in Configs \cup {NoConfig}
      BY DEF TypeOK, Maps, RequestRecords
    <3>3. QED
      BY <2>1, <3>1, <3>2, EntryIsTyped DEF Registered, Unregistered
  <2>4. /\ req' \in [Requests -> RequestRecords]
        /\ \A q \in Requests : req'[q].pc # "idle" => req'[q].w \in Workflows
        /\ \A q \in Requests :
             req'[q].pc \in {"set_active", "register", "rollback", "unregister"}
               => req'[q].cfg \in Configs
    <3>1. CASE Done(r)
      BY <3>1 DEF Done, Idle, TypeOK, RequestRecords, PCs
    <3>2. CASE Goto(r, "register") /\ req[r].pc = "set_active"
      BY ZenonT(60), <2>1, <3>2 DEF Goto, TypeOK, RequestRecords, PCs
    <3>3. CASE Goto(r, "rollback") /\ req[r].pc = "register"
      BY ZenonT(60), <2>1, <3>3 DEF Goto, TypeOK, RequestRecords, PCs
    <3>4. ASSUME NEW pc \in {"set_inactive", "delete_row"}, Goto(r, pc)
          PROVE <2>4!1 /\ <2>4!2 /\ <2>4!3
      BY <2>1, <3>4 DEF Goto, TypeOK, RequestRecords, PCs
    <3>5. CASE DeleteReread(r)
      <4>1. Active(req[r].w) => row[req[r].w].cfg \in Configs
        BY <2>1 DEF TypeOK, Active, Exists
      <4>2. CASE Active(req[r].w)
        <5> DEFINE rec == [pc |-> "unregister", w |-> req[r].w,
                           cfg |-> row[req[r].w].cfg, deleting |-> TRUE]
        <5>1. rec \in RequestRecords
          BY <2>1, <4>1, <4>2 DEF RequestRecords, PCs
        <5>2. req' = [req EXCEPT ![r] = rec]
          BY <3>5, <4>2 DEF DeleteReread
        <5>3. rec.pc = "unregister" /\ rec.w \in Workflows /\ rec.cfg \in Configs
          BY <2>1, <4>1, <4>2
        <5> HIDE DEF rec
        <5>4. QED
          BY <5>1, <5>2, <5>3 DEF TypeOK
      <4>3. CASE ~Active(req[r].w)
        BY <3>1, <3>5, <4>3 DEF DeleteReread
      <4>4. QED
        BY <4>2, <4>3
    <3>6. QED
      BY <1>6, <3>1, <3>2, <3>3, <3>4, <3>5 DEF RequestStep, UpdateWrite, ActivateSet,
        ActivateRegister, ActivateRegisterThrows, ActivateRollback, DeactivateUnregister,
        DeactivateSet, DeleteRow
  <2>5. /\ UNCHANGED <<registry, phase, toLoad, crashes, dbErrors>>
        /\ flagged' \subseteq Workflows
    BY <1>6 DEF RequestStep, UpdateWrite, ActivateSet, ActivateRegister,
         ActivateRegisterThrows, ActivateRollback, DeactivateUnregister, DeactivateSet,
         DeleteReread, DeleteRow, TypeOK, faultVars
  <2>6. QED
    BY <2>2, <2>3, <2>4, <2>5 DEF TypeOK, Rows, Maps
<1>7. ASSUME NEW r \in Requests, DbFails(r) PROVE TypeOK'
  <2>1. req[r].pc # "idle" /\ req[r].w \in Workflows
    BY <1>7 DEF DbFails, TypeOK
  <2>2. row' \in Rows /\ \A w \in Workflows : Exists(w)' => row'[w].cfg \in Configs
    BY <1>7, <2>1, WrittenIsTable DEF DbFails, Exists, TypeOK, Rows
  <2>3. QED
    BY <1>7, <2>1, <2>2 DEF DbFails, Done, Idle, TypeOK, Rows, RequestRecords, PCs
<1>8. CASE Crash
  BY <1>8 DEF Crash, TypeOK, NothingRegistered, Idle, RequestRecords, PCs, Phases, Exists
<1>9. CASE UNCHANGED vars
  BY <1>9 DEF vars, TypeOK, Exists
<1>10. QED
  BY <1>1, <1>2, <1>3, <1>4, <1>5, <1>6, <1>7, <1>8, <1>9 DEF Next, Boot

\* The variables of the service always hold values of their types.
THEOREM TypeCorrect == Spec => []TypeOK
<1>1. Init => TypeOK
  BY ConfigAssumption, EnvironmentAssumption, IdAssumption
  DEF Init, TypeOK, NothingRegistered, Idle, RequestRecords, PCs, Phases, Statuses, Exists
<1>2. QED
  BY <1>1, TypeStep, PTL DEF Spec

-----------------------------------------------------------------------------
(* No workflow dies silently.  NoSilentlyDeadWorkflow says nothing while a *)
(* handler is in flight, so it is not inductive; ActiveAccounted is.       *)

\* A workflow that the step leaves as it was stays accounted for.
LEMMA AccountedKept ==
  ASSUME TypeOK, NEW w \in Workflows, NEW r \in Requests, req[r].w # w,
         Accounted(w),
         \A t \in Triggers : reg'[t][w] = reg[t][w],
         toLoad' = toLoad,
         \A q \in Requests : q # r => req'[q] = req[q]
  PROVE  Accounted(w)'
BY DEF Accounted, RegisteredAnywhere

\* One step keeps every active workflow accounted for.
LEMMA ActiveAccountedStep == TypeOK /\ ActiveAccounted /\ [Next]_vars => ActiveAccounted'
<1> SUFFICES ASSUME TypeOK, ActiveAccounted, [Next]_vars PROVE ActiveAccounted'
  OBVIOUS
<1> USE ConfigAssumption, EnvironmentAssumption, IdAssumption
<1>1. CASE BootSelect
  BY <1>1 DEF BootSelect, ActiveAccounted, Accounted, Active
<1>2. ASSUME NEW v \in Workflows, LoadOne(v) PROVE ActiveAccounted'
  <2>1. phase' = "loading" /\ row' = row /\ req' = req /\ toLoad' = toLoad \ {v}
    BY <1>2 DEF LoadOne
  <2>2. ASSUME NEW w \in Workflows, Active(w), w \notin flagged' PROVE Accounted(w)'
    <3>1. CASE LoadLogsFailure(v)
      BY <1>2, <2>1, <2>2, <3>1
      DEF LoadOne, LoadLogsFailure, ActiveAccounted, Accounted, RegisteredAnywhere
    <3>2. CASE LoadRegisters(v) /\ w = v
      <4>1. row[v].cfg \in Configs
        BY <2>2, <3>2 DEF TypeOK, Active, Exists
      <4>2. TriggerOf[row[v].cfg] \in Triggers
        BY <4>1
      <4>3. reg'[TriggerOf[row[v].cfg]][v] = row[v].cfg
        BY <3>2, <4>1, <4>2 DEF LoadRegisters, Registered, TypeOK
      <4>4. QED
        BY <3>2, <4>1, <4>2, <4>3 DEF Accounted, RegisteredAnywhere
    <3>3. CASE LoadRegisters(v) /\ w # v
      <4>1. \A t \in Triggers : reg'[t][w] = reg[t][w]
        BY <3>3 DEF LoadRegisters, Registered, TypeOK
      <4>2. Accounted(w)
        BY <1>2, <2>2, <3>3 DEF LoadOne, LoadRegisters, ActiveAccounted
      <4>3. QED
        BY <2>1, <3>3, <4>1, <4>2 DEF Accounted, RegisteredAnywhere
    <3>4. QED
      BY <1>2, <3>1, <3>2, <3>3 DEF LoadOne
  <2>3. QED
    BY <2>1, <2>2 DEF ActiveAccounted, Active
<1>3. CASE BootDone
  BY <1>3 DEF BootDone, ActiveAccounted, Accounted, RegisteredAnywhere, Active
<1>4. ASSUME NEW v \in Workflows, NEW c \in Configs, Create(v, c) PROVE ActiveAccounted'
  <2>1. \A w \in Workflows : Active(w)' => Active(w)
    BY <1>4 DEF Create, Active, TypeOK
  <2>2. QED
    BY <1>4, <2>1 DEF Create, ActiveAccounted, Accounted, RegisteredAnywhere
<1>5. ASSUME NEW r \in Requests, NEW v \in Workflows, RequestArrives(r, v)
      PROVE  ActiveAccounted'
  <2>1. /\ UNCHANGED <<row, reg, phase, toLoad, flagged>>
        /\ req[r].w = NoWorkflow
        /\ \A q \in Requests : q # r => req'[q] = req[q]
    BY <1>5 DEF RequestArrives, UpdateStart, ActivateStart, DeactivateStart, DeleteStart,
         Start, Idle, TypeOK
  <2>2. QED
    BY <2>1, AccountedKept DEF ActiveAccounted, Active
<1>6. ASSUME NEW r \in Requests, RequestStep(r) PROVE ActiveAccounted'
  <2> DEFINE W == req[r].w
  <2>1. /\ UNCHANGED <<phase, toLoad>>
        /\ req[r].pc # "idle" /\ W \in Workflows
        /\ row' = row \/ row' = Written(r)
        /\ \A w \in Workflows : w \in flagged => w \in flagged' \/ w = W
        /\ \A w \in Workflows : w # W => (w \in flagged' <=> w \in flagged)
        /\ \A q \in Requests : q # r => req'[q] = req[q]
    BY <1>6 DEF RequestStep, UpdateWrite, ActivateSet, ActivateRegister,
         ActivateRegisterThrows, ActivateRollback, DeactivateUnregister, DeactivateSet,
         DeleteReread, DeleteRow, Goto, Done, TypeOK
  <2>2. \A t \in Triggers, w \in Workflows : w # W => reg'[t][w] = reg[t][w]
    BY <1>6 DEF RequestStep, UpdateWrite, ActivateSet, ActivateRegister,
         ActivateRegisterThrows, ActivateRollback, DeactivateUnregister, DeactivateSet,
         DeleteReread, DeleteRow, Registered, Unregistered, TypeOK
  <2>3. ASSUME NEW w \in Workflows, w # W, phase' # "down", Active(w)', w \notin flagged'
        PROVE  Accounted(w)'
    <3>1. Active(w) /\ w \notin flagged
      BY <2>1, <2>3, WrittenActivates DEF Active
    <3>2. Accounted(w)
      BY <2>1, <2>3, <3>1 DEF ActiveAccounted
    <3>3. QED
      BY <2>1, <2>2, <2>3, <3>2, AccountedKept
  <2>4. ASSUME NEW w \in Workflows, w = W, phase' # "down", Active(w)', w \notin flagged'
        PROVE  Accounted(w)'
    <3>1. CASE ActivateSet(r)
      BY <2>1, <2>4, <3>1 DEF ActivateSet, Goto, Accounted, TypeOK
    <3>2. CASE ActivateRegister(r)
      <4>1. req[r].cfg \in Configs
        BY <3>2 DEF ActivateRegister, TypeOK
      <4>2. reg'[TriggerOf[req[r].cfg]][w] = req[r].cfg
        BY <2>1, <2>4, <3>2, <4>1 DEF ActivateRegister, Registered, TypeOK
      <4>3. QED
        BY <2>4, <4>1, <4>2 DEF Accounted, RegisteredAnywhere
    <3>3. CASE ActivateRegisterThrows(r) \/ DeactivateUnregister(r)
      <4>1. PICK pc \in {"rollback", "set_inactive"} : Goto(r, pc)
        BY <3>3 DEF ActivateRegisterThrows, DeactivateUnregister
      <4>2. req'[r].w = w /\ req'[r].pc = pc
        BY <2>4, <4>1 DEF Goto, TypeOK, RequestRecords
      <4>3. QED
        BY <4>2 DEF Accounted
    <3>4. CASE ActivateRollback(r) \/ DeactivateSet(r) \/ DeleteRow(r)
      <4>1. row' = Written(r) /\ req[r].pc \in {"rollback", "set_inactive", "delete_row"}
        BY <3>4 DEF ActivateRollback, DeactivateSet, DeleteRow
      <4>2. ~Active(w)'
        BY <2>1, <2>4, <4>1 DEF Written, Active, Exists, TypeOK
      <4>3. QED
        BY <2>4, <4>2
    <3>5. CASE UpdateWrite(r) \/ DeleteReread(r)
      <4>1. UNCHANGED <<reg, flagged>> /\ req[r].pc \in {"update", "reread"}
        BY <3>5 DEF UpdateWrite, DeleteReread
      <4>2. Active(w)
        BY <2>1, <2>4, <4>1, WrittenActivates DEF Active
      <4>3. Accounted(w)
        BY <2>1, <2>4, <4>1, <4>2 DEF ActiveAccounted
      <4>4. QED
        BY <2>1, <2>4, <4>1, <4>3 DEF Accounted, RegisteredAnywhere
    <3>6. QED
      BY <1>6, <3>1, <3>2, <3>3, <3>4, <3>5 DEF RequestStep
  <2>5. QED
    BY <2>1, <2>3, <2>4 DEF ActiveAccounted
<1>7. ASSUME NEW r \in Requests, DbFails(r) PROVE ActiveAccounted'
  <2>1. /\ UNCHANGED <<reg, phase, toLoad>>
        /\ req[r].pc # "idle"
        /\ row' = row \/ row' = Written(r)
        /\ flagged' = flagged \cup {req[r].w}
        /\ \A q \in Requests : q # r => req'[q] = req[q]
    BY <1>7 DEF DbFails, Done, TypeOK
  <2>2. ASSUME NEW w \in Workflows, phase' # "down", Active(w)', w \notin flagged'
        PROVE  Accounted(w)'
    <3>1. w # req[r].w /\ w \notin flagged
      BY <2>1, <2>2
    <3>2. Active(w)
      BY <2>1, <2>2, <3>1, WrittenActivates DEF Active
    <3>3. Accounted(w)
      BY <2>1, <2>2, <3>1, <3>2 DEF ActiveAccounted
    <3>4. QED
      BY <2>1, <3>1, <3>3, AccountedKept
  <2>3. QED
    BY <2>1, <2>2 DEF ActiveAccounted
<1>8. CASE Crash
  BY <1>8 DEF Crash, ActiveAccounted
<1>9. CASE UNCHANGED vars
  BY <1>9 DEF vars, ActiveAccounted, Accounted, RegisteredAnywhere, Active
<1>10. QED
  BY <1>1, <1>2, <1>3, <1>4, <1>5, <1>6, <1>7, <1>8, <1>9 DEF Next, Boot

\* Once the handlers of a workflow are answered, an active workflow listens or
\* its trouble was reported, for any number of workflows, triggers and requests.
THEOREM NoSilentDeath == Spec => []NoSilentlyDeadWorkflow
<1>1. Init => ActiveAccounted
  BY DEF Init, ActiveAccounted
<1>2. ActiveAccounted => NoSilentlyDeadWorkflow
  BY DEF ActiveAccounted, Accounted, NoSilentlyDeadWorkflow, Quiet
<1>3. QED
  BY <1>1, <1>2, ActiveAccountedStep, TypeCorrect, PTL DEF Spec

-----------------------------------------------------------------------------
(* Only validated configurations run.                                      *)

\* What the handlers carry between their reads and their writes, and what that
\* says of the table: a row about to be activated is valid even if an update
\* landed after the activation had read it, because updates are validated too.
ValidInv ==
  /\ OnlyValidConfigsRun
  /\ \A r \in Requests :
       /\ phase # "up" => req[r] = Idle
       /\ req[r].pc = "update" => req[r].cfg \in ValidConfigs \cup {NoConfig}
       /\ req[r].pc \in {"set_active", "register"} => req[r].cfg \in ValidConfigs
       /\ req[r].pc # "idle" => row[req[r].w].status # "absent"
       /\ req[r].pc = "set_active" /\ Exists(req[r].w)
            => row[req[r].w].cfg \in ValidConfigs
  /\ \A w \in toLoad : Active(w)
  /\ phase = "up" => toLoad = {}

\* What a statement leaves in the table, row by row.
LEMMA WrittenRow ==
  ASSUME TypeOK, ValidInv, NEW r \in Requests, req[r].pc # "idle", NEW w \in Workflows
  PROVE  /\ Written(r)[w].status # "absent" <=> row[w].status # "absent"
         /\ Written(r)[w].status = "active" => Written(r)[w].cfg \in ValidConfigs
         /\ Written(r)[w].status \in {"inactive", "active"} =>
              \/ Written(r)[w].cfg = row[w].cfg /\ Exists(w)
              \/ Written(r)[w].cfg \in ValidConfigs
<1>1. req[r].w \in Workflows /\ row \in Rows
  BY DEF TypeOK, RequestRecords, Rows
<1>2. Active(w) => row[w].cfg \in ValidConfigs
  BY DEF ValidInv, OnlyValidConfigsRun
<1>3. QED
  BY <1>1, <1>2 DEF ValidInv, Written, Exists, Active, Rows, Statuses

\* Registering a valid configuration under its own trigger, and deleting an
\* entry, keep the maps valid.
LEMMA MapsStayValid ==
  ASSUME TypeOK, OnlyValidConfigsRun, NEW w \in Workflows,
         NEW c \in Configs, NEW m \in {Registered(w, c), Unregistered(w, c)},
         m = Unregistered(w, c) \/ c \in ValidConfigs
  PROVE  \A t \in Triggers, v \in Workflows :
           m[t][v] # NoConfig => m[t][v] \in ValidConfigs /\ TriggerOf[m[t][v]] = t
<1>1. TriggerOf[c] \in Triggers
  BY ConfigAssumption
<1>2. \A t \in Triggers, v \in Workflows :
        m[t][v] = reg[t][v] \/ m[t][v] = NoConfig
        \/ (m[t][v] = c /\ t = TriggerOf[c] /\ c \in ValidConfigs)
  BY <1>1 DEF Registered, Unregistered, TypeOK
<1>3. QED
  BY <1>2 DEF OnlyValidConfigsRun

\* One step keeps the strengthened invariant.
LEMMA ValidStep == TypeOK /\ ValidInv /\ [Next]_vars => ValidInv'
<1> SUFFICES ASSUME TypeOK, ValidInv, [Next]_vars PROVE ValidInv'
  OBVIOUS
<1> USE ConfigAssumption, EnvironmentAssumption, IdAssumption
<1>1. CASE BootSelect
  BY <1>1 DEF BootSelect, ValidInv, OnlyValidConfigsRun, Active, Exists
<1>2. ASSUME NEW v \in Workflows, LoadOne(v) PROVE ValidInv'
  <2>1. row[v].cfg \in ValidConfigs
    BY <1>2 DEF LoadOne, ValidInv, OnlyValidConfigsRun
  <2>2. reg' = reg \/ reg' = Registered(v, row[v].cfg)
    BY <1>2 DEF LoadOne, LoadRegisters, LoadLogsFailure
  <2>3. \A t \in Triggers, w \in Workflows :
          reg'[t][w] # NoConfig => reg'[t][w] \in ValidConfigs /\ TriggerOf[reg'[t][w]] = t
    BY <2>1, <2>2, MapsStayValid DEF ValidInv, OnlyValidConfigsRun
  <2>4. QED
    BY <1>2, <2>3 DEF LoadOne, ValidInv, OnlyValidConfigsRun, Active, Exists
<1>3. CASE BootDone
  BY <1>3 DEF BootDone, ValidInv, OnlyValidConfigsRun, Active, Exists, Idle
<1>4. ASSUME NEW v \in Workflows, NEW c \in Configs, Create(v, c) PROVE ValidInv'
  <2>1. \A w \in Workflows : w # v => row'[w] = row[w]
    BY <1>4 DEF Create, TypeOK
  <2>2. row[v].status = "absent" /\ row'[v].status = "inactive"
    BY <1>4 DEF Create, TypeOK
  <2>3. \A r \in Requests : req[r].pc # "idle" => req[r].w # v /\ req[r].w \in Workflows
    BY <2>2 DEF ValidInv, TypeOK
  <2>4. UNCHANGED <<reg, phase, toLoad, req>> /\ phase = "up"
    BY <1>4 DEF Create
  <2>5. QED
    BY <2>1, <2>2, <2>3, <2>4 DEF ValidInv, OnlyValidConfigsRun, Active, Exists
<1>5. ASSUME NEW r \in Requests, NEW v \in Workflows, RequestArrives(r, v) PROVE ValidInv'
  <2>1. PICK pc \in PCs \ {"idle"}, c \in Configs \cup {NoConfig}, d \in BOOLEAN :
          /\ Start(r, v, pc, c, d)
          /\ pc \in {"update", "set_active", "unregister", "reread", "delete_row"}
          /\ pc = "update" => c \in ValidConfigs \cup {NoConfig}
          /\ pc = "set_active" => c \in ValidConfigs /\ row[v].cfg \in ValidConfigs
          /\ row[v].status # "absent"
          /\ UNCHANGED <<row, reg, phase, toLoad>>
    <3>1. row[v].status \in {"inactive", "active"} => row[v].cfg \in Configs
      BY DEF TypeOK, Exists
    <3>2. QED
      BY <1>5, <3>1 DEF RequestArrives, UpdateStart, ActivateStart, DeactivateStart,
        DeleteStart, PCs, Active, Exists
  <2>2. /\ phase = "up" /\ req[r] = Idle
        /\ req'[r] = [pc |-> pc, w |-> v, cfg |-> c, deleting |-> d]
        /\ \A q \in Requests : q # r => req'[q] = req[q]
    BY <2>1 DEF Start, TypeOK
  <2>3. QED
    BY <2>1, <2>2 DEF ValidInv, OnlyValidConfigsRun, Active, Exists
<1>6. ASSUME NEW r \in Requests, RequestStep(r) \/ DbFails(r) PROVE ValidInv'
  <2>1. /\ UNCHANGED <<phase, toLoad>>
        /\ req[r].pc # "idle" /\ req[r].w \in Workflows
        /\ row' = row \/ row' = Written(r)
        /\ \A q \in Requests : q # r => req'[q] = req[q]
    BY <1>6 DEF RequestStep, DbFails, UpdateWrite, ActivateSet, ActivateRegister,
         ActivateRegisterThrows, ActivateRollback, DeactivateUnregister, DeactivateSet,
         DeleteReread, DeleteRow, Goto, Done, TypeOK
  <2>2. phase = "up" /\ toLoad = {}
    BY <2>1 DEF ValidInv, Idle
  <2>3. /\ req'[r].pc \notin {"update", "set_active"}
        /\ req'[r].pc = "register" => req'[r].cfg \in ValidConfigs
        /\ req'[r].pc # "idle" => req'[r].w = req[r].w
    BY <1>6 DEF RequestStep, DbFails, UpdateWrite, ActivateSet, ActivateRegister,
         ActivateRegisterThrows, ActivateRollback, DeactivateUnregister, DeactivateSet,
         DeleteReread, DeleteRow, Goto, Done, Idle, TypeOK, RequestRecords, ValidInv
  <2>4. \A w \in Workflows :
          /\ row'[w].status # "absent" <=> row[w].status # "absent"
          /\ Active(w)' => row'[w].cfg \in ValidConfigs
          /\ Exists(w)' => (row'[w].cfg = row[w].cfg /\ Exists(w)) \/ row'[w].cfg \in ValidConfigs
    BY <2>1, WrittenRow DEF Active, Exists, ValidInv, OnlyValidConfigsRun
  <2>5. \A t \in Triggers, w \in Workflows :
          reg'[t][w] # NoConfig => reg'[t][w] \in ValidConfigs /\ TriggerOf[reg'[t][w]] = t
    <3>1. \/ UNCHANGED reg
          \/ reg' = Registered(req[r].w, req[r].cfg) /\ req[r].pc = "register"
          \/ /\ reg' = Unregistered(req[r].w, req[r].cfg)
             /\ req[r].pc \in {"register", "unregister"}
      BY <1>6 DEF RequestStep, DbFails, UpdateWrite, ActivateSet, ActivateRegister,
           ActivateRegisterThrows, ActivateRollback, DeactivateUnregister, DeactivateSet,
           DeleteReread, DeleteRow
    <3>2. /\ req[r].pc \in {"register", "unregister"} => req[r].cfg \in Configs
          /\ req[r].pc = "register" => req[r].cfg \in ValidConfigs
          /\ OnlyValidConfigsRun
      BY DEF ValidInv, TypeOK
    <3>3. QED
      BY <2>1, <3>1, <3>2, MapsStayValid DEF OnlyValidConfigsRun
  <2>6. ASSUME NEW q \in Requests
        PROVE  /\ req'[q].pc = "update" => req'[q].cfg \in ValidConfigs \cup {NoConfig}
               /\ req'[q].pc \in {"set_active", "register"} => req'[q].cfg \in ValidConfigs
               /\ req'[q].pc # "idle" => row'[req'[q].w].status # "absent"
               /\ req'[q].pc = "set_active" /\ row'[req'[q].w].status \in {"inactive", "active"}
                    => row'[req'[q].w].cfg \in ValidConfigs
    <3>1. CASE q = r
      BY <2>1, <2>3, <2>4, <3>1 DEF ValidInv
    <3>2. CASE q # r
      <4>1. req'[q] = req[q] /\ (req[q].pc # "idle" => req[q].w \in Workflows)
        BY <2>1, <3>2 DEF TypeOK
      <4>2. QED
        BY <2>4, <4>1 DEF ValidInv, Exists
    <3>3. QED
      BY <3>1, <3>2
  <2>7. QED
    BY <2>1, <2>2, <2>4, <2>5, <2>6 DEF ValidInv, OnlyValidConfigsRun, Exists
<1>7. CASE Crash
  BY <1>7 DEF Crash, ValidInv, OnlyValidConfigsRun, NothingRegistered, Idle, Active, Exists
<1>8. CASE UNCHANGED vars
  BY <1>8 DEF vars, ValidInv, OnlyValidConfigsRun, Active, Exists, Idle
<1>9. QED
  BY <1>1, <1>2, <1>3, <1>4, <1>5, <1>6, <1>7, <1>8 DEF Next, Boot

\* Neither an active row nor a registration ever holds a configuration that its
\* trigger's validation rejects, whatever handlers overlap.
THEOREM ValidOnly == Spec => []OnlyValidConfigsRun
<1>1. Init => ValidInv
  BY DEF Init, ValidInv, OnlyValidConfigsRun, NothingRegistered, Idle, Active, Exists
<1>2. ValidInv => OnlyValidConfigsRun
  BY DEF ValidInv
<1>3. QED
  BY <1>1, <1>2, ValidStep, TypeCorrect, PTL DEF Spec

-----------------------------------------------------------------------------
(* WorkflowExecution                                                       *)


CallPCs == {"idle", "check", "read", "start", "insert", "stamp", "done", "failed"}

CallRecords == [pc : CallPCs, w : Workflows \cup {NoWorkflow}, ms : Nat]

RunRecords == [state : {"none", "open", "completed", "failed", "timed out"},
               attempts : Nat, waiting : BOOLEAN, stray : Nat, effects : Nat]

\* Where a call may have started its run and inserted its row.
Progress ==
  \A e \in Calls :
    /\ call[e].pc \in {"idle", "check", "read", "start"} => exec[e] = "none"
    /\ call[e].pc = "insert" => Started(e)
    /\ ~Started(e) => run[e] = NoRun

\* Each attempt is spent once: on the effect it had, on the code that is still
\* running, or on the answer the server waits for.
AttemptsSpent(r) ==
  /\ r.effects + r.stray + (IF r.waiting THEN 1 ELSE 0) <= r.attempts
  /\ r.attempts <= MaxAttempts

AttemptsAccounted == \A e \in Calls : AttemptsSpent(run[e])

IInv == ExecutionTypeOK /\ Progress /\ RowsMatchRuns /\ NoOrphanRows /\ AttemptsAccounted

-----------------------------------------------------------------------------
(* What the steps of the worker and of the calls have in common.           *)

\* The record r is what a step leaves of a run that was started already.
Follows(r, e) ==
  /\ run[e].state # "none" /\ r.state # "none"
  /\ r \in RunRecords
  /\ AttemptsSpent(run[e]) => AttemptsSpent(r)

\* A step of the worker, or the timeout of a run, changes one run that was
\* started already, and spends no attempt twice.
LEMMA WorkerStep ==
  ASSUME ExecutionTypeOK, Progress, NEW e \in Calls, Worker(e) \/ RunTimesOut(e)
  PROVE  \E r : Follows(r, e) /\ RunStep(e, r)
<1>1. PICK old \in RunRecords : old = run[e]
  BY DEF ExecutionTypeOK, RunRecords
<1>2. /\ old.attempts \in Nat /\ old.stray \in Nat /\ old.effects \in Nat
      /\ old.waiting \in BOOLEAN /\ MaxAttempts \in Nat
  BY <1>1, ExecutionAssumption DEF RunRecords
<1>3. old.state = "none" => old.stray = 0
  BY <1>1 DEF Progress, Started, NoRun
<1>4. CASE AttemptStarts(e)
  <2> DEFINE new == [old EXCEPT !.attempts = @ + 1, !.waiting = TRUE]
  <2>1. new \in RunRecords /\ new.state = old.state /\ old.state = "open"
    <3>1. old.state = "open" /\ old.attempts + 1 \in Nat
      BY <1>1, <1>2, <1>4 DEF AttemptStarts, Open
    <3>2. QED
      BY <1>1, <3>1 DEF RunRecords
  <2>2. AttemptsSpent(old) => AttemptsSpent(new)
    <3>1. /\ new.attempts = old.attempts + 1 /\ new.waiting
          /\ new.stray = old.stray /\ new.effects = old.effects
          /\ ~old.waiting /\ old.attempts < MaxAttempts
      BY <1>1, <1>4 DEF AttemptStarts, RunRecords
    <3>2. QED
      BY <1>2, <3>1 DEF AttemptsSpent
  <2>3. QED
    BY <1>1, <1>4, <2>1, <2>2 DEF AttemptStarts, Follows
<1>5. CASE AttemptSucceeds(e)
  <2> DEFINE new == [old EXCEPT !.state = "completed", !.waiting = FALSE, !.effects = @ + 1]
  <2>1. new \in RunRecords /\ new.state = "completed" /\ old.state = "open"
    <3>1. old.state = "open" /\ old.effects + 1 \in Nat
      BY <1>1, <1>2, <1>5 DEF AttemptSucceeds, Open
    <3>2. QED
      BY <1>1, <3>1 DEF RunRecords
  <2>2. AttemptsSpent(old) => AttemptsSpent(new)
    <3>1. /\ new.attempts = old.attempts /\ ~new.waiting /\ old.waiting
          /\ new.stray = old.stray /\ new.effects = old.effects + 1
      BY <1>1, <1>5 DEF AttemptSucceeds, RunRecords
    <3>2. QED
      BY <1>2, <3>1 DEF AttemptsSpent
  <2>3. QED
    BY <1>1, <1>5, <2>1, <2>2 DEF AttemptSucceeds, Follows
<1>6. CASE AttemptFails(e)
  <2> DEFINE new(n) == [Failed(old) EXCEPT !.effects = @ + n]
  <2>1. PICK n \in {0, 1} : RunStep(e, new(n))
    BY <1>1, <1>6 DEF AttemptFails
  <2>2. old.state = "open" /\ old.waiting
    BY <1>1, <1>6 DEF AttemptFails, Open
  <2>3. /\ new(n) \in RunRecords /\ new(n).state \in {"open", "failed"}
        /\ new(n).attempts = old.attempts /\ new(n).waiting = FALSE
        /\ new(n).stray = old.stray /\ new(n).effects = old.effects + n
    <3>1. old.effects + n \in Nat
      BY <1>2, <2>1
    <3>2. PICK st \in {"open", "failed"} :
            Failed(old) = [old EXCEPT !.waiting = FALSE, !.state = st]
      BY DEF Failed
    <3>3. QED
      BY <1>1, <3>1, <3>2 DEF RunRecords
  <2>4. AttemptsSpent(old) => AttemptsSpent(new(n))
    BY <1>2, <2>2, <2>3, n \in Nat, n <= 1 DEF AttemptsSpent
  <2>5. QED
    BY <1>1, <2>1, <2>2, <2>3, <2>4 DEF Follows
<1>7. CASE AttemptTimesOut(e)
  <2> DEFINE new == [Failed(old) EXCEPT !.stray = @ + 1]
  <2>1. old.state = "open" /\ old.waiting
    BY <1>1, <1>7 DEF AttemptTimesOut, Open
  <2>2. /\ new \in RunRecords /\ new.state \in {"open", "failed"}
        /\ new.attempts = old.attempts /\ new.waiting = FALSE
        /\ new.stray = old.stray + 1 /\ new.effects = old.effects
    <3>1. old.stray + 1 \in Nat
      BY <1>2
    <3>2. PICK st \in {"open", "failed"} :
            Failed(old) = [old EXCEPT !.waiting = FALSE, !.state = st]
      BY DEF Failed
    <3>3. QED
      BY <1>1, <3>1, <3>2 DEF RunRecords
  <2>3. AttemptsSpent(old) => AttemptsSpent(new)
    BY <1>2, <2>1, <2>2 DEF AttemptsSpent
  <2>4. QED
    BY <1>1, <1>7, <2>1, <2>2, <2>3 DEF AttemptTimesOut, Follows
<1>8. CASE StrayEnds(e)
  <2> DEFINE new(n) == [old EXCEPT !.stray = @ - 1, !.effects = @ + n]
  <2>1. PICK n \in {0, 1} : RunStep(e, new(n))
    BY <1>1, <1>8 DEF StrayEnds
  <2>2. old.stray > 0 /\ old.state # "none"
    BY <1>1, <1>3, <1>8 DEF StrayEnds
  <2>3. old.stray - 1 \in Nat /\ old.effects + n \in Nat
    BY <1>2, <2>1, <2>2
  <2>4. /\ new(n) \in RunRecords /\ new(n).state = old.state
        /\ new(n).attempts = old.attempts /\ new(n).waiting = old.waiting
        /\ new(n).stray = old.stray - 1 /\ new(n).effects = old.effects + n
    BY <1>1, <2>3 DEF RunRecords
  <2>5. AttemptsSpent(old) => AttemptsSpent(new(n))
    BY <1>2, <2>2, <2>4, n \in Nat, n <= 1 DEF AttemptsSpent
  <2>6. QED
    BY <1>1, <2>1, <2>2, <2>4, <2>5 DEF Follows
<1>9. CASE RunTimesOut(e)
  <2> DEFINE new == [old EXCEPT !.state = "timed out", !.waiting = FALSE,
                                !.stray = @ + IF old.waiting THEN 1 ELSE 0]
  <2>1. old.stray + (IF old.waiting THEN 1 ELSE 0) \in Nat
    BY <1>2
  <2>2. /\ new \in RunRecords /\ new.state = "timed out"
        /\ new.attempts = old.attempts /\ new.waiting = FALSE
        /\ new.stray = old.stray + (IF old.waiting THEN 1 ELSE 0)
        /\ new.effects = old.effects
    BY <1>1, <2>1 DEF RunRecords
  <2>3. AttemptsSpent(old) => AttemptsSpent(new)
    BY <1>2, <2>2 DEF AttemptsSpent
  <2>4. old.state = "open"
    BY <1>1, <1>9 DEF RunTimesOut, Open
  <2>5. QED
    BY <1>1, <1>9, <2>2, <2>3, <2>4 DEF RunTimesOut, Follows
<1>10. QED
  BY <1>4, <1>5, <1>6, <1>7, <1>8, <1>9 DEF Worker

\* The same in terms of the variables: what a reader of one invariant needs.
LEMMA WorkerFrame ==
  ASSUME ExecutionTypeOK, Progress, NEW e \in Calls, Worker(e) \/ RunTimesOut(e)
  PROVE  /\ run' \in [Calls -> RunRecords]
         /\ \A f \in Calls : Started(f)' <=> Started(f)
         /\ \A f \in Calls : ~Started(f) => run'[f] = run[f]
         /\ \A f \in Calls : AttemptsSpent(run[f]) => AttemptsSpent(run'[f])
         /\ UNCHANGED <<tables, call, clock, faults>>
<1>1. PICK r : Follows(r, e) /\ RunStep(e, r)
  BY WorkerStep
<1>2. run \in [Calls -> RunRecords]
  BY DEF ExecutionTypeOK, RunRecords
<1>3. /\ run' = [run EXCEPT ![e] = r]
      /\ UNCHANGED <<tables, call, clock, faults>>
      /\ r \in RunRecords /\ run[e].state # "none" /\ r.state # "none"
      /\ AttemptsSpent(run[e]) => AttemptsSpent(r)
  BY <1>1 DEF Follows, RunStep
<1>4. run'[e] = r /\ \A f \in Calls \ {e} : run'[f] = run[f]
  BY <1>2, <1>3
<1>5. run' \in [Calls -> RunRecords]
  BY <1>2, <1>3
<1>6. QED
  BY <1>3, <1>4, <1>5 DEF Started

\* A step of a call moves its program counter along, and touches no other call.
LEMMA CallFrame ==
  ASSUME ExecutionTypeOK, NEW e \in Calls, CallStep(e) \/ CallFails(e)
  PROVE  /\ call[e].pc \in {"check", "read", "start", "insert", "stamp"}
         /\ call[e].w \in Workflows
         /\ call' \in [Calls -> CallRecords]
         /\ \A f \in Calls : call'[f].w = call[f].w
         /\ \A f \in Calls \ {e} : call'[f] = call[f]
         /\ \/ /\ call[e].pc = "check" /\ call'[e].pc \in {"read", "failed"}
               /\ UNCHANGED <<exec, run>>
            \/ /\ call[e].pc = "read" /\ call'[e].pc \in {"start", "failed"}
               /\ UNCHANGED <<exec, run>>
            \/ /\ call[e].pc = "start" /\ call'[e].pc \in {"insert", "failed"}
               /\ UNCHANGED exec
               /\ run' = [run EXCEPT ![e] = NewRun]
            \/ /\ call[e].pc = "start" /\ call'[e].pc = "failed"
               /\ UNCHANGED <<exec, run>>
            \/ /\ call[e].pc = "insert" /\ call'[e].pc \in {"stamp", "failed"}
               /\ InTable(call[e].w)
               /\ exec' = [exec EXCEPT ![e] = "running"]
               /\ UNCHANGED run
            \/ /\ call[e].pc = "insert" /\ call'[e].pc = "failed"
               /\ UNCHANGED <<exec, run>>
            \/ /\ call[e].pc = "stamp" /\ call'[e].pc \in {"done", "failed"}
               /\ UNCHANGED <<exec, run>>
         /\ UNCHANGED <<status, deleting, clock>>
         /\ faults' \in {faults, faults + 1}
<1>1. call \in [Calls -> CallRecords] /\ clock \in Nat
  BY DEF ExecutionTypeOK, CallRecords, CallPCs
<1>2. call[e].pc # "idle" => call[e].w \in Workflows
  BY DEF ExecutionTypeOK
<1>3. CASE CheckActive(e)
  BY <1>1, <1>2, <1>3 DEF CheckActive, Advance, CallRecords, CallPCs, tables
<1>4. CASE ReadWorkflow(e)
  BY <1>1, <1>2, <1>4 DEF ReadWorkflow, Advance, CallRecords, CallPCs, tables
<1>5. CASE StartRun(e)
  BY <1>1, <1>2, <1>5 DEF StartRun, Advance, CallRecords, CallPCs, tables
<1>6. CASE InsertRow(e)
  BY <1>1, <1>2, <1>6 DEF InsertRow, Advance, CallRecords, CallPCs
<1>7. CASE StampLastRun(e)
  BY <1>1, <1>2, <1>7 DEF StampLastRun, Advance, CallRecords, CallPCs, tables
<1>8. CASE CallFails(e)
  BY <1>1, <1>2, <1>8 DEF CallFails, Advance, CallRecords, CallPCs
<1>9. QED
  BY <1>3, <1>4, <1>5, <1>6, <1>7, <1>8 DEF CallStep

\* The other steps leave runs alone.
LEMMA OtherFrame ==
  ASSUME ExecutionTypeOK,
         \/ \E e \in Calls, w \in Workflows : TriggerFires(e, w) \/ ManualExecute(e, w)
         \/ \E w \in Workflows :
              \/ \E s \in {"active", "inactive"} : SetActive(w, s)
              \/ DeletionStarts(w) \/ DeleteStep(w)
         \/ ServerCrash
         \/ Tick
  PROVE  /\ ExecutionTypeOK'
         /\ UNCHANGED run
         /\ \A e \in Calls : exec'[e] = exec[e] \/ (HasRow(e) /\ exec'[e] = "deleted")
         /\ \A e \in Calls :
              \/ call'[e] = call[e]
              \/ call[e].pc = "idle" /\ call'[e].pc \in {"check", "read"}
              \/ call'[e].pc = "failed" /\ call'[e].w = call[e].w
         /\ \A w \in Workflows : InTable(w) /\ ~InTable(w)' => RowsOf(w) = {} /\ UNCHANGED <<call, exec>>
         /\ \A w \in Workflows : InTable(w)' => InTable(w)
<1> DEFINE Others ==
      /\ UNCHANGED run
      /\ \A e \in Calls : exec'[e] = exec[e] \/ (HasRow(e) /\ exec'[e] = "deleted")
      /\ \A e \in Calls :
           \/ call'[e] = call[e]
           \/ call[e].pc = "idle" /\ call'[e].pc \in {"check", "read"}
           \/ call'[e].pc = "failed" /\ call'[e].w = call[e].w
      /\ \A w \in Workflows : InTable(w) /\ ~InTable(w)' => RowsOf(w) = {} /\ UNCHANGED <<call, exec>>
      /\ \A w \in Workflows : InTable(w)' => InTable(w)
<1>0. call \in [Calls -> CallRecords] /\ clock \in Nat /\ faults \in Nat
  BY DEF ExecutionTypeOK, CallRecords, CallPCs
<1>1. ASSUME NEW e \in Calls, NEW w \in Workflows, TriggerFires(e, w) \/ ManualExecute(e, w)
      PROVE  ExecutionTypeOK' /\ Others
  <2>0. PICK pc \in {"check", "read"} :
          call' = [call EXCEPT ![e] = [pc |-> pc, w |-> w, ms |-> 0]]
    BY <1>1 DEF TriggerFires, ManualExecute
  <2> DEFINE c == [pc |-> pc, w |-> w, ms |-> 0]
  <2>1. c \in CallRecords /\ call' = [call EXCEPT ![e] = c]
        /\ c.pc \in {"check", "read"} /\ c.w = w
    BY <2>0 DEF CallRecords, CallPCs
  <2> HIDE DEF c
  <2>2. call[e].pc = "idle" /\ UNCHANGED <<status, deleting, exec, run, clock, faults>>
    BY <1>1 DEF TriggerFires, ManualExecute, tables
  <2>3. call' \in [Calls -> CallRecords] /\ call'[e] = c
        /\ \A f \in Calls \ {e} : call'[f] = call[f]
    BY <1>0, <2>1
  <2>4. ExecutionTypeOK'
    BY <2>1, <2>2, <2>3 DEF ExecutionTypeOK, CallRecords, CallPCs
  <2>5. QED
    BY <2>1, <2>2, <2>3, <2>4 DEF InTable
<1>2. ASSUME NEW w \in Workflows, NEW s \in {"active", "inactive"}, SetActive(w, s)
      PROVE  ExecutionTypeOK' /\ Others
  BY <1>2 DEF SetActive, ExecutionTypeOK, InTable
<1>3. ASSUME NEW w \in Workflows, DeletionStarts(w) PROVE ExecutionTypeOK' /\ Others
  BY <1>3 DEF DeletionStarts, ExecutionTypeOK, InTable
<1>4. ASSUME NEW w \in Workflows, DeleteExecutions(w) PROVE ExecutionTypeOK' /\ Others
  BY <1>4 DEF DeleteExecutions, ExecutionTypeOK, InTable, RowsOf, HasRow
<1>5. ASSUME NEW w \in Workflows, DropRow(w) PROVE ExecutionTypeOK' /\ Others
  BY <1>5 DEF DropRow, ExecutionTypeOK, InTable
<1>6. CASE ServerCrash
  <2>1. /\ \A e \in Calls :
             \/ call'[e] = call[e]
             \/ call[e].pc # "idle" /\ call'[e] = [call[e] EXCEPT !.pc = "failed"]
        /\ DOMAIN call' = Calls /\ call' = [e \in Calls |-> call'[e]]
    BY <1>6 DEF ServerCrash
  <2>2. \A e \in Calls : call'[e] \in CallRecords /\ call'[e].w = call[e].w
                         /\ (call'[e] = call[e] \/ (call[e].pc # "idle" /\ call'[e].pc = "failed"))
    <3> TAKE e \in Calls
    <3>1. call[e] \in CallRecords
      BY <1>0
    <3>2. CASE call'[e] = call[e]
      BY <3>1, <3>2
    <3>3. CASE call[e].pc # "idle" /\ call'[e] = [call[e] EXCEPT !.pc = "failed"]
      BY <3>1, <3>3 DEF CallRecords, CallPCs
    <3>4. QED
      BY <2>1, <3>2, <3>3
  <2>3. call' \in [Calls -> CallRecords]
    BY <2>1, <2>2
  <2>4. /\ UNCHANGED <<status, exec, run, clock>> /\ faults' \in Nat
        /\ deleting' \in [Workflows -> {"no", "executions", "row"}]
    BY <1>0, <1>6 DEF ServerCrash
  <2>5. ExecutionTypeOK'
    BY <2>2, <2>3, <2>4 DEF ExecutionTypeOK, CallRecords, CallPCs
  <2>6. Others
    BY <2>2, <2>4 DEF InTable
  <2>7. QED
    BY <2>5, <2>6
<1>7. CASE Tick
  <2>1. clock' \in Nat /\ UNCHANGED <<status, deleting, exec, call, run, faults>>
    BY <1>0, <1>7 DEF Tick, tables
  <2>2. ExecutionTypeOK'
    BY <2>1 DEF ExecutionTypeOK
  <2>3. QED
    BY <2>1, <2>2 DEF InTable
<1>8. QED
  BY <1>1, <1>2, <1>3, <1>4, <1>5, <1>6, <1>7 DEF DeleteStep

-----------------------------------------------------------------------------
(* The invariant is inductive: one step per kind of action.                *)

LEMMA InvInit == ExecutionInit => IInv
<1> SUFFICES ASSUME ExecutionInit PROVE IInv
  OBVIOUS
<1> USE ExecutionAssumption, IdAssumption
<1>1. NoRun \in RunRecords /\ AttemptsSpent(NoRun)
  BY DEF NoRun, RunRecords, AttemptsSpent
<1>2. ExecutionTypeOK
  BY <1>1 DEF ExecutionInit, ExecutionTypeOK, RunRecords
<1>3. Progress /\ RowsMatchRuns /\ NoOrphanRows /\ AttemptsAccounted
  BY <1>1 DEF ExecutionInit, Progress, RowsMatchRuns, NoOrphanRows, AttemptsAccounted,
       Started, NoRun, RowsOf, HasRow
<1>4. QED
  BY <1>2, <1>3 DEF IInv

\* A step of the worker: the runs it touches were started and stay so.
LEMMA WorkerKeepsInv ==
  ASSUME IInv, NEW e \in Calls, Worker(e) \/ RunTimesOut(e)
  PROVE  IInv'
<1>1. /\ run' \in [Calls -> RunRecords]
      /\ \A f \in Calls : Started(f)' <=> Started(f)
      /\ \A f \in Calls : ~Started(f) => run'[f] = run[f]
      /\ \A f \in Calls : AttemptsSpent(run[f]) => AttemptsSpent(run'[f])
      /\ UNCHANGED <<status, deleting, exec, call, clock, faults>>
  BY WorkerFrame DEF IInv, tables
<1>2. ExecutionTypeOK'
  BY <1>1 DEF IInv, ExecutionTypeOK, RunRecords
<1>3. Progress' /\ RowsMatchRuns'
  BY <1>1 DEF IInv, Progress, RowsMatchRuns
<1>4. NoOrphanRows'
  BY <1>1 DEF IInv, NoOrphanRows, InTable, RowsOf, HasRow
<1>5. AttemptsAccounted'
  BY <1>1 DEF IInv, AttemptsAccounted
<1>6. QED
  BY <1>2, <1>3, <1>4, <1>5 DEF IInv

\* A step of a call: the run starts before the row is inserted, and the foreign
\* key refuses the row of a workflow that is gone.
LEMMA CallKeepsInv ==
  ASSUME IInv, NEW e \in Calls, CallStep(e) \/ CallFails(e)
  PROVE  IInv'
<1> USE CallFrame DEF IInv
<1>1. NewRun \in RunRecords /\ AttemptsSpent(NewRun) /\ NewRun.state = "open"
  <2>1. /\ NoRun \in RunRecords
        /\ NoRun.attempts = 0 /\ NoRun.waiting = FALSE /\ NoRun.stray = 0 /\ NoRun.effects = 0
    BY DEF NoRun, RunRecords
  <2>2. /\ NewRun \in RunRecords /\ NewRun.state = "open"
        /\ NewRun.attempts = 0 /\ NewRun.waiting = FALSE /\ NewRun.stray = 0 /\ NewRun.effects = 0
    BY <2>1 DEF NewRun, RunRecords
  <2>3. QED
    BY <2>2, ExecutionAssumption DEF AttemptsSpent
<1>2. run \in [Calls -> RunRecords] /\ run' \in [Calls -> RunRecords]
  <2>1. run \in [Calls -> RunRecords]
    BY DEF ExecutionTypeOK, RunRecords
  <2>2. UNCHANGED run \/ run' = [run EXCEPT ![e] = NewRun]
    OBVIOUS
  <2>3. QED
    BY <1>1, <2>1, <2>2
<1>3. exec \in [Calls -> {"none", "running", "deleted"}]
  BY DEF ExecutionTypeOK
<1>4. ExecutionTypeOK'
  <2>1. exec' \in [Calls -> {"none", "running", "deleted"}]
    BY <1>3
  <2>2. \A f \in Calls : call'[f].pc # "idle" => call'[f].w \in Workflows
    BY DEF ExecutionTypeOK
  <2>3. /\ call' \in [Calls -> CallRecords] /\ UNCHANGED <<status, deleting, clock>>
        /\ faults' \in {faults, faults + 1}
    OBVIOUS
  <2>4. faults' \in Nat
    <3>1. faults \in Nat
      BY DEF ExecutionTypeOK
    <3>2. QED
      BY <2>3, <3>1
  <2>5. QED
    BY <1>2, <2>1, <2>2, <2>3, <2>4 DEF ExecutionTypeOK, RunRecords, CallRecords, CallPCs
<1>5. \A f \in Calls \ {e} : exec'[f] = exec[f] /\ run'[f] = run[f] /\ call'[f] = call[f]
  BY <1>2, <1>3
<1>6. Progress' /\ RowsMatchRuns'
  <2>1. ASSUME NEW f \in Calls \ {e}
        PROVE  /\ call'[f].pc \in {"idle", "check", "read", "start"} => exec'[f] = "none"
               /\ call'[f].pc = "insert" => run'[f].state # "none"
               /\ run'[f].state = "none" => run'[f] = NoRun
               /\ exec'[f] # "none" => run'[f].state # "none"
               /\ run'[f].state # "none" /\ exec'[f] = "none"
                    => call'[f].pc \in {"insert", "failed"}
    BY <1>5 DEF Progress, RowsMatchRuns, Started
  <2>2. /\ call'[e].pc \in {"idle", "check", "read", "start"} => exec'[e] = "none"
        /\ call'[e].pc = "insert" => run'[e].state # "none"
        /\ run'[e].state = "none" => run'[e] = NoRun
        /\ exec'[e] # "none" => run'[e].state # "none"
        /\ run'[e].state # "none" /\ exec'[e] = "none"
             => call'[e].pc \in {"insert", "failed"}
    BY <1>1, <1>2, <1>3 DEF Progress, RowsMatchRuns, Started
  <2>3. QED
    BY <2>1, <2>2 DEF Progress, RowsMatchRuns, Started
<1>7. NoOrphanRows'
  BY <1>3, <1>5 DEF NoOrphanRows, RowsOf, HasRow, InTable
<1>8. AttemptsAccounted'
  BY <1>1, <1>2 DEF AttemptsAccounted
<1>9. QED
  BY <1>4, <1>6, <1>7, <1>8

\* The other steps: a workflow goes only when no execution row refers to it.
LEMMA OtherKeepsInv ==
  ASSUME IInv,
         \/ \E e \in Calls, w \in Workflows : TriggerFires(e, w) \/ ManualExecute(e, w)
         \/ \E w \in Workflows :
              \/ \E s \in {"active", "inactive"} : SetActive(w, s)
              \/ DeletionStarts(w) \/ DeleteStep(w)
         \/ ServerCrash
         \/ Tick
  PROVE  IInv'
<1> USE OtherFrame DEF IInv
<1>1. ExecutionTypeOK'
  OBVIOUS
<1>2. Progress' /\ RowsMatchRuns'
  BY DEF Progress, RowsMatchRuns, Started, HasRow
<1>3. NoOrphanRows'
  BY DEF NoOrphanRows, RowsOf, HasRow, Progress
<1>4. AttemptsAccounted'
  BY DEF AttemptsAccounted
<1>5. QED
  BY <1>1, <1>2, <1>3, <1>4

LEMMA InvStep == IInv /\ [ExecutionNext]_executionVars => IInv'
<1> SUFFICES ASSUME IInv, [ExecutionNext]_executionVars PROVE IInv'
  OBVIOUS
<1>1. CASE UNCHANGED executionVars
  BY ZenonT(60), <1>1 DEF executionVars, IInv, ExecutionTypeOK, Progress, RowsMatchRuns, NoOrphanRows,
       AttemptsAccounted, Started, HasRow, InTable, RowsOf
<1>2. CASE ExecutionNext
  BY <1>2, WorkerKeepsInv, CallKeepsInv, OtherKeepsInv DEF ExecutionNext
<1>3. QED
  BY <1>1, <1>2

-----------------------------------------------------------------------------
(* The theorems.                                                           *)

LEMMA Invariance == ExecutionSpec => []IInv
  BY InvInit, InvStep, PTL DEF ExecutionSpec

\* The variables keep their types.
THEOREM ExecutionTypes == ExecutionSpec => []ExecutionTypeOK
<1>1. IInv => ExecutionTypeOK
  BY DEF IInv
<1>2. QED
  BY <1>1, Invariance, PTL

\* The execution log and the runs agree: executeWorkflow starts the run before it
\* inserts the row, and reports the call when it cannot insert.
THEOREM LogMatchesRuns == ExecutionSpec => []RowsMatchRuns
<1>1. IInv => RowsMatchRuns
  BY DEF IInv
<1>2. QED
  BY <1>1, Invariance, PTL

\* deleteWorkflow never leaves an execution row whose workflow is gone.
THEOREM NoOrphans == ExecutionSpec => []NoOrphanRows
<1>1. IInv => NoOrphanRows
  BY DEF IInv
<1>2. QED
  BY <1>1, Invariance, PTL

\* However attempts time out, crash or outlive their run, one event has at most
\* as many effects as the retry policy of automation.workflow.ts has attempts.
THEOREM EffectsWithinRetries == ExecutionSpec => []EffectsBounded
<1>1. IInv => EffectsBounded
  <2> SUFFICES ASSUME IInv, NEW e \in Calls PROVE run[e].effects <= MaxAttempts
    BY DEF EffectsBounded
  <2>1. run[e] \in RunRecords /\ AttemptsSpent(run[e])
    BY DEF IInv, ExecutionTypeOK, RunRecords, AttemptsAccounted
  <2>2. /\ run[e].effects \in Nat /\ run[e].stray \in Nat /\ run[e].attempts \in Nat
        /\ run[e].waiting \in BOOLEAN /\ MaxAttempts \in Nat
    BY <2>1, ExecutionAssumption DEF RunRecords
  <2>3. QED
    BY <2>1, <2>2 DEF AttemptsSpent
<1>2. QED
  BY <1>1, Invariance, PTL
=============================================================================
