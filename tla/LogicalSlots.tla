---------------------------- MODULE LogicalSlots ----------------------------
(***************************************************************************)
(* Permanent logical slots on a replica.  PostgreSQL does not replicate    *)
(* logical slots: Patroni copies the file of a slot from the primary       *)
(* (copy_logical_slots, with the server stopped), moves the copy with what *)
(* the primary publishes in /status (SlotsAdvanceThread), and tells when   *)
(* the copy may be used after a failover: when the catalog rows it needs   *)
(* are held back on the primary by the slot that the replica streams from. *)
(*                                                                         *)
(* One number stands for a position in the WAL and for the transactions up *)
(* to it: confirmed_flush_lsn and catalog_xmin of a slot move together.  A *)
(* failure of the thread otherwise only has the slots loaded again, which  *)
(* every cycle of this model does.                                         *)
(***************************************************************************)
EXTENDS Integers, FiniteSets, FiniteSetsExt

CONSTANTS Slots,          \* names of the permanent logical slots
          PromptFeedback, \* a replica that starts reports its slots before its next cycle
          MaxPos,         \* bound: WAL positions
          MaxChanges,     \* bound: changes of permanent_slots
          MaxThreadFaults \* bound: advances for which the WAL is gone

NoPos == 0
Pos == 1..MaxPos
Unknown == -1            \* in the queue, with nothing known of the primary's slot
NotQueued == -2

VARIABLES config,     \* permanent_slots of the dynamic configuration
          published,  \* slots in /status
          walEnd,     \* the end of the primary's WAL
          primary,    \* the logical slots of the primary: their positions, or None
          vacuumed,   \* catalog rows of transactions below are removed on the primary
          feedback,   \* catalog_xmin of the replica's physical slot on the primary, or None
          replay,     \* replay_lsn of the replica
          standby,    \* the logical slots of the replica
          running,    \* PostgreSQL of the replica runs
          reported,   \* it has reported its slots since it started
          force,      \* _force_readiness_check
          queue,      \* _logical_slots_processing_queue
          scheduled,  \* SlotsAdvanceThread: _scheduled
          copySlots,  \* _copy_slots
          advancing,  \* the slot that the thread works on and its target
          task,       \* copy_logical_slots: step, and the slots to copy
          promoted,
          changes, threadFaults

primaryVars == <<config, published, walEnd, primary, vacuumed, changes>>
replicaVars == <<feedback, replay, standby, running, reported>>
threadVars == <<scheduled, copySlots, advancing>>
logicalVars == <<primaryVars, replicaVars, threadVars, force, queue, task, promoted, threadFaults>>

Nothing == [l \in Slots |-> NoPos]
Have(s) == {l \in Slots : s[l] # NoPos}
Idle == [step |-> "idle", slots |-> Nothing]

LogicalInit ==
  /\ config \in SUBSET Slots
  /\ walEnd = 1 /\ vacuumed = 1 /\ replay = 1
  /\ primary = [l \in Slots |-> IF l \in config THEN 1 ELSE NoPos]
  /\ published = Nothing /\ standby = Nothing
  /\ feedback = NoPos
  /\ running = TRUE /\ reported = TRUE /\ force = TRUE
  /\ queue = [l \in Slots |-> NotQueued]
  /\ scheduled = Nothing /\ copySlots = {} /\ advancing = <<>>
  /\ task = Idle /\ promoted = FALSE /\ changes = 0 /\ threadFaults = 0

-----------------------------------------------------------------------------
(* The primary. *)

WriteWal ==
  /\ ~promoted /\ walEnd < MaxPos
  /\ walEnd' = walEnd + 1
  /\ UNCHANGED <<config, published, primary, vacuumed, changes, replicaVars, threadVars, force,
                 queue, task, promoted, threadFaults>>

\* A consumer confirms what it has received.
Consume(l) ==
  /\ ~promoted /\ l \in Have(primary) /\ primary[l] < walEnd
  /\ primary' = [primary EXCEPT ![l] = @ + 1]
  /\ UNCHANGED <<config, published, walEnd, vacuumed, changes, replicaVars, threadVars, force,
                 queue, task, promoted, threadFaults>>

\* Vacuum removes what no slot holds back.
Vacuum ==
  LET horizon == Min({walEnd} \cup {primary[l] : l \in Have(primary)} \cup ({feedback} \ {NoPos})) IN
  /\ ~promoted /\ vacuumed < horizon
  /\ vacuumed' = horizon
  /\ UNCHANGED <<config, published, walEnd, primary, changes, replicaVars, threadVars, force,
                 queue, task, promoted, threadFaults>>

\* The configuration is patched.
Configure(l) ==
  /\ ~promoted /\ changes < MaxChanges
  /\ config' = IF l \in config THEN config \ {l} ELSE config \cup {l}
  /\ changes' = changes + 1
  /\ UNCHANGED <<published, walEnd, primary, vacuumed, replicaVars, threadVars, force,
                 queue, task, promoted, threadFaults>>

\* A cycle of the primary: update_leader publishes the slots that are permanent (process_permanent_slots,
\* slots), then the others are dropped and the missing ones created (_ensure_logical_slots_primary).
PrimaryCycle ==
  /\ ~promoted
  /\ published' = primary
  /\ primary' = [l \in Slots |-> IF l \notin config THEN NoPos ELSE IF primary[l] = NoPos THEN walEnd ELSE primary[l]]
  /\ UNCHANGED <<config, walEnd, vacuumed, changes, replicaVars, threadVars, force, queue, task, promoted, threadFaults>>

-----------------------------------------------------------------------------
(* PostgreSQL of the replica. *)

Replay ==
  /\ running /\ ~promoted /\ replay < walEnd
  /\ replay' = walEnd
  /\ UNCHANGED <<primaryVars, feedback, standby, running, reported, threadVars, force,
                 queue, task, promoted, threadFaults>>

\* hot_standby_feedback: the physical slot takes the oldest catalog_xmin of the replica's slots.
Feedback ==
  /\ running /\ ~promoted
  /\ feedback' = IF Have(standby) = {} THEN NoPos ELSE Min({standby[l] : l \in Have(standby)})
  /\ reported' = TRUE
  /\ UNCHANGED <<primaryVars, replay, standby, running, threadVars, force, queue, task, promoted, threadFaults>>

-----------------------------------------------------------------------------
(* SlotsAdvanceThread *)

\* clean
CleanThread == scheduled' = Nothing /\ copySlots' = {}

\* sync_slots, sync_slots_in_database: the target is read under the lock ...
PickSlot(l) ==
  /\ advancing = <<>> /\ l \in Have(scheduled)
  /\ advancing' = <<l, scheduled[l]>>
  /\ UNCHANGED <<primaryVars, replicaVars, scheduled, copySlots, force, queue, task, promoted, threadFaults>>

\* ... and after the call the schedule is looked at again: what has changed stays.
Reconcile(l, lsn, copy) ==
  /\ copySlots' = IF copy /\ scheduled # Nothing THEN copySlots \cup {l} ELSE copySlots
  /\ scheduled' = IF copy \/ scheduled[l] = lsn THEN [scheduled EXCEPT ![l] = NoPos] ELSE scheduled
  /\ advancing' = <<>>

\* sync_slot: pg_replication_slot_advance succeeds, asks for a position before that of the slot, or
\* fails because the slot or the server is not there, or because the WAL is gone.
SyncSlot ==
  /\ advancing # <<>>
  /\ LET l == advancing[1] lsn == advancing[2] there == running /\ l \in Have(standby) IN
       \/ /\ there /\ standby[l] <= lsn
          /\ standby' = [standby EXCEPT ![l] = Min({lsn, replay})]
          /\ Reconcile(l, lsn, FALSE)
          /\ UNCHANGED threadFaults
       \/ /\ there /\ standby[l] > lsn
          /\ Reconcile(l, lsn, TRUE)
          /\ UNCHANGED <<standby, threadFaults>>
       \/ /\ there /\ threadFaults < MaxThreadFaults
          /\ threadFaults' = threadFaults + 1
          /\ Reconcile(l, lsn, TRUE)
          /\ UNCHANGED standby
       \/ /\ ~there
          /\ Reconcile(l, lsn, FALSE)
          /\ UNCHANGED <<standby, threadFaults>>
  /\ UNCHANGED <<primaryVars, feedback, replay, running, reported, force, queue, task, promoted>>

\* schedule: take over the targets, hand out what was found to need a copy.
Schedule(targets) ==
  /\ scheduled' = [l \in Slots |-> IF targets[l] # NoPos /\ l \notin copySlots THEN targets[l] ELSE scheduled[l]]
  /\ copySlots' = {}
  /\ UNCHANGED advancing

-----------------------------------------------------------------------------
(* sync_replication_slots of the replica. *)

\* load_replication_slots after a start: all slots have to be checked.
LoadedQueue == [l \in Slots |-> IF ~force THEN queue[l] ELSE IF standby[l] # NoPos THEN Unknown ELSE NotQueued]

\* _update_pending_logical_slot_primary: what the primary's slots are when the physical one is valid
UpdatePending(q) == [l \in Slots |-> IF q[l] = Unknown /\ primary[l] # NoPos THEN primary[l] ELSE q[l]]

\* Mutant: the physical slot need not have reached the primary's slot.
IsReadyEarly(q, l, there) == ~there \/ (feedback # NoPos /\ feedback <= standby[l])

\* Mutant: it must have got past the primary's slot.
IsReadyStrictly(q, l, there) == ~there \/ (feedback # NoPos /\ q[l] < feedback /\ feedback <= standby[l])

\* _ready_logical_slots
IsReady(q, l, there) == ~there \/ (feedback # NoPos /\ q[l] <= feedback /\ feedback <= standby[l])

\* check_logical_slots_readiness; a slot that the primary does not have (yet) cannot be compared.
CheckReadiness(q, there) ==
  LET known == UpdatePending(q)
      queued == {l \in Slots : q[l] # NotQueued}
      ready == {l \in queued : IsReady(known, l, l \in there)}
      broken == \E l \in queued : known[l] = Unknown /\ l \in there
  IN IF queued # {} /\ feedback = NoPos THEN [ok |-> TRUE, queue |-> q]
     ELSE [ok |-> ~broken,
           queue |-> IF broken THEN known
                     ELSE [l \in Slots |-> IF l \in ready THEN NotQueued ELSE known[l]]]

\* Mutant: the position in /status is not looked at.
TargetReplay(l) == IF standby[l] < replay THEN replay ELSE NoPos

\* _ensure_logical_slots_replica: not beyond what the consumer has confirmed and this node has replayed
Target(l) ==
  LET to == Min({published[l], replay}) IN IF published[l] # NoPos /\ standby[l] < to THEN to ELSE NoPos

\* A cycle, unless the executor is busy.
ReplicaCycle ==
  LET there == Have(standby) \cap config
      checked == CheckReadiness(LoadedQueue, there)
      create == {l \in config \ there : published[l] # NoPos}
  IN
  /\ running /\ ~promoted /\ task.step = "idle" /\ (PromptFeedback => reported)
  /\ standby' = [l \in Slots |-> IF l \in config THEN standby[l] ELSE NoPos]
  /\ force' = FALSE
  /\ queue' = checked.queue
  /\ IF checked.ok
     THEN /\ Schedule([l \in Slots |-> IF l \in there THEN Target(l) ELSE NoPos])
          /\ task' = IF create \cup copySlots = {} THEN Idle
                     ELSE [step |-> "read", slots |-> [l \in Slots |-> IF l \in create \cup copySlots THEN 1 ELSE NoPos]]
     ELSE UNCHANGED <<threadVars, task>>
  /\ UNCHANGED <<primaryVars, feedback, replay, running, reported, promoted, threadFaults>>

-----------------------------------------------------------------------------
(* copy_logical_slots, run by the executor. *)

CopyRead ==
  LET copy == [l \in Slots |-> IF task.slots[l] # NoPos /\ l \in config THEN primary[l] ELSE NoPos] IN
  /\ task.step = "read" /\ ~promoted
  /\ task' = IF copy = Nothing THEN Idle ELSE [step |-> "stop", slots |-> copy]
  /\ UNCHANGED <<primaryVars, replicaVars, threadVars, force, queue, promoted, threadFaults>>

CopyStop ==
  /\ task.step = "stop" /\ running
  /\ running' = FALSE
  /\ task' = [task EXCEPT !.step = "write"]
  /\ UNCHANGED <<primaryVars, feedback, replay, standby, reported, threadVars, force, queue, promoted, threadFaults>>

\* The files are written and the server is started, which has all slots checked again.
CopyWrite ==
  /\ task.step = "write"
  /\ CleanThread
  /\ standby' = [l \in Slots |-> IF task.slots[l] # NoPos THEN task.slots[l] ELSE standby[l]]
  /\ queue' = [l \in Slots |-> IF task.slots[l] # NoPos THEN Unknown ELSE queue[l]]
  /\ running' = TRUE /\ reported' = FALSE /\ force' = TRUE
  /\ task' = Idle
  /\ UNCHANGED <<primaryVars, feedback, replay, advancing, promoted, threadFaults>>

\* on_promote
PromoteReplica ==
  /\ running /\ ~promoted /\ task.step = "idle"
  /\ promoted' = TRUE
  /\ CleanThread
  /\ UNCHANGED <<primaryVars, replicaVars, advancing, force, queue, task, threadFaults>>

LogicalNext ==
  \/ WriteWal \/ Vacuum \/ PrimaryCycle \/ Replay \/ Feedback \/ SyncSlot
  \/ ReplicaCycle \/ CopyRead \/ CopyStop \/ CopyWrite \/ PromoteReplica
  \/ \E l \in Slots : Consume(l) \/ Configure(l) \/ PickSlot(l)

Fairness ==
  /\ WF_logicalVars(PrimaryCycle) /\ WF_logicalVars(Replay) /\ WF_logicalVars(Feedback) /\ WF_logicalVars(SyncSlot)
  /\ WF_logicalVars(ReplicaCycle) /\ WF_logicalVars(CopyRead) /\ WF_logicalVars(CopyStop) /\ WF_logicalVars(CopyWrite)
  /\ \A l \in Slots : WF_logicalVars(Consume(l)) /\ WF_logicalVars(PickSlot(l))

LogicalSpec == LogicalInit /\ [][LogicalNext]_logicalVars /\ Fairness

-----------------------------------------------------------------------------
LogicalTypeOK ==
  /\ config \subseteq Slots
  /\ walEnd \in Pos /\ vacuumed \in Pos /\ replay \in Pos /\ replay <= walEnd
  /\ published \in [Slots -> Pos \cup {NoPos}] /\ primary \in [Slots -> Pos \cup {NoPos}]
  /\ standby \in [Slots -> Pos \cup {NoPos}] /\ scheduled \in [Slots -> Pos \cup {NoPos}]
  /\ feedback \in Pos \cup {NoPos}
  /\ queue \in [Slots -> Pos \cup {Unknown, NotQueued}]
  /\ copySlots \subseteq Slots
  /\ \A l \in Have(primary) : primary[l] <= walEnd
  /\ task.step \in {"idle", "read", "stop", "write"} /\ (running <=> task.step # "write")

\* The copy of a slot never gets ahead of its consumer, who would miss changes after a failover,
\* whatever the thread still works on when slots are copied anew.
NeverAhead == \A l \in Have(standby) \cap Have(primary) : standby[l] <= primary[l]

\* A slot of the replica that Patroni has called safe to use after a failover has its catalog rows:
\* none of them has been removed on the primary.
ReadyIsSafe == \A l \in Have(standby) : ~force /\ queue[l] = NotQueued => vacuumed <= standby[l]

\* When consumers keep up, every permanent slot is in the end on the replica, and safe to use.
EventuallyReady ==
  <>[](promoted \/ \A l \in config : standby[l] # NoPos /\ ~force /\ queue[l] = NotQueued)
=============================================================================
