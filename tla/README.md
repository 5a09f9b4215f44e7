# Verification project for AREA

AREA is an automation platform: a user builds a *workflow*, one trigger ("an
email arrives") and one action ("send a message"), and each event of the trigger
runs the action once. The repository holds three kinds of programs: the backend
(a NestJS server and a Temporal worker), the web and mobile clients, and the
database image, which carries Patroni, the program that keeps a PostgreSQL
cluster with one primary at a time (`src/database/postgresql/patroni`, Python).

Patroni is where most of the protocols of this repository are, and most of this
project is about it. Two modules are about the backend. Everything is written in
TLA+, checked with TLC on small instances, and the central invariants are proved
with TLAPS for every value of the constants. Paths below are relative to
`src/database/postgresql/patroni/` unless they begin with `backend/`.

## 1. The system

    DCS (etcd, etcd v3, Consul, ZooKeeper, Raft, Kubernetes)
      /leader  /status  /sync  /config  /failover  /history  /failsafe  /members/*
         ^          ^           ^                     HTTP between the REST APIs
         |          |           |                     (peers, patronictl, operators)
    +----+----------+-----------+-----------------------------+---------------+
    | Patroni:  HA loop (Ha.run_cycle)      REST API threads (api.py)         |
    |           AsyncExecutor threads       Citus thread    slots thread      |
    |           watchdog device             cache of the dynamic configuration|
    +------------------------------+------------------------------------------+
                                   v
    PostgreSQL: postmaster, data directory, slots, synchronous_standby_names

Every node runs one Patroni over one PostgreSQL. Its HA loop reads the DCS every
`loop_wait` seconds, decides, writes the DCS with compare-and-set requests, and
hands what takes long to a thread. Nodes talk through the DCS, through each
other's REST APIs before a leader race, and through streaming replication. Any of
them may crash, hang, be cut off, or see old data.

### Inventory

| component | state | operations | hard because | what makes it correct |
|---|---|---|---|---|
| HA loop (`ha.py`) | view of the DCS, role, task | cycle, leader race, promotion, demotion, switchover, failover, pause, failsafe mode | decisions on views that are old when they take effect; crashes between any two steps | one primary; who is elected lacks little; a switchover loses nothing; the key is held again |
| leader key (`dcs/*.py`) | key, session or lease, cache | attempt_to_acquire_leader, update_leader, delete_leader | lost requests and answers, stale replicas, expiring leases | one client trusts at a time that it holds the key |
| synchronous replication (`quorum.py`, `postgresql/sync.py`) | /sync, synchronous_standby_names | the resolver's transitions, choice of standbys | two stores changed one after the other; failover in between | an acknowledged commit is in the WAL of every later leader |
| tasks of a node (`async_executor.py`, `postgresql/cancellable.py`) | executor, critical tasks, child process, data directory | run, cancel, start, promote, rewind, copy | four kinds of threads and one directory | one writer of the directory; what was called off stays so; shutdown ends |
| member slots (`postgresql/slots.py`) | physical slots, /status | create, move, drop | the leader changes, keys expire | a member that is away finds its WAL |
| logical slots (same) | copies on replicas | copy, advance, readiness | three values of xmin read at three times | a copy is never ahead and is safe when it is called ready |
| Citus metadata (`postgresql/mpp/citus.py`) | task queue, transaction, pg_dist_node | task, deadline, commit, rollback | REST requests hold a transaction open | rows name leaders; no pause is committed |
| watchdog (`watchdog/*.py`) | device, timeout, active configuration | activate, keepalive, reload, disable | races between two clocks | the host is reset before its key expires |
| dynamic configuration (`config.py`, `api.py`, `postgresql/config.py`) | /config, cache, pending_restart | PATCH, PUT, edit-config, reload, restart | shared dictionaries, partial reloads | valid values, no lost edit, convergence |
| bootstrap (`postgresql/bootstrap.py`) | /initialize | initdb, post_bootstrap, clone | crash in the middle | not modelled |
| rest of Patroni | - | health checks, metrics, files, transport, logging | - | not modelled |
| backend: workflow lifecycle | `workflows` rows, registration maps | create, update, activate, deactivate, delete, start-up | handlers interleave at each await, crashes | an active workflow is listened for |
| backend: workflow execution | audit rows, Temporal runs | trigger, attempts, retries, time-outs | two stores, retries of running attempts | rows and runs correspond, effects are bounded |
| backend: pollers, OAuth2, account deletion, webhooks, auth, catalogue; clients; deployment | - | - | - | not modelled |

`PROJECT.json` lists every component with its sources, and under `hazards` what
is hard to test in this code, line by line, with the properties that watch it.

## 2. The modules

| module | models | run | proofs |
|---|---|---|---|
| `HaCluster` | the HA loops of a cluster | `HaFailover`, `HaSwitchover` | `HaClusterProofs` |
| `LeaderLease` | abstract: a lease that one client trusts at a time | (as a property) | |
| `LeaderKey` | the six backends of the leader key | `LeaderKey` | `LeaderKeyProofs` |
| `QuorumResolver` | `QuorumStateResolver`, as a function from a state to a list of transitions | through the next | `SyncReplicationProofs` |
| `SyncReplication` | synchronous replication in both modes | `SyncQuorum` | `SyncReplicationProofs` |
| `NodeTasks` | the threads of one Patroni | `NodeTasks` | `NodeTasksProofs` |
| `MemberSlots` | slots of members | `MemberSlots` | `SlotsProofs` |
| `LogicalSlots` | copies of logical slots | `LogicalSlots` | `SlotsProofs` |
| `PgDistGroup` | the diff of two topologies of a Citus group | through the next | |
| `Citus` | the coordinator's thread and its queue | `Citus` | |
| `Watchdog` | the device against the key of its node | `Watchdog` | `WatchdogProofs` |
| `DynamicConfig` | /config and how nodes take it over | `DynamicConfig` | `DynamicConfigProofs` |
| `WorkflowLifecycle` | backend: handlers, registration maps, start-up | `LifecycleRaces` | `WorkflowProofs` |
| `WorkflowExecution` | backend: an event from trigger to effect | `ExecutionSafety` | `WorkflowProofs` |

`MC...` modules only give constants their values and state symmetries;
`WorkflowIds` declares the constants the two backend modules share. An
operator whose comment begins "Mutant" is a small bug to be put in the place of a
definition, to see that a property notices it; no specification uses one.

### How they fit together

The modules meet at assumptions that another module, or the environment, owes:

- `HaCluster` takes the key as atomic: `LeaderKey` shows for each backend that
  requests, answers, caches and leases amount to `LeaderLease`.
- `HaCluster` takes it that the watchdog fires before the key or the failsafe
  record of a silent node expires: `Watchdog` shows when that is so.
- `SyncReplication` takes one holder of the leader key at a time: `HaCluster`.
- `HaCluster` abstracts a promotion, start or rewind to a task that ends or
  fails: `NodeTasks` has its threads. What `NodeTasks` calls a lost key is any
  step of `HaCluster` after which the key is another's.
- `MemberSlots`, `LogicalSlots` and `Citus` take leaders as given and let them
  change at any moment.

### How state and actions correspond to the code

*HaCluster.* `view[n]` is the `Cluster` object of the cycle, which `pc[n]` cuts
where it calls out: `cycle` (loaded), `race` (peers asked, key not yet
attempted), `won` (key taken, not yet acted on), `failsafe`. `task[n]` is what the
executor does. Time is the order of deadlines: `KeyExpires`, `FsExpires`,
`WatchdogFires` are guarded by what must have come before. `asked` are the peers
whose `/patroni` answers a race rests on.

*LeaderKey.* `srv` is the server's key with its history, leases and revision;
`cl[c]` a client with the call in progress (`pc`), what it saw, the request that
may be lost, `last`, the ticks since it renewed its lease, and `since`, how much of
its ttl the answer has used up that last told it that it leads. One operator per call and
backend gives the next state of server and client for the next request. etcd v3 and Consul
renew a lease in touch_member and in an acquisition only when it is older than loop_wait
(`RefreshIfOld`), in an update always; the watch between two cycles makes the next one renew
(`Watched`). So an acquisition is counted as loop_wait old (`Age`). `Trusting` are the
clients with `since < TTL`.

*SyncReplication, QuorumResolver.* A WAL is the sequence of the timelines of its
records. `key` is /sync, `ssn` is synchronous_standby_names, `todo` what the
resolver has still to yield. `Apply...` carries one transition out; a failover, a
lost connection or a refused write may come in between. `acked` are the commits
that clients were told of, also by a fresh primary that /sync does not name yet. Unless
`EveryAck`, four things are dropped from it, all of which the code may lose (section 5): when other
standbys are waited for, what enough of those do not have (`StillAcked`); when synchronous_mode is
set to on, what not all of /sync have (`HeldBy` in `Configure`), and what is acknowledged from then
on until a leader has acted on it (`switched`); when the owner of /sync wins without votes although
another node was promoted after it, what it lacks (`Outdated`). `Unwaited` says whether what was
committed while nobody was waited for counts. There is one `mode`, which all nodes see at once,
and `Configure` waits for the end of a cycle (`todo = <<>>`): ha.py loads the configuration when a
cycle begins.

*NodeTasks.* `exec` is the `AsyncExecutor`, `sub` the `CancellableSubprocess`,
`crit` and `resp` its critical task and the HA loop's `_async_response`, `thr[t]`
the task of a thread and the step it is at. A cycle of the HA loop holds the
executor's lock (`LockFree`) and is one step, except where it waits. `cut` and
`by` are history variables: the tasks called off, and who started or promoted the
postmaster.

*MemberSlots.* `slot[n][m]` is the position of m's slot on n, `status` what the
leader wrote to /status, `age` the leader's `_last_retain_slots`. `away` is a history
variable: the time since a leader last saw the member together with a slot of
it. Both count units of member_slots_ttl.

*LogicalSlots.* `primary`, `standby`, `published`, `scheduled`, `queue` are the
positions of a slot in the places the code keeps them; `copySlots` those to be
copied; the queue holds the catalog_xmin that a copy waits for.

*Citus, PgDistGroup.* `tasks` is the queue, `cache` the `_pg_dist_group` the thread
believes in, `db` the committed rows and `work` those of the open transaction.
`net` are REST requests under way, `loaded` what heartbeats of the coordinator have made of
a cluster that has changed since they loaded it: `SyncMetaData` calls `add_task` with that
(`ha.py:1138` passes `self.cluster`). `misled` is a history variable: the groups whose
cached rows a rolled-back transaction has left without a primary (section 5).

*Watchdog.* `key` and `hw[d].left` count down to the expiry of the key and to the
reset, `agreed` to the moment when the first member that agreed to the primary's
going on in failsafe mode may race (`_handle_dcs_error`: `UpdateFails`,
`MembersAsked`, `GoesOn`); `fds` are the open device files. `guarded` is a history
variable: the watchdog was activated to fire in time. Any process may be suspended
anywhere: nothing has to happen before time passes.

*DynamicConfig.* `conf[n]` is the `Config` object, `object[n]` the cluster that
`get_cluster` left in the DCS object, `shared[n]` who else holds the dictionary a
PATCH is changing, `timers`, `param`, `diff` what the reload of the DCS object,
watchdog and PostgreSQL has done. Two keys stand for all: the timeouts, which are
nested in nothing, and `max_connections`, which is nested and needs a restart.
`missed[n]` is a history variable that names why a node is not expected to have
taken a version over (section 5).

*WorkflowLifecycle.* A request is a record with a program counter and the values
it has read; one action is the stretch between two awaits. `row[w]`, `reg[t][w]`,
`registry`, `toLoad` are the table, the triggers' maps, the trigger registry and
the rest of the loader's loop. `DbFails` lets a statement fail with or without
having been applied.

*WorkflowExecution.* `call[e]`, `exec[e]`, `run[e]` are the call, the audit row and
the Temporal run of one event; `stray` attempts were given up and still run.

## 3. What the runs show

| run | properties | bounds | states |
|---|---|---|---|
| `HaFailover` | `SinglePrimary`, `BoundedLoss`, `LatestTimeline`, `KeyIsHeld` | 2 nodes, failsafe mode, 1 write, 2 faults, no request, no pause | 213 thousand |
| `HaSwitchover` | `TypeOK`, `SwitchoverKeepsWrites`, `PauseKeepsPrimary` | 2 nodes, 1 request, 1 pause, 1 fault, 2 of these together | 209 thousand |
| `SyncQuorum` | `TypeOK`, `NoAckedLoss`, `OverlapInForce`, `Settled` | 3 nodes, both modes and 1 change, from quorum to on, back, or to off, synchronous_node_count 1, commits that nobody was waited for count too, 2 faults, WAL of 2 | 3.54 million |
| `LeaderKey` | `TypeOK`, `Exclusive`, `LeaseSpec` | 2 clients, 4 backends, ttl 2, loop_wait 1, 3 or 4 writes of the key, 1 fault | 1.64 million |
| `NodeTasks` | `TypeOK`, `OneWriter`, `CalledOffStaysDown`, `ShutdownEnds` | 2 task threads and REST, 6 events | 163 thousand |
| `MemberSlots` | `WalIsRetained` | 3 nodes, 2 positions, ttl 1, 2 faults | 613 thousand |
| `LogicalSlots` | `NeverAhead`, `ReadyIsSafe`, `EventuallyReady` | 2 slots, 2 changes, 1 fault | 80 thousand |
| `Citus` | `PrimaryHasLed`, `NoPauseCommitted`, `LeaderShown` | 2 groups (1 and 3 hosts), 2 events | 599 thousand |
| `Watchdog` | `TypeOK`, `Fenced`, `FedByLeaders` | 2 devices, 5 configurations, failsafe mode | 562 thousand |
| `DynamicConfig` | `EffectiveIsValid`, `StandbyStarts`, `SaysSo`, `EditsAreKept`, `Converges` | 2 nodes, 2 edits, 1 event | 331 thousand |
| `LifecycleRaces` | `TypeOK`, `NoSilentlyDeadWorkflow`, `OnlyValidConfigsRun` | 1 workflow, 3 requests, 1 crash, 1 database error | |
| `ExecutionSafety` | `ExecutionTypeOK`, `RowsMatchRuns`, `NoOrphanRows`, `EffectsBounded` | 1 workflow, 2 calls, 2 attempts, 1 fault | |

All pass. Every property is stated, with the code it is about, next to its
definition. In words: at most one node accepts writes and it is the one that
holds the key or is about to be reset (`SinglePrimary`); whoever is promoted lacks
at most `maximum_lag_on_failover` of what the last leader published and is on its
timeline (`BoundedLoss`, `LatestTimeline`); after the faults are over the key is
held by a primary again and again (`KeyIsHeld`).

*Why the bounds are enough.* Two nodes are what a race, a handover or a split
needs; a third matters only where sets of nodes are compared, and
`SyncReplication` and `MemberSlots` have three. Two faults let a failover be
disturbed by a second one. A handover of the key takes three writes, four in the
backends whose owner rewrites it. Six events in `NodeTasks` are a request, a
loss of the key and a crash, and again while their consequences last. In `SyncQuorum` two faults and a change of the mode are
enough to lose a commit when `Configure` drops nothing; the loss through an `Outdated` winner
takes three stops, and changes of synchronous_node_count are left to the theorems. Where TLAPS
has proved a property (section 4) bounds do not matter.

Deadlock is not checked: each system may rest, at its bounds, with the process
gone, or with everything done.

### Fairness

`HaCluster`: a Patroni that runs keeps cycling, its tasks end, replication goes
on, expired keys and records are noticed, an armed watchdog of a dead Patroni
fires, and an operator restarts and reconnects nodes in the end; nothing is
assumed of clients, requests or faults. `NodeTasks`: threads, programs and a
postmaster that starts go on; nothing obliges the HA loop to begin a cycle.
`LogicalSlots`: cycles, replay, feedback and the consumers go on. `Citus`: the
thread runs unless it waits for a task, a held transaction meets its deadline, a stopped
coordinator is promoted and its metadata synced (`Proceeds`, which states weak fairness
without ENABLED), the HA loop of the coordinator calls `sync_meta_data` for each group. `DynamicConfig`: the main
loop goes on, PostgreSQL starts, an operator restarts nodes that ask for it,
requests are answered, and WAL is replayed (strong: a standby may stop and start
in between). The other modules state safety only and assume no fairness.

## 4. What is proved

Theorems hold for every value of the constants that meets the named assumptions:
any number of nodes, clients, threads, requests, faults, any ttl. Every proof has
the same shape: an inductive invariant, which TLC was asked about first on the
run's instance; lemmas about the operators steps are made of; one step for each
action; the temporal step by `PTL`.

### HA loop (`HaClusterProofs`)

`TypeCorrect` has no hypothesis. `AtMostOnePrimary` (`Spec => []SinglePrimary`)
assumes `MaxPauses = 0`, because in pause Patroni leaves every primary alone by
design and two may run, and `~QuickRestart` (section 5). It covers failsafe mode and
its absence, nodes without a watchdog, nofailover, requests, and any number of
nodes and faults. "At most one primary" says nothing about the nodes that are
about to become one, so the invariant `IInv` has for every node
- `Fenced`: a primary has a watchdog that runs and either holds the key or has the
  agreement of its peers; a task that ends in a primary runs only on a holder;
- `Knows`: what each point of a cycle may believe of the key is still so: who is in
  the race does not hold it, who has won does, and a cycle that saw itself as the
  owner has not lost it unnoticed;
- `Alone`: while a primary outlives its key, every other node has it in its
  failsafe record, none outlives a key of its own, and once the key has expired
  none is on its way to take it;
- `Polls`: a poll of the peers is the only one, and those who agreed remember it.

`ElectedLacksLittle` and `ElectedHasLatestTimeline` (`BoundedLoss` and `LatestTimeline`) add
two hypotheses. `MaxRequests = 0`: a manual failover may elect a node however far it
lags, and such a leader may lose the key and win it back before it has published
anything. `[][RaceEnds]_vars`: no key is given up while another node is between
reading a cluster without a leader and trying to take the key. The cycle compares
its WAL with what it read of /status and /history, so the properties are about how
old that reading is; without `RaceEnds` they are false (section 5). Their invariant
`ElectInv` adds to `IInv` that the timelines in a WAL never decrease; that who races is
fit by what it has read, and that nothing has been published since if there is
no leader; that who has the key, or runs a primary, is fit by what the DCS says
now; and that a holder of the key is never rewound. All actions but `Load`, `HealthCheck`
and `Acquire` are shown to be `Quiet`: they bring no node nearer to the key, and
what they publish is the WAL of the holder.

`NoPrimaryIsStoppedInPause` (`Spec => PauseKeepsPrimary`, an action property) has no
hypothesis. Its invariant `PauseInv`: in pause no watchdog runs and no cycle polls its
peers (either would end in a stop), and a task that starts PostgreSQL as a
replica is never found on a primary. Steps are grouped by what they leave of a
node: each action is shown once to be one of `Calm`, `Yields`, ... and each of these
to keep the invariant.

`SwitchoverLosesNothing` (`Spec => SwitchoverKeepsWrites`, an action property) has no
hypothesis on the constants: any nodes, writes and pauses, whichever nodes may not lead
or have no watchdog. Its invariant `LineInv` speaks of a cluster without a fault and
with at most one request, which is in one of three phases: the `Reign` of the first
leader, whom everybody streams from; the `Handover`, in which PostgreSQL stops and gives
away the key only when whoever may take it has all of its WAL; and `Succeeded`, after
which nobody takes the key again. In each phase every WAL is a prefix of the WAL of the
one that leads the line (`Full`). What makes it inductive is what it says of the cycles under
way: which view each of them has (`Handles`, `Seeks`), and that who races while the key
is free is as far as the old leader (`Races`).

### Leader key (`LeaderKeyProofs`)

`TypeCorrect`, `AtMostOneTrusts` (`Spec => []Exclusive`) and `TheLeaseIsKept`
(`Spec => LeaseSpec`, the refinement of `LeaderLease`), for
`Backends \subseteq {"etcd", "etcd3", "raft", "kubernetes"}`. Two clients that trust
the key are not excluded by anything either of them knows, so the invariant `Inv`
relates the server to every client:
- `HeldByAll`: while a client trusts, the last write of the key that the server
  has not superseded is its own, and the key has lived no longer than `since`.
- `Doomed` (Raft): a request that was given up can no longer find the previous
  value it compares with.
- `Leased` (etcd v3): the lease a client refreshes is that of the key it saw, and is no older
  than the client knows (`Renewed`): than its call, than `last` while that is within loop_wait,
  and than `Age` when the key is about to be hung on it.
- `Observed` (Kubernetes): what a client has observed of the resource version was
  observed no earlier than it was written, so a key is only taken over after
  `TTL` ticks without a change.

The refinement is proved step by step: each action has an outcome in terms of the
server's key and the caller's `since` (`Outcome`), and each outcome is a step of the
lease or a stutter (`Contract`). Consul and ZooKeeper are outside of the hypothesis
because the property is false of them (section 5).

### Tasks of a node (`NodeTasksProofs`)

`TypeCorrect`, `DataDirectoryHasOneWriter` (`OneWriter`) and `NoPrimaryReturns`
(`CalledOffStaysDown`); the last two assume `~Overtaken`. `OneWriter` looks at
programs that run now and is not inductive. The invariant has these parts:
`Threading`, which steps go with which task; `Alone`, at most one thread has a
task and the executor knows which, until the HA loop has left (after
`Ha.shutdown` has forgotten the action of a task that was cancelled before it
began, the executor looks free while the thread is still there); `Dry`, the
steps of a clone, rewind or recovery that have no postmaster below them;
`Reported`, the two critical tasks tell the HA loop how far a promotion or start
is, so that it decides between calling it off and stopping what it has started;
`CalledOff`, a task that was called off is before the point where it looks.

### Synchronous replication (`SyncReplicationProofs`)

`TypeCorrect`, `AcknowledgedMeetsElected` (`Spec => []OverlapInForce`) and `NothingToDoIsSettled`
(`Spec => []Settled`) have no hypothesis: any number of nodes, any modes, counts, faults and
changes of the mode, strict or not. `OverlapInForce` leaves out the time from setting the mode to on to
the next cycle of a leader (`switched`), in which the two sets need not meet: what is in force is still
the quorum's, and the voters are no longer counted. `NothingAcknowledgedIsLost` (`Counted => (Spec => []NoAckedLoss)`)
assumes `~EveryAck`, `~Unwaited` and `~DivergedRaces`: it is about commits that somebody was
waited for and that those who are waited for now have, and about races in which nobody takes
part whose WAL left the line; without any of the three it is false (section 5). What `Configure`,
`Ack` and `Elect` do not count is listed in section 2.

The proof has three parts. The first is about the resolver alone, for every state it may
be given. The leader may be stopped after any of the transitions, so it is not enough that
the last state overlaps. `Trace` says of the whole list that each change of /sync meets
(`Meets`) the synchronous_standby_names before it, and each of those the /sync before it;
every stage of `_generate_transitions` has a lemma that it extends such a list to such a list
or raises. The stages rely on more than `check_invariants` looks at: `Good` is what the
attributes say between two stages, `Almost` and `Lone` are the states left behind by a failover
in which a leader has voters and waits for nobody, from which the first stage leads back.
For `Settled` the lemma `Generated` says what the attributes are if the list is empty.

The second part has the invariant `Inv`: the rest of the list still fits what is in force
(`TodoFits`), whatever part of it was carried out (`TailFits`), and what is in force meets
(`InForce`); the other conjuncts bound the two settings. `OverlapInForce` is `InForce`; that
what the next leader's loop begins with is fit for the resolver is `SeenStarts`.

The third part adds `WalInv` and `Settings`. `MainLine`: the node promoted last (`former`)
has all that was acknowledged, and no node has other WAL of its timeline or a later one.
`Covered`: enough of the standbys that are waited for now have it. `VotersHold`: in quorum
mode fewer voters lack it than an election needs, because the sets that elect and those that
acknowledge meet, whether /sync names the leader or another node. `SyncHolds`: in sync mode every
voter has it; they are waited for, also by the changes still to come (`SyncFits`). An election is one lemma (`WinnerHolds`): among the voters that answer, at
least one has it, and whoever has the longest WAL of the line has it as well.

The proof attempts changed the model and the statements: a list of transitions is merged as it
is yielded, as in the code, because a merge afterwards hides a state in which the loop may stop;
`Settled` first said less than holds; and a replication factor of 2 made `NoAckedLoss` false
for four nodes before `Unwaited` told the two kinds of commits apart.

### Slots of members and copies of logical slots (`SlotsProofs`)

Of `MemberSlots`, `TypeCorrect` and `AbsentMemberFindsItsWal` (`Spec => WalIsRetained`), without
hypotheses: any number of members and faults, any tags and ttl, with and without
hot standby feedback (the run has it off). The invariant `Retained` says that a
member that has been away for less than the ttl is in /status, with an age that
counts no more time than has passed. The first statement of `WalIsRetained` counted
the time from the moment a member left; the attempt to prove it showed that it
was false (section 5), and `away` now starts when a leader has seen the member.

Of `LogicalSlots`, `CopiesStayBehind` (`LogicalSpec => []NeverAhead`) and
`ReadyCopiesHaveTheirRows` (`PromptFeedback => (LogicalSpec => []ReadyIsSafe)`), for any slots, consumers, changes of the
configuration and failures. `NeverAhead` compares two positions; its invariant
`Behind` has to follow a position all the way from one to the other: /status, the
schedule of the thread, the target it is advancing to, the files that are about
to be copied are each at most the slot on the primary and its WAL, and the targets at most
what the replica has replayed. `Rows` adds what the readiness check relies on:
`Told`, the feedback of a replica that has reported holds for each copy; `Kept`,
the primary keeps the rows of its own slots; `Checked`, what it has vacuumed is
bounded for each copy on the queue by the position it was queued with or the feedback.
Without `PromptFeedback` the statement is false (section 5).

### Watchdog (`WatchdogProofs`)

`TypeCorrect` and `OnlyLeadersFeed` (`FedByLeaders`) assume that no ioctl that sets
a timeout fails (`~SetFails`), the second also that a device that can be stopped
can be set. `GuardedPrimaryIsFenced` (`Fenced`) assumes further
`SafetyMargin = -1`, half of the ttl, and ttls of which none is more than twice
another (`TtlsAreClose`). The invariant `GuardInv` bounds what is left on the device
by what is left of the right to lead (`Right`), the key or the agreement of the
members, for every point of a cycle at which Patroni may stop; when one of the two has
just been renewed, half of the ttl is left for the answer.
Each hypothesis is a limit of the code, not of the proof: see section 5.

### Dynamic configuration (`DynamicConfigProofs`)

`EveryNodeIsValid` (`EffectiveIsValid`): whatever is written to /config, the order of
`_validate_and_adjust_timeouts` leaves timeouts that fit. `NoStandbyIsShort`
(`StandbyStarts`): a standby's max_connections is at least what any record it has
replayed asks for. `NoEditIsTakenBack` (`EditsAreKept`, an action property, for
backends that compare a version): the invariant `VersionInv` says that what an
editor has read and changed agrees with /config outside of the key it names as
long as the version is the one it read, also when the dictionary it read is
changed in place by somebody else (`ReadsAgree`). `PendingRestartIsShown` (`SaysSo`): the
invariant `Marked` follows the flag through the reload, where between the new
postgresql.conf and the look at pg_settings a second later it does not say yet what the
value is compared with, and through a start, which clears it and sets it again.

### Backend (`WorkflowProofs`)

`TypeCorrect`, `NoSilentDeath`, `ValidOnly`: in a running server every active,
unflagged row is registered, still to be loaded, or in the hands of a handler
that is about to register it, roll it back or set it inactive (`ActiveAccounted`).
`ExecutionTypes`, `LogMatchesRuns`, `NoOrphans`, `EffectsWithinRetries`: for each step
of a call it is fixed whether its run and its row may exist, and effects, stray
attempts and the one in progress never exceed the attempts made.

### Only model-checked

Liveness (`KeyIsHeld`, `ShutdownEnds`, `EventuallyReady`, `LeaderShown`, `Converges`):
reasoning about fairness needs `ENABLED`, which the prover does not support.
The safety properties of `Citus` (`PrimaryHasLed`, `NoPauseCommitted`) have no proofs: what a
transition leaves in pg_dist_node is a fold over a list of statements of any length, whose value
would have to be found by induction over data; they are model-checked at the bounds of the run.
The resolver of `SyncReplication` is within reach because its stages are not recursive.

## 5. Limits of the code that the models show

Read in the code while modelling. Each can be reproduced by changing the constant
or asking for the property named; the runs above leave them out.

- *Consul* (`dcs/consul.py:652`) and *ZooKeeper* (`dcs/zookeeper.py:402`): after a
  change of session the key is deleted without a comparison and put again.
  `Exclusive` is false with `Backends = {"consul"}` or `{"zookeeper"}`.
- *ZooKeeper* (`dcs/zookeeper.py:321`): `version or -1` makes the first version no
  comparison at all; `EditsAreKept` is false with `ZooKeeper = TRUE`.
- *Failsafe mode* (`ha.py:141`): what a replica agreed to is kept in memory. If its
  Patroni restarts within the ttl it may take the expired key while the old
  primary runs on; `SinglePrimary` is false with `QuickRestart = TRUE` and 3 faults (TLC
  found this when the invariant of its proof was checked). `_failsafe.update`
  (`ha.py:1200`) does not compare: a POST of a former primary that arrives late
  replaces the record of the present one. `HaCluster` assumes polls that end in
  time.
- *A long race* (`ha.py:1309`): a candidate compares its WAL with the /status it read at
  the start of its cycle. When, before it tries to take the key, another node wins,
  is promoted, publishes, crashes, fails to start again and gives the key up, it
  takes the key with less than the new leader published: with 3 faults (`MaxFaults` and
  `MaxEvents`) and no failsafe mode `BoundedLoss` is false. The proof excludes it by
  `RaceEnds`.
- *Two requests* (`ha.py:1443`, `ha.py:1661`): a leader that stops for a switchover waits until
  the candidate has its WAL, but when the stop has ended the key is given up whatever has
  become of the request, and a named candidate takes a free key without comparing its WAL.
  A second request while the first is under way may name another node: with 3 nodes one
  that lags, with 2 the old leader itself before it streams from the new one. With
  `MaxRequests = 2` and nothing failing a switchover may lose writes, which the proof of
  `SwitchoverKeepsWrites` showed; it speaks of one request.
- *Member slots* (`postgresql/slots.py:404`): a slot that is not expected to be in use
  and has a leftover xmin is dropped and created anew, at a later position; and a
  member that comes back and leaves again before a leader has published it counts
  from its first absence. `WalIsRetained` therefore speaks of members that a leader
  has seen, with a slot, less than the ttl ago.
- *Quorum* (`quorum.py:55`): "zero transaction loss" does not cover what was acknowledged by
  others than those who are waited for now. `NoAckedLoss` is false with `EveryAck = TRUE`, with
  nothing reconfigured: of two standbys one acknowledges a commit and disconnects, and the
  resolver goes on with "1 of" the other, which had caught up earlier (`numsync_confirmed`) and
  is behind now, and with a quorum of 0 (`quorum.py:313`); if the leader fails then, that
  standby is elected without the commit. The same holds of commits acknowledged before
  synchronous_node_count was raised, or with no standby left outside of strict mode.
- *Quorum* (`ha.py:1322`): nor what was acknowledged before synchronous_mode was changed from
  quorum to on. In quorum mode a voter may lack a commit that another one has acknowledged; as soon
  as the mode is on no votes are counted, and that voter may win if the other one and the
  leader are gone before the leader's next cycle has taken it out of /sync: two stops
  and one change. `Configure` keeps what all of /sync have; without that `NoAckedLoss` is false.
- *Quorum* (`quorum.py:424`): nor does it cover commits that were acknowledged while nobody was
  waited for, although the new standbys are asked to catch up before they may elect
  (`quorum.py:196`). Within the bounds of the run, with 3 nodes, they are not lost. With 4, synchronous_node_count 2 and
  `Unwaited = TRUE`, `NoAckedLoss` is false: of three voters, with a quorum of 2, only one has
  caught up, and it leaves together with another; the resolver, with nobody confirmed, takes a
  replication factor of 1 from the quorum, and since it removes members it does not raise the
  quorum for those that are not confirmed, so that the last voter may elect itself.
- *Quorum* (`quorum.py:198`): the quorum may reach the number of voters, 3 of 3 with
  4 nodes after a change of synchronous_node_count, so that no standby may be elected while
  they are not all known to have caught up.
- *Races* (`ha.py:1386`): in quorum mode the owner of /sync wins without votes if nobody is ahead of it.
  It need not be the last leader, who enters /sync only in a cycle of its own (`ha.py:990`), while
  its promotion has set synchronous_standby_names already (`ha.py:999`). So: the leader 1 stops, 2 is
  elected with the votes /sync asks for, a voter 3 acknowledges a commit, 2 and 3 stop before 2
  has written /sync, 1 comes back and elects itself without the commit: three stops. `Elect` drops
  what such a winner lacks (`Outdated`); without that `NoAckedLoss` is false.
- *Races* (`ha.py:1386`): `NoAckedLoss` is also false with `DivergedRaces = TRUE`, where an old
  primary with a diverged WAL may win by its LSN. The resolver does not reach its
  goal from every pair of states (`quorum.py:67`): `ResolverNeverFails` is false.
- *Leader key* (`ha.py:303`, `dcs/etcd3.py:731`, `:915`): `is_leader()` holds for a whole ttl from the
  answer on. The lease is then as old as the call, and after an acquisition by etcd v3 or
  Consul up to loop_wait older, since `_do_refresh_lease` returns at once for a lease renewed
  less than loop_wait ago. `Exclusive` and `LeaseSpec` have a client rely on what is left of
  the lease (`Age`); with `since` counted from the call alone both are false. The next cycle comes
  within loop_wait and its update_leader either renews the lease or ends the trust, so that it takes
  a cycle stuck for longer than `ttl - loop_wait` to see two leaders by `is_leader()`.
- *Forced reinitialize* (`async_executor.py:215`): when the HA loop schedules
  something between the end of `cancel()` and the reinitialize, or leaves
  meanwhile, two tasks may run; `Overtaken = TRUE`.
- *Watchdog*: a failed ioctl leaves the device open and unset (`SetFails = TRUE`
  breaks `TypeOK` and `FedByLeaders`; `RequiredMeansFit` is false then, so a second
  attempt passes the check of required mode). The default safety margin of 5 with
  a ttl of 30 leaves a gap when the answer of the DCS takes longer than the margin. A
  ttl lowered below half of the earlier one leaves a device that is too slow.
- *Logical slots* (`postgresql/slots.py:695`): feedback that is older than the copy
  makes a slot look ready too early; `PromptFeedback = FALSE` breaks `ReadyIsSafe`.
- *Citus* (`postgresql/mpp/citus.py:282`): the comment promises that secondaries are
  corrected on the next heartbeat; `StandbysShown` states it and is false.
- *Citus* (`postgresql/mpp/citus.py:228`, `:621`): a transition that gives the row of the promoted
  standby to a host that was added marks the old primary as a secondary, in the cached
  `_pg_dist_group` itself. `run` rolls the transaction back at its deadline and does not ask for
  the rows to be read again, so that the cache has no primary for the group. The next
  after_promote then takes every cached row for a standby's: the row of the primary is
  given to a standby that has never led, or is dropped, and the leader is not shown,
  until a failed query or a promotion of the coordinator makes the thread read the rows.
  One failover of a group with an added standby shows it, when the after_promote of the new
  primary comes after the deadline. `PrimaryHasLed` and `LeaderShown` are false without
  `misled`, which excuses a group from the rollback (`Top`) to the next reading (`Work`).
- *Configuration*: a node misses a version for good when a PATCH changed the
  dictionary its main loop had taken over (`api.py:797`, "patched"), when the
  query of pg_settings raises in the middle of a reload (`postgresql/config.py:1212`,
  "failed"), when PostgreSQL starts during the reload ("started"), or when a new
  Patroni joins a running standby without a reload ("joined"). `missed` names them
  and `Converges` and `SaysSo` excuse them. PUT overwrites concurrent edits by design.
- *Backend*: a deactivation that overtakes an activation leaves a registration
  behind (`NoGhostRegistration` is false); active workflows are not registered again
  after a restart, because the loader runs before the triggers are known
  (`ActiveListens` is false with `RegisteredBeforeLoad = {}`); nothing writes the result of
  a run back (`StatusSettles` is false).

## 6. Assumptions and what is left out

*HaCluster.* A leader race is shorter than the ttl, and than a promotion with a
demotion: no key expires, and none is released by a stop, while another node races
(`NoRace`); the winner reaches `enforce_primary_role` in time; a poll of
the failsafe mode is over before another node starts one; a Patroni is not back
before what it agreed to has expired (`QuickRestart = FALSE`); a fast shutdown of PostgreSQL waits for its
standbys (`StopDone`). Left out: standby clusters, priorities and tags other than
nofailover. *Citus:* a task that was picked before the
coordinator's PostgreSQL stopped has been processed, and has failed, when it is promoted again
(`OnPromote`; without it the task works on a cache that on_demote has emptied, and may add a second
row of a primary). *Watchdog:* the members that agree remember it for the
ttl of this node's configuration (a member whose Patroni restarts forgets it). *LeaderKey:* a request that timed out is not executed later than its
successor; a watch of etcd v3 delivers the client's own put before a delete
(`CaughtUp`); a rebuilt cache is up to date; trust is counted from the start of the
call, and loop_wait shorter after an acquisition by etcd v3 or Consul (section 5). *SyncReplication:* the nosync and sync_priority tags, failover priorities. *NodeTasks:* the REST
API is stopped before `Ha.shutdown`; callbacks, bootstrap and the graceful demotion
(which is in `HaCluster`). *MemberSlots:* what the DCS says of a member is not ahead of it
(`Accurate`); nostream, pause and permanent physical slots. *DynamicConfig:* one request
at a time on a node; values that are integers where an integer is expected (`config.py:338`
gives up on a version with another one); PostgreSQL 12 or newer.

Not modelled at all: bootstrap of a new cluster; health checks, metrics and
listings of REST and patronictl; parsing, validation and generation of files; the
connections below DCS requests; logging. Of the backend: the pollers, cron
schedules, OAuth2, account deletion, webhooks, authentication, catalogue; the
clients and the deployment files. `PROJECT.json` gives the reason for each.

## 7. Plan

1. *done* - the modules and runs above; the proofs of section 4.
2. Proofs: the safety properties of `Citus`, for transitions of a bounded number of statements.
3. Bootstrap: /initialize, `post_bootstrap`, a crash in the middle.
