----------------------------- MODULE HaCluster -----------------------------
(***************************************************************************)
(* The HA loop of Patroni: several nodes, each with a PostgreSQL and a     *)
(* Patroni that runs a cycle every loop_wait seconds, and a distributed    *)
(* configuration store (DCS) with the leader key, /status, /history and    *)
(* /failover.                                                              *)
(*                                                                         *)
(* A cycle (Ha.run_cycle) is cut where it calls out: it reads the DCS,     *)
(* asks its peers over REST, writes the DCS, and hands long tasks to the   *)
(* thread of its AsyncExecutor.  Between any two of these steps other      *)
(* nodes, the tasks, clients and failures may step in.                     *)
(*                                                                         *)
(* Time is abstracted to the order of deadlines.  A watchdog that is not   *)
(* kept alive fires before the key its node holds expires, and before a    *)
(* failsafe record its node has sent out does (module Watchdog has the      *)
(* arithmetic); a cycle in its race ends within a ttl, as the constraint   *)
(* loop_wait + 2 * retry_timeout <= ttl on the configuration intends.      *)
(*                                                                         *)
(* A WAL is a sequence of records, each with the timeline and the node     *)
(* that wrote it; a promotion writes a record of the next timeline.        *)
(* Synchronous replication, standby clusters, failover priorities and the  *)
(* initialisation are left out here.                                       *)
(***************************************************************************)
EXTENDS Naturals, Sequences, SequencesExt

CONSTANTS
  Nodes,
  None,
  FailsafeMode,   \* failsafe_mode: whether a primary may outlive its connection to the DCS
  CheckTimeline,  \* check_timeline
  MaxLag,         \* maximum_lag_on_failover, in records
  NoFailover,     \* nodes tagged nofailover
  NoWatchdog,     \* nodes whose watchdog device cannot be opened (mode: required)
  StartTimeout,   \* primary_start_timeout: 0 or 1 (never reached)
  QuickRestart,   \* whether Patroni may be back before a failsafe record it forgot would expire
  MaxWrites, MaxFaults, MaxRequests, MaxPauses,  \* bounds
  MaxEvents,      \* bound on the faults, requests and pauses together
  MaxTimeline     \* bound on the promotions in a behaviour

ASSUME HaAssumption ==
  /\ None \notin Nodes
  /\ NoFailover \subseteq Nodes /\ NoWatchdog \subseteq Nodes
  /\ MaxLag \in Nat /\ StartTimeout \in {0, 1} /\ MaxTimeline \in Nat
  /\ MaxWrites \in Nat /\ MaxFaults \in Nat /\ MaxRequests \in Nat /\ MaxPauses \in Nat
  /\ MaxEvents \in Nat
  /\ FailsafeMode \in BOOLEAN /\ CheckTimeline \in BOOLEAN /\ QuickRestart \in BOOLEAN

VARIABLES
  dcs,      \* leader key, /status, /history, /failover, and pause from /config
  view,     \* the Cluster each node's cycle works with
  pc,       \* where each node's cycle is
  asked,    \* members that have accepted the POST /failsafe of a cycle
  up,       \* nodes whose Patroni runs
  pg,       \* state of the postmaster
  role,     \* Postgresql.role: what Patroni believes
  wal,
  upstream, \* the node a replica streams from
  task,     \* AsyncExecutor.scheduled_action
  recovering,
  paused,   \* the pause flag as each node last read it
  wd,       \* whether the watchdog of the node runs
  ping,     \* what the last keepalive followed: an update of the key, or a failsafe agreement
  fs,       \* Failsafe.leader: the primary that last sent POST /failsafe
  cut,      \* who cannot be reached: "none", the "dcs", or "all" (the peers too)
  used      \* what is used up of the bounds

pgVars   == <<pg, role, wal, upstream, task>>
nodeVars == <<up, paused, wd, ping, fs>>
envVars  == <<cut, used>>
vars == <<dcs, view, pc, asked, pgVars, recovering, nodeVars, envVars>>

NoFailoverKey == [from |-> None, to |-> None]
NoView == [owner |-> None, optime |-> 0, hist |-> 0, fo |-> NoFailoverKey, paused |-> FALSE]

\* An initialised cluster: p is the leader and everybody streams from it.
Init ==
  \E p \in Nodes \ (NoFailover \cup NoWatchdog) :
    /\ dcs = [NoView EXCEPT !.owner = p, !.optime = 1, !.hist = 1]
    /\ view = [n \in Nodes |-> NoView]
    /\ pc = [n \in Nodes |-> "idle"]
    /\ asked = [n \in Nodes |-> {}]
    /\ up = [n \in Nodes |-> TRUE]
    /\ pg = [n \in Nodes |-> IF n = p THEN "primary" ELSE "replica"]
    /\ role = pg
    /\ wal = [n \in Nodes |-> <<[tl |-> 1, by |-> p]>>]
    /\ upstream = [n \in Nodes |-> IF n = p THEN None ELSE p]
    /\ task = [n \in Nodes |-> "none"]
    /\ recovering = [n \in Nodes |-> FALSE]
    /\ paused = [n \in Nodes |-> FALSE]
    /\ wd = [n \in Nodes |-> n = p]
    /\ ping = [n \in Nodes |-> IF n = p THEN "key" ELSE "none"]
    /\ fs = [n \in Nodes |-> None]
    /\ cut = [n \in Nodes |-> "none"]
    /\ used = [writes |-> 0, faults |-> 0, requests |-> 0, pauses |-> 0]

-----------------------------------------------------------------------------
Set(f, n, v) == [f EXCEPT ![n] = v]
Spend(what)  == used' = [used EXCEPT ![what] = @ + 1]
Event(what)  == used.faults + used.requests + used.pauses < MaxEvents /\ Spend(what)

Busy(n)     == task[n] # "none"
Running(n)  == pg[n] \in {"replica", "primary"}
Primary(n)  == pg[n] = "primary"
Lsn(n)      == Len(wal[n])
Timeline(n) == Last(wal[n]).tl

Dcs(n)      == up[n] /\ cut[n] = "none"
Talks(n, m) == up[m] /\ cut[n] # "all" /\ cut[m] # "all"

\* GET /patroni of m as n sees it: a member that answers with a WAL position.
Answers(n, m) == Talks(n, m) /\ Running(m)

\* _MemberStatus.failover_limitation is None.
MayPromote(n, m) == Answers(n, m) /\ m \notin NoFailover /\ m \notin NoWatchdog

IsLagging(lsn, v) == v.optime > lsn + MaxLag

FailoverKey(v) == v.fo # NoFailoverKey

\* _is_healthiest_node without is_lagging.
HealthiestAnyLag(n, v, members, checkLag) ==
  /\ CheckTimeline => Timeline(n) >= v.hist
  /\ \A m \in members \ ({n} \cup NoFailover) :
        MayPromote(n, m) => ~Primary(m) /\ Lsn(m) <= Lsn(n)

\* _is_healthiest_node where a node of the same WAL position counts as ahead.
HealthiestStrictly(n, v, members, checkLag) ==
  /\ checkLag => ~IsLagging(Lsn(n), v)
  /\ CheckTimeline => Timeline(n) >= v.hist
  /\ \A m \in members \ ({n} \cup NoFailover) :
        MayPromote(n, m) => ~Primary(m) /\ Lsn(m) < Lsn(n)

\* _is_healthiest_node without check_timeline.
HealthiestAnyTimeline(n, v, members, checkLag) ==
  /\ checkLag => ~IsLagging(Lsn(n), v)
  /\ \A m \in members \ ({n} \cup NoFailover) :
        MayPromote(n, m) => ~Primary(m) /\ Lsn(m) <= Lsn(n)

\* _is_healthiest_node
HealthiestAmong(n, v, members, checkLag) ==
  /\ checkLag => ~IsLagging(Lsn(n), v)
  /\ CheckTimeline => Timeline(n) >= v.hist
  /\ \A m \in members \ ({n} \cup NoFailover) :
        MayPromote(n, m) => ~Primary(m) /\ Lsn(m) <= Lsn(n)

\* get_failover_candidates
Candidates(n, v, excludeCandidate) ==
  {m \in Nodes \ ({n} \cup NoFailover) :
     IF excludeCandidate THEN m # v.fo.to ELSE v.fo.to \in {None, m}}

\* is_failover_possible; lsn = 0 stands for a call without cluster_lsn.
FailoverPossible(n, v, lsn, excludeCandidate) ==
  \E m \in Candidates(n, v, excludeCandidate) :
     /\ MayPromote(n, m)
     /\ IF lsn > 0 THEN Lsn(m) >= lsn ELSE ~IsLagging(Lsn(m), v)
     /\ CheckTimeline => Timeline(m) >= v.hist

\* manual_failover_process_no_leader
ManualFailoverToMe(n, v) ==
  LET others == IF v.fo.from = n THEN ~FailoverPossible(n, v, 0, v.fo.to # None)
                ELSE HealthiestAmong(n, v, Nodes \ {v.fo.from}, FALSE)
  IN \/ v.fo.to = n
     \/ /\ ~v.paused
        /\ v.fo.to = None \/ ~MayPromote(n, v.fo.to)
        /\ others

\* Ha.is_healthiest_node
IsHealthiest(n, v) ==
  IF v.paused
    THEN IF FailoverKey(v) /\ n \notin NoFailover THEN ManualFailoverToMe(n, v) ELSE Primary(n)
    ELSE IF Primary(n) THEN Timeline(n) >= v.hist
    ELSE /\ n \notin NoFailover
         /\ IF FailoverKey(v) THEN ManualFailoverToMe(n, v)
            ELSE n \notin NoWatchdog /\ HealthiestAmong(n, v, Nodes, TRUE)

\* load_cluster_from_dcs that forgets the failsafe leader.
SnapshotWithoutFailsafe(n) == dcs

\* load_cluster_from_dcs, with the leader Failsafe.update_cluster puts in.
Snapshot(n) ==
  IF dcs.owner = None /\ FailsafeMode /\ fs[n] # None THEN [dcs EXCEPT !.owner = fs[n]] ELSE dcs

\* _get_node_to_follow
NodeToFollow(n, v) == IF v.owner = n THEN None ELSE v.owner

-----------------------------------------------------------------------------
(* Pieces of a cycle: what happens to the node's own PostgreSQL and flags. *)
(* The DCS is left to the action that uses them.                           *)

KeepNode == UNCHANGED <<pgVars, nodeVars>>

\* A cycle that gets past the long action forgets that it was recovering.
Recovered(n) == recovering' = Set(recovering, n, FALSE)

CycleEnds(n) ==
  /\ pc' = Set(pc, n, "idle")
  /\ view' = Set(view, n, NoView)
  /\ asked' = Set(asked, n, {})

\* demote('immediate-nolock'), demote('immediate'): stop now, start as a replica later.
StopAndFollow(n) ==
  /\ pg' = Set(pg, n, "down")
  /\ role' = Set(role, n, "demoted")
  /\ task' = Set(task, n, IF Busy(n) /\ task[n] # "start" THEN task[n] ELSE "follow")
  /\ wd' = Set(wd, n, FALSE)
  /\ UNCHANGED <<wal, upstream, up, paused, ping, fs>>

\* demote('offline'): stop and start as a replica of nobody, in the cycle itself.
StopOffline(n) ==
  /\ pg' = Set(pg, n, "replica")
  /\ role' = Set(role, n, "replica")
  /\ upstream' = Set(upstream, n, None)
  /\ wd' = Set(wd, n, FALSE)
  /\ UNCHANGED <<wal, task, up, paused, ping, fs>>

\* The WAL of n has left that of the primary m: pg_rewind is needed and possible.
Diverged(n, m) == m # None /\ Answers(n, m) /\ Primary(m) /\ ~IsPrefix(wal[n], wal[m])

\* Ha.follow with the cluster v.
FollowWith(n, v) ==
  LET m == NodeToFollow(n, v) IN
  IF Primary(n)
    THEN IF paused[n] THEN role' = Set(role, n, "primary") /\ UNCHANGED <<pg, wal, upstream, task, nodeVars>>
         ELSE StopAndFollow(n)
    ELSE /\ role' = Set(role, n, "replica")
         /\ IF Diverged(n, m) THEN task' = Set(task, n, "rewind") /\ UNCHANGED upstream
            ELSE upstream' = Set(upstream, n, m) /\ UNCHANGED task
         /\ UNCHANGED <<pg, wal, nodeVars>>

\* enforce_primary_role by a holder of the key: owner and hist are what it leaves in the DCS.
Enforced(n, owner, hist) ==
  IF n \in NoWatchdog /\ ~paused[n]
    THEN /\ owner = None
         /\ hist = dcs.hist
         /\ IF Primary(n) THEN StopAndFollow(n) ELSE KeepNode
    ELSE /\ owner = n
         /\ hist = IF Primary(n) THEN Timeline(n) ELSE dcs.hist
         /\ wd' = Set(wd, n, ~paused[n])
         /\ ping' = Set(ping, n, "key")
         /\ fs' = Set(fs, n, None)
         /\ role' = IF Primary(n) THEN Set(role, n, "primary") ELSE role
         /\ task' = IF Primary(n) \/ role[n] \in {"primary", "promoted"} THEN task
                    ELSE Set(task, n, "promote")
         /\ UNCHANGED <<pg, wal, upstream, up, paused>>

\* Mutant: the primary demotes in pause as well.
DcsErrorEvenPaused(n) ==
  CycleEnds(n) /\ IF Primary(n) THEN StopOffline(n) ELSE KeepNode

\* _handle_dcs_error; a poll of the peers is over before another node has been promoted and
\* has lost the DCS for long enough to start one.
DcsError(n) ==
  IF Primary(n) /\ ~paused[n] /\ FailsafeMode
    THEN (\A m \in Nodes \ {n} : pc[m] # "failsafe") /\ pc' = Set(pc, n, "failsafe") /\ UNCHANGED <<view, asked>> /\ KeepNode
    ELSE CycleEnds(n) /\ IF Primary(n) /\ ~paused[n] THEN StopOffline(n) ELSE KeepNode

-----------------------------------------------------------------------------
(* The cycle of a node *)

\* load_cluster_from_dcs, and the watchdog goes off in pause.
Load(n) ==
  LET v == Snapshot(n) IN
  /\ pc[n] = "idle" /\ Dcs(n)
  /\ pc' = Set(pc, n, "cycle")
  /\ view' = Set(view, n, v)
  /\ paused' = Set(paused, n, v.paused)
  /\ wd' = IF v.paused THEN Set(wd, n, FALSE) ELSE wd
  /\ UNCHANGED <<dcs, asked, pgVars, up, ping, fs, envVars>>
  /\ UNCHANGED recovering

\* A read or write of the DCS raises DCSError.
DcsFails(n) ==
  /\ up[n] /\ ~Dcs(n)
  /\ \/ pc[n] \in {"idle", "race", "won"}
     \/ pc[n] = "cycle" /\ view[n].owner \in {None, n}
  /\ DcsError(n)
  /\ UNCHANGED <<dcs, envVars>>
  /\ UNCHANGED recovering

\* call_failsafe_member: one refusal or no answer is enough to demote.
PostFailsafe(n, r) ==
  /\ pc[n] = "failsafe" /\ r \notin asked[n] \cup {n}
  /\ IF Talks(n, r) /\ ~(Running(r) /\ role[r] = "primary")
       THEN /\ fs' = Set(fs, r, n)
            /\ asked' = Set(asked, n, asked[n] \cup {r})
            /\ UNCHANGED <<pc, view, pgVars, up, paused, wd, ping>>
       ELSE StopOffline(n) /\ CycleEnds(n)
  /\ UNCHANGED <<dcs, envVars>>
  /\ UNCHANGED recovering

FailsafeAgreed(n) ==
  /\ pc[n] = "failsafe" /\ asked[n] = Nodes \ {n}
  /\ ping' = Set(ping, n, "fs")
  /\ CycleEnds(n)
  /\ UNCHANGED <<dcs, pgVars, up, paused, wd, fs, envVars>>
  /\ UNCHANGED recovering

InCycle(n) == up[n] /\ pc[n] = "cycle"
Holds(n)   == view[n].owner = n

\* handle_long_action_in_progress
LongAction(n) ==
  /\ InCycle(n) /\ Busy(n)
  /\ Holds(n) => Dcs(n)
  /\ CycleEnds(n)
  /\ IF Holds(n) /\ dcs.owner = n
       THEN ping' = Set(ping, n, "key") /\ UNCHANGED <<pgVars, up, paused, wd, fs>>
       ELSE IF paused[n] THEN KeepNode
       ELSE IF task[n] = "promote" THEN task' = Set(task, n, "none")
              /\ UNCHANGED <<pg, role, wal, upstream, nodeVars>>
       ELSE IF role[n] = "primary" THEN StopAndFollow(n) ELSE KeepNode
  /\ UNCHANGED <<dcs, envVars>>
  /\ UNCHANGED recovering

\* post_recover: PostgreSQL did not come up.
PostRecover(n) ==
  /\ InCycle(n) /\ ~Busy(n) /\ ~Running(n) /\ recovering[n]
  /\ Holds(n) => Dcs(n)
  /\ dcs' = IF Holds(n) /\ dcs.owner = n THEN [dcs EXCEPT !.owner = None] ELSE dcs
  /\ role' = IF Holds(n) /\ role[n] = "primary" THEN Set(role, n, "demoted") ELSE role
  /\ recovering' = Set(recovering, n, FALSE)
  /\ wd' = Set(wd, n, FALSE)
  /\ CycleEnds(n)
  /\ UNCHANGED <<pg, wal, upstream, task, up, paused, ping, fs, envVars>>

\* PostgreSQL is down in pause: at most the key is given back.
DownInPause(n) ==
  /\ InCycle(n) /\ ~Busy(n) /\ ~Running(n) /\ ~recovering[n] /\ paused[n]
  /\ Holds(n) => Dcs(n)
  /\ dcs' = IF Holds(n) /\ dcs.owner = n THEN [dcs EXCEPT !.owner = None] ELSE dcs
  /\ CycleEnds(n)
  /\ KeepNode
  /\ UNCHANGED envVars
  /\ Recovered(n)

\* recover: fail over at once, restart the primary, or start as a replica.
Recover(n) ==
  LET owns == Holds(n) /\ dcs.owner = n
      m == NodeToFollow(n, dcs)
  IN
  /\ InCycle(n) /\ ~Busy(n) /\ ~Running(n) /\ ~recovering[n] /\ ~paused[n] /\ Dcs(n)
  /\ CycleEnds(n)
  /\ IF owns /\ StartTimeout = 0 /\ FailoverPossible(n, view[n], 0, FALSE)
       THEN dcs' = [dcs EXCEPT !.owner = None] /\ StopAndFollow(n) /\ UNCHANGED recovering
     ELSE IF owns /\ StartTimeout = 1 /\ pg[n] = "crashed" /\ role[n] = "primary"
       THEN /\ task' = Set(task, n, "start")
            /\ recovering' = Set(recovering, n, TRUE)
            /\ ping' = Set(ping, n, "key")
            /\ UNCHANGED <<dcs, pg, role, wal, upstream, up, paused, wd, fs>>
     ELSE /\ task' = Set(task, n, IF Diverged(n, m) THEN "rewind" ELSE "follow")
          /\ recovering' = Set(recovering, n, ~Diverged(n, m))
          /\ wd' = Set(wd, n, FALSE)
          /\ UNCHANGED <<dcs, pg, role, wal, upstream, up, paused, ping, fs>>
  /\ UNCHANGED envVars

Ready(n) == InCycle(n) /\ ~Busy(n) /\ Running(n)

\* process_unhealthy_cluster up to acquire_lock
HealthCheck(n) ==
  /\ Ready(n) /\ view[n].owner = None /\ Dcs(n)
  /\ IF IsHealthiest(n, view[n])
       THEN pc' = Set(pc, n, "race") /\ UNCHANGED <<view, asked>> /\ KeepNode
       ELSE FollowWith(n, dcs) /\ CycleEnds(n)
  /\ UNCHANGED <<dcs, envVars>>
  /\ Recovered(n)

\* attempt_to_acquire_leader creates the key if there is none.
Acquire(n) ==
  /\ pc[n] = "race" /\ Dcs(n)
  /\ IF dcs.owner = None
       THEN /\ dcs' = [dcs EXCEPT !.owner = n]
            /\ pc' = Set(pc, n, "won") /\ UNCHANGED <<view, asked>> /\ KeepNode
       ELSE UNCHANGED dcs /\ FollowWith(n, dcs) /\ CycleEnds(n)
  /\ UNCHANGED envVars
  /\ Recovered(n)

\* The rest of process_unhealthy_cluster: drop the failover key, then enforce_primary_role.
AfterAcquire(n) ==
  /\ pc[n] = "won" /\ Dcs(n)
  /\ \E owner \in {n, None}, hist \in 0 .. MaxTimeline :
       /\ Enforced(n, owner, hist)
       /\ dcs' = [dcs EXCEPT
            !.owner = IF @ = n THEN owner ELSE @,
            !.hist = hist,
            !.fo = IF ~FailoverKey(view[n]) THEN @
                   ELSE IF paused[n] /\ view[n].fo.from # None /\ view[n].fo.to # None
                        THEN [from |-> None, to |-> view[n].fo.to]
                   ELSE NoFailoverKey]
  /\ CycleEnds(n)
  /\ UNCHANGED envVars
  /\ Recovered(n)

\* process_healthy_cluster in pause, the key held without a primary.
NotPrimaryInPause(n) ==
  /\ Ready(n) /\ Holds(n) /\ paused[n] /\ ~Primary(n) /\ Dcs(n)
  /\ dcs' = IF dcs.owner = n /\ view[n].fo.to # n THEN [dcs EXCEPT !.owner = None] ELSE dcs
  /\ CycleEnds(n)
  /\ KeepNode
  /\ UNCHANGED envVars
  /\ Recovered(n)

\* process_manual_failover_from_leader, seen from the holder of the key.
DemoteRequested(n) ==
  LET v == view[n] IN
  /\ FailoverKey(v) /\ v.fo.from \in {None, n} /\ v.fo.to # n
  /\ ~(v.fo.to = None /\ paused[n])
  /\ FailoverPossible(n, v, 0, FALSE)

\* process_healthy_cluster: the key is updated.
UpdateKey(n) ==
  /\ Ready(n) /\ Holds(n) /\ ~(paused[n] /\ ~Primary(n)) /\ Dcs(n) /\ dcs.owner = n
  /\ CycleEnds(n)
  /\ IF DemoteRequested(n)
       THEN /\ dcs' = [dcs EXCEPT !.optime = Lsn(n)]
            /\ task' = Set(task, n, "demote")
            /\ ping' = Set(ping, n, "key")
            /\ UNCHANGED <<pg, role, wal, upstream, up, paused, wd, fs>>
       ELSE \E owner \in {n, None}, hist \in 0 .. MaxTimeline :
              /\ Enforced(n, owner, hist)
              /\ dcs' = [dcs EXCEPT !.owner = owner, !.optime = Lsn(n), !.hist = hist,
                                    !.fo = IF @ = view[n].fo THEN NoFailoverKey ELSE @]
  /\ UNCHANGED envVars
  /\ Recovered(n)

\* process_healthy_cluster: the update fails, somebody else has the key or nobody.
UpdateRefused(n) ==
  /\ Ready(n) /\ Holds(n) /\ ~(paused[n] /\ ~Primary(n)) /\ Dcs(n) /\ dcs.owner # n
  /\ CycleEnds(n)
  /\ IF Primary(n) /\ ~paused[n] THEN StopAndFollow(n) ELSE KeepNode
  /\ UNCHANGED <<dcs, envVars>>
  /\ Recovered(n)

\* process_healthy_cluster without the key.
FollowLeader(n) ==
  /\ Ready(n) /\ view[n].owner \notin {None, n}
  /\ FollowWith(n, view[n])
  /\ CycleEnds(n)
  /\ UNCHANGED <<dcs, envVars>>
  /\ Recovered(n)

\* No other node is between reading a cluster without leader and trying to take the key:
\* that takes less than a ttl, and less than a promotion and a demotion.
NoRace(n) == \A m \in Nodes \ {n} : pc[m] # "race" /\ ~(pc[m] = "cycle" /\ view[m].owner = None)

-----------------------------------------------------------------------------
(* The tasks of the AsyncExecutor *)

TaskStep(n, from, to) == up[n] /\ task[n] = from /\ task' = Set(task, n, to)
TaskRest == UNCHANGED <<view, pc, asked, recovering, envVars>>

\* promote: past task.complete the loop can no longer cancel it.
PromoteCommits(n) ==
  /\ TaskStep(n, "promote", "promoting")
  /\ UNCHANGED <<dcs, pg, role, wal, upstream, nodeVars>> /\ TaskRest

\* pg_ctl promote
PromoteDone(n) ==
  /\ TaskStep(n, "promoting", "waiting") /\ pg[n] = "replica" /\ Timeline(n) < MaxTimeline
  /\ pg' = Set(pg, n, "primary")
  /\ role' = Set(role, n, "promoted")
  /\ wal' = Set(wal, n, Append(wal[n], [tl |-> Timeline(n) + 1, by |-> n]))
  /\ upstream' = Set(upstream, n, None)
  /\ UNCHANGED <<dcs, nodeVars>> /\ TaskRest

\* pg_ctl promote fails: there is no replica to promote.
PromoteFails(n) ==
  /\ TaskStep(n, "promoting", "none") /\ (pg[n] # "replica" \/ Timeline(n) >= MaxTimeline)
  /\ UNCHANGED <<dcs, pg, role, wal, upstream, nodeVars>> /\ TaskRest

\* _wait_promote
PromoteEnds(n) ==
  /\ TaskStep(n, "waiting", "none")
  /\ role' = IF Primary(n) THEN Set(role, n, "primary") ELSE role
  /\ UNCHANGED <<dcs, pg, wal, upstream, nodeVars>> /\ TaskRest

\* demote('graceful'): checkpoint and fast stop; the watchdog goes off at the safepoint.
GracefulStop(n) ==
  /\ TaskStep(n, "demote", "release")
  /\ pg' = Set(pg, n, IF Primary(n) THEN "stopping" ELSE "down")
  /\ wd' = Set(wd, n, FALSE)
  /\ UNCHANGED <<dcs, role, wal, upstream, up, paused, ping, fs>> /\ TaskRest

\* on_shutdown that releases the key without asking for a candidate that has all of the WAL.
ReleaseAtOnce(n) ==
  /\ TaskStep(n, "release", "follow")
  /\ NoRace(n)
  /\ role' = Set(role, n, "demoted")
  /\ dcs' = IF Dcs(n) /\ dcs.owner = n THEN [dcs EXCEPT !.owner = None, !.optime = Lsn(n)] ELSE dcs
  /\ UNCHANGED <<pg, wal, upstream, nodeVars>> /\ TaskRest

\* on_shutdown releases the key when a candidate has all of the WAL; otherwise the stop
\* ends first.
ReleaseKey(n) ==
  /\ TaskStep(n, "release", "follow")
  /\ pg[n] = "stopping" => FailoverPossible(n, dcs, Lsn(n), FALSE)
  /\ NoRace(n)
  /\ role' = Set(role, n, "demoted")
  /\ dcs' = IF Dcs(n) /\ dcs.owner = n THEN [dcs EXCEPT !.owner = None, !.optime = Lsn(n)] ELSE dcs
  /\ UNCHANGED <<pg, wal, upstream, nodeVars>> /\ TaskRest

\* PostgreSQL ends when its standbys have got everything.
StopDone(n) ==
  /\ up[n] /\ pg[n] = "stopping"
  /\ \A m \in Nodes : upstream[m] = n /\ pg[m] = "replica" /\ "all" \notin {cut[n], cut[m]}
                        => IsPrefix(wal[n], wal[m]) \/ ~IsPrefix(wal[m], wal[n])
  /\ pg' = Set(pg, n, "down")
  /\ UNCHANGED <<dcs, role, wal, upstream, task, nodeVars>> /\ TaskRest

\* Postgresql.follow as a task
FollowDone(n) ==
  /\ TaskStep(n, "follow", "none") /\ pg[n] # "stopping"
  /\ pg' = Set(pg, n, "replica")
  /\ role' = Set(role, n, "replica")
  /\ upstream' = Set(upstream, n, IF Dcs(n) THEN NodeToFollow(n, dcs) ELSE None)
  /\ UNCHANGED <<dcs, wal, nodeVars>> /\ TaskRest

\* 'starting primary after failure'
StartDone(n) ==
  /\ TaskStep(n, "start", "none")
  /\ pg' = Set(pg, n, "primary")
  /\ UNCHANGED <<dcs, role, wal, upstream, nodeVars>> /\ TaskRest

\* Starting PostgreSQL fails.
StartFails(n) ==
  /\ task[n] \in {"start", "follow"} /\ TaskStep(n, task[n], "none") /\ pg[n] # "stopping"
  /\ used.faults < MaxFaults /\ Event("faults")
  /\ UNCHANGED <<dcs, view, pc, asked, pg, role, wal, upstream, recovering, nodeVars, cut>>

\* pg_rewind leaves the data directory of the primary, with its WAL.
RewindDone(n) ==
  /\ TaskStep(n, "rewind", "none")
  /\ \/ \E m \in Nodes : Diverged(n, m) /\ wal' = Set(wal, n, wal[m])
     \/ (\A m \in Nodes : ~Diverged(n, m)) /\ UNCHANGED wal
  /\ pg' = Set(pg, n, "down")
  /\ UNCHANGED <<dcs, role, upstream, nodeVars>> /\ TaskRest

-----------------------------------------------------------------------------
(* PostgreSQL, clients and operators *)

OnlyPg == UNCHANGED <<dcs, view, pc, asked, recovering, up, paused, wd, ping, fs>>

\* A streaming replica gets the next record.
Stream(n) ==
  LET u == upstream[n] IN
  /\ pg[n] = "replica" /\ u # None
  /\ pg[u] \in {"replica", "primary", "stopping"} /\ "all" \notin {cut[n], cut[u]}
  /\ IsPrefix(wal[n], wal[u]) /\ wal[n] # wal[u]
  /\ wal' = Set(wal, n, SubSeq(wal[u], 1, Lsn(n) + 1))
  /\ UNCHANGED <<pg, role, upstream, task, envVars>> /\ OnlyPg

Write(n) ==
  /\ Primary(n) /\ used.writes < MaxWrites /\ Spend("writes")
  /\ wal' = Set(wal, n, Append(wal[n], [tl |-> Timeline(n), by |-> n]))
  /\ UNCHANGED <<pg, role, upstream, task, cut>> /\ OnlyPg

\* RestApiHandler.is_failover_possible, on a node that can ask the others.
GoodCandidate(from, to) ==
  /\ from # None => dcs.owner = from
  /\ \E n \in Nodes, m \in IF to # None THEN {to} ELSE Nodes \ {dcs.owner} : MayPromote(n, m)

\* do_POST_failover: a failover names a candidate, a switchover (from # None) the leader.
RequestFailover(from, to) ==
  /\ used.requests < MaxRequests /\ Event("requests")
  /\ from # to
  /\ to = None => ~dcs.paused
  /\ GoodCandidate(from, to)
  /\ dcs' = [dcs EXCEPT !.fo = [from |-> from, to |-> to]]
  /\ UNCHANGED <<view, pc, asked, pgVars, recovering, nodeVars, cut>>

\* patronictl pause and resume
SetPause(p) ==
  /\ dcs.paused # p
  /\ IF p THEN used.pauses < MaxPauses /\ Event("pauses") ELSE UNCHANGED used
  /\ dcs' = [dcs EXCEPT !.paused = p]
  /\ UNCHANGED <<view, pc, asked, pgVars, recovering, nodeVars, cut>>

-----------------------------------------------------------------------------
(* Deadlines and faults *)

Fault == used.faults < MaxFaults /\ Event("faults")
Elsewhere == UNCHANGED <<pc, view, asked>>


\* The key of n expires; a watchdog that was last kept alive by an update fires first, and
\* a node that has just got the key reaches enforce_primary_role in time.
KeyExpires(n) ==
  /\ dcs.owner = n /\ pc[n] # "won"
  /\ ~wd[n] \/ ping[n] = "fs"
  /\ NoRace(n)
  /\ IF Dcs(n) THEN Fault ELSE UNCHANGED used
  /\ dcs' = [dcs EXCEPT !.owner = None]
  /\ UNCHANGED <<pgVars, recovering, nodeVars, cut>> /\ Elsewhere

\* A failsafe record expires; the watchdog of its sender fires first, and a sender that is
\* still asking the others has that done within a ttl.
FsExpires(n) ==
  /\ fs[n] # None /\ n \notin asked[fs[n]]
  /\ ~wd[fs[n]] \/ ping[fs[n]] # "fs"
  /\ fs' = Set(fs, n, None)
  /\ UNCHANGED <<dcs, pgVars, recovering, up, paused, wd, ping, envVars>> /\ Elsewhere

\* The task goes on after Patroni is gone.
GoneTaskKept(n) ==
  /\ CycleEnds(n)
  /\ up' = Set(up, n, FALSE)
  /\ fs' = IF QuickRestart THEN Set(fs, n, None) ELSE fs
  /\ recovering' = Set(recovering, n, FALSE)
  /\ UNCHANGED <<wal, upstream, role, task, paused, ping>>

\* What is left when Patroni on n is gone.
Gone(n) ==
  /\ CycleEnds(n)
  /\ up' = Set(up, n, FALSE)
  /\ task' = Set(task, n, "none")
  /\ fs' = IF QuickRestart THEN Set(fs, n, None) ELSE fs
  /\ recovering' = Set(recovering, n, FALSE)
  /\ UNCHANGED <<wal, upstream, role, paused, ping>>

HostDown(n) == pg' = Set(pg, n, "down") /\ wd' = Set(wd, n, FALSE) /\ Gone(n) /\ UNCHANGED <<dcs, cut>>

HostCrash(n) == up[n] /\ Fault /\ HostDown(n)

\* The watchdog resets a host whose Patroni is dead, or hangs.
WatchdogFires(n) ==
  /\ wd[n]
  /\ IF up[n] THEN Fault ELSE UNCHANGED used
  /\ HostDown(n)

\* Patroni alone dies; PostgreSQL and the watchdog run on.
PatroniKilled(n) == up[n] /\ Fault /\ Gone(n) /\ UNCHANGED <<dcs, pg, wd, cut>>

\* shutdown: PostgreSQL is stopped and the key deleted; in pause both stay.
Shutdown(n) ==
  /\ up[n] /\ Fault /\ Gone(n)
  /\ wd' = Set(wd, n, FALSE)
  /\ IF paused[n] THEN UNCHANGED <<dcs, pg>>
     ELSE /\ pg' = Set(pg, n, "down")
          /\ NoRace(n)
          /\ dcs' = IF Dcs(n) /\ dcs.owner = n THEN [dcs EXCEPT !.owner = None, !.optime = Lsn(n)] ELSE dcs
  /\ UNCHANGED cut

\* Patroni starts, and takes the role from PostgreSQL or its data directory.  Its failsafe
\* record is lost; unless QuickRestart it would have expired by now.
Restart(n) ==
  /\ ~up[n] /\ (QuickRestart \/ fs[n] = None)
  /\ up' = Set(up, n, TRUE)
  /\ pg' = IF Running(n) THEN pg ELSE Set(pg, n, "down")
  /\ role' = Set(role, n, IF Primary(n) THEN "primary" ELSE "replica")
  /\ UNCHANGED <<dcs, wal, upstream, task, recovering, paused, wd, ping, fs, envVars>> /\ Elsewhere

PgCrash(n) ==
  /\ Running(n) /\ Fault
  /\ pg' = Set(pg, n, IF Primary(n) THEN "crashed" ELSE "down")
  /\ UNCHANGED <<dcs, role, wal, upstream, task, recovering, nodeVars, cut>> /\ Elsewhere

Cut(n) ==
  /\ cut[n] = "none" /\ Fault
  /\ \E c \in {"dcs", "all"} : cut' = Set(cut, n, c)
  /\ UNCHANGED <<dcs, pgVars, recovering, nodeVars>> /\ Elsewhere

Heal(n) ==
  /\ cut[n] # "none"
  /\ cut' = Set(cut, n, "none")
  /\ UNCHANGED <<dcs, pgVars, recovering, nodeVars, used>> /\ Elsewhere

-----------------------------------------------------------------------------
Cycle(n) ==
  \/ Load(n) \/ DcsFails(n) \/ FailsafeAgreed(n) \/ \E r \in Nodes : PostFailsafe(n, r)
  \/ LongAction(n) \/ PostRecover(n) \/ DownInPause(n) \/ Recover(n)
  \/ HealthCheck(n) \/ Acquire(n) \/ AfterAcquire(n)
  \/ NotPrimaryInPause(n) \/ UpdateKey(n) \/ UpdateRefused(n) \/ FollowLeader(n)

Task(n) ==
  \/ PromoteCommits(n) \/ PromoteDone(n) \/ PromoteFails(n) \/ PromoteEnds(n)
  \/ GracefulStop(n) \/ ReleaseKey(n) \/ StopDone(n)
  \/ FollowDone(n) \/ StartDone(n) \/ RewindDone(n)

Faults(n) ==
  HostCrash(n) \/ PatroniKilled(n) \/ Shutdown(n) \/ PgCrash(n) \/ Cut(n) \/ StartFails(n)

Next ==
  \/ \E n \in Nodes :
       \/ Cycle(n) \/ Task(n) \/ Faults(n) \/ Stream(n) \/ Write(n)
       \/ KeyExpires(n) \/ FsExpires(n) \/ WatchdogFires(n) \/ Restart(n) \/ Heal(n)
  \/ \E from, to \in Nodes \cup {None} : RequestFailover(from, to)
  \/ \E p \in BOOLEAN : SetPause(p)

\* Every loop and task goes on, deadlines pass, nodes come back and cuts heal.
Fairness ==
  \A n \in Nodes :
    /\ WF_vars(Cycle(n)) /\ WF_vars(Task(n)) /\ WF_vars(Stream(n))
    /\ WF_vars(KeyExpires(n) /\ ~Dcs(n)) /\ WF_vars(FsExpires(n))
    /\ WF_vars(WatchdogFires(n) /\ ~up[n]) /\ WF_vars(Restart(n)) /\ WF_vars(Heal(n))

Spec == Init /\ [][Next]_vars /\ Fairness
-----------------------------------------------------------------------------
(* Properties *)

TypeOK ==
  /\ dcs \in [owner : Nodes \cup {None}, optime : Nat, hist : Nat, paused : BOOLEAN,
              fo : [from : Nodes \cup {None}, to : Nodes \cup {None}]]
  /\ pc \in [Nodes -> {"idle", "cycle", "race", "won", "failsafe"}]
  /\ asked \in [Nodes -> SUBSET Nodes]
  /\ pg \in [Nodes -> {"primary", "replica", "stopping", "down", "crashed"}]
  /\ role \in [Nodes -> {"primary", "promoted", "replica", "demoted"}]
  /\ task \in [Nodes -> {"none", "promote", "promoting", "waiting", "demote", "release", "follow", "start", "rewind"}]
  /\ \A n \in Nodes : view[n].owner \in Nodes \cup {None} /\ fs[n] \in Nodes \cup {None}
  /\ \A n \in Nodes : up[n] \/ (task[n] = "none" /\ pc[n] = "idle")

\* Two nodes never run a primary at the same time, whatever crashes, hangs, is cut off or
\* is handed over: the watchdog, the failsafe agreement and demote() together see to it,
\* outside of pause and as long as no Patroni forgets a failsafe record by a QuickRestart.
SinglePrimary == \A n, m \in Nodes : Primary(n) /\ Primary(m) => n = m

TakesKey(n) == dcs.owner = None /\ dcs'.owner = n

\* A node takes the key by itself only if it lacks no more than maximum_lag_on_failover of
\* what the last leader reported (is_lagging is checked against an older read of /status).
BoundedLoss ==
  [][\A n \in Nodes :
       TakesKey(n) /\ ~Primary(n) /\ ~FailoverKey(view[n]) /\ ~dcs.paused => ~IsLagging(Lsn(n), dcs)]_vars

\* With check_timeline, a node that takes the key has the last timeline of /history.
LatestTimeline ==
  [][\A n \in Nodes : CheckTimeline /\ TakesKey(n) /\ dcs.fo.to # n => Timeline(n) >= dcs.hist]_vars

\* As long as faults end, the key is held by a running primary again and again.
KeyIsHeld == []<>(\E n \in Nodes : dcs.owner = n /\ Primary(n))

\* One switchover or manual failover, with nothing failing, loses no write: who takes the
\* key that a leader has given up has everything that any leader wrote.  (With a second
\* request that names its candidate while the first is under way this is not so.)
SwitchoverKeepsWrites ==
  [][\A n, m \in Nodes :
       used.faults = 0 /\ used.requests <= 1 /\ TakesKey(n) => IsPrefix(wal[m], wal[n])]_vars

\* In pause Patroni stops no primary by itself, whatever it sees in the DCS: only a
\* demotion that was asked for does.
PauseKeepsPrimary ==
  [][\A n \in Nodes : Primary(n) /\ paused[n] /\ used' = used =>
       pg'[n] = "primary" \/ task[n] = "demote"]_vars
=============================================================================
