-------------------------- MODULE HaClusterProofs --------------------------
(***************************************************************************)
(* What holds of HaCluster for any nodes and bounds.                       *)
(***************************************************************************)
EXTENDS HaCluster, TLAPS, SequenceTheorems

Maybe == Nodes \cup {None}
Records == [tl : Nat, by : Nodes]
Wals == {w \in Seq(Records) : w # <<>>}
Requests == [from : Maybe, to : Maybe]
Clusters == [owner : Maybe, optime : Nat, hist : Nat, paused : BOOLEAN, fo : Requests]
Pcs == {"idle", "cycle", "race", "won", "failsafe"}
Pgs == {"primary", "replica", "stopping", "down", "crashed"}
Roles == {"primary", "promoted", "replica", "demoted"}
Tasks == {"none", "promote", "promoting", "waiting", "demote", "release", "follow", "start", "rewind"}

Counts == [writes : Nat, faults : Nat, requests : Nat, pauses : Nat]

CycleTypes == pc \in [Nodes -> Pcs] /\ view \in [Nodes -> Clusters] /\ asked \in [Nodes -> SUBSET Nodes]
PgTypes == /\ pg \in [Nodes -> Pgs] /\ role \in [Nodes -> Roles] /\ task \in [Nodes -> Tasks]
           /\ upstream \in [Nodes -> Maybe]
WalTypes == wal \in [Nodes -> Wals]
NodeTypes == /\ up \in [Nodes -> BOOLEAN] /\ paused \in [Nodes -> BOOLEAN] /\ wd \in [Nodes -> BOOLEAN]
             /\ ping \in [Nodes -> {"none", "key", "fs"}] /\ fs \in [Nodes -> Maybe]
EnvTypes == recovering \in [Nodes -> BOOLEAN] /\ cut \in [Nodes -> {"none", "dcs", "all"}] /\ used \in Counts
Rests == \A n \in Nodes : up[n] \/ (task[n] = "none" /\ pc[n] = "idle")

Types == dcs \in Clusters /\ CycleTypes /\ PgTypes /\ WalTypes /\ NodeTypes /\ EnvTypes /\ Rests

LEMMA TypesAreTypeOK == Types => TypeOK
BY DEF Types, TypeOK, CycleTypes, PgTypes, NodeTypes, Rests, Clusters, Requests, Maybe, Pcs, Pgs, Roles, Tasks
-----------------------------------------------------------------------------
(* WALs *)

LEMMA WalFacts ==
  ASSUME NEW w \in Wals
  PROVE  Len(w) \in Nat /\ Len(w) > 0 /\ Last(w) \in Records
<1>1. w \in Seq(Records) /\ w # <<>>
  BY DEF Wals
<1>2. Len(w) \in Nat /\ Len(w) > 0
  BY <1>1, EmptySeq
<1>3. w[Len(w)] \in Records
  BY <1>1, <1>2, ElementOfSeq
<1>4. QED
  BY <1>2, <1>3 DEF Last

LEMMA AppendWal ==
  ASSUME NEW w \in Wals, NEW r \in Records
  PROVE  Append(w, r) \in Wals
<1>1. w \in Seq(Records)
  BY DEF Wals
<1>2. Append(w, r) \in Seq(Records) /\ Len(Append(w, r)) = Len(w) + 1
  BY <1>1, AppendProperties
<1>3. Append(w, r) # <<>>
  BY <1>1, <1>2, EmptySeq
<1>4. QED
  BY <1>2, <1>3 DEF Wals

\* A WAL that is a prefix of another one, and not the same, is shorter.
LEMMA NextRecord ==
  ASSUME NEW v \in Wals, NEW w \in Wals, IsPrefix(v, w), v # w
  PROVE  SubSeq(w, 1, Len(v) + 1) \in Wals
<1>1. v \in Seq(Records) /\ w \in Seq(Records) /\ Len(v) \in Nat /\ Len(w) \in Nat
  BY WalFacts DEF Wals
<1>2. Len(v) <= Len(w) /\ SubSeq(v, 1, Len(v)) = SubSeq(w, 1, Len(v))
  BY DEF IsPrefix
<1>3. SubSeq(v, 1, Len(v)) = v /\ SubSeq(w, 1, Len(w)) = w
  BY <1>1, SubSeqFull
<1>4. Len(v) # Len(w)
  BY <1>2, <1>3
<1>5. Len(v) + 1 \in 1 .. Len(w)
  BY <1>1, <1>2, <1>4
<1>6. 1 \in 1 .. Len(w) + 1 /\ Len(v) + 1 \in 0 .. Len(w)
  BY <1>1, <1>5
<1>7. SubSeq(w, 1, Len(v) + 1) \in Seq(Records) /\ Len(SubSeq(w, 1, Len(v) + 1)) = Len(v) + 1
  BY <1>1, <1>6, <1>5, SubSeqProperties
<1>8. SubSeq(w, 1, Len(v) + 1) # <<>>
  <2>1. Len(v) + 1 # 0
    BY <1>1
  <2>2. QED
    BY <1>7, <2>1, EmptySeq
<1>9. QED
  BY <1>7, <1>8 DEF Wals
-----------------------------------------------------------------------------
(* What the pieces of a cycle do *)

\* Nothing happens to the PostgreSQL and the watchdog of the nodes but n.
OnlyNode(n) ==
  \A m \in Nodes \ {n} :
    pg'[m] = pg[m] /\ role'[m] = role[m] /\ task'[m] = task[m] /\ wd'[m] = wd[m] /\ ping'[m] = ping[m]

\* No other cycle goes on.
OnlyCycle(n) == \A m \in Nodes \ {n} : pc'[m] = pc[m] /\ view'[m] = view[m] /\ asked'[m] = asked[m]

NodeStep(n) == OnlyNode(n) /\ PgTypes' /\ NodeTypes'

LEMMA Keeps ==
  ASSUME Types, NEW n \in Nodes, KeepNode
  PROVE  NodeStep(n)
BY DEF KeepNode, NodeStep, OnlyNode, Types, PgTypes, NodeTypes, pgVars, nodeVars

Stopped(n, state, as, next) ==
  pg'[n] = state /\ role'[n] = as /\ wd'[n] = FALSE /\ task'[n] = next

LEMMA Stops ==
  ASSUME Types, NEW n \in Nodes, StopAndFollow(n)
  PROVE  /\ NodeStep(n)
         /\ Stopped(n, "down", "demoted", IF Busy(n) /\ task[n] # "start" THEN task[n] ELSE "follow")
<1>1. PgTypes' /\ NodeTypes'
  BY DEF StopAndFollow, Types, PgTypes, NodeTypes, Set, Pgs, Roles, Tasks
<1>2. OnlyNode(n)
  BY DEF StopAndFollow, Types, PgTypes, NodeTypes, Set, OnlyNode
<1>3. QED
  BY <1>1, <1>2 DEF StopAndFollow, Types, PgTypes, NodeTypes, Set, Stopped, NodeStep

LEMMA StopsOffline ==
  ASSUME Types, NEW n \in Nodes, StopOffline(n)
  PROVE  NodeStep(n) /\ Stopped(n, "replica", "replica", task[n])
<1>1. PgTypes' /\ NodeTypes'
  BY DEF StopOffline, Types, PgTypes, NodeTypes, Set, Pgs, Roles, Maybe
<1>2. OnlyNode(n)
  BY DEF StopOffline, Types, PgTypes, NodeTypes, Set, OnlyNode
<1>3. QED
  BY <1>1, <1>2 DEF StopOffline, Types, PgTypes, NodeTypes, Set, Stopped, NodeStep

\* What FollowWith leaves of a node that was no primary, or is one in pause.
Followed(n) ==
  /\ pg'[n] = pg[n] /\ wd'[n] = wd[n]
  /\ IF Primary(n) THEN paused[n] /\ role'[n] = "primary" /\ task'[n] = task[n]
     ELSE role'[n] = "replica" /\ task'[n] \in {task[n], "rewind"}

LEMMA Follows ==
  ASSUME Types, NEW n \in Nodes, NEW v, v.owner \in Maybe, FollowWith(n, v)
  PROVE  /\ NodeStep(n) /\ UNCHANGED <<wal, up, paused, fs, ping>>
         /\ \/ Followed(n)
            \/ /\ Primary(n) /\ ~paused[n]
               /\ Stopped(n, "down", "demoted", IF Busy(n) /\ task[n] # "start" THEN task[n] ELSE "follow")
<1>1. CASE Primary(n) /\ ~paused[n]
  BY <1>1, Stops DEF FollowWith, StopAndFollow
<1>2. CASE Primary(n) /\ paused[n]
  <2>1. role' = Set(role, n, "primary") /\ UNCHANGED <<pg, wal, upstream, task, nodeVars>>
    BY <1>2 DEF FollowWith
  <2>2. QED
    BY <1>2, <2>1 DEF Followed, NodeStep, OnlyNode, Types, PgTypes, NodeTypes, Set, Roles, nodeVars
<1>3. CASE ~Primary(n)
  <2> DEFINE m == NodeToFollow(n, v)
  <2>1. m \in Maybe
    BY DEF NodeToFollow, Maybe
  <2>2. /\ role' = Set(role, n, "replica") /\ UNCHANGED <<pg, wal, nodeVars>>
        /\ \/ task' = Set(task, n, "rewind") /\ UNCHANGED upstream
           \/ upstream' = Set(upstream, n, m) /\ UNCHANGED task
    BY <1>3 DEF FollowWith
  <2> HIDE DEF m
  <2>3. NodeStep(n)
    BY <2>1, <2>2 DEF NodeStep, OnlyNode, Types, PgTypes, NodeTypes, Set, Roles, Tasks, nodeVars
  <2>4. Followed(n)
    BY <1>3, <2>2 DEF Followed, Types, PgTypes, NodeTypes, Set, nodeVars
  <2>5. QED
    BY <2>2, <2>3, <2>4 DEF nodeVars
<1>4. QED
  BY <1>1, <1>2, <1>3

\* What enforce_primary_role leaves of a holder of the key that has a watchdog.
Leads(n) ==
  /\ ~(n \in NoWatchdog /\ ~paused[n])
  /\ pg'[n] = pg[n] /\ wd'[n] = ~paused[n] /\ ping'[n] = "key"
  /\ fs' = Set(fs, n, None)
  /\ task'[n] = task[n] \/ (task'[n] = "promote" /\ ~Primary(n))
  /\ UNCHANGED paused

\* What it leaves of one that gives the key up.
Resigns(n) ==
  /\ n \in NoWatchdog /\ ~paused[n]
  /\ \/ Stopped(n, "down", "demoted", IF Busy(n) /\ task[n] # "start" THEN task[n] ELSE "follow")
     \/ /\ ~Primary(n) /\ pg'[n] = pg[n] /\ role'[n] = role[n]
        /\ wd'[n] = wd[n] /\ task'[n] = task[n]
  /\ UNCHANGED <<fs, paused, ping>>

LEMMA Enforces ==
  ASSUME Types, NEW n \in Nodes, NEW owner, NEW hist, Enforced(n, owner, hist)
  PROVE  /\ NodeStep(n) /\ UNCHANGED <<wal, up>>
         /\ (owner = n /\ Leads(n)) \/ (owner = None /\ Resigns(n))
<1>1. CASE n \in NoWatchdog /\ ~paused[n] /\ Primary(n)
  <2>1. owner = None /\ StopAndFollow(n)
    BY <1>1 DEF Enforced
  <2>2. QED
    BY <1>1, <2>1, Stops DEF Resigns, StopAndFollow
<1>2. CASE n \in NoWatchdog /\ ~paused[n] /\ ~Primary(n)
  <2>1. owner = None /\ KeepNode
    BY <1>2 DEF Enforced
  <2>2. QED
    BY <1>2, <2>1, Keeps DEF Resigns, KeepNode, pgVars, nodeVars
<1>3. CASE ~(n \in NoWatchdog /\ ~paused[n])
  <2>1. /\ owner = n
        /\ wd' = Set(wd, n, ~paused[n]) /\ ping' = Set(ping, n, "key") /\ fs' = Set(fs, n, None)
        /\ role' = role \/ role' = Set(role, n, "primary")
        /\ task' = task \/ (task' = Set(task, n, "promote") /\ ~Primary(n))
        /\ UNCHANGED <<pg, wal, upstream, up, paused>>
    BY <1>3 DEF Enforced
  <2>2. PgTypes'
    BY <2>1 DEF Types, PgTypes, Set, Roles, Tasks
  <2>3. NodeTypes'
    BY <2>1 DEF Types, NodeTypes, Set, Maybe
  <2>4. OnlyNode(n)
    BY <2>1 DEF Types, PgTypes, NodeTypes, OnlyNode, Set
  <2>5. Leads(n)
    BY <1>3, <2>1 DEF Types, PgTypes, NodeTypes, Leads, Set
  <2>6. QED
    BY <2>1, <2>2, <2>3, <2>4, <2>5 DEF NodeStep
<1>4. QED
  BY <1>1, <1>2, <1>3

LEMMA EndsCycle ==
  ASSUME HaAssumption, Types, NEW n \in Nodes, CycleEnds(n)
  PROVE  CycleTypes' /\ OnlyCycle(n) /\ pc'[n] = "idle" /\ asked'[n] = {}
<1>1. NoView \in Clusters
  BY DEF NoView, NoFailoverKey, Clusters, Requests, Maybe
<1>2. pc' = Set(pc, n, "idle") /\ view' = Set(view, n, NoView) /\ asked' = Set(asked, n, {})
  BY DEF CycleEnds
<1>3. QED
  BY <1>1, <1>2 DEF Types, CycleTypes, OnlyCycle, Set, Pcs

-----------------------------------------------------------------------------
(* The types *)

LEMMA KeyTypes ==
  ASSUME Types, NEW n \in Nodes
  PROVE  /\ Lsn(n) \in Nat /\ Timeline(n) \in Nat
         /\ [dcs EXCEPT !.owner = None] \in Clusters
         /\ [dcs EXCEPT !.owner = None, !.optime = Lsn(n)] \in Clusters
         /\ [tl |-> Timeline(n) + 1, by |-> n] \in Records /\ [tl |-> Timeline(n), by |-> n] \in Records
         /\ NodeToFollow(n, dcs) \in Maybe
<1>1. Lsn(n) \in Nat /\ Timeline(n) \in Nat
  BY WalFacts DEF Types, WalTypes, Lsn, Timeline, Records
<1>2. /\ [dcs EXCEPT !.owner = None] \in Clusters
      /\ [dcs EXCEPT !.owner = None, !.optime = Lsn(n)] \in Clusters
  BY <1>1 DEF Types, Clusters, Maybe
<1>3. [tl |-> Timeline(n) + 1, by |-> n] \in Records /\ [tl |-> Timeline(n), by |-> n] \in Records
  BY <1>1 DEF Records
<1>4. NodeToFollow(n, dcs) \in Maybe
  BY DEF Types, Clusters, Maybe, NodeToFollow
<1>5. QED
  BY <1>1, <1>2, <1>3, <1>4

LEMMA TaskTypes ==
  ASSUME HaAssumption, Types, NEW n \in Nodes, Task(n)
  PROVE  Types'
<1>0. Set(upstream, n, None) \in [Nodes -> Maybe] /\ Set(upstream, n, NodeToFollow(n, dcs)) \in [Nodes -> Maybe]
  BY KeyTypes DEF Types, PgTypes, Maybe, Set
<1> USE DEF Task, PromoteCommits, PromoteDone, PromoteFails, PromoteEnds, GracefulStop, ReleaseKey, StopDone,
            FollowDone, StartDone, RewindDone, TaskStep, Set, nodeVars
<1>1. dcs' \in Clusters
  BY KeyTypes DEF Types
<1>2. CycleTypes' /\ EnvTypes'
  BY DEF Types, CycleTypes, TaskRest, EnvTypes, envVars
<1>3. PgTypes'
  <2>1. pg' \in [Nodes -> Pgs]
    BY DEF Types, PgTypes, Pgs
  <2>3. role' \in [Nodes -> Roles]
    BY DEF Types, PgTypes, Roles
  <2>4. task' \in [Nodes -> Tasks]
    BY DEF Types, PgTypes, Tasks
  <2>2. upstream' \in [Nodes -> Maybe]
    <3>1. upstream' = upstream \/ upstream' = Set(upstream, n, None) \/ upstream' = Set(upstream, n, NodeToFollow(n, dcs))
      BY DEF Dcs
    <3>2. QED
      BY <1>0, <3>1 DEF Types, PgTypes
  <2>5. QED
    BY <2>1, <2>2, <2>3, <2>4 DEF PgTypes
<1>4. NodeTypes'
  BY DEF Types, NodeTypes
<1>5. WalTypes'
  <2>1. CASE PromoteDone(n)
    BY <2>1, KeyTypes, AppendWal DEF Types, WalTypes
  <2>2. CASE wal' = wal
    BY <2>2 DEF Types, WalTypes
  <2>3. CASE \E m \in Nodes : wal' = Set(wal, n, wal[m])
    BY <2>3 DEF Types, WalTypes
  <2>4. QED
    BY <2>1, <2>2, <2>3
<1>6. Rests'
  BY DEF Types, Rests, PgTypes, TaskRest
<1>7. QED
  BY <1>1, <1>2, <1>3, <1>4, <1>5, <1>6 DEF Types

\* All that a fault, a deadline, a repair or a restart can do to n.
Accident(n) ==
  /\ \/ dcs' = dcs \/ dcs' = [dcs EXCEPT !.owner = None]
     \/ dcs' = [dcs EXCEPT !.owner = None, !.optime = Lsn(n)]
  /\ \/ CycleEnds(n) /\ task' = Set(task, n, "none") /\ up' = Set(up, n, FALSE)
     \/ /\ UNCHANGED <<pc, view, asked>>
        /\ task' = task \/ task' = Set(task, n, "none")
        /\ up' = up \/ up' = Set(up, n, TRUE)
  /\ pg' = pg \/ \E s \in {"down", "crashed"} : pg' = Set(pg, n, s)
  /\ role' = role \/ \E r \in {"primary", "replica"} : role' = Set(role, n, r)
  /\ recovering' = recovering \/ recovering' = Set(recovering, n, FALSE)
  /\ wd' = wd \/ wd' = Set(wd, n, FALSE)
  /\ fs' = fs \/ fs' = Set(fs, n, None)
  /\ cut' = cut \/ \E c \in {"none", "dcs", "all"} : cut' = Set(cut, n, c)
  /\ used' = used \/ used' = [used EXCEPT !.faults = @ + 1]
  /\ UNCHANGED <<wal, upstream, paused, ping>>

Happens(n) ==
  Faults(n) \/ KeyExpires(n) \/ FsExpires(n) \/ WatchdogFires(n) \/ Restart(n) \/ Heal(n)

LEMMA Accidents ==
  ASSUME NEW n \in Nodes, Happens(n)
  PROVE  Accident(n)
<1> USE DEF Accident, Elsewhere, Fault, Event, Spend, Gone, HostDown, pgVars, nodeVars, envVars
<1>1. CASE HostCrash(n)
  BY <1>1 DEF HostCrash
<1>2. CASE PatroniKilled(n)
  BY <1>2 DEF PatroniKilled
<1>3. CASE Shutdown(n)
  BY <1>3 DEF Shutdown
<1>4. CASE PgCrash(n)
  BY <1>4 DEF PgCrash
<1>5. CASE Cut(n)
  BY <1>5 DEF Cut
<1>6. CASE StartFails(n)
  BY <1>6 DEF StartFails, TaskStep
<1>7. CASE KeyExpires(n)
  BY <1>7 DEF KeyExpires
<1>8. CASE FsExpires(n)
  BY <1>8 DEF FsExpires
<1>9. CASE WatchdogFires(n)
  BY <1>9 DEF WatchdogFires
<1>10. CASE Restart(n)
  BY <1>10 DEF Restart
<1>11. CASE Heal(n)
  BY <1>11 DEF Heal
<1>12. QED
  BY <1>1, <1>2, <1>3, <1>4, <1>5, <1>6, <1>7, <1>8, <1>9, <1>10, <1>11 DEF Faults, Happens

LEMMA AccidentTypes ==
  ASSUME HaAssumption, Types, NEW n \in Nodes, Accident(n)
  PROVE  Types'
<1>1. dcs' \in Clusters
  BY KeyTypes DEF Accident, Types
<1>2. CycleTypes' /\ Rests'
  <2>1. CASE CycleEnds(n) /\ task' = Set(task, n, "none") /\ up' = Set(up, n, FALSE)
    BY <2>1, EndsCycle DEF Types, PgTypes, NodeTypes, Rests, Set, OnlyCycle
  <2>2. CASE UNCHANGED <<pc, view, asked>>
    <3>1. (task' = task \/ task' = Set(task, n, "none")) /\ (up' = up \/ up' = Set(up, n, TRUE) \/ CycleEnds(n))
      BY DEF Accident
    <3>2. QED
      BY <2>2, <3>1, <2>1 DEF Accident, Types, PgTypes, NodeTypes, Rests, Set, CycleTypes
  <2>3. QED
    BY <2>1, <2>2 DEF Accident
<1>3. PgTypes'
  BY DEF Accident, Types, PgTypes, Set, Pgs, Roles, Tasks
<1>4. NodeTypes'
  BY DEF Accident, Types, NodeTypes, Set, Maybe
<1>5. WalTypes' /\ EnvTypes'
  <2>1. cut' \in [Nodes -> {"none", "dcs", "all"}]
    BY DEF Accident, Types, EnvTypes, Set
  <2>2. recovering' \in [Nodes -> BOOLEAN]
    BY DEF Accident, Types, EnvTypes, Set
  <2>3. used' \in Counts
    BY DEF Accident, Types, EnvTypes, Counts
  <2>4. QED
    BY <2>1, <2>2, <2>3 DEF Accident, Types, WalTypes, EnvTypes
<1>6. QED
  BY <1>1, <1>2, <1>3, <1>4, <1>5 DEF Types

LEMMA LoadTypes ==
  ASSUME HaAssumption, Types, NEW n \in Nodes, Load(n)
  PROVE  Types'
<1> DEFINE v == Snapshot(n)
<1>1. v \in Clusters
  BY DEF Snapshot, Types, Clusters, NodeTypes, Maybe
<1>2. /\ pc' = Set(pc, n, "cycle") /\ view' = Set(view, n, v) /\ paused' = Set(paused, n, v.paused)
      /\ wd' = wd \/ wd' = Set(wd, n, FALSE)
      /\ UNCHANGED <<dcs, asked, pgVars, up, ping, fs, envVars, recovering>>
      /\ up[n]
  BY DEF Load, Dcs
<1> HIDE DEF v
<1>3. CycleTypes' /\ NodeTypes'
  BY <1>1, <1>2 DEF Types, CycleTypes, NodeTypes, Set, Pcs, Clusters
<1>4. Rests' /\ PgTypes' /\ WalTypes' /\ EnvTypes' /\ dcs' \in Clusters
  BY <1>2 DEF Types, Rests, CycleTypes, PgTypes, WalTypes, EnvTypes, Set, pgVars, envVars
<1>5. QED
  BY <1>3, <1>4 DEF Types

\* A step of the cycle of n that runs its node, and ends the cycle or goes on with it.
CycleStep(n) ==
  /\ up[n] /\ UNCHANGED <<up, envVars>>
  /\ recovering' = recovering \/ \E r \in BOOLEAN : recovering' = Set(recovering, n, r)
  /\ wal' = wal
  /\ NodeStep(n)
  /\ CycleEnds(n) \/ (UNCHANGED <<view, asked>> /\ \E to \in Pcs : pc' = Set(pc, n, to))
  /\ dcs' \in Clusters

LEMMA CycleStepTypes ==
  ASSUME HaAssumption, Types, NEW n \in Nodes, CycleStep(n)
  PROVE  Types'
<1>1. CycleTypes' /\ OnlyCycle(n)
  <2>1. CASE CycleEnds(n)
    BY <2>1, EndsCycle
  <2>2. CASE UNCHANGED <<view, asked>> /\ \E to \in Pcs : pc' = Set(pc, n, to)
    BY <2>2 DEF Types, CycleTypes, OnlyCycle, Set
  <2>3. QED
    BY <2>1, <2>2 DEF CycleStep
<1>2. Rests'
  BY <1>1 DEF CycleStep, Types, Rests, NodeStep, OnlyNode, OnlyCycle
<1>3. QED
  BY <1>1, <1>2 DEF CycleStep, Types, NodeStep, EnvTypes, envVars, WalTypes, Set

LEMMA Awake ==
  ASSUME Types, NEW n \in Nodes, pc[n] # "idle"
  PROVE  up[n]
BY DEF Types, Rests

\* The outcome of a cycle that ends: recovering, the DCS and the node.
LEMMA EndTypes ==
  ASSUME HaAssumption, Types, NEW n \in Nodes, pc[n] # "idle" \/ up[n],
         CycleEnds(n), NodeStep(n), UNCHANGED <<up, wal, envVars>>, dcs' \in Clusters,
         recovering' = recovering \/ \E r \in BOOLEAN : recovering' = Set(recovering, n, r)
  PROVE  Types'
BY Awake, CycleStepTypes DEF CycleStep

LEMMA OnTypes ==
  ASSUME HaAssumption, Types, NEW n \in Nodes, pc[n] # "idle" \/ up[n],
         UNCHANGED <<view, asked>>, NEW to \in Pcs, pc' = Set(pc, n, to),
         KeepNode, UNCHANGED envVars, dcs' \in Clusters,
         recovering' = recovering \/ \E r \in BOOLEAN : recovering' = Set(recovering, n, r)
  PROVE  Types'
BY Awake, CycleStepTypes, Keeps DEF CycleStep, KeepNode, pgVars, nodeVars

LEMMA ErrorTypes ==
  ASSUME HaAssumption, Types, NEW n \in Nodes, DcsFails(n)
  PROVE  Types'
<1>1. up[n] /\ DcsError(n) /\ UNCHANGED <<dcs, envVars, recovering>>
  BY DEF DcsFails
<1>2. CASE Primary(n) /\ ~paused[n] /\ FailsafeMode
  <2>1. pc' = Set(pc, n, "failsafe") /\ UNCHANGED <<view, asked>> /\ KeepNode
    BY <1>1, <1>2 DEF DcsError
  <2>2. QED
    BY <1>1, <2>1, OnTypes DEF Pcs, Types
<1>3. CASE Primary(n) /\ ~paused[n] /\ ~FailsafeMode
  <2>1. CycleEnds(n) /\ StopOffline(n)
    BY <1>1, <1>3 DEF DcsError
  <2>2. QED
    BY <1>1, <2>1, EndTypes, StopsOffline DEF Types, StopOffline
<1>4. CASE ~(Primary(n) /\ ~paused[n])
  <2>1. CycleEnds(n) /\ KeepNode
    BY <1>1, <1>4 DEF DcsError
  <2>2. QED
    BY <1>1, <2>1, EndTypes, Keeps DEF Types, KeepNode, pgVars, nodeVars
<1>5. QED
  BY <1>2, <1>3, <1>4

LEMMA PostTypes ==
  ASSUME HaAssumption, Types, NEW n \in Nodes, NEW r \in Nodes, PostFailsafe(n, r)
  PROVE  Types'
<1>1. pc[n] = "failsafe" /\ UNCHANGED <<dcs, envVars, recovering>>
  BY DEF PostFailsafe
<1>2. CASE StopOffline(n) /\ CycleEnds(n)
  BY <1>1, <1>2, EndTypes, StopsOffline DEF Types, StopOffline
<1>3. CASE /\ fs' = Set(fs, r, n) /\ asked' = Set(asked, n, asked[n] \cup {r})
           /\ UNCHANGED <<pc, view, pgVars, up, paused, wd, ping>>
  <2>1. CycleTypes' /\ Rests'
    BY <1>3 DEF Types, CycleTypes, Rests, Set, pgVars
  <2>2. NodeTypes'
    BY <1>3 DEF Types, NodeTypes, Set, Maybe
  <2>3. QED
    BY <1>1, <1>3, <2>1, <2>2 DEF Types, PgTypes, WalTypes, EnvTypes, envVars, pgVars
<1>4. QED
  BY <1>2, <1>3 DEF PostFailsafe

LEMMA AgreedTypes ==
  ASSUME HaAssumption, Types, NEW n \in Nodes, FailsafeAgreed(n)
  PROVE  Types'
<1>1. /\ pc[n] = "failsafe" /\ ping' = Set(ping, n, "fs") /\ CycleEnds(n)
      /\ UNCHANGED <<dcs, pgVars, up, paused, wd, fs, envVars, recovering>>
  BY DEF FailsafeAgreed
<1>2. NodeStep(n)
  BY <1>1 DEF NodeStep, OnlyNode, Types, PgTypes, NodeTypes, Set, pgVars
<1>3. QED
  BY <1>1, <1>2, EndTypes DEF Types, pgVars

\* What handle_long_action_in_progress does.
Goes(n) ==
  /\ UNCHANGED <<wal, up, fs, paused>>
  /\ \/ /\ Holds(n) /\ dcs.owner = n
        /\ ping' = Set(ping, n, "key") /\ UNCHANGED <<pg, role, task, wd>>
     \/ /\ ~(Holds(n) /\ dcs.owner = n)
        /\ UNCHANGED ping
        /\ \/ UNCHANGED <<pg, role, task, wd>>
           \/ /\ pg'[n] = pg[n] /\ role'[n] = role[n] /\ wd'[n] = wd[n]
              /\ task[n] = "promote" /\ task'[n] = "none"
           \/ /\ ~paused[n]
              /\ Stopped(n, "down", "demoted", IF task[n] # "start" THEN task[n] ELSE "follow")

LEMMA LongActs ==
  ASSUME HaAssumption, Types, NEW n \in Nodes, LongAction(n)
  PROVE  Types' /\ NodeStep(n) /\ Goes(n) /\ CycleEnds(n)
<1>1. pc[n] = "cycle" /\ Busy(n) /\ CycleEnds(n) /\ UNCHANGED <<dcs, envVars, recovering>>
  BY DEF LongAction, InCycle
<1>2. NodeStep(n) /\ Goes(n)
  <2>1. CASE Holds(n) /\ dcs.owner = n
    <3>1. ping' = Set(ping, n, "key") /\ UNCHANGED <<pgVars, up, paused, wd, fs>>
      BY <2>1 DEF LongAction
    <3>2. QED
      BY <2>1, <3>1 DEF NodeStep, OnlyNode, Goes, Types, PgTypes, NodeTypes, Set, pgVars
  <2>2. CASE KeepNode /\ ~(Holds(n) /\ dcs.owner = n)
    BY <2>2, Keeps DEF Goes, KeepNode, pgVars, nodeVars
  <2>3. CASE /\ ~(Holds(n) /\ dcs.owner = n)
             /\ task[n] = "promote" /\ task' = Set(task, n, "none") /\ UNCHANGED <<pg, role, wal, upstream, nodeVars>>
    BY <2>3 DEF NodeStep, OnlyNode, Goes, Types, PgTypes, NodeTypes, Set, Tasks, nodeVars
  <2>4. CASE ~(Holds(n) /\ dcs.owner = n) /\ StopAndFollow(n) /\ ~paused[n]
    BY <1>1, <2>4, Stops DEF Goes, StopAndFollow
  <2>5. QED
    BY <2>1, <2>2, <2>3, <2>4 DEF LongAction
<1>3. QED
  BY <1>1, <1>2, EndTypes DEF Types, Goes

\* What post_recover does.
GivesUp(n) ==
  /\ ~Running(n) /\ UNCHANGED <<pg, wal, up, paused, ping, fs>>
  /\ wd'[n] = FALSE /\ task'[n] = task[n] /\ task[n] = "none"
  /\ dcs' = IF Holds(n) /\ dcs.owner = n THEN [dcs EXCEPT !.owner = None] ELSE dcs

LEMMA PostRecovers ==
  ASSUME HaAssumption, Types, NEW n \in Nodes, PostRecover(n)
  PROVE  Types' /\ NodeStep(n) /\ GivesUp(n) /\ CycleEnds(n) /\ pc[n] = "cycle"
<1>1. /\ pc[n] = "cycle" /\ up[n] /\ CycleEnds(n) /\ ~Busy(n) /\ ~Running(n)
      /\ dcs' = IF Holds(n) /\ dcs.owner = n THEN [dcs EXCEPT !.owner = None] ELSE dcs
      /\ role' = role \/ role' = Set(role, n, "demoted")
      /\ recovering' = Set(recovering, n, FALSE) /\ wd' = Set(wd, n, FALSE)
      /\ UNCHANGED <<pg, wal, upstream, task, up, paused, ping, fs, envVars>>
  BY DEF PostRecover, InCycle
<1>2. NodeStep(n) /\ GivesUp(n)
  BY <1>1 DEF NodeStep, OnlyNode, GivesUp, Types, PgTypes, NodeTypes, Set, Roles, Busy
<1>3. dcs' \in Clusters
  BY <1>1, KeyTypes DEF Types
<1>4. QED
  BY <1>1, <1>2, <1>3, EndTypes

\* What recover does.
Recovers(n) ==
  /\ ~Running(n) /\ task[n] = "none" /\ UNCHANGED <<wal, up, paused, fs>>
  /\ \/ /\ Holds(n) /\ dcs.owner = n
        /\ dcs' = [dcs EXCEPT !.owner = None] /\ Stopped(n, "down", "demoted", "follow") /\ UNCHANGED ping
     \/ /\ Holds(n) /\ dcs.owner = n /\ StartTimeout = 1 /\ pg[n] = "crashed" /\ role[n] = "primary"
        /\ task'[n] = "start" /\ ping'[n] = "key" /\ UNCHANGED <<dcs, pg, role, wd>>
     \/ /\ ~(Holds(n) /\ dcs.owner = n /\ StartTimeout = 1 /\ pg[n] = "crashed" /\ role[n] = "primary")
        /\ task'[n] \in {"rewind", "follow"} /\ wd'[n] = FALSE /\ UNCHANGED <<dcs, pg, role, ping>>

LEMMA RecoverActs ==
  ASSUME HaAssumption, Types, NEW n \in Nodes, Recover(n)
  PROVE  Types' /\ NodeStep(n) /\ Recovers(n) /\ CycleEnds(n) /\ pc[n] = "cycle" /\ ~paused[n]
<1> DEFINE start == StartTimeout = 1 /\ pg[n] = "crashed" /\ role[n] = "primary"
           owns == Holds(n) /\ dcs.owner = n
<1>1. pc[n] = "cycle" /\ up[n] /\ CycleEnds(n) /\ task[n] = "none" /\ ~Running(n) /\ ~paused[n] /\ UNCHANGED envVars
  BY DEF Recover, InCycle, Busy
<1>2. /\ NodeStep(n) /\ Recovers(n) /\ dcs' \in Clusters
      /\ recovering' = recovering \/ \E r \in BOOLEAN : recovering' = Set(recovering, n, r)
  <2>1. CASE owns /\ dcs' = [dcs EXCEPT !.owner = None] /\ StopAndFollow(n) /\ UNCHANGED recovering
    BY <1>1, <2>1, Stops, KeyTypes DEF Recovers, StopAndFollow, Busy
  <2>2. CASE /\ owns /\ start
             /\ task' = Set(task, n, "start") /\ recovering' = Set(recovering, n, TRUE)
             /\ ping' = Set(ping, n, "key")
             /\ UNCHANGED <<dcs, pg, role, wal, upstream, up, paused, wd, fs>>
    <3>1. NodeStep(n)
      BY <2>2 DEF NodeStep, OnlyNode, Types, PgTypes, NodeTypes, Set, Tasks
    <3>2. Recovers(n)
      BY <1>1, <2>2 DEF Recovers, Types, PgTypes, NodeTypes, Set
    <3>3. QED
      BY <2>2, <3>1, <3>2 DEF Types
  <2>3. CASE /\ ~(owns /\ start)
             /\ \E next \in {"rewind", "follow"} : task' = Set(task, n, next)
             /\ \E r \in BOOLEAN : recovering' = Set(recovering, n, r)
             /\ wd' = Set(wd, n, FALSE)
             /\ UNCHANGED <<dcs, pg, role, wal, upstream, up, paused, ping, fs>>
    <3>1. NodeStep(n)
      BY <2>3 DEF NodeStep, OnlyNode, Types, PgTypes, NodeTypes, Set, Tasks
    <3>2. Recovers(n)
      BY <1>1, <2>3 DEF Recovers, Types, PgTypes, NodeTypes, Set
    <3>3. QED
      BY <2>3, <3>1, <3>2 DEF Types
  <2>4. owns \/ ~owns
    OBVIOUS
  <2>5. QED
    BY <2>1, <2>2, <2>3 DEF Recover
<1>3. QED
  BY <1>1, <1>2, EndTypes DEF Recovers

LEMMA HealthTypes ==
  ASSUME HaAssumption, Types, NEW n \in Nodes, HealthCheck(n)
  PROVE  Types'
<1>1. pc[n] = "cycle" /\ UNCHANGED <<dcs, envVars>> /\ Recovered(n)
  BY DEF HealthCheck, Ready, InCycle
<1>2. CASE pc' = Set(pc, n, "race") /\ UNCHANGED <<view, asked>> /\ KeepNode
  BY <1>1, <1>2, OnTypes DEF Types, Pcs, Recovered
<1>3. CASE FollowWith(n, dcs) /\ CycleEnds(n)
  BY <1>1, <1>3, EndTypes, Follows DEF Types, Recovered, Clusters
<1>4. QED
  BY <1>2, <1>3 DEF HealthCheck

LEMMA AcquireTypes ==
  ASSUME HaAssumption, Types, NEW n \in Nodes, Acquire(n)
  PROVE  Types'
<1>1. pc[n] = "race" /\ UNCHANGED envVars /\ Recovered(n)
  BY DEF Acquire
<1>2. CASE dcs' = [dcs EXCEPT !.owner = n] /\ pc' = Set(pc, n, "won") /\ UNCHANGED <<view, asked>> /\ KeepNode
  <2>1. dcs' \in Clusters
    BY <1>2 DEF Types, Clusters, Maybe
  <2>2. QED
    BY <1>1, <1>2, <2>1, OnTypes DEF Pcs, Recovered
<1>3. CASE dcs' = dcs /\ FollowWith(n, dcs) /\ CycleEnds(n)
  BY <1>1, <1>3, EndTypes, Follows DEF Types, Recovered, Clusters
<1>4. QED
  BY <1>2, <1>3 DEF Acquire

LEMMA WonActs ==
  ASSUME HaAssumption, Types, NEW n \in Nodes, AfterAcquire(n)
  PROVE  /\ Types' /\ NodeStep(n) /\ CycleEnds(n) /\ dcs'.paused = dcs.paused
         /\ dcs.owner = n => (dcs'.owner = n /\ Leads(n)) \/ (dcs'.owner = None /\ Resigns(n))
<1>1. pc[n] = "won" /\ UNCHANGED envVars /\ Recovered(n) /\ CycleEnds(n)
  BY DEF AfterAcquire
<1> DEFINE fo == IF ~FailoverKey(view[n]) THEN dcs.fo
                 ELSE IF paused[n] /\ view[n].fo.from # None /\ view[n].fo.to # None
                      THEN [from |-> None, to |-> view[n].fo.to]
                 ELSE NoFailoverKey
<1>2. fo \in Requests
  BY DEF NoFailoverKey, Types, CycleTypes, Clusters, Requests, Maybe
<1>3. PICK owner \in {n, None}, hist \in 0 .. MaxTimeline :
        /\ Enforced(n, owner, hist)
        /\ dcs' = [dcs EXCEPT !.owner = IF @ = n THEN owner ELSE @, !.hist = hist, !.fo = fo]
  BY DEF AfterAcquire
<1> HIDE DEF fo
<1>4. /\ dcs' \in Clusters /\ dcs'.paused = dcs.paused
      /\ dcs.owner = n => dcs'.owner = owner
  <2> DEFINE who == IF dcs.owner = n THEN owner ELSE dcs.owner
  <2>1. who \in Maybe
    BY DEF Maybe, Types, Clusters
  <2>2. dcs' = [dcs EXCEPT !.owner = who, !.hist = hist, !.fo = fo]
    BY <1>3
  <2>3. hist \in Nat
    BY DEF HaAssumption
  <2>4. dcs.owner = n => who = owner
    OBVIOUS
  <2> HIDE DEF who
  <2>5. QED
    BY <1>2, <2>1, <2>2, <2>3, <2>4 DEF Types, Clusters
<1>5. QED
  BY <1>1, <1>3, <1>4, EndTypes, Enforces DEF Recovered

LEMMA PauseTypes ==
  ASSUME HaAssumption, Types, NEW n \in Nodes, DownInPause(n) \/ NotPrimaryInPause(n)
  PROVE  Types'
<1>1. /\ pc[n] = "cycle" /\ CycleEnds(n) /\ KeepNode /\ UNCHANGED envVars /\ Recovered(n)
      /\ dcs' = dcs \/ dcs' = [dcs EXCEPT !.owner = None]
  BY DEF DownInPause, NotPrimaryInPause, InCycle, Ready
<1>2. dcs' \in Clusters
  BY <1>1, KeyTypes DEF Types
<1>3. QED
  BY <1>1, <1>2, EndTypes, Keeps DEF KeepNode, Recovered, pgVars, nodeVars

\* What an update of the key by its holder does.
Updates(n) ==
  /\ UNCHANGED <<wal, up>>
  /\ \/ /\ dcs'.owner = n /\ task'[n] = "demote" /\ ping'[n] = "key"
        /\ UNCHANGED <<pg, role, wd, fs, paused>>
     \/ dcs'.owner = n /\ Leads(n)
     \/ dcs'.owner = None /\ Resigns(n)

LEMMA UpdateActs ==
  ASSUME HaAssumption, Types, NEW n \in Nodes, UpdateKey(n)
  PROVE  /\ Types' /\ NodeStep(n) /\ Updates(n) /\ CycleEnds(n)
         /\ dcs'.paused = dcs.paused /\ dcs.owner = n /\ pc[n] = "cycle" /\ task[n] = "none"
<1>1. /\ pc[n] = "cycle" /\ task[n] = "none" /\ dcs.owner = n /\ CycleEnds(n)
      /\ UNCHANGED envVars /\ Recovered(n)
  BY DEF UpdateKey, Ready, InCycle, Busy
<1>2. NodeStep(n) /\ Updates(n) /\ dcs' \in Clusters /\ dcs'.paused = dcs.paused
  <2>1. CASE /\ dcs' = [dcs EXCEPT !.optime = Lsn(n)]
             /\ task' = Set(task, n, "demote") /\ ping' = Set(ping, n, "key")
             /\ UNCHANGED <<pg, role, wal, upstream, up, paused, wd, fs>>
    <3>1. NodeStep(n)
      BY <2>1 DEF NodeStep, OnlyNode, Types, PgTypes, NodeTypes, Set, Tasks
    <3>2. dcs' \in Clusters /\ dcs'.owner = n /\ dcs'.paused = dcs.paused
      BY <1>1, <2>1, KeyTypes DEF Types, Clusters
    <3>3. QED
      BY <2>1, <3>1, <3>2 DEF Updates, Types, PgTypes, NodeTypes, Set
  <2> DEFINE fo == IF dcs.fo = view[n].fo THEN NoFailoverKey ELSE dcs.fo
  <2>2. fo \in Requests
    BY DEF NoFailoverKey, Types, Clusters, Requests, Maybe
  <2>3. CASE \E owner \in {n, None}, hist \in 0 .. MaxTimeline :
               /\ Enforced(n, owner, hist)
               /\ dcs' = [dcs EXCEPT !.owner = owner, !.optime = Lsn(n), !.hist = hist, !.fo = fo]
    <3> HIDE DEF fo
    <3>1. PICK owner \in {n, None}, hist \in 0 .. MaxTimeline :
            /\ Enforced(n, owner, hist)
            /\ dcs' = [dcs EXCEPT !.owner = owner, !.optime = Lsn(n), !.hist = hist, !.fo = fo]
      BY <2>3
    <3>2. owner \in Maybe /\ hist \in Nat /\ Lsn(n) \in Nat
      <4>1. Lsn(n) \in Nat
        BY KeyTypes
      <4>2. owner \in Maybe /\ hist \in Nat
        BY DEF Maybe, HaAssumption
      <4>3. QED
        BY <4>1, <4>2
    <3>3. dcs' \in Clusters /\ dcs'.owner = owner /\ dcs'.paused = dcs.paused
      BY <2>2, <3>1, <3>2 DEF Types, Clusters
    <3>4. QED
      BY <3>1, <3>3, Enforces DEF Updates
  <2>4. QED
    BY <2>1, <2>3 DEF UpdateKey
<1>3. QED
  BY <1>1, <1>2, EndTypes DEF Updates, Recovered

LEMMA FollowTypes ==
  ASSUME HaAssumption, Types, NEW n \in Nodes, UpdateRefused(n) \/ FollowLeader(n)
  PROVE  Types'
<1>1. pc[n] = "cycle" /\ CycleEnds(n) /\ UNCHANGED <<dcs, envVars>> /\ Recovered(n)
  BY DEF UpdateRefused, FollowLeader, Ready, InCycle
<1>2. StopAndFollow(n) \/ KeepNode \/ FollowWith(n, view[n])
  BY DEF UpdateRefused, FollowLeader
<1>3. NodeStep(n) /\ UNCHANGED <<up, wal>>
  BY <1>2, Stops, Keeps, Follows DEF StopAndFollow, KeepNode, pgVars, nodeVars, Types, CycleTypes, Clusters
<1>4. QED
  BY <1>1, <1>3, EndTypes DEF Types, Recovered

LEMMA WritingTypes ==
  ASSUME HaAssumption, Types, NEW n \in Nodes, Stream(n) \/ Write(n)
  PROVE  Types'
<1>1. /\ UNCHANGED <<dcs, view, pc, asked, recovering, up, paused, wd, ping, fs, pg, role, upstream, task, cut>>
      /\ used' = used \/ used' = [used EXCEPT !["writes"] = @ + 1]
  BY DEF Stream, Write, OnlyPg, Spend, envVars
<1>2. WalTypes'
  <2>1. CASE Stream(n)
    <3>1. upstream[n] \in Nodes
      BY <2>1 DEF Stream, Types, PgTypes, Maybe
    <3>2. SubSeq(wal[upstream[n]], 1, Lsn(n) + 1) \in Wals
      BY <2>1, <3>1, NextRecord DEF Stream, Types, WalTypes, Lsn
    <3>3. QED
      BY <2>1, <3>2 DEF Stream, Types, WalTypes, Set
  <2>2. CASE Write(n)
    BY <2>2, KeyTypes, AppendWal DEF Write, Types, WalTypes, Set
  <2>3. QED
    BY <2>1, <2>2
<1>3. EnvTypes'
  BY <1>1 DEF Types, EnvTypes, Counts
<1>4. QED
  BY <1>1, <1>2, <1>3 DEF Types, CycleTypes, PgTypes, NodeTypes, Rests

LEMMA OperatorTypes ==
  ASSUME HaAssumption, Types,
         (\E from, to \in Maybe : RequestFailover(from, to)) \/ (\E p \in BOOLEAN : SetPause(p))
  PROVE  Types'
<1>1. /\ UNCHANGED <<view, pc, asked, pgVars, recovering, nodeVars, cut>>
      /\ \/ used' = used \/ used' = [used EXCEPT !["requests"] = @ + 1]
         \/ used' = [used EXCEPT !["pauses"] = @ + 1]
      /\ \/ \E fo \in Requests : dcs' = [dcs EXCEPT !.fo = fo]
         \/ \E p \in BOOLEAN : dcs' = [dcs EXCEPT !.paused = p]
  <2>1. CASE \E from, to \in Maybe : RequestFailover(from, to)
    BY <2>1 DEF RequestFailover, Event, Spend, Requests
  <2>2. CASE \E p \in BOOLEAN : SetPause(p)
    BY <2>2 DEF SetPause, Event, Spend
  <2>3. QED
    BY <2>1, <2>2
<1>2. dcs' \in Clusters /\ EnvTypes'
  BY <1>1 DEF Types, Clusters, EnvTypes, Counts
<1>3. QED
  BY <1>1, <1>2 DEF Types, CycleTypes, PgTypes, WalTypes, NodeTypes, Rests, pgVars, nodeVars

LEMMA InitTypes ==
  ASSUME HaAssumption, Init
  PROVE  Types
<1>1. PICK p \in Nodes :
        /\ dcs = [NoView EXCEPT !.owner = p, !.optime = 1, !.hist = 1]
        /\ view = [n \in Nodes |-> NoView]
        /\ pc = [n \in Nodes |-> "idle"]
        /\ asked = [n \in Nodes |-> {}]
        /\ up = [n \in Nodes |-> TRUE]
        /\ pg = [n \in Nodes |-> IF n = p THEN "primary" ELSE "replica"]
        /\ role = pg
        /\ wal = [n \in Nodes |-> <<[tl |-> 1, by |-> p]>>]
        /\ upstream = [n \in Nodes |-> IF n = p THEN None ELSE p]
        /\ task = [n \in Nodes |-> "none"]
        /\ recovering = [n \in Nodes |-> FALSE]
        /\ paused = [n \in Nodes |-> FALSE]
        /\ wd = [n \in Nodes |-> n = p]
        /\ ping = [n \in Nodes |-> IF n = p THEN "key" ELSE "none"]
        /\ fs = [n \in Nodes |-> None]
        /\ cut = [n \in Nodes |-> "none"]
        /\ used = [writes |-> 0, faults |-> 0, requests |-> 0, pauses |-> 0]
  BY DEF Init
<1>2. dcs \in Clusters /\ CycleTypes /\ Rests
  BY <1>1 DEF NoView, NoFailoverKey, Clusters, Requests, Maybe, CycleTypes, Rests, Pcs
<1>3. PgTypes /\ NodeTypes
  BY <1>1 DEF PgTypes, NodeTypes, Pgs, Roles, Tasks, Maybe
<1>4. WalTypes
  <2>1. <<[tl |-> 1, by |-> p]>> \in Wals
    BY DEF Wals, Records
  <2>2. QED
    BY <1>1, <2>1 DEF WalTypes
<1>5. EnvTypes
  BY <1>1 DEF EnvTypes, Counts
<1>6. QED
  BY <1>2, <1>3, <1>4, <1>5 DEF Types

\* The types are kept by every step.
LEMMA NextTypes ==
  ASSUME HaAssumption, Types, [Next]_vars
  PROVE  Types'
<1>1. CASE UNCHANGED vars
  BY <1>1 DEF vars, pgVars, nodeVars, envVars, Types, CycleTypes, PgTypes, WalTypes, NodeTypes, EnvTypes, Rests
<1>2. ASSUME NEW n \in Nodes, Cycle(n)
      PROVE  Types'
  BY <1>2, LoadTypes, ErrorTypes, PostTypes, AgreedTypes, LongActs, PostRecovers, RecoverActs, HealthTypes,
     AcquireTypes, WonActs, PauseTypes, UpdateActs, FollowTypes DEF Cycle
<1>3. ASSUME NEW n \in Nodes, Happens(n)
      PROVE  Types'
  BY <1>3, Accidents, AccidentTypes
<1>4. QED
  BY <1>1, <1>2, <1>3, TaskTypes, WritingTypes, OperatorTypes DEF Next, Happens, Maybe

\* Type correctness of the cluster, for any nodes, configuration and bounds.
THEOREM TypeCorrect == Spec => []TypeOK
<1>1. Init => Types
  BY InitTypes, HaAssumption
<1>2. Types /\ [Next]_vars => Types'
  BY NextTypes, HaAssumption
<1>3. QED
  BY <1>1, <1>2, TypesAreTypeOK, PTL DEF Spec
-----------------------------------------------------------------------------
(* At most one primary *)

\* The tasks that end in a primary that was none.
Takes == {"promote", "promoting", "start"}

\* A primary that runs on by the agreement of its peers.
Outlives(n) == wd[n] /\ ping[n] = "fs"

\* A cycle that may try to take the key.
Racing(n) == pc[n] = "race" \/ (pc[n] = "cycle" /\ view[n].owner = None)

\* A primary has a watchdog that runs, fed by updates of the key or by an agreement; who is
\* to become one holds the key.
Fenced(n) ==
  /\ Primary(n) => wd[n] /\ (dcs.owner = n \/ ping[n] = "fs")
  /\ task[n] \in Takes => dcs.owner = n /\ wd[n] /\ ping[n] # "fs" /\ ~Primary(n) /\ pc[n] # "failsafe"
  /\ pg[n] = "crashed" /\ (pc[n] = "race" \/ (StartTimeout = 1 /\ role[n] = "primary" /\ dcs.owner = n)) => wd[n]
  /\ task[n] = "release" => ~wd[n]
  /\ n \in NoWatchdog => ~wd[n]

\* Where the cycle of n is tells what n knows of the key.
Knows(n) ==
  /\ dcs.owner = n => pc[n] # "race" /\ (pc[n] = "cycle" => view[n].owner = n)
  /\ pc[n] = "won" => dcs.owner = n
  /\ pc[n] \in {"race", "won"} => task[n] = "none"
  /\ pc[n] # "failsafe" => asked[n] = {}
  /\ pc[n] = "failsafe" => FailsafeMode /\ (wd[n] => dcs.owner = n \/ ping[n] = "fs")

\* While n outlives the key nobody else has it, may take it or outlives it.
Alone(n) ==
  Outlives(n) =>
    /\ dcs.owner \in {n, None} /\ FailsafeMode
    /\ \A m \in Nodes \ {n} : fs[m] = n /\ ~Outlives(m) /\ (dcs.owner = None => ~Racing(m))

\* A poll of the peers is the only one, and those who agreed remember it.
Polls(n) ==
  pc[n] = "failsafe" =>
    /\ \A m \in Nodes \ {n} : pc[m] # "failsafe" /\ ~Outlives(m)
    /\ wd[n] => \A r \in asked[n] : fs[r] = n

NoPause == ~dcs.paused /\ \A n \in Nodes : ~paused[n] /\ ~view[n].paused

Safe(n) == Fenced(n) /\ Knows(n) /\ Alone(n) /\ Polls(n)
IInv == Types /\ NoPause /\ \A n \in Nodes : Safe(n)

LEMMA OnePrimary == IInv => SinglePrimary
BY HaAssumption DEF IInv, SinglePrimary, Primary, Safe, Fenced, Alone, Outlives

\* n is no primary, and no step of its own makes it one until it has the key.
Withdraws(n) ==
  /\ pg'[n] # "primary" /\ wd'[n] = FALSE /\ task'[n] \notin Takes
  /\ pg'[n] = "crashed" =>
       pc'[n] # "race" /\ ~(StartTimeout = 1 /\ role'[n] = "primary" /\ dcs'.owner = n)

\* n goes on as it is, or without PostgreSQL.
Stays(n) ==
  /\ pg'[n] = pg[n] \/ pg'[n] \notin {"primary", "crashed"}
  /\ pg'[n] = "crashed" => role'[n] = role[n] \/ role'[n] # "primary"
  /\ wd'[n] = wd[n]
  /\ \/ task'[n] = task[n] \/ task'[n] \notin Takes \cup {"release"}
     \/ task[n] \in Takes /\ task'[n] \in Takes /\ pg'[n] = pg[n]

\* The cycle of n ends, or stays where it is.
Idles(n) ==
  /\ OnlyCycle(n)
  /\ \/ pc'[n] = "idle" /\ asked'[n] = {}
     \/ /\ pc'[n] = pc[n] /\ view'[n] = view[n] /\ asked'[n] = asked[n]
        /\ task'[n] = "none" \/ task[n] # "none" \/ task'[n] = task[n]

\* A step after which n is at most what it was.
Calm(n) ==
  /\ OnlyNode(n) /\ ping'[n] = ping[n] /\ fs' = fs
  /\ Idles(n)
  /\ dcs'.paused = dcs.paused /\ (paused'[n] = paused[n] \/ ~paused'[n])
  /\ \/ dcs'.owner = dcs.owner /\ (Withdraws(n) \/ Stays(n))
     \/ dcs.owner = n /\ dcs'.owner = None /\ Withdraws(n) /\ pc'[n] # "won"

LEMMA CalmStep ==
  ASSUME IInv, Types', NEW n \in Nodes, Calm(n)
  PROVE  \A m \in Nodes : Safe(m)'
<1>1. \A m \in Nodes : Fenced(m)'
  <2>1. ASSUME NEW m \in Nodes \ {n}
        PROVE  Fenced(m)'
    BY <2>1, HaAssumption DEF IInv, Safe, Fenced, Alone, Outlives, Calm, Idles, OnlyNode, OnlyCycle, Primary
  <2>2. Fenced(n)'
    BY DEF IInv, Safe, Fenced, Calm, Idles, Withdraws, Stays, Takes, Primary
  <2>3. QED
    BY <2>1, <2>2
<1>2. \A m \in Nodes : Knows(m)'
  <2>1. ASSUME NEW m \in Nodes \ {n}
        PROVE  Knows(m)'
    BY <2>1, HaAssumption DEF IInv, Safe, Knows, Calm, Idles, OnlyNode, OnlyCycle
  <2>2. Knows(n)'
    BY DEF IInv, Safe, Knows, Calm, Idles, Withdraws, Stays
  <2>3. QED
    BY <2>1, <2>2
<1>3. \A m \in Nodes : (Outlives(m)' => Outlives(m)) /\ (Racing(m)' => Racing(m))
  BY DEF Calm, Idles, OnlyNode, OnlyCycle, Withdraws, Stays, Outlives, Racing
<1>4. \A m \in Nodes : Alone(m)'
  BY <1>3 DEF IInv, Safe, Alone, Calm, Withdraws, Outlives
<1>5. \A m \in Nodes : Polls(m)'
  BY <1>3 DEF IInv, Safe, Polls, Calm, Idles, OnlyNode, OnlyCycle, Withdraws, Stays
<1>6. QED
  BY <1>1, <1>2, <1>4, <1>5 DEF Safe

\* The sets of tasks, told apart for the provers.
LEMMA Tells ==
  /\ "none" \notin Takes /\ "waiting" \notin Takes /\ "demote" \notin Takes /\ "release" \notin Takes
  /\ "follow" \notin Takes /\ "rewind" \notin Takes
  /\ "promote" \in Takes /\ "promoting" \in Takes /\ "start" \in Takes
BY DEF Takes

LEMMA SafeNode ==
  ASSUME IInv, NEW n \in Nodes
  PROVE  Types /\ Fenced(n) /\ Knows(n) /\ Alone(n) /\ Polls(n) /\ ~paused[n]
BY DEF IInv, Safe, NoPause

\* A cycle that ends with n stopped, following or as it is.
LEMMA CalmEnd ==
  ASSUME IInv, Types', NEW n \in Nodes, CycleEnds(n), NodeStep(n), dcs' = dcs, UNCHANGED <<fs, ping, paused>>,
         \/ UNCHANGED <<pg, role, wd, task>>
         \/ Followed(n)
         \/ /\ task[n] \notin Takes
            /\ \/ Stopped(n, "down", "demoted", IF Busy(n) /\ task[n] # "start" THEN task[n] ELSE "follow")
               \/ Stopped(n, "replica", "replica", task[n])
  PROVE  \A m \in Nodes : Safe(m)'
<1>1. Idles(n) /\ OnlyNode(n)
  BY HaAssumption, EndsCycle DEF Idles, NodeStep, IInv
<1>2. Withdraws(n) \/ Stays(n)
  BY SafeNode, Tells DEF Withdraws, Stays, Followed, Stopped
<1>3. QED
  BY <1>1, <1>2, CalmStep DEF Calm

\* A task that goes on, or ends, without a new primary.
LEMMA QuietTask ==
  ASSUME IInv, Types', NEW n \in Nodes, OnlyNode(n), TaskRest, UNCHANGED <<up, paused, ping, fs>>,
         task[n] # "none" \/ task'[n] = task[n],
         \/ dcs' = dcs /\ (Withdraws(n) \/ Stays(n))
         \/ dcs.owner = n /\ dcs'.owner = None /\ dcs'.paused = dcs.paused /\ Withdraws(n) /\ task[n] # "none"
  PROVE  \A m \in Nodes : Safe(m)'
<1>1. OnlyCycle(n) /\ Idles(n)
  BY DEF OnlyCycle, Idles, TaskRest
<1>2. dcs.owner = n /\ task[n] # "none" => pc[n] # "won" /\ pc' = pc
  BY SafeNode DEF Knows, TaskRest
<1>3. QED
  BY <1>1, <1>2, CalmStep DEF Calm

LEMMA PromoteSafe ==
  ASSUME IInv, Types', NEW n \in Nodes, PromoteCommits(n) \/ PromoteFails(n) \/ PromoteEnds(n)
  PROVE  \A m \in Nodes : Safe(m)'
<1>1. /\ task[n] # "none" /\ UNCHANGED <<dcs, pg, nodeVars>> /\ TaskRest
      /\ \E next \in {"promoting", "none"} : task' = Set(task, n, next)
      /\ task[n] = "promote" \/ task' = Set(task, n, "none")
      /\ role' = role \/ (Primary(n) /\ role' = Set(role, n, "primary"))
  BY DEF PromoteCommits, PromoteFails, PromoteEnds, TaskStep
<1>2. OnlyNode(n) /\ Stays(n)
  BY <1>1, SafeNode, Tells DEF OnlyNode, Stays, Set, Types, PgTypes, nodeVars, Primary
<1>3. QED
  BY <1>1, <1>2, QuietTask DEF nodeVars

LEMMA StopSafe ==
  ASSUME IInv, Types', NEW n \in Nodes, GracefulStop(n) \/ StopDone(n) \/ FollowDone(n) \/ RewindDone(n)
  PROVE  \A m \in Nodes : Safe(m)'
<1>1. /\ UNCHANGED <<dcs, up, paused, ping, fs>> /\ TaskRest
      /\ \E s \in {"stopping", "down", "replica"} : pg' = Set(pg, n, s)
      /\ role' = role \/ role' = Set(role, n, "replica")
      /\ \/ task[n] = "demote" /\ task' = Set(task, n, "release") /\ wd' = Set(wd, n, FALSE)
         \/ wd' = wd /\ task[n] # "none" /\ task' = Set(task, n, "none")
         \/ wd' = wd /\ task' = task
  BY DEF GracefulStop, StopDone, FollowDone, RewindDone, TaskStep, nodeVars
<1>2. OnlyNode(n) /\ (Withdraws(n) \/ Stays(n)) /\ (task[n] # "none" \/ task'[n] = task[n])
  BY <1>1, SafeNode, Tells DEF OnlyNode, Stays, Withdraws, Set, Types, PgTypes, NodeTypes
<1>3. QED
  BY <1>1, <1>2, QuietTask

LEMMA ReleaseSafe ==
  ASSUME IInv, Types', NEW n \in Nodes, ReleaseKey(n)
  PROVE  \A m \in Nodes : Safe(m)'
<1>1. /\ task[n] = "release" /\ task' = Set(task, n, "follow") /\ role' = Set(role, n, "demoted")
      /\ UNCHANGED <<pg, nodeVars>> /\ TaskRest
      /\ \/ dcs' = dcs
         \/ dcs.owner = n /\ dcs' = [dcs EXCEPT !.owner = None, !.optime = Lsn(n)]
  BY DEF ReleaseKey, TaskStep
<1>2. OnlyNode(n) /\ Withdraws(n)
  BY <1>1, SafeNode, Tells DEF OnlyNode, Withdraws, Set, Types, PgTypes, NodeTypes, nodeVars, Fenced, Knows, Primary, TaskRest
<1>3. dcs' = dcs \/ (dcs.owner = n /\ dcs'.owner = None /\ dcs'.paused = dcs.paused)
  BY <1>1, SafeNode DEF Types, Clusters
<1>4. QED
  BY <1>1, <1>2, <1>3, QuietTask DEF nodeVars

\* A node with the key becomes a primary.
LEMMA BecomesSafe ==
  ASSUME IInv, Types', NEW n \in Nodes, PromoteDone(n) \/ StartDone(n)
  PROVE  \A m \in Nodes : Safe(m)'
<1>1. /\ task[n] \in Takes /\ pg' = Set(pg, n, "primary")
      /\ \E next \in {"waiting", "none"} : task' = Set(task, n, next)
      /\ \E r \in Roles : role' = Set(role, n, r)
      /\ UNCHANGED <<dcs, nodeVars>> /\ TaskRest
  BY Tells, SafeNode DEF PromoteDone, StartDone, TaskStep, Roles, Types, PgTypes, Set
<1>2. /\ pg'[n] = "primary" /\ task'[n] \notin Takes \cup {"release"}
      /\ OnlyNode(n) /\ UNCHANGED <<dcs, wd, ping, fs, view, pc, asked>>
  BY <1>1, SafeNode, Tells DEF Types, PgTypes, Set, OnlyNode, nodeVars, TaskRest
<1>3. pc[n] \notin {"race", "won"}
  BY <1>1, SafeNode, Tells DEF Knows
<1>4. \A m \in Nodes : Fenced(m)'
  BY <1>1, <1>2, <1>3 DEF IInv, Safe, Fenced, OnlyNode, Primary
<1>5. \A m \in Nodes : Knows(m)'
  BY <1>2, <1>3 DEF IInv, Safe, Knows, OnlyNode
<1>6. \A m \in Nodes : Alone(m)' /\ Polls(m)'
  BY <1>2 DEF IInv, Safe, Alone, Polls, Outlives, Racing
<1>7. QED
  BY <1>4, <1>5, <1>6 DEF Safe

LEMMA TaskSafe ==
  ASSUME IInv, Types', NEW n \in Nodes, Task(n)
  PROVE  \A m \in Nodes : Safe(m)'
BY PromoteSafe, StopSafe, ReleaseSafe, BecomesSafe DEF Task

\* Crashes, shutdowns and restarts.
LEMMA GoneSafe ==
  ASSUME IInv, Types', NEW n \in Nodes, ~QuickRestart,
         HostCrash(n) \/ PatroniKilled(n) \/ Shutdown(n) \/ WatchdogFires(n)
  PROVE  \A m \in Nodes : Safe(m)'
<1>1. /\ CycleEnds(n) /\ task' = Set(task, n, "none") /\ UNCHANGED <<fs, role, paused, ping>>
      /\ \/ pg' = Set(pg, n, "down") /\ wd' = Set(wd, n, FALSE)
            /\ \/ dcs' = dcs
               \/ dcs.owner = n /\ dcs' = [dcs EXCEPT !.owner = None, !.optime = Lsn(n)]
         \/ UNCHANGED <<dcs, pg, wd>>
  BY SafeNode DEF HostCrash, PatroniKilled, Shutdown, WatchdogFires, HostDown, Gone
<1>2. OnlyNode(n) /\ (Withdraws(n) \/ (Stays(n) /\ dcs' = dcs))
  BY <1>1, SafeNode, Tells DEF OnlyNode, Withdraws, Stays, Set, Types, PgTypes, NodeTypes
<1>3. Idles(n) /\ pc'[n] = "idle"
  BY <1>1, SafeNode, EndsCycle, HaAssumption DEF Idles
<1>4. dcs' = dcs \/ (dcs.owner = n /\ dcs'.owner = None /\ dcs'.paused = dcs.paused)
  BY <1>1, SafeNode DEF Types, Clusters
<1>5. QED
  BY <1>1, <1>2, <1>3, <1>4, CalmStep DEF Calm

LEMMA RestartSafe ==
  ASSUME IInv, Types', NEW n \in Nodes, Restart(n) \/ StartFails(n)
  PROVE  \A m \in Nodes : Safe(m)'
<1>1. /\ UNCHANGED <<dcs, wd, ping, fs, paused, view, pc, asked>>
      /\ \/ /\ pg' = pg \/ (~Running(n) /\ pg' = Set(pg, n, "down"))
            /\ role' = Set(role, n, IF Primary(n) THEN "primary" ELSE "replica")
            /\ task' = task
         \/ UNCHANGED <<pg, role>> /\ task[n] # "none" /\ task' = Set(task, n, "none")
  BY DEF Restart, StartFails, TaskStep, Elsewhere, nodeVars
<1>2. OnlyNode(n) /\ Stays(n)
  BY <1>1, SafeNode, Tells DEF OnlyNode, Stays, Set, Types, PgTypes, Primary
<1>3. Idles(n)
  BY <1>1, SafeNode DEF Idles, OnlyCycle, Set, Types, PgTypes
<1>4. QED
  BY <1>1, <1>2, <1>3, CalmStep DEF Calm

LEMMA PgCrashSafe ==
  ASSUME IInv, Types', NEW n \in Nodes, PgCrash(n)
  PROVE  \A m \in Nodes : Safe(m)'
<1>1. /\ pg' = Set(pg, n, IF Primary(n) THEN "crashed" ELSE "down")
      /\ UNCHANGED <<dcs, role, task, wd, ping, fs, view, pc, asked>>
  BY DEF PgCrash, Elsewhere, nodeVars
<1>2. \A m \in Nodes : /\ pg'[m] # "primary" \/ pg'[m] = pg[m]
                       /\ pg'[m] = "crashed" => pg[m] \in {"primary", "crashed"}
  BY <1>1, SafeNode DEF Types, PgTypes, Set, Primary
<1>3. \A m \in Nodes : Fenced(m)'
  BY <1>1, <1>2 DEF IInv, Safe, Fenced, Knows, Primary
<1>4. \A m \in Nodes : Knows(m)' /\ Alone(m)' /\ Polls(m)'
  BY <1>1 DEF IInv, Safe, Knows, Alone, Polls, Outlives, Racing
<1>5. QED
  BY <1>3, <1>4 DEF Safe

\* The key of n expires: its watchdog has fired, or it outlives the key.
LEMMA KeyExpiresSafe ==
  ASSUME IInv, Types', NEW n \in Nodes, KeyExpires(n)
  PROVE  \A m \in Nodes : Safe(m)'
<1>1. /\ dcs.owner = n /\ pc[n] # "won" /\ (wd[n] => ping[n] = "fs") /\ NoRace(n)
      /\ dcs' = [dcs EXCEPT !.owner = None]
      /\ UNCHANGED <<pg, role, task, wd, ping, fs, view, pc, asked>>
  BY SafeNode DEF KeyExpires, Elsewhere, pgVars, nodeVars, Types, NodeTypes
<1>2. dcs'.owner = None /\ n # None
  BY <1>1, SafeNode, HaAssumption DEF Types, Clusters
<1>3. \A m \in Nodes \ {n} : ~Outlives(m) /\ ~Racing(m)
  BY <1>1, HaAssumption DEF IInv, Safe, Alone, NoRace, Racing
<1>4. \A m \in Nodes : Fenced(m)'
  BY <1>1, <1>2, <1>3, HaAssumption DEF IInv, Safe, Fenced, Outlives, Primary
<1>5. \A m \in Nodes : Knows(m)'
  BY <1>1, <1>2, <1>3, HaAssumption DEF IInv, Safe, Knows, Outlives
<1>6. \A m \in Nodes : Alone(m)' /\ Polls(m)'
  BY <1>1, <1>2, <1>3 DEF IInv, Safe, Alone, Polls, Outlives, Racing
<1>7. QED
  BY <1>4, <1>5, <1>6 DEF Safe

\* A failsafe record expires only when its sender does not outlive the key.
LEMMA FsExpiresSafe ==
  ASSUME IInv, Types', NEW n \in Nodes, FsExpires(n)
  PROVE  \A m \in Nodes : Safe(m)'
<1>1. /\ fs[n] \in Nodes /\ n \notin asked[fs[n]] /\ ~Outlives(fs[n])
      /\ fs' = Set(fs, n, None)
      /\ UNCHANGED <<dcs, pg, role, task, wd, ping, view, pc, asked>>
  BY SafeNode DEF FsExpires, Elsewhere, pgVars, Types, NodeTypes, Maybe, Outlives
<1>2. \A m \in Nodes \ {n} : fs'[m] = fs[m]
  BY <1>1, SafeNode DEF Types, NodeTypes, Set
<1>3. \A m \in Nodes : Fenced(m)' /\ Knows(m)'
  BY <1>1 DEF IInv, Safe, Fenced, Knows, Primary
<1>4. \A m \in Nodes : Alone(m)'
  BY <1>1, <1>2 DEF IInv, Safe, Alone, Outlives, Racing
<1>5. \A m \in Nodes : Polls(m)'
  BY <1>1, <1>2 DEF IInv, Safe, Polls, Outlives, Types, CycleTypes
<1>6. QED
  BY <1>3, <1>4, <1>5 DEF Safe

\* Steps that touch nothing of this.
LEMMA ElsewhereSafe ==
  ASSUME IInv, NEW n \in Nodes, Stream(n) \/ Write(n) \/ Cut(n) \/ Heal(n)
  PROVE  \A m \in Nodes : Safe(m)'
<1>1. UNCHANGED <<dcs, pg, role, task, wd, ping, fs, view, pc, asked>>
  BY DEF Stream, Write, Cut, Heal, OnlyPg, Elsewhere, pgVars, nodeVars
<1>2. QED
  BY <1>1 DEF IInv, Safe, Fenced, Knows, Alone, Polls, Outlives, Racing, Primary

\* A cycle begins: with a primary that outlives the key its peers see a leader.
LEMMA LoadSafe ==
  ASSUME IInv, Types', NEW n \in Nodes, Load(n)
  PROVE  \A m \in Nodes : Safe(m)'
<1> DEFINE v == Snapshot(n)
<1>1. /\ pc[n] = "idle" /\ pc' = Set(pc, n, "cycle") /\ view' = Set(view, n, v)
      /\ v.paused = dcs.paused /\ UNCHANGED <<dcs, asked, pg, role, task, ping, fs>>
      /\ v.owner = IF dcs.owner = None /\ FailsafeMode /\ fs[n] # None THEN fs[n] ELSE dcs.owner
      /\ wd' = IF v.paused THEN Set(wd, n, FALSE) ELSE wd
  BY SafeNode DEF Load, Snapshot, Types, Clusters, pgVars
<1> HIDE DEF v
<1>2. wd' = wd
  BY <1>1 DEF IInv, NoPause
<1>3. /\ \A m \in Nodes \ {n} : pc'[m] = pc[m] /\ view'[m] = view[m]
      /\ pc'[n] = "cycle" /\ view'[n].owner = v.owner
  BY <1>1, SafeNode DEF Types, CycleTypes, Set
<1>4. \A m \in Nodes : Fenced(m)'
  BY <1>1, <1>2, <1>3 DEF IInv, Safe, Fenced, Primary
<1>5. \A m \in Nodes : Knows(m)'
  <2>1. ASSUME NEW m \in Nodes \ {n}
        PROVE  Knows(m)'
    BY <1>1, <1>2, <1>3, <2>1 DEF IInv, Safe, Knows
  <2>2. Knows(n)'
    BY <1>1, <1>2, <1>3, SafeNode, HaAssumption DEF Knows
  <2>3. QED
    BY <2>1, <2>2
<1>6. \A m \in Nodes : Alone(m)'
  <2>1. ASSUME NEW m \in Nodes \ {n}, Outlives(m), dcs.owner = None
        PROVE  ~Racing(n)'
    BY <1>1, <1>3, <2>1, HaAssumption DEF IInv, Safe, Alone, Racing
  <2>2. \A m \in Nodes : Outlives(m)' = Outlives(m) /\ (m # n => Racing(m)' = Racing(m))
    BY <1>1, <1>2, <1>3 DEF Racing, Outlives
  <2>3. QED
    BY <1>1, <2>1, <2>2 DEF IInv, Safe, Alone
<1>7. \A m \in Nodes : Polls(m)'
  BY <1>1, <1>2, <1>3 DEF IInv, Safe, Polls, Outlives
<1>8. QED
  BY <1>4, <1>5, <1>6, <1>7 DEF Safe

\* Without the DCS a primary asks its peers, or stops.
LEMMA ErrorSafe ==
  ASSUME IInv, Types', NEW n \in Nodes, DcsFails(n)
  PROVE  \A m \in Nodes : Safe(m)'
<1>1. DcsError(n) /\ UNCHANGED dcs
  BY DEF DcsFails
<1>2. CASE Primary(n) /\ FailsafeMode
  <2>1. /\ pc' = Set(pc, n, "failsafe") /\ \A m \in Nodes \ {n} : pc[m] # "failsafe"
        /\ UNCHANGED <<dcs, view, asked, pg, role, task, wd, ping, fs>>
    BY <1>1, <1>2, SafeNode DEF DcsError, KeepNode, pgVars, nodeVars
  <2>2. pc'[n] = "failsafe" /\ \A m \in Nodes \ {n} : pc'[m] = pc[m]
    BY <2>1, SafeNode DEF Types, CycleTypes, Set
  <2>3. /\ wd[n] /\ (dcs.owner = n \/ ping[n] = "fs") /\ task[n] \notin Takes /\ pg[n] # "crashed"
        /\ \A m \in Nodes \ {n} : ~Outlives(m)
    BY <1>2, HaAssumption DEF IInv, Safe, Fenced, Alone, Outlives, Primary
  <2>4. pc[n] # "failsafe" => asked[n] = {}
    BY SafeNode DEF Knows
  <2>5. \A m \in Nodes : Fenced(m)' /\ Knows(m)'
    BY <1>2, <2>1, <2>2, <2>3 DEF IInv, Safe, Fenced, Knows, Primary
  <2>6. \A m \in Nodes : Alone(m)'
    BY <2>1, <2>2 DEF IInv, Safe, Alone, Racing, Outlives
  <2>7. \A m \in Nodes : Polls(m)'
    <3>1. Polls(n)'
      BY <2>1, <2>2, <2>3, <2>4, SafeNode DEF Polls, Outlives
    <3>2. QED
      BY <2>1, <2>2, <3>1 DEF Polls, Outlives
  <2>8. QED
    BY <2>5, <2>6, <2>7 DEF Safe
<1>3. CASE ~(Primary(n) /\ FailsafeMode)
  <2>1. CycleEnds(n) /\ (KeepNode \/ (Primary(n) /\ StopOffline(n)))
    BY <1>1, <1>3, SafeNode DEF DcsError
  <2>2. NodeStep(n) /\ UNCHANGED <<fs, ping, paused>>
    BY <2>1, SafeNode, Keeps, StopsOffline DEF KeepNode, StopOffline, nodeVars
  <2>3. \/ UNCHANGED <<pg, role, wd, task>>
        \/ task[n] \notin Takes /\ Stopped(n, "replica", "replica", task[n])
    BY <2>1, SafeNode, StopsOffline DEF KeepNode, pgVars, nodeVars, Fenced
  <2>4. QED
    BY <1>1, <2>1, <2>2, <2>3, CalmEnd
<1>4. QED
  BY <1>2, <1>3

\* A peer agrees and remembers it, or the primary stops.
LEMMA PostSafe ==
  ASSUME IInv, Types', NEW n \in Nodes, NEW r \in Nodes, PostFailsafe(n, r)
  PROVE  \A m \in Nodes : Safe(m)'
<1>1. pc[n] = "failsafe" /\ dcs' = dcs /\ r # n
  BY DEF PostFailsafe
<1>2. CASE StopOffline(n) /\ CycleEnds(n)
  <2>1. task[n] \notin Takes
    BY <1>1, SafeNode DEF Fenced
  <2>2. QED
    BY <1>1, <1>2, <2>1, SafeNode, StopsOffline, CalmEnd DEF StopOffline
<1>3. CASE /\ fs' = Set(fs, r, n) /\ asked' = Set(asked, n, asked[n] \cup {r})
           /\ UNCHANGED <<pc, view, pgVars, up, paused, wd, ping>>
  <2>1. /\ fs'[r] = n /\ \A m \in Nodes \ {r} : fs'[m] = fs[m]
        /\ asked'[n] = asked[n] \cup {r} /\ \A m \in Nodes \ {n} : asked'[m] = asked[m]
    BY <1>3, SafeNode DEF Types, CycleTypes, NodeTypes, Set
  <2>2. \A m \in Nodes \ {n} : ~Outlives(m) /\ pc[m] # "failsafe"
    BY <1>1, SafeNode DEF Polls
  <2>3. \A m \in Nodes : Fenced(m)' /\ Knows(m)'
    BY <1>1, <1>3, <2>1 DEF IInv, Safe, Fenced, Knows, Primary, pgVars
  <2>4. \A m \in Nodes : Alone(m)'
    BY <1>1, <1>3, <2>1, <2>2 DEF IInv, Safe, Alone, Racing, Outlives
  <2>5. \A m \in Nodes : Polls(m)'
    <3>1. asked[n] \subseteq Nodes /\ (wd[n] => \A k \in asked[n] : fs[k] = n)
      BY <1>1, SafeNode DEF Polls, Types, CycleTypes
    <3>2. wd[n] => \A k \in asked'[n] : fs'[k] = n
      BY <2>1, <3>1
    <3>3. \A m \in Nodes \ {n} : pc'[m] # "failsafe" /\ ~Outlives(m)'
      BY <1>3, <2>2 DEF Outlives
    <3>4. QED
      BY <1>3, <3>2, <3>3, <2>2 DEF Polls
  <2>6. QED
    BY <2>3, <2>4, <2>5 DEF Safe
<1>4. QED
  BY <1>2, <1>3 DEF PostFailsafe

\* All peers agree: nobody else has the key or may take it while they remember.
LEMMA AgreedSafe ==
  ASSUME IInv, Types', NEW n \in Nodes, FailsafeAgreed(n)
  PROVE  \A m \in Nodes : Safe(m)'
<1>1. /\ pc[n] = "failsafe" /\ asked[n] = Nodes \ {n} /\ ping' = Set(ping, n, "fs") /\ CycleEnds(n)
      /\ UNCHANGED <<dcs, pg, role, task, wd, fs>>
  BY DEF FailsafeAgreed, pgVars
<1>2. ping'[n] = "fs" /\ \A m \in Nodes \ {n} : ping'[m] = ping[m]
  BY <1>1, SafeNode DEF Types, NodeTypes, Set
<1>3. OnlyCycle(n) /\ pc'[n] = "idle" /\ asked'[n] = {}
  BY <1>1, SafeNode, EndsCycle, HaAssumption
<1>4. /\ FailsafeMode /\ task[n] \notin Takes
      /\ \A m \in Nodes \ {n} : ~Outlives(m) /\ pc[m] # "failsafe"
      /\ wd[n] => /\ dcs.owner = n \/ Outlives(n)
                  /\ \A m \in Nodes \ {n} : fs[m] = n
  BY <1>1, SafeNode DEF Knows, Polls, Fenced, Outlives
<1>5. \A m \in Nodes : Fenced(m)' /\ Knows(m)'
  BY <1>1, <1>2, <1>3, <1>4 DEF IInv, Safe, Fenced, Knows, Primary, OnlyCycle
<1>6. \A m \in Nodes : Alone(m)'
  <2>1. Alone(n)'
    BY <1>1, <1>2, <1>3, <1>4, SafeNode, HaAssumption DEF Alone, Racing, Outlives, OnlyCycle
  <2>2. QED
    BY <1>1, <1>2, <1>4, <2>1 DEF Alone, Outlives
<1>7. \A m \in Nodes : Polls(m)'
  BY <1>1, <1>2, <1>3, <1>4 DEF IInv, Safe, Polls, Outlives, OnlyCycle
<1>8. QED
  BY <1>5, <1>6, <1>7 DEF Safe

\* The key is updated by its holder n: the loop goes on with a task.
LEMMA HoldsSafe ==
  ASSUME IInv, Types', NEW n \in Nodes, CycleEnds(n), NodeStep(n), UNCHANGED <<fs, pg, role, wd>>,
         dcs.owner = n, dcs'.owner = n, ping'[n] = "key",
         \/ task'[n] = task[n] \/ task'[n] \notin Takes \cup {"release"}
         \/ task'[n] \in Takes /\ wd[n] /\ ~Primary(n)
  PROVE  \A m \in Nodes : Safe(m)'
<1>1. OnlyCycle(n) /\ pc'[n] = "idle" /\ asked'[n] = {} /\ OnlyNode(n)
  BY SafeNode, EndsCycle, HaAssumption DEF NodeStep
<1>2. \A m \in Nodes \ {n} : ~Outlives(m)
  BY HaAssumption DEF IInv, Safe, Alone
<1>3. \A m \in Nodes : Fenced(m)'
  <2>1. Fenced(n)'
    BY <1>1, SafeNode, Tells DEF Fenced, Primary
  <2>2. QED
    BY <1>1, <2>1 DEF IInv, Safe, Fenced, Primary, OnlyNode, OnlyCycle
<1>4. \A m \in Nodes : Knows(m)'
  BY <1>1, SafeNode DEF IInv, Safe, Knows, OnlyNode, OnlyCycle
<1>5. \A m \in Nodes : Alone(m)' /\ Polls(m)'
  BY <1>1, <1>2 DEF IInv, Safe, Alone, Polls, Outlives, OnlyNode, OnlyCycle
<1>6. QED
  BY <1>3, <1>4, <1>5 DEF Safe

\* enforce_primary_role by the holder of the key.
LEMMA LeadsSafe ==
  ASSUME IInv, Types', NEW n \in Nodes, CycleEnds(n), NodeStep(n), Leads(n),
         dcs.owner = n, dcs'.owner = n, task[n] = "none"
  PROVE  \A m \in Nodes : Safe(m)'
<1>1. OnlyCycle(n) /\ pc'[n] = "idle" /\ asked'[n] = {} /\ OnlyNode(n)
  BY SafeNode, EndsCycle, HaAssumption DEF NodeStep
<1>2. /\ pg'[n] = pg[n] /\ wd'[n] = TRUE /\ ping'[n] = "key"
      /\ \A m \in Nodes \ {n} : fs'[m] = fs[m]
      /\ task'[n] = "none" \/ (task'[n] = "promote" /\ ~Primary(n))
  BY SafeNode DEF Leads, Types, NodeTypes, Set
<1>3. \A m \in Nodes \ {n} : ~Outlives(m) /\ (pc[m] = "failsafe" => ~wd[m])
  BY HaAssumption DEF IInv, Safe, Alone, Outlives, Knows
<1>4. \A m \in Nodes : Fenced(m)'
  <2>1. n \notin NoWatchdog
    BY SafeNode DEF Leads
  <2>2. Fenced(n)'
    BY <1>1, <1>2, <2>1, SafeNode, Tells DEF Fenced, Primary
  <2>3. QED
    BY <1>1, <2>2 DEF IInv, Safe, Fenced, Primary, OnlyNode, OnlyCycle
<1>5. \A m \in Nodes : Knows(m)'
  BY <1>1, <1>2 DEF IInv, Safe, Knows, OnlyNode, OnlyCycle
<1>6. \A m \in Nodes : Alone(m)' /\ Polls(m)'
  BY <1>1, <1>2, <1>3 DEF IInv, Safe, Alone, Polls, Outlives, OnlyNode, OnlyCycle
<1>7. QED
  BY <1>4, <1>5, <1>6 DEF Safe

\* A holder without a watchdog gives the key up.
LEMMA ResignsSafe ==
  ASSUME IInv, Types', NEW n \in Nodes, CycleEnds(n), NodeStep(n), Resigns(n),
         dcs.owner = n, dcs'.owner = None, dcs'.paused = dcs.paused, task[n] = "none"
  PROVE  \A m \in Nodes : Safe(m)'
<1>1. Idles(n) /\ pc'[n] = "idle" /\ OnlyNode(n)
  BY SafeNode, EndsCycle, HaAssumption DEF NodeStep, Idles
<1>2. Withdraws(n)
  BY <1>1, SafeNode, Tells, HaAssumption DEF Resigns, Withdraws, Stopped, Fenced, Primary, Types, NodeTypes
<1>3. ping'[n] = ping[n] /\ fs' = fs /\ paused'[n] = paused[n]
  BY DEF Resigns
<1>4. QED
  BY <1>1, <1>2, <1>3, CalmStep DEF Calm

LEMMA LongSafe ==
  ASSUME IInv, Types', NEW n \in Nodes, LongAction(n)
  PROVE  \A m \in Nodes : Safe(m)'
<1>1. NodeStep(n) /\ Goes(n) /\ CycleEnds(n) /\ dcs' = dcs /\ pc[n] = "cycle"
  BY SafeNode, HaAssumption, LongActs DEF LongAction, InCycle
<1>2. CASE Holds(n) /\ dcs.owner = n
  <2>1. ping' = Set(ping, n, "key") /\ UNCHANGED <<pg, role, task, wd, fs>>
    BY <1>1, <1>2 DEF Goes
  <2>2. ping'[n] = "key"
    BY <2>1, SafeNode DEF Types, NodeTypes, Set
  <2>3. QED
    BY <1>1, <1>2, <2>1, <2>2, HoldsSafe
<1>3. CASE ~(Holds(n) /\ dcs.owner = n)
  <2>1. dcs.owner # n
    BY <1>1, <1>3, SafeNode DEF Knows, Holds
  <2>2. task[n] \notin Takes
    BY <2>1, SafeNode DEF Fenced
  <2>3. Idles(n) /\ OnlyNode(n) /\ ping'[n] = ping[n] /\ fs' = fs /\ paused'[n] = paused[n]
    BY <1>1, <1>3, SafeNode, EndsCycle, HaAssumption DEF NodeStep, Idles, Goes
  <2>4. Withdraws(n) \/ Stays(n)
    BY <1>1, <1>3, <2>2, Tells DEF Goes, Withdraws, Stays, Stopped
  <2>5. QED
    BY <1>1, <2>3, <2>4, CalmStep DEF Calm
<1>4. QED
  BY <1>2, <1>3

LEMMA PostRecoverSafe ==
  ASSUME IInv, Types', NEW n \in Nodes, PostRecover(n)
  PROVE  \A m \in Nodes : Safe(m)'
<1>1. NodeStep(n) /\ GivesUp(n) /\ CycleEnds(n) /\ pc[n] = "cycle"
  BY SafeNode, HaAssumption, PostRecovers
<1>2. Idles(n) /\ pc'[n] = "idle" /\ OnlyNode(n)
  BY <1>1, SafeNode, EndsCycle, HaAssumption DEF NodeStep, Idles
<1>3. /\ \/ dcs' = dcs /\ dcs.owner # n
         \/ dcs.owner = n /\ dcs'.owner = None /\ dcs'.paused = dcs.paused
      /\ dcs'.owner # n
  BY <1>1, SafeNode, HaAssumption DEF GivesUp, Knows, Holds, Types, Clusters
<1>4. Withdraws(n)
  BY <1>1, <1>2, <1>3, Tells DEF GivesUp, Withdraws, Running
<1>5. QED
  BY <1>1, <1>2, <1>3, <1>4, CalmStep DEF Calm, GivesUp

LEMMA RecoverSafe ==
  ASSUME IInv, Types', NEW n \in Nodes, Recover(n)
  PROVE  \A m \in Nodes : Safe(m)'
<1>1. NodeStep(n) /\ Recovers(n) /\ CycleEnds(n) /\ pc[n] = "cycle"
  BY SafeNode, HaAssumption, RecoverActs
<1>2. Idles(n) /\ pc'[n] = "idle" /\ OnlyNode(n) /\ fs' = fs /\ paused'[n] = paused[n]
  BY <1>1, SafeNode, EndsCycle, HaAssumption DEF NodeStep, Idles, Recovers
<1>3. CASE /\ dcs.owner = n /\ dcs' = [dcs EXCEPT !.owner = None] /\ Stopped(n, "down", "demoted", "follow")
           /\ UNCHANGED ping
  <2>1. dcs'.owner = None /\ dcs'.paused = dcs.paused
    BY <1>3, SafeNode DEF Types, Clusters
  <2>2. QED
    BY <1>2, <1>3, <2>1, Tells, CalmStep DEF Calm, Withdraws, Stopped
<1>4. CASE /\ dcs.owner = n /\ StartTimeout = 1 /\ pg[n] = "crashed" /\ role[n] = "primary"
           /\ task'[n] = "start" /\ ping'[n] = "key" /\ UNCHANGED <<dcs, pg, role, wd>>
  <2>1. wd[n] /\ ~Primary(n)
    BY <1>4, SafeNode DEF Fenced, Primary
  <2>2. QED
    BY <1>1, <1>2, <1>4, <2>1, Tells, HoldsSafe
<1>5. CASE /\ ~(Holds(n) /\ dcs.owner = n /\ StartTimeout = 1 /\ pg[n] = "crashed" /\ role[n] = "primary")
           /\ task'[n] \in {"rewind", "follow"} /\ wd'[n] = FALSE /\ UNCHANGED <<dcs, pg, role, ping>>
  <2>1. dcs.owner = n => Holds(n)
    BY <1>1, SafeNode DEF Knows, Holds
  <2>2. Withdraws(n)
    BY <1>1, <1>2, <1>5, <2>1, Tells DEF Withdraws, Recovers, Running
  <2>3. QED
    BY <1>2, <1>5, <2>2, CalmStep DEF Calm
<1>6. QED
  BY <1>1, <1>3, <1>4, <1>5 DEF Recovers

\* A healthy node that sees no leader is going to race, or follows.
LEMMA HealthSafe ==
  ASSUME IInv, Types', NEW n \in Nodes, HealthCheck(n)
  PROVE  \A m \in Nodes : Safe(m)'
<1>1. dcs' = dcs /\ pc[n] = "cycle" /\ task[n] = "none" /\ Running(n) /\ view[n].owner = None
  BY DEF HealthCheck, Ready, InCycle, Busy
<1>2. CASE pc' = Set(pc, n, "race") /\ UNCHANGED <<view, asked>> /\ KeepNode
  <2>1. /\ pc'[n] = "race" /\ (\A m \in Nodes \ {n} : pc'[m] = pc[m])
        /\ UNCHANGED <<dcs, view, asked, pg, role, task, wd, ping, fs>>
    BY <1>1, <1>2, SafeNode DEF Types, CycleTypes, Set, KeepNode, pgVars, nodeVars
  <2>2. dcs.owner # n
    BY <1>1, SafeNode, HaAssumption DEF Knows
  <2>3. \A m \in Nodes : Fenced(m)'
    BY <1>1, <2>1 DEF IInv, Safe, Fenced, Primary, Running
  <2>4. \A m \in Nodes : Knows(m)'
    BY <1>1, <2>1, <2>2 DEF IInv, Safe, Knows
  <2>5. \A m \in Nodes : (Racing(m)' => Racing(m)) /\ Outlives(m)' = Outlives(m)
    BY <1>1, <2>1 DEF Racing, Outlives
  <2>6. \A m \in Nodes : Alone(m)'
    BY <2>1, <2>5 DEF IInv, Safe, Alone
  <2>7. \A m \in Nodes : Polls(m)'
    BY <2>1, <2>5 DEF IInv, Safe, Polls
  <2>8. QED
    BY <2>3, <2>4, <2>6, <2>7 DEF Safe
<1>3. CASE FollowWith(n, dcs) /\ CycleEnds(n)
  <2>1. Primary(n) => task[n] \notin Takes
    BY SafeNode DEF Fenced
  <2>2. QED
    BY <1>1, <1>3, <2>1, SafeNode, Follows, CalmEnd DEF Types, Clusters
<1>4. QED
  BY <1>2, <1>3 DEF HealthCheck

\* The key is created: nobody outlives it, since somebody races.
LEMMA AcquireSafe ==
  ASSUME IInv, Types', NEW n \in Nodes, Acquire(n)
  PROVE  \A m \in Nodes : Safe(m)'
<1>1. pc[n] = "race" /\ task[n] = "none"
  BY SafeNode DEF Acquire, Knows
<1>2. CASE /\ dcs.owner = None /\ dcs' = [dcs EXCEPT !.owner = n]
           /\ pc' = Set(pc, n, "won") /\ UNCHANGED <<view, asked>> /\ KeepNode
  <2>1. /\ pc'[n] = "won" /\ (\A m \in Nodes \ {n} : pc'[m] = pc[m]) /\ dcs'.owner = n
        /\ UNCHANGED <<view, asked, pg, role, task, wd, ping, fs>>
    BY <1>2, SafeNode DEF Types, Clusters, CycleTypes, Set, KeepNode, pgVars, nodeVars
  <2>2. \A m \in Nodes \ {n} : ~Outlives(m)
    BY <1>1, <1>2 DEF IInv, Safe, Alone, Racing
  <2>3. \A m \in Nodes : Fenced(m)'
    BY <1>1, <1>2, <2>1, <2>2, HaAssumption DEF IInv, Safe, Fenced, Primary, Outlives
  <2>4. \A m \in Nodes : Knows(m)'
    <3>1. Knows(n)'
      BY <1>1, <2>1, SafeNode DEF Knows
    <3>2. ASSUME NEW m \in Nodes \ {n}
          PROVE  Knows(m)'
      BY <1>2, <2>1, <2>2, <3>2, HaAssumption DEF IInv, Safe, Knows, Outlives
    <3>3. QED
      BY <3>1, <3>2
  <2>5. \A m \in Nodes : Alone(m)' /\ Polls(m)'
    BY <1>1, <2>1, <2>2, HaAssumption DEF IInv, Safe, Alone, Polls, Racing, Outlives
  <2>6. QED
    BY <2>3, <2>4, <2>5 DEF Safe
<1>3. CASE dcs' = dcs /\ FollowWith(n, dcs) /\ CycleEnds(n)
  <2>1. task[n] \notin Takes
    BY <1>1, Tells
  <2>2. QED
    BY <1>1, <1>3, <2>1, SafeNode, Follows, CalmEnd DEF Types, Clusters
<1>4. QED
  BY <1>2, <1>3 DEF Acquire

LEMMA EnforceSafe ==
  ASSUME IInv, Types', NEW n \in Nodes, AfterAcquire(n) \/ UpdateKey(n)
  PROVE  \A m \in Nodes : Safe(m)'
<1>1. CASE AfterAcquire(n)
  <2>1. dcs.owner = n /\ task[n] = "none"
    BY <1>1, SafeNode DEF AfterAcquire, Knows
  <2>2. QED
    BY <1>1, <2>1, SafeNode, HaAssumption, WonActs, LeadsSafe, ResignsSafe
<1>2. CASE UpdateKey(n)
  <2>1. /\ NodeStep(n) /\ Updates(n) /\ CycleEnds(n) /\ dcs'.paused = dcs.paused /\ dcs.owner = n /\ task[n] = "none"
    BY <1>2, SafeNode, HaAssumption, UpdateActs
  <2>2. CASE /\ dcs'.owner = n /\ task'[n] = "demote" /\ ping'[n] = "key"
             /\ UNCHANGED <<pg, role, wd, fs, paused>>
    BY <2>1, <2>2, Tells, HoldsSafe
  <2>3. QED
    BY <2>1, <2>2, LeadsSafe, ResignsSafe DEF Updates
<1>3. QED
  BY <1>1, <1>2

\* A cycle that lost the key, or saw another leader.
LEMMA FollowSafe ==
  ASSUME IInv, Types', NEW n \in Nodes, UpdateRefused(n) \/ FollowLeader(n)
  PROVE  \A m \in Nodes : Safe(m)'
<1>1. CycleEnds(n) /\ dcs' = dcs /\ task[n] \notin Takes
  BY Tells DEF UpdateRefused, FollowLeader, Ready, Busy
<1>2. StopAndFollow(n) \/ KeepNode \/ FollowWith(n, view[n])
  BY DEF UpdateRefused, FollowLeader
<1>3. CASE StopAndFollow(n)
  BY <1>1, <1>3, SafeNode, Stops, CalmEnd DEF StopAndFollow
<1>4. CASE KeepNode
  BY <1>1, <1>4, SafeNode, Keeps, CalmEnd DEF KeepNode, pgVars, nodeVars
<1>5. CASE FollowWith(n, view[n])
  BY <1>1, <1>5, SafeNode, Follows, CalmEnd DEF Types, CycleTypes, Clusters
<1>6. QED
  BY <1>2, <1>3, <1>4, <1>5

LEMMA CycleSafe ==
  ASSUME IInv, Types', NEW n \in Nodes, Cycle(n)
  PROVE  \A m \in Nodes : Safe(m)'
<1>1. ~DownInPause(n) /\ ~NotPrimaryInPause(n)
  BY SafeNode DEF DownInPause, NotPrimaryInPause
<1>2. QED
  BY <1>1, LoadSafe, ErrorSafe, PostSafe, AgreedSafe, LongSafe, PostRecoverSafe, RecoverSafe, HealthSafe,
     AcquireSafe, EnforceSafe, FollowSafe DEF Cycle

\* A step that leaves the flags of pause alone.
Flags(n) ==
  dcs'.paused = dcs.paused /\ paused' = paused /\ (view' = view \/ view' = Set(view, n, NoView))

LEMMA CycleFlags ==
  ASSUME Types, NEW n \in Nodes, Cycle(n), ~Load(n)
  PROVE  Flags(n)
<1> USE DEF Flags, CycleEnds, KeepNode, nodeVars
<1>1. CASE DcsFails(n) \/ FailsafeAgreed(n) \/ \E r \in Nodes : PostFailsafe(n, r)
  BY <1>1 DEF DcsFails, DcsError, FailsafeAgreed, PostFailsafe, StopOffline
<1>2. CASE LongAction(n) \/ UpdateRefused(n)
  BY <1>2 DEF LongAction, UpdateRefused, StopAndFollow
<1>3. CASE HealthCheck(n) \/ FollowLeader(n)
  <2>1. \A v : FollowWith(n, v) => paused' = paused
    BY DEF FollowWith, StopAndFollow
  <2>2. QED
    BY <1>3, <2>1 DEF HealthCheck, FollowLeader
<1>4. CASE PostRecover(n) \/ DownInPause(n) \/ Recover(n) \/ NotPrimaryInPause(n)
  BY <1>4 DEF Types, Clusters, PostRecover, DownInPause, Recover, NotPrimaryInPause, StopAndFollow
<1>5. CASE Acquire(n)
  <2>1. FollowWith(n, dcs) => paused' = paused
    BY DEF FollowWith, StopAndFollow
  <2>2. QED
    BY <1>5, <2>1 DEF Acquire, Types, Clusters
<1>6. CASE AfterAcquire(n) \/ UpdateKey(n)
  <2>1. \A owner, hist : Enforced(n, owner, hist) => paused' = paused
    BY DEF Enforced, StopAndFollow
  <2>2. QED
    BY <1>6, <2>1 DEF AfterAcquire, UpdateKey, Types, Clusters
<1>7. QED
  BY <1>1, <1>2, <1>3, <1>4, <1>5, <1>6 DEF Cycle

LEMMA OtherFlags ==
  ASSUME Types, NEW n \in Nodes, Task(n) \/ Happens(n) \/ Stream(n) \/ Write(n)
  PROVE  Flags(n)
<1>1. CASE Happens(n)
  <2>1. /\ dcs' = dcs \/ dcs' = [dcs EXCEPT !.owner = None] \/ dcs' = [dcs EXCEPT !.owner = None, !.optime = Lsn(n)]
        /\ paused' = paused /\ (view' = view \/ view' = Set(view, n, NoView))
    BY <1>1, Accidents DEF Accident, CycleEnds
  <2>2. QED
    BY <2>1 DEF Flags, Types, Clusters
<1>2. CASE Task(n)
  <2>1. view' = view /\ paused' = paused /\ (dcs' = dcs \/ dcs' = [dcs EXCEPT !.owner = None, !.optime = Lsn(n)])
    BY <1>2 DEF Task, PromoteCommits, PromoteDone, PromoteFails, PromoteEnds, GracefulStop, ReleaseKey, StopDone,
           FollowDone, StartDone, RewindDone, TaskRest, nodeVars
  <2>2. QED
    BY <2>1 DEF Flags, Types, Clusters
<1>3. CASE Stream(n) \/ Write(n)
  BY <1>3 DEF Stream, Write, OnlyPg, Flags
<1>4. QED
  BY <1>1, <1>2, <1>3

\* Where nobody pauses the cluster, no node and no cycle ever finds it paused.
LEMMA PauseStep ==
  ASSUME Types, NoPause, MaxPauses = 0, Next
  PROVE  NoPause' /\ ~\E p \in BOOLEAN : SetPause(p)
<1>1. ~\E p \in BOOLEAN : SetPause(p)
  <2>1. used.pauses \in Nat /\ dcs.paused = FALSE
    BY DEF NoPause, Types, EnvTypes, Counts, Clusters
  <2>2. ~(used.pauses < MaxPauses)
    BY <2>1
  <2>3. ~SetPause(TRUE)
    BY <2>2, Zenon DEF SetPause
  <2>4. ~SetPause(FALSE)
    BY <2>1, Zenon DEF SetPause
  <2>5. QED
    BY <2>3, <2>4
<1>2. ASSUME NEW n \in Nodes, Flags(n)
      PROVE  NoPause'
  BY <1>2 DEF Flags, NoPause, NoView, Set, Types, CycleTypes
<1>3. ASSUME NEW n \in Nodes, Load(n)
      PROVE  NoPause'
  <2>1. /\ view' = Set(view, n, Snapshot(n)) /\ paused' = Set(paused, n, Snapshot(n).paused) /\ dcs' = dcs
        /\ Snapshot(n).paused = dcs.paused
    BY <1>3 DEF Load, Snapshot, Types, Clusters
  <2> DEFINE v == Snapshot(n)
  <2> HIDE DEF v
  <2>2. QED
    BY <2>1 DEF NoPause, Set, Types, CycleTypes, NodeTypes
<1>4. ASSUME NEW from \in Maybe, NEW to \in Maybe, RequestFailover(from, to)
      PROVE  NoPause'
  <2>1. dcs' = [dcs EXCEPT !.fo = [from |-> from, to |-> to]] /\ UNCHANGED <<view, paused>>
    BY <1>4 DEF RequestFailover, nodeVars
  <2>2. QED
    BY <2>1 DEF NoPause, Types, Clusters
<1>5. QED
  BY <1>1, <1>2, <1>3, <1>4, CycleFlags, OtherFlags DEF Next, Happens, Maybe

\* The invariant is inductive without pauses and quick restarts.
LEMMA SafeStep ==
  ASSUME IInv, MaxPauses = 0, ~QuickRestart, [Next]_vars
  PROVE  IInv'
<1>1. Types'
  BY NextTypes, HaAssumption DEF IInv
<1>2. CASE UNCHANGED vars
  BY <1>1, <1>2 DEF vars, pgVars, nodeVars, envVars, IInv, NoPause, Safe, Fenced, Knows, Alone, Polls, Outlives, Racing,
     Primary
<1>3. CASE Next
  <2>1. NoPause' /\ ~\E p \in BOOLEAN : SetPause(p)
    BY <1>3, PauseStep DEF IInv
  <2>2. ASSUME NEW n \in Nodes, Happens(n)
        PROVE  \A m \in Nodes : Safe(m)'
    BY <1>1, <2>2, GoneSafe, RestartSafe, PgCrashSafe, KeyExpiresSafe, FsExpiresSafe, ElsewhereSafe
       DEF Happens, Faults
  <2>3. ASSUME NEW from \in Maybe, NEW to \in Maybe, RequestFailover(from, to)
        PROVE  \A m \in Nodes : Safe(m)'
    <3>1. dcs'.owner = dcs.owner /\ UNCHANGED <<pg, role, task, wd, ping, fs, view, pc, asked>>
      BY <2>3, SafeNode DEF RequestFailover, pgVars, nodeVars, IInv, Types, Clusters
    <3>2. QED
      BY <3>1 DEF IInv, Safe, Fenced, Knows, Alone, Polls, Outlives, Racing, Primary
  <2>4. \A m \in Nodes : Safe(m)'
    BY <1>1, <1>3, <2>1, <2>2, <2>3, CycleSafe, TaskSafe, ElsewhereSafe DEF Next, Happens, Maybe
  <2>5. QED
    BY <1>1, <2>1, <2>4 DEF IInv
<1>4. QED
  BY <1>2, <1>3

LEMMA SafeInit ==
  ASSUME Init
  PROVE  IInv
<1>1. Types
  BY InitTypes, HaAssumption
<1>2. PICK p \in Nodes \ (NoFailover \cup NoWatchdog) :
        /\ dcs = [NoView EXCEPT !.owner = p, !.optime = 1, !.hist = 1]
        /\ view = [n \in Nodes |-> NoView]
        /\ pc = [n \in Nodes |-> "idle"]
        /\ asked = [n \in Nodes |-> {}]
        /\ pg = [n \in Nodes |-> IF n = p THEN "primary" ELSE "replica"]
        /\ task = [n \in Nodes |-> "none"]
        /\ paused = [n \in Nodes |-> FALSE]
        /\ wd = [n \in Nodes |-> n = p]
        /\ ping = [n \in Nodes |-> IF n = p THEN "key" ELSE "none"]
  BY DEF Init
<1>3. dcs.owner = p /\ NoPause
  BY <1>2 DEF NoPause, NoView
<1>4. \A n \in Nodes : Safe(n)
  BY <1>2, <1>3, Tells DEF Safe, Fenced, Knows, Alone, Polls, Outlives, Primary
<1>5. QED
  BY <1>1, <1>3, <1>4 DEF IInv

\* At most one node runs a primary, for any nodes, any number of faults and requests, with
\* and without failsafe mode, if nobody pauses the cluster and no Patroni is back before a
\* failsafe record it forgot would expire.
THEOREM AtMostOnePrimary == MaxPauses = 0 /\ ~QuickRestart => (Spec => []SinglePrimary)
<1> SUFFICES ASSUME MaxPauses = 0, ~QuickRestart
             PROVE  Spec => []SinglePrimary
  OBVIOUS
<1>1. Init => IInv
  BY SafeInit
<1>2. IInv /\ [Next]_vars => IInv'
  BY SafeStep
<1>3. QED
  BY <1>1, <1>2, OnePrimary, PTL DEF Spec
-----------------------------------------------------------------------------
(* Patroni stops no primary in pause *)

Starts == {"follow", "rewind", "release"}

\* In pause the watchdog is off and no cycle asks its peers; what starts PostgreSQL as a
\* replica runs on a node that is no primary.
Left(n) ==
  /\ paused[n] => ~wd[n] /\ pc[n] # "failsafe"
  /\ task[n] \in Starts => ~Primary(n)

PauseInv == Types /\ \A n \in Nodes : Left(n)

\* A step that stops no primary in pause.
KeepsPrimary(n) == Primary(n) /\ paused[n] /\ used' = used => pg'[n] = "primary" \/ task[n] = "demote"

\* What a step of n does to Left.
Leaves(n) ==
  /\ \A m \in Nodes \ {n} : pg'[m] = pg[m] /\ task'[m] = task[m] /\ wd'[m] = wd[m] /\ pc'[m] = pc[m]
  /\ paused' = paused
  /\ pc'[n] = pc[n] \/ pc'[n] # "failsafe" \/ ~paused[n]
  /\ wd'[n] => wd[n] \/ ~paused[n]
  /\ \/ /\ pg'[n] = pg[n] \/ (pg'[n] # "primary" /\ (~Primary(n) \/ ~paused[n] \/ task[n] = "demote" \/ used' # used))
        /\ task'[n] = task[n] \/ task'[n] \notin Starts \/ pg'[n] # "primary"
     \/ pg'[n] = "primary" /\ task'[n] \notin Starts

LEMMA LeavesStep ==
  ASSUME PauseInv, NEW n \in Nodes, Leaves(n)
  PROVE  \A m \in Nodes : Left(m)' /\ KeepsPrimary(m)
BY DEF PauseInv, Leaves, Left, KeepsPrimary, Primary

\* A cycle that ends.
LEMMA LeavesEnd ==
  ASSUME PauseInv, NEW n \in Nodes, CycleEnds(n), NodeStep(n), paused' = paused,
         wd'[n] => wd[n] \/ ~paused[n],
         pg'[n] = pg[n] \/ (pg'[n] # "primary" /\ (~Primary(n) \/ ~paused[n])),
         task'[n] = task[n] \/ task'[n] \notin Starts \/ pg'[n] # "primary"
  PROVE  Leaves(n)
BY EndsCycle, HaAssumption DEF PauseInv, Leaves, NodeStep, OnlyNode, OnlyCycle

LEMMA CycleLeaves ==
  ASSUME PauseInv, NEW n \in Nodes, Cycle(n), ~Load(n)
  PROVE  Leaves(n)
<1>1. Types /\ Left(n)
  BY DEF PauseInv
<1>2. CASE DcsFails(n)
  <2>1. \/ ~paused[n] /\ pc' = Set(pc, n, "failsafe") /\ KeepNode
        \/ CycleEnds(n) /\ (KeepNode \/ (~paused[n] /\ StopOffline(n)))
    BY <1>2 DEF DcsFails, DcsError
  <2>2. CASE ~paused[n] /\ pc' = Set(pc, n, "failsafe") /\ KeepNode
    BY <1>1, <2>2 DEF KeepNode, pgVars, nodeVars, Leaves, Types, CycleTypes, Set
  <2>3. CASE CycleEnds(n) /\ KeepNode
    BY <1>1, <2>3, Keeps, LeavesEnd DEF KeepNode, pgVars, nodeVars
  <2>4. CASE CycleEnds(n) /\ ~paused[n] /\ StopOffline(n)
    BY <1>1, <2>4, StopsOffline, LeavesEnd DEF StopOffline, Stopped
  <2>5. QED
    BY <2>1, <2>2, <2>3, <2>4
<1>3. ASSUME NEW r \in Nodes, PostFailsafe(n, r)
      PROVE  Leaves(n)
  <2>1. ~paused[n]
    BY <1>1, <1>3 DEF Left, PostFailsafe
  <2>2. CASE StopOffline(n) /\ CycleEnds(n)
    BY <1>1, <2>1, <2>2, StopsOffline, LeavesEnd DEF StopOffline, Stopped
  <2>3. CASE UNCHANGED <<pc, view, pgVars, up, paused, wd, ping>>
    BY <2>3 DEF Leaves, pgVars
  <2>4. QED
    BY <1>3, <2>2, <2>3 DEF PostFailsafe
<1>4. CASE FailsafeAgreed(n)
  BY <1>1, <1>4, EndsCycle, HaAssumption DEF FailsafeAgreed, pgVars, Leaves, OnlyCycle
<1>5. CASE LongAction(n)
  <2>1. NodeStep(n) /\ Goes(n) /\ CycleEnds(n)
    BY <1>1, <1>5, LongActs, HaAssumption
  <2>2. QED
    BY <1>1, <2>1, LeavesEnd DEF Goes, Stopped, Starts
<1>6. CASE PostRecover(n)
  <2>1. NodeStep(n) /\ GivesUp(n) /\ CycleEnds(n)
    BY <1>1, <1>6, PostRecovers, HaAssumption
  <2>2. QED
    BY <1>1, <2>1, LeavesEnd DEF GivesUp
<1>7. CASE Recover(n)
  <2>1. NodeStep(n) /\ Recovers(n) /\ CycleEnds(n)
    BY <1>1, <1>7, RecoverActs, HaAssumption
  <2>2. QED
    BY <1>1, <2>1, LeavesEnd DEF Recovers, Stopped, Running, Primary, Starts
<1>8. CASE DownInPause(n) \/ NotPrimaryInPause(n)
  <2>1. CycleEnds(n) /\ KeepNode
    BY <1>8 DEF DownInPause, NotPrimaryInPause
  <2>2. QED
    BY <1>1, <2>1, Keeps, LeavesEnd DEF KeepNode, pgVars, nodeVars
<1>9. ASSUME NEW v, v.owner \in Maybe, FollowWith(n, v), CycleEnds(n)
      PROVE  Leaves(n)
  <2>1. /\ NodeStep(n) /\ paused' = paused
        /\ \/ Followed(n)
           \/ /\ Primary(n) /\ ~paused[n]
              /\ Stopped(n, "down", "demoted", IF Busy(n) /\ task[n] # "start" THEN task[n] ELSE "follow")
    BY <1>1, <1>9, Follows
  <2>2. QED
    BY <1>1, <1>9, <2>1, LeavesEnd DEF Followed, Stopped, Primary
<1>10. CASE HealthCheck(n)
  <2>1. CASE pc' = Set(pc, n, "race") /\ KeepNode
    BY <1>1, <2>1 DEF KeepNode, pgVars, nodeVars, Leaves, Types, CycleTypes, Set
  <2>2. QED
    BY <1>1, <1>9, <1>10, <2>1 DEF HealthCheck, Types, Clusters
<1>11. CASE Acquire(n)
  <2>1. CASE pc' = Set(pc, n, "won") /\ KeepNode
    BY <1>1, <2>1 DEF KeepNode, pgVars, nodeVars, Leaves, Types, CycleTypes, Set
  <2>2. QED
    BY <1>1, <1>9, <1>11, <2>1 DEF Acquire, Types, Clusters
<1>12. ASSUME CycleEnds(n), NodeStep(n), Leads(n) \/ Resigns(n)
       PROVE  Leaves(n)
  BY <1>1, <1>12, LeavesEnd DEF Leads, Resigns, Stopped, Starts, Primary
<1>13. CASE AfterAcquire(n) \/ UpdateKey(n)
  <2>1. CycleEnds(n) /\ NodeStep(n)
    BY <1>1, <1>13, WonActs, UpdateActs, HaAssumption
  <2>2. CASE /\ UNCHANGED <<pg, wd, paused>> /\ task'[n] = "demote"
    BY <1>1, <2>1, <2>2, LeavesEnd DEF Starts
  <2>3. Leads(n) \/ Resigns(n) \/ (UNCHANGED <<pg, wd, paused>> /\ task'[n] = "demote")
    <3>1. CASE AfterAcquire(n)
      BY <1>1, <3>1, Enforces DEF AfterAcquire
    <3>2. CASE UpdateKey(n)
      BY <1>1, <3>2, UpdateActs, HaAssumption DEF Updates
    <3>3. QED
      BY <1>13, <3>1, <3>2
  <2>4. QED
    BY <1>12, <2>1, <2>2, <2>3
<1>14. CASE UpdateRefused(n)
  <2>1. CycleEnds(n) /\ (KeepNode \/ (~paused[n] /\ StopAndFollow(n)))
    BY <1>14 DEF UpdateRefused
  <2>2. QED
    BY <1>1, <2>1, Keeps, Stops, LeavesEnd DEF KeepNode, pgVars, nodeVars, StopAndFollow, Stopped
<1>15. CASE FollowLeader(n)
  BY <1>1, <1>9, <1>15 DEF FollowLeader, Types, CycleTypes, Clusters
<1>16. QED
  BY <1>2, <1>3, <1>4, <1>5, <1>6, <1>7, <1>8, <1>10, <1>11, <1>13, <1>14, <1>15 DEF Cycle

LEMMA TaskLeaves ==
  ASSUME PauseInv, NEW n \in Nodes, Task(n)
  PROVE  Leaves(n)
<1>1. Types /\ Left(n)
  BY DEF PauseInv
<1>2. CASE PromoteCommits(n) \/ PromoteFails(n) \/ PromoteEnds(n)
  BY <1>1, <1>2 DEF PromoteCommits, PromoteFails, PromoteEnds, TaskStep, TaskRest, nodeVars, Leaves, Set, Types,
     PgTypes, Starts
<1>3. CASE PromoteDone(n) \/ StartDone(n)
  BY <1>1, <1>3 DEF PromoteDone, StartDone, TaskStep, TaskRest, nodeVars, Leaves, Set, Types, PgTypes, Starts
<1>4. CASE GracefulStop(n) \/ StopDone(n)
  BY <1>1, <1>4 DEF GracefulStop, StopDone, TaskStep, TaskRest, nodeVars, Leaves, Set, Types, PgTypes, NodeTypes,
     Primary
<1>5. CASE ReleaseKey(n) \/ FollowDone(n) \/ RewindDone(n)
  BY <1>1, <1>5 DEF ReleaseKey, FollowDone, RewindDone, TaskStep, TaskRest, nodeVars, Leaves, Left, Set, Types,
     PgTypes, Starts, Primary
<1>6. QED
  BY <1>2, <1>3, <1>4, <1>5 DEF Task

LEMMA HappensLeaves ==
  ASSUME PauseInv, NEW n \in Nodes, Happens(n) \/ Stream(n) \/ Write(n)
  PROVE  Leaves(n)
<1>1. Types /\ Left(n)
  BY DEF PauseInv
<1>2. Fault => used' # used
  BY <1>1 DEF Fault, Event, Spend, Types, EnvTypes, Counts
<1>3. CASE HostCrash(n) \/ WatchdogFires(n) \/ PatroniKilled(n) \/ Shutdown(n)
  <2>1. /\ CycleEnds(n) /\ task' = Set(task, n, "none") /\ paused' = paused
        /\ wd' = wd \/ wd' = Set(wd, n, FALSE)
        /\ pg' = pg \/ (pg' = Set(pg, n, "down") /\ (used' # used \/ wd[n] \/ ~paused[n]))
    BY <1>2, <1>3 DEF HostCrash, WatchdogFires, PatroniKilled, Shutdown, HostDown, Gone
  <2>2. OnlyCycle(n) /\ pc'[n] = "idle"
    BY <1>1, <2>1, EndsCycle, HaAssumption
  <2>3. QED
    BY <1>1, <2>1, <2>2 DEF Leaves, Left, OnlyCycle, Set, Types, PgTypes, NodeTypes, Starts
<1>4. CASE PgCrash(n) \/ Restart(n)
  BY <1>1, <1>2, <1>4 DEF PgCrash, Restart, Elsewhere, nodeVars, Leaves, Set, Types, PgTypes, Running, Primary
<1>5. CASE StartFails(n)
  BY <1>1, <1>5 DEF StartFails, TaskStep, nodeVars, Leaves, Set, Types, PgTypes, Starts
<1>6. CASE KeyExpires(n) \/ FsExpires(n) \/ Cut(n) \/ Heal(n) \/ Stream(n) \/ Write(n)
  BY <1>6 DEF KeyExpires, FsExpires, Cut, Heal, Stream, Write, OnlyPg, Elsewhere, pgVars, nodeVars, Leaves
<1>7. QED
  BY <1>3, <1>4, <1>5, <1>6 DEF Happens, Faults

LEMMA LoadLeaves ==
  ASSUME PauseInv, NEW n \in Nodes, Load(n)
  PROVE  \A m \in Nodes : Left(m)' /\ KeepsPrimary(m)
<1> DEFINE p == Snapshot(n).paused
<1>1. /\ pc' = Set(pc, n, "cycle") /\ paused' = Set(paused, n, p)
      /\ wd' = IF p THEN Set(wd, n, FALSE) ELSE wd
      /\ pg' = pg /\ task' = task
  BY DEF Load, pgVars
<1> HIDE DEF p
<1>2. \A m \in Nodes : KeepsPrimary(m)
  BY <1>1 DEF KeepsPrimary, Primary
<1>3. ASSUME NEW m \in Nodes \ {n}
      PROVE  Left(m)'
  <2>1. pc'[m] = pc[m] /\ paused'[m] = paused[m] /\ wd'[m] = wd[m]
    BY <1>1, <1>3 DEF PauseInv, Types, CycleTypes, NodeTypes, Set
  <2>2. QED
    BY <1>1, <2>1 DEF PauseInv, Left, Primary
<1>4. Left(n)'
  <2>1. pc'[n] = "cycle" /\ paused'[n] = p /\ (p => wd'[n] = FALSE)
    BY <1>1 DEF PauseInv, Types, CycleTypes, NodeTypes, Set
  <2>2. QED
    BY <1>1, <2>1 DEF PauseInv, Left, Primary
<1>5. QED
  BY <1>2, <1>3, <1>4

LEMMA PauseNext ==
  ASSUME PauseInv, [Next]_vars
  PROVE  PauseInv' /\ \A m \in Nodes : KeepsPrimary(m)
<1>1. Types'
  BY NextTypes, HaAssumption DEF PauseInv
<1>2. CASE UNCHANGED <<pgVars, paused, wd, pc>>
  BY <1>1, <1>2 DEF PauseInv, Left, KeepsPrimary, Primary, pgVars
<1>3. UNCHANGED vars \/ (\E from, to \in Maybe : RequestFailover(from, to)) \/ (\E p \in BOOLEAN : SetPause(p))
        => UNCHANGED <<pgVars, paused, wd, pc>>
  BY DEF vars, RequestFailover, SetPause, nodeVars
<1>4. ASSUME NEW n \in Nodes, Cycle(n) \/ Task(n) \/ Happens(n) \/ Stream(n) \/ Write(n)
      PROVE  \A m \in Nodes : Left(m)' /\ KeepsPrimary(m)
  BY <1>4, LoadLeaves, CycleLeaves, TaskLeaves, HappensLeaves, LeavesStep
<1>5. CASE \E n \in Nodes : Cycle(n) \/ Task(n) \/ Happens(n) \/ Stream(n) \/ Write(n)
  BY <1>1, <1>4, <1>5 DEF PauseInv
<1>6. QED
  BY <1>2, <1>3, <1>5 DEF Next, Happens, Maybe

\* In pause no step but a demotion that was asked for, or a fault, stops a primary.
THEOREM NoPrimaryIsStoppedInPause == Spec => PauseKeepsPrimary
<1>1. Init => PauseInv
  <2> SUFFICES ASSUME Init PROVE PauseInv
    OBVIOUS
  <2>1. Types
    BY InitTypes, HaAssumption
  <2>2. /\ task = [n \in Nodes |-> "none"] /\ paused = [n \in Nodes |-> FALSE]
    BY DEF Init
  <2>3. QED
    BY <2>1, <2>2 DEF PauseInv, Left, Starts
<1>2. PauseInv /\ [Next]_vars => PauseInv'
  BY PauseNext
<1>3. PauseInv /\ [Next]_vars =>
        [\A n \in Nodes : Primary(n) /\ paused[n] /\ used' = used => pg'[n] = "primary" \/ task[n] = "demote"]_vars
  BY PauseNext DEF KeepsPrimary
<1>4. QED
  BY <1>1, <1>2, <1>3, PTL DEF Spec, PauseKeepsPrimary
-----------------------------------------------------------------------------
(* Who takes the key *)

\* No key is given up while another node is between reading a cluster without a leader and
\* trying to take the key.  HaCluster assumes as much of keys that expire, or are released by
\* a stop; a node could also be promoted, crash and fail to start again during such a race.
RaceEnds == \A n \in Nodes : dcs.owner = n /\ dcs'.owner = None => NoRace(n)

Sorted(w) == \A i, j \in 1 .. Len(w) : i <= j => w[i].tl <= w[j].tl

\* n lacks no more than it may of what v says of the last leader.
Fits(n, v) == ~IsLagging(Lsn(n), v) /\ (CheckTimeline => Timeline(n) >= v.hist)

\* Who races was fit to when it looked, and nothing has been published since; whoever has
\* the key, or runs a primary, is fit to.
Elect(n) ==
  /\ Sorted(wal[n]) /\ view[n].fo = NoFailoverKey
  /\ pc[n] = "race" => view[n].owner = None /\ Fits(n, view[n])
  /\ Racing(n) /\ dcs.owner = None => view[n].optime = dcs.optime /\ view[n].hist = dcs.hist
  /\ Primary(n) \/ dcs.owner = n => Fits(n, dcs)
  /\ dcs.owner = n => task[n] # "rewind"

ElectInv == IInv /\ dcs.fo = NoFailoverKey /\ \A n \in Nodes : Elect(n)

LEMMA AppendSorted ==
  ASSUME NEW w \in Wals, NEW r \in Records, Sorted(w), r.tl >= Last(w).tl
  PROVE  Sorted(Append(w, r)) /\ Len(Append(w, r)) = Len(w) + 1 /\ Last(Append(w, r)) = r
<1>1. w \in Seq(Records) /\ Len(w) \in Nat /\ Len(w) > 0 /\ Last(w) = w[Len(w)]
  BY WalFacts DEF Wals, Last
<1>2. /\ Len(Append(w, r)) = Len(w) + 1
      /\ \A i \in 1 .. Len(w) : Append(w, r)[i] = w[i]
      /\ Append(w, r)[Len(w) + 1] = r
  BY <1>1, AppendProperties
<1>3. \A i \in 1 .. Len(w) : w[i].tl \in Nat /\ w[i].tl <= w[Len(w)].tl
  <2>1. \A i \in 1 .. Len(w) : w[i] \in Records
    BY <1>1, ElementOfSeq
  <2>2. \A i \in 1 .. Len(w) : w[i].tl \in Nat
    BY <2>1 DEF Records
  <2>3. \A i \in 1 .. Len(w) : i <= Len(w) /\ Len(w) \in 1 .. Len(w)
    BY <1>1
  <2>4. QED
    BY <2>2, <2>3 DEF Sorted
<1>4. r.tl \in Nat
  BY DEF Records
<1>5. ASSUME NEW i \in 1 .. Len(w) + 1, NEW j \in 1 .. Len(w) + 1, i <= j
      PROVE  Append(w, r)[i].tl <= Append(w, r)[j].tl
  <2>1. CASE j \in 1 .. Len(w)
    <3>1. i \in 1 .. Len(w)
      BY <1>5, <2>1, <1>1
    <3>2. QED
      BY <1>2, <1>5, <2>1, <3>1 DEF Sorted
  <2>2. CASE i = Len(w) + 1
    <3>1. j = Len(w) + 1
      BY <1>1, <1>5, <2>2
    <3>2. QED
      BY <1>2, <1>4, <2>2, <3>1
  <2>3. CASE i \in 1 .. Len(w) /\ j = Len(w) + 1
    <3>1. w[i].tl \in Nat /\ w[i].tl <= w[Len(w)].tl /\ w[Len(w)].tl \in Nat /\ r.tl >= w[Len(w)].tl
      BY <1>1, <1>3, <2>3
    <3>2. w[i].tl <= r.tl
      BY <1>4, <3>1
    <3>3. QED
      BY <1>2, <2>3, <3>2
  <2>4. QED
    BY <1>1, <2>1, <2>2, <2>3
<1>6. Last(Append(w, r)) = r
  BY <1>2 DEF Last
<1>7. QED
  BY <1>2, <1>5, <1>6 DEF Sorted

LEMMA StreamSorted ==
  ASSUME NEW v \in Wals, NEW w \in Wals, IsPrefix(v, w), v # w, Sorted(w)
  PROVE  LET s == SubSeq(w, 1, Len(v) + 1)
         IN  Sorted(s) /\ Len(s) = Len(v) + 1 /\ Last(s).tl >= Last(v).tl
<1> DEFINE s == SubSeq(w, 1, Len(v) + 1)
<1>1. v \in Seq(Records) /\ w \in Seq(Records) /\ Len(v) \in Nat /\ Len(v) > 0 /\ Len(w) \in Nat
  BY WalFacts DEF Wals
<1>2. Len(v) <= Len(w) /\ SubSeq(v, 1, Len(v)) = SubSeq(w, 1, Len(v))
  BY DEF IsPrefix
<1>3. SubSeq(v, 1, Len(v)) = v /\ SubSeq(w, 1, Len(w)) = w
  BY <1>1, SubSeqFull
<1>4. Len(v) # Len(w)
  BY <1>2, <1>3
<1>5. 1 \in 1 .. Len(w) + 1 /\ Len(v) + 1 \in 0 .. Len(w) /\ Len(v) \in 0 .. Len(w) /\ Len(v) + 1 \in 1 .. Len(w)
  BY <1>1, <1>2, <1>4
<1>6. Len(s) = Len(v) + 1 /\ \A i \in 1 .. Len(v) + 1 : s[i] = w[i]
  <2>1. Len(s) = Len(v) + 1
    BY <1>1, <1>5, SubSeqProperties
  <2>2. \A i \in 1 .. Len(v) + 1 : s[i] = w[1 + i - 1]
    BY <1>1, <1>5, <2>1, SubSeqProperties
  <2>3. QED
    BY <1>1, <2>1, <2>2
<1>7. \A i \in 1 .. Len(v) : v[i] = w[i]
  <2>1. \A i \in 1 .. Len(v) : SubSeq(w, 1, Len(v))[i] = w[1 + i - 1]
    BY <1>1, <1>2, <1>5, SubSeqProperties
  <2>2. QED
    BY <1>1, <1>2, <1>3, <2>1
<1>8. Sorted(s)
  BY <1>1, <1>5, <1>6 DEF Sorted
<1>9. Last(s) = w[Len(v) + 1] /\ Last(v) = w[Len(v)]
  BY <1>1, <1>6, <1>7 DEF Last
<1>10. w[Len(v) + 1].tl \in Nat /\ w[Len(v)].tl \in Nat /\ w[Len(v)].tl <= w[Len(v) + 1].tl
  <2>1. Len(v) \in 1 .. Len(w)
    BY <1>1, <1>5
  <2>2. w[Len(v)] \in Records /\ w[Len(v) + 1] \in Records
    BY <1>1, <1>5, <2>1, ElementOfSeq
  <2>3. QED
    BY <1>1, <1>5, <2>1, <2>2 DEF Sorted, Records
<1>11. QED
  BY <1>6, <1>8, <1>9, <1>10
-----------------------------------------------------------------------------
\* Nothing that matters happens to the nodes but n.
Others(n) ==
  \A m \in Nodes \ {n} :
    pg'[m] = pg[m] /\ task'[m] = task[m] /\ pc'[m] = pc[m] /\ view'[m] = view[m] /\ wal'[m] = wal[m]

\* The holder of the key publishes what it has, or gives the key up.
Publishes(n) ==
  /\ dcs.owner = n
  /\ dcs'.owner = n \/ (dcs'.owner = None /\ NoRace(n))
  /\ dcs'.optime \in {dcs.optime, Lsn(n)} /\ dcs'.hist \in {dcs.hist, Timeline(n)}
  /\ dcs'.fo = NoFailoverKey /\ wal' = wal

\* A step of n that does not bring it nearer to the key.
Quiet(n) ==
  /\ Others(n)
  /\ Sorted(wal'[n])
  /\ \/ Len(wal'[n]) >= Lsn(n) /\ Last(wal'[n]).tl >= Timeline(n)
     \/ task[n] = "rewind" /\ pg'[n] # "primary"
  /\ view'[n].fo = NoFailoverKey
  /\ (pc'[n] = pc[n] /\ view'[n] = view[n]) \/ pc'[n] \notin {"race", "cycle"}
  /\ pg'[n] = "primary" => Primary(n) \/ dcs.owner = n
  /\ task'[n] = "rewind" => task[n] = "rewind" \/ dcs.owner # n
  /\ dcs' = dcs \/ Publishes(n)

LEMMA ElectNode ==
  ASSUME ElectInv, NEW n \in Nodes
  PROVE  /\ IInv /\ Types /\ Knows(n) /\ Fenced(n) /\ Elect(n) /\ dcs.fo = NoFailoverKey
         /\ Lsn(n) \in Nat /\ Timeline(n) \in Nat /\ dcs.optime \in Nat /\ dcs.hist \in Nat
         /\ view[n] \in Clusters /\ ~paused[n] /\ ~view[n].paused
<1>1. Types /\ Knows(n) /\ Fenced(n) /\ NoPause
  BY DEF ElectInv, IInv, Safe
<1>2. Lsn(n) \in Nat /\ Timeline(n) \in Nat
  BY <1>1, KeyTypes
<1>3. QED
  BY <1>1, <1>2 DEF ElectInv, Types, CycleTypes, Clusters, NoPause

\* A WAL that grows stays fit.
LEMMA FitsMore ==
  ASSUME NEW a \in Nat, NEW b \in Nat, NEW s \in Nat, NEW t \in Nat, NEW v \in Clusters,
         b >= a, t >= s, ~IsLagging(a, v), CheckTimeline => s >= v.hist
  PROVE  ~IsLagging(b, v) /\ (CheckTimeline => t >= v.hist)
BY HaAssumption DEF IsLagging, Clusters

LEMMA QuietStep ==
  ASSUME ElectInv, IInv', NEW n \in Nodes, Quiet(n)
  PROVE  ElectInv'
<1>1. dcs'.fo = NoFailoverKey
  BY DEF Quiet, Publishes, ElectInv
<1>2. /\ dcs \in Clusters /\ dcs' \in Clusters /\ dcs.optime \in Nat /\ dcs.hist \in Nat
      /\ \A m \in Nodes : Lsn(m) \in Nat /\ Timeline(m) \in Nat /\ Lsn(m)' \in Nat /\ Timeline(m)' \in Nat
                          /\ view[m] \in Clusters
  <2>1. \A w \in Wals : Len(w) \in Nat /\ Last(w).tl \in Nat
    BY WalFacts DEF Records
  <2>2. wal \in [Nodes -> Wals] /\ wal' \in [Nodes -> Wals] /\ dcs \in Clusters /\ dcs' \in Clusters
    BY DEF ElectInv, IInv, Types, WalTypes
  <2>3. QED
    BY <2>1, <2>2, ElectNode DEF Lsn, Timeline, Clusters
<1>3. ASSUME NEW m \in Nodes \ {n}
      PROVE  Elect(m)'
  <2>1. /\ pg'[m] = pg[m] /\ task'[m] = task[m] /\ pc'[m] = pc[m] /\ view'[m] = view[m] /\ wal'[m] = wal[m]
    BY <1>3 DEF Quiet, Others
  <2>2. CASE dcs' = dcs
    BY <2>1, <2>2, ElectNode DEF Elect, Racing, Fits, Lsn, Timeline, Primary
  <2>3. CASE Publishes(n)
    <3>1. dcs.owner = n /\ dcs'.owner # m /\ (dcs'.owner = None => ~Racing(m))
      BY <1>3, <2>3, HaAssumption DEF Publishes, NoRace, Racing
    <3>2. ~Primary(m)
      BY <1>3, <3>1, HaAssumption DEF ElectInv, IInv, Safe, Fenced, Alone, Outlives, Primary
    <3>3. QED
      BY <2>1, <3>1, <3>2, ElectNode DEF Elect, Racing, Fits, Lsn, Timeline, Primary
  <2>4. QED
    BY <2>2, <2>3 DEF Quiet
<1>4. Elect(n)'
  <2>1. pc'[n] = "race" => view'[n].owner = None /\ Fits(n, view[n])' /\ view'[n] = view[n]
    <3>1. ASSUME pc'[n] = "race"
          PROVE  view'[n].owner = None /\ Fits(n, view[n])'
      <4>1. pc[n] = "race" /\ view'[n] = view[n] /\ task[n] = "none"
        BY <3>1, ElectNode DEF Quiet, Knows
      <4>2. Lsn(n)' >= Lsn(n) /\ Timeline(n)' >= Timeline(n)
        BY <4>1 DEF Quiet, Lsn, Timeline
      <4>3. QED
        BY <1>2, <4>1, <4>2, ElectNode, FitsMore DEF Elect, Fits
    <3>2. QED
      BY <3>1 DEF Quiet
  <2>2. Racing(n)' /\ dcs'.owner = None => view'[n].optime = dcs'.optime /\ view'[n].hist = dcs'.hist
    <3>1. Racing(n)' => Racing(n) /\ view'[n] = view[n]
      BY DEF Quiet, Racing
    <3>2. Publishes(n) => ~Racing(n)
      BY ElectNode, HaAssumption DEF Publishes, Racing, Knows
    <3>3. QED
      BY <3>1, <3>2, ElectNode DEF Elect, Quiet
  <2>3. dcs'.owner = n => dcs.owner = n /\ task'[n] # "rewind" /\ task[n] # "rewind"
    BY ElectNode DEF Quiet, Publishes, Elect
  <2>4. ASSUME pg'[n] = "primary" \/ dcs'.owner = n
        PROVE  Fits(n, dcs)'
    <3>1. /\ Fits(n, dcs)
          /\ Lsn(n)' >= Lsn(n) /\ Timeline(n)' >= Timeline(n)
      <4>1. CASE dcs'.owner = n
        BY <4>1, <2>3, ElectNode DEF Quiet, Elect, Lsn, Timeline
      <4>2. CASE pg'[n] = "primary"
        BY <4>2, ElectNode DEF Quiet, Elect, Lsn, Timeline, Primary
      <4>3. QED
        BY <2>4, <4>1, <4>2
    <3>2. CASE dcs' = dcs
      BY <1>2, <3>1, <3>2, FitsMore DEF Fits
    <3>3. CASE Publishes(n)
      <4>1. Lsn(n)' = Lsn(n) /\ Timeline(n)' = Timeline(n)
        BY <3>3 DEF Publishes, Lsn, Timeline
      <4>2. dcs'.optime \in {dcs.optime, Lsn(n)} /\ dcs'.hist \in {dcs.hist, Timeline(n)}
        BY <3>3 DEF Publishes
      <4>3. QED
        BY <1>2, <3>1, <4>1, <4>2, HaAssumption DEF Fits, IsLagging
    <3>4. QED
      BY <3>2, <3>3 DEF Quiet
  <2>5. Sorted(wal[n])' /\ view'[n].fo = NoFailoverKey
    BY DEF Quiet
  <2>6. QED
    BY <2>1, <2>2, <2>3, <2>4, <2>5 DEF Elect, Primary
<1>5. QED
  BY <1>1, <1>3, <1>4 DEF ElectInv

\* What WALs are made of.
LEMMA ElectWal ==
  ASSUME ElectInv, NEW n \in Nodes
  PROVE  wal[n] \in Wals /\ Sorted(wal[n]) /\ wal \in [Nodes -> Wals]
BY ElectNode DEF Elect, Types, WalTypes

LEMMA QuietEnd ==
  ASSUME ElectInv, NEW n \in Nodes, CycleEnds(n), NodeStep(n), wal' = wal,
         pg'[n] # "primary" \/ Primary(n),
         task'[n] = "rewind" => task[n] = "rewind" \/ dcs.owner # n,
         dcs' = dcs \/ Publishes(n)
  PROVE  Quiet(n)
<1>1. OnlyCycle(n) /\ pc'[n] = "idle" /\ OnlyNode(n)
  BY ElectNode, EndsCycle, HaAssumption DEF NodeStep
<1>2. view'[n].fo = NoFailoverKey
  BY ElectNode DEF CycleEnds, Set, Types, CycleTypes, NoView
<1>3. Others(n)
  BY <1>1 DEF Others, OnlyNode, OnlyCycle
<1>4. Sorted(wal'[n]) /\ Len(wal'[n]) >= Lsn(n) /\ Last(wal'[n]).tl >= Timeline(n)
  BY ElectWal, ElectNode DEF Lsn, Timeline
<1>5. QED
  BY <1>1, <1>2, <1>3, <1>4 DEF Quiet

\* A step outside of the cycle of n that writes no WAL.
LEMMA QuietElsewhere ==
  ASSUME ElectInv, NEW n \in Nodes, UNCHANGED <<pc, view, wal>>,
         \A m \in Nodes \ {n} : pg'[m] = pg[m] /\ task'[m] = task[m],
         pg'[n] # "primary" \/ Primary(n) \/ dcs.owner = n,
         task'[n] = "rewind" => task[n] = "rewind",
         dcs' = dcs \/ Publishes(n)
  PROVE  Quiet(n)
<1>1. Others(n)
  BY DEF Others
<1>2. Sorted(wal'[n]) /\ Len(wal'[n]) >= Lsn(n) /\ Last(wal'[n]).tl >= Timeline(n)
  BY ElectWal, ElectNode DEF Lsn, Timeline
<1>3. view'[n].fo = NoFailoverKey
  BY ElectNode DEF Elect
<1>4. QED
  BY <1>1, <1>2, <1>3 DEF Quiet

\* The key of n is given up, with what n has.
LEMMA GivenUp ==
  ASSUME ElectInv, NEW n \in Nodes, dcs.owner = n, NoRace(n), wal' = wal,
         dcs' = [dcs EXCEPT !.owner = None] \/ dcs' = [dcs EXCEPT !.owner = None, !.optime = Lsn(n)]
  PROVE  Publishes(n)
BY ElectNode DEF Publishes, Types, Clusters

LEMMA TaskQuiet ==
  ASSUME ElectInv, NEW n \in Nodes, Task(n)
  PROVE  Quiet(n)
<1>0. task[n] # "none" \/ StopDone(n)
  BY DEF Task, PromoteCommits, PromoteDone, PromoteFails, PromoteEnds, GracefulStop, ReleaseKey,
     FollowDone, StartDone, RewindDone, TaskStep
<1>1. UNCHANGED <<pc, view>>
  BY DEF Task, PromoteCommits, PromoteDone, PromoteFails, PromoteEnds, GracefulStop, ReleaseKey, StopDone,
     FollowDone, StartDone, RewindDone, TaskRest
<1>2. CASE \/ PromoteCommits(n) \/ PromoteFails(n) \/ PromoteEnds(n) \/ GracefulStop(n) \/ StopDone(n)
           \/ FollowDone(n) \/ StartDone(n)
  <2>1. /\ UNCHANGED <<dcs, wal>>
        /\ \/ pg' = pg \/ \E s \in {"stopping", "down", "replica"} : pg' = Set(pg, n, s)
           \/ pg' = Set(pg, n, "primary") /\ task[n] = "start"
        /\ task' = task \/ \E next \in {"promoting", "none", "release"} : task' = Set(task, n, next)
    BY <1>2 DEF PromoteCommits, PromoteFails, PromoteEnds, GracefulStop, StopDone, FollowDone, StartDone, TaskStep
  <2>2. task[n] = "start" => dcs.owner = n
    BY ElectNode, Tells DEF Fenced
  <2>3. /\ \A m \in Nodes \ {n} : pg'[m] = pg[m] /\ task'[m] = task[m]
        /\ pg'[n] # "primary" \/ Primary(n) \/ dcs.owner = n
        /\ task'[n] = "rewind" => task[n] = "rewind"
    BY <2>1, <2>2, ElectNode DEF Types, PgTypes, Set, Primary
  <2>4. QED
    BY <1>1, <2>1, <2>3, QuietElsewhere
<1>3. CASE ReleaseKey(n)
  <2>1. /\ UNCHANGED <<wal, pg>> /\ task' = Set(task, n, "follow") /\ NoRace(n)
        /\ dcs' = dcs \/ (dcs.owner = n /\ dcs' = [dcs EXCEPT !.owner = None, !.optime = Lsn(n)])
    BY <1>3 DEF ReleaseKey, TaskStep
  <2>2. dcs' = dcs \/ Publishes(n)
    BY <2>1, GivenUp
  <2>3. (\A m \in Nodes \ {n} : pg'[m] = pg[m] /\ task'[m] = task[m]) /\ task'[n] = "follow"
    BY <2>1, ElectNode DEF Types, PgTypes, Set
  <2>4. QED
    BY <1>1, <2>1, <2>2, <2>3, QuietElsewhere DEF Primary
<1>4. CASE PromoteDone(n)
  <2> DEFINE r == [tl |-> Timeline(n) + 1, by |-> n]
  <2>1. /\ dcs' = dcs /\ wal' = Set(wal, n, Append(wal[n], r)) /\ pg' = Set(pg, n, "primary")
        /\ task[n] = "promoting" /\ task' = Set(task, n, "waiting")
    BY <1>4 DEF PromoteDone, TaskStep
  <2>2. r \in Records /\ r.tl >= Last(wal[n]).tl
    BY ElectNode DEF Records, Timeline
  <2>3. Sorted(Append(wal[n], r)) /\ Len(Append(wal[n], r)) = Lsn(n) + 1 /\ Last(Append(wal[n], r)) = r
    BY <2>2, ElectWal, AppendSorted DEF Lsn
  <2>4. r.tl = Timeline(n) + 1
    OBVIOUS
  <2> HIDE DEF r
  <2>5. wal'[n] = Append(wal[n], r) /\ \A m \in Nodes \ {n} : wal'[m] = wal[m]
    BY <2>1, ElectWal DEF Set
  <2>6. /\ \A m \in Nodes \ {n} : pg'[m] = pg[m] /\ task'[m] = task[m]
        /\ task'[n] = "waiting" /\ dcs.owner = n
    BY <2>1, ElectNode, Tells DEF Types, PgTypes, Set, Fenced
  <2>7. Len(wal'[n]) >= Lsn(n) /\ Last(wal'[n]).tl >= Timeline(n)
    BY <2>3, <2>4, <2>5, ElectNode
  <2>8. QED
    BY <1>1, <2>1, <2>3, <2>5, <2>6, <2>7, ElectNode DEF Quiet, Others, Elect
<1>5. CASE RewindDone(n)
  <2>1. /\ dcs' = dcs /\ pg' = Set(pg, n, "down") /\ task[n] = "rewind" /\ task' = Set(task, n, "none")
        /\ wal' = wal \/ \E m \in Nodes : wal' = Set(wal, n, wal[m])
    BY <1>5 DEF RewindDone, TaskStep
  <2>2. Sorted(wal'[n]) /\ \A m \in Nodes \ {n} : wal'[m] = wal[m]
    BY <2>1, ElectWal DEF Set
  <2>3. /\ \A m \in Nodes \ {n} : pg'[m] = pg[m] /\ task'[m] = task[m]
        /\ task'[n] = "none" /\ pg'[n] = "down"
    BY <2>1, ElectNode DEF Types, PgTypes, Set
  <2>4. QED
    BY <1>1, <2>1, <2>2, <2>3, ElectNode DEF Quiet, Others, Elect
<1>6. QED
  BY <1>2, <1>3, <1>4, <1>5 DEF Task

LEMMA WritingQuiet ==
  ASSUME ElectInv, NEW n \in Nodes, Stream(n) \/ Write(n)
  PROVE  Quiet(n)
<1>1. UNCHANGED <<dcs, pg, task, pc, view>>
  BY DEF Stream, Write, OnlyPg
<1>2. /\ Sorted(wal'[n]) /\ Len(wal'[n]) >= Lsn(n) /\ Last(wal'[n]).tl >= Timeline(n)
      /\ \A m \in Nodes \ {n} : wal'[m] = wal[m]
  <2>1. CASE Write(n)
    <3> DEFINE r == [tl |-> Timeline(n), by |-> n]
    <3>1. wal' = Set(wal, n, Append(wal[n], r))
      BY <2>1 DEF Write
    <3>2. r \in Records /\ r.tl >= Last(wal[n]).tl /\ r.tl = Timeline(n)
      BY ElectNode DEF Records, Timeline
    <3> HIDE DEF r
    <3>3. Sorted(Append(wal[n], r)) /\ Len(Append(wal[n], r)) = Lsn(n) + 1 /\ Last(Append(wal[n], r)) = r
      BY <3>2, ElectWal, AppendSorted DEF Lsn
    <3>4. QED
      BY <3>1, <3>2, <3>3, ElectWal, ElectNode DEF Set
  <2>2. CASE Stream(n)
    <3>1. /\ upstream[n] \in Nodes /\ IsPrefix(wal[n], wal[upstream[n]]) /\ wal[n] # wal[upstream[n]]
          /\ wal' = Set(wal, n, SubSeq(wal[upstream[n]], 1, Lsn(n) + 1))
      BY <2>2, ElectNode DEF Stream, Types, PgTypes, Maybe
    <3> DEFINE s == SubSeq(wal[upstream[n]], 1, Lsn(n) + 1)
    <3>2. Sorted(s) /\ Len(s) = Lsn(n) + 1 /\ Last(s).tl >= Timeline(n)
      BY <3>1, ElectWal, StreamSorted DEF Lsn, Timeline
    <3> HIDE DEF s
    <3>3. wal'[n] = s /\ \A m \in Nodes \ {n} : wal'[m] = wal[m]
      BY <3>1, ElectWal DEF Set, s
    <3>4. QED
      BY <3>2, <3>3, ElectNode
  <2>3. QED
    BY <2>1, <2>2
<1>3. QED
  BY <1>1, <1>2, ElectNode DEF Quiet, Others, Elect, Primary

LEMMA HappensQuiet ==
  ASSUME ElectInv, NEW n \in Nodes, Happens(n)
  PROVE  Quiet(n)
<1>1. Accident(n) /\ Types /\ PgTypes' /\ NodeTypes'
  BY Accidents, AccidentTypes, ElectNode, HaAssumption DEF Types
<1>2. wal' = wal /\ (pg'[n] = "primary" => Primary(n)) /\ (task'[n] = "rewind" => task[n] = "rewind")
  BY <1>1 DEF Accident, Set, Types, PgTypes, Primary
<1>3. dcs' = dcs \/ Publishes(n)
  <2>1. \/ dcs' = dcs
        \/ /\ dcs.owner = n /\ NoRace(n)
           /\ dcs' = [dcs EXCEPT !.owner = None] \/ dcs' = [dcs EXCEPT !.owner = None, !.optime = Lsn(n)]
    BY DEF Happens, Faults, HostCrash, HostDown, PatroniKilled, Shutdown, PgCrash, Cut, StartFails, KeyExpires,
       FsExpires, WatchdogFires, Restart, Heal, envVars
  <2>2. QED
    BY <1>2, <2>1, GivenUp
<1>4. \A m \in Nodes \ {n} :
        pg'[m] = pg[m] /\ task'[m] = task[m] /\ role'[m] = role[m] /\ wd'[m] = wd[m] /\ ping'[m] = ping[m]
  BY <1>1 DEF Accident, Set, Types, PgTypes, NodeTypes
<1>5. CASE UNCHANGED <<pc, view, asked>>
  BY <1>2, <1>3, <1>4, <1>5, QuietElsewhere
<1>6. CASE CycleEnds(n)
  BY <1>1, <1>2, <1>3, <1>4, <1>6, QuietEnd DEF NodeStep, OnlyNode
<1>7. QED
  BY <1>1, <1>5, <1>6 DEF Accident

\* The cycle of n ends with n stopped, following or as it is.
LEMMA QuietCalm ==
  ASSUME ElectInv, NEW n \in Nodes, CycleEnds(n), NodeStep(n), wal' = wal, dcs' = dcs \/ Publishes(n),
         \/ pg'[n] = pg[n] /\ task'[n] = task[n]
         \/ Followed(n) /\ dcs.owner # n
         \/ Stopped(n, "down", "demoted", IF Busy(n) /\ task[n] # "start" THEN task[n] ELSE "follow")
         \/ Stopped(n, "replica", "replica", task[n])
  PROVE  Quiet(n)
<1>1. pg'[n] # "primary" \/ Primary(n)
  BY DEF Followed, Stopped, Primary
<1>2. task'[n] = "rewind" => task[n] = "rewind" \/ dcs.owner # n
  BY DEF Followed, Stopped
<1>3. QED
  BY <1>1, <1>2, QuietEnd

LEMMA FailsafeQuiet ==
  ASSUME ElectInv, NEW n \in Nodes, DcsFails(n) \/ FailsafeAgreed(n) \/ \E r \in Nodes : PostFailsafe(n, r)
  PROVE  Quiet(n)
<1>1. dcs' = dcs /\ Types
  BY ElectNode DEF DcsFails, FailsafeAgreed, PostFailsafe
<1>2. CASE CycleEnds(n) /\ (KeepNode \/ StopOffline(n))
  <2>1. CASE KeepNode
    BY <1>1, <1>2, <2>1, Keeps, QuietCalm DEF KeepNode, pgVars
  <2>2. CASE StopOffline(n)
    BY <1>1, <1>2, <2>2, StopsOffline, QuietCalm DEF StopOffline
  <2>3. QED
    BY <1>2, <2>1, <2>2
<1>3. CASE pc' = Set(pc, n, "failsafe") /\ UNCHANGED <<view, asked>> /\ KeepNode
  <2>1. Others(n) /\ pc'[n] = "failsafe" /\ wal' = wal /\ view' = view /\ pg' = pg /\ task' = task
    BY <1>1, <1>3 DEF Others, KeepNode, pgVars, Set, Types, CycleTypes
  <2>2. Sorted(wal'[n]) /\ Len(wal'[n]) >= Lsn(n) /\ Last(wal'[n]).tl >= Timeline(n)
    BY <2>1, ElectWal, ElectNode DEF Lsn, Timeline
  <2>3. QED
    BY <1>1, <2>1, <2>2, ElectNode DEF Quiet, Elect, Primary
<1>4. CASE UNCHANGED <<pc, view, pgVars>>
  BY <1>1, <1>4, QuietElsewhere DEF pgVars, Primary
<1>5. CASE FailsafeAgreed(n)
  <2>1. CycleEnds(n) /\ ping' = Set(ping, n, "fs") /\ UNCHANGED <<pgVars, up, paused, wd, fs>>
    BY <1>5 DEF FailsafeAgreed
  <2>2. NodeStep(n)
    BY <1>1, <2>1 DEF NodeStep, OnlyNode, Types, PgTypes, NodeTypes, Set, pgVars
  <2>3. QED
    BY <1>1, <2>1, <2>2, QuietCalm DEF pgVars
<1>6. QED
  BY <1>2, <1>3, <1>4, <1>5 DEF DcsFails, DcsError, PostFailsafe

LEMMA RecoverQuiet ==
  ASSUME ElectInv, RaceEnds, NEW n \in Nodes, LongAction(n) \/ PostRecover(n) \/ Recover(n)
  PROVE  Quiet(n)
<1>1. CASE LongAction(n)
  <2>1. dcs' = dcs /\ NodeStep(n) /\ Goes(n) /\ CycleEnds(n) /\ Busy(n)
    BY <1>1, LongActs, ElectNode, HaAssumption DEF LongAction
  <2>2. pg'[n] # "primary" \/ Primary(n)
    BY <2>1 DEF Goes, Stopped, Primary
  <2>3. task'[n] = "rewind" => task[n] = "rewind"
    BY <2>1 DEF Goes, Stopped
  <2>4. QED
    BY <2>1, <2>2, <2>3, QuietEnd DEF Goes
<1>2. CASE PostRecover(n)
  <2>1. NodeStep(n) /\ GivesUp(n) /\ CycleEnds(n)
    BY <1>2, PostRecovers, ElectNode, HaAssumption
  <2>2. dcs' = dcs \/ Publishes(n)
    <3>1. dcs.owner = n /\ dcs' = [dcs EXCEPT !.owner = None] => NoRace(n)
      BY ElectNode DEF RaceEnds, Types, Clusters
    <3>2. QED
      BY <2>1, <3>1, GivenUp DEF GivesUp
  <2>3. QED
    BY <2>1, <2>2, QuietCalm DEF GivesUp
<1>3. CASE Recover(n)
  <2>1. NodeStep(n) /\ Recovers(n) /\ CycleEnds(n)
    BY <1>3, RecoverActs, ElectNode, HaAssumption
  <2>2. dcs' = dcs \/ Publishes(n)
    <3>1. dcs.owner = n /\ dcs' = [dcs EXCEPT !.owner = None] => NoRace(n)
      BY ElectNode DEF RaceEnds, Types, Clusters
    <3>2. QED
      BY <2>1, <3>1, GivenUp DEF Recovers
  <2>3. task'[n] = "rewind" => dcs.owner # n
    <3> DEFINE next == IF Diverged(n, NodeToFollow(n, dcs)) THEN "rewind" ELSE "follow"
    <3>1. dcs.owner = n => next = "follow"
      BY DEF Diverged, NodeToFollow
    <3>2. \/ StopAndFollow(n) \/ task' = Set(task, n, "start")
          \/ task' = Set(task, n, next)
      BY <1>3 DEF Recover
    <3> HIDE DEF next
    <3>3. task[n] = "none"
      BY <1>3 DEF Recover, Busy
    <3>4. QED
      BY <3>1, <3>2, <3>3, ElectNode DEF StopAndFollow, Set, Types, PgTypes, Busy
  <2>4. pg'[n] # "primary" /\ wal' = wal
    BY <2>1 DEF Recovers, Stopped, Running
  <2>5. QED
    BY <2>1, <2>2, <2>3, <2>4, QuietEnd
<1>4. QED
  BY <1>1, <1>2, <1>3

\* A cycle that ends without the key.
LEMMA FollowQuiet ==
  ASSUME ElectInv, NEW n \in Nodes, CycleEnds(n), dcs' = dcs, dcs.owner # n,
         \/ \E v \in Clusters : FollowWith(n, v)
         \/ StopAndFollow(n) \/ KeepNode
  PROVE  Quiet(n)
<1>1. CASE \E v \in Clusters : FollowWith(n, v)
  BY <1>1, Follows, QuietCalm, ElectNode DEF Clusters
<1>2. CASE StopAndFollow(n)
  BY <1>2, Stops, QuietCalm, ElectNode DEF StopAndFollow
<1>3. CASE KeepNode
  BY <1>3, Keeps, QuietCalm, ElectNode DEF KeepNode, pgVars
<1>4. QED
  BY <1>1, <1>2, <1>3

LEMMA EnforceQuiet ==
  ASSUME ElectInv, RaceEnds, NEW n \in Nodes, AfterAcquire(n) \/ UpdateKey(n)
  PROVE  Quiet(n)
<1>1. dcs.owner = n /\ CycleEnds(n) /\ ~FailoverKey(view[n]) /\ view[n].fo = NoFailoverKey /\ dcs.fo = NoFailoverKey
  BY ElectNode DEF AfterAcquire, UpdateKey, Knows, Elect, FailoverKey
<1>2. PICK owner \in {n, None}, hist \in 0 .. MaxTimeline, optime \in {dcs.optime, Lsn(n)} :
        /\ Enforced(n, owner, hist)
        /\ dcs' = [dcs EXCEPT !.owner = owner, !.hist = hist, !.fo = NoFailoverKey, !.optime = optime]
  <2>1. CASE AfterAcquire(n)
    <3>1. PICK owner \in {n, None}, hist \in 0 .. MaxTimeline :
            Enforced(n, owner, hist) /\ dcs' = [dcs EXCEPT !.owner = owner, !.hist = hist, !.fo = NoFailoverKey]
      BY <1>1, <2>1 DEF AfterAcquire
    <3>2. dcs' = [dcs EXCEPT !.owner = owner, !.hist = hist, !.fo = NoFailoverKey, !.optime = dcs.optime]
      BY <3>1, ElectNode DEF Types, Clusters
    <3>3. QED
      BY <3>1, <3>2
  <2>2. CASE UpdateKey(n)
    <3>1. ~DemoteRequested(n)
      BY <1>1 DEF DemoteRequested
    <3>2. PICK owner \in {n, None}, hist \in 0 .. MaxTimeline :
            /\ Enforced(n, owner, hist)
            /\ dcs' = [dcs EXCEPT !.owner = owner, !.optime = Lsn(n), !.hist = hist, !.fo = NoFailoverKey]
      BY <1>1, <2>2, <3>1 DEF UpdateKey
    <3>3. dcs' = [dcs EXCEPT !.owner = owner, !.hist = hist, !.fo = NoFailoverKey, !.optime = Lsn(n)]
      BY <3>2, ElectNode DEF Types, Clusters
    <3>4. QED
      BY <3>2, <3>3
  <2>3. QED
    BY <2>1, <2>2
<1>3. /\ dcs'.owner = owner /\ dcs'.hist = hist /\ dcs'.fo = NoFailoverKey /\ dcs'.optime = optime
  BY <1>2, ElectNode DEF Types, Clusters
<1>4. hist \in {dcs.hist, Timeline(n)}
  BY <1>2 DEF Enforced
<1>5. NodeStep(n) /\ wal' = wal /\ (Leads(n) \/ Resigns(n))
  BY <1>2, Enforces, ElectNode
<1>6. Publishes(n)
  BY <1>1, <1>3, <1>4, <1>5 DEF Publishes, RaceEnds
<1>7. pg'[n] # "primary" \/ Primary(n)
  BY <1>5 DEF Leads, Resigns, Stopped, Primary
<1>8. task'[n] = "rewind" => task[n] = "rewind"
  BY <1>5 DEF Leads, Resigns, Stopped
<1>9. QED
  BY <1>1, <1>5, <1>6, <1>7, <1>8, QuietEnd

\* Who takes the key lacks no more than it may.
Fittest(n) == TakesKey(n) => dcs.fo = NoFailoverKey /\ Fits(n, dcs)

LEMMA QuietFittest ==
  ASSUME ElectInv, IInv', NEW n \in Nodes, Quiet(n)
  PROVE  ElectInv' /\ \A m \in Nodes : Fittest(m)
<1>1. \A m \in Nodes : ~TakesKey(m)
  BY HaAssumption DEF Quiet, Publishes, TakesKey
<1>2. QED
  BY <1>1, QuietStep DEF Fittest

LEMMA LoadElect ==
  ASSUME ElectInv, IInv', NEW n \in Nodes, Load(n)
  PROVE  ElectInv' /\ \A m \in Nodes : Fittest(m)
<1>1. /\ UNCHANGED <<dcs, pgVars>> /\ pc' = Set(pc, n, "cycle") /\ view' = Set(view, n, Snapshot(n))
  BY DEF Load
<1>2. /\ pc'[n] = "cycle" /\ view'[n] = Snapshot(n)
      /\ \A m \in Nodes \ {n} : pc'[m] = pc[m] /\ view'[m] = view[m]
  BY <1>1, ElectNode DEF Types, CycleTypes, Set
<1>3. Snapshot(n).fo = dcs.fo /\ Snapshot(n).optime = dcs.optime /\ Snapshot(n).hist = dcs.hist
  BY ElectNode DEF Snapshot, Types, Clusters
<1>4. \A m \in Nodes : Elect(m)'
  <2>1. ASSUME NEW m \in Nodes \ {n}
        PROVE  Elect(m)'
    BY <1>1, <1>2, <2>1, ElectNode DEF Elect, Racing, Fits, Lsn, Timeline, Primary, pgVars
  <2>2. Elect(n)'
    BY <1>1, <1>2, <1>3, ElectNode DEF Elect, Racing, Fits, Lsn, Timeline, Primary, pgVars
  <2>3. QED
    BY <2>1, <2>2
<1>5. \A m \in Nodes : ~TakesKey(m)
  BY <1>1, HaAssumption DEF TakesKey
<1>6. QED
  BY <1>1, <1>4, <1>5, ElectNode DEF ElectInv, Fittest

\* Who looked fit to itself is fit to lead by what it has read.
LEMMA HealthyFits ==
  ASSUME ElectInv, NEW n \in Nodes, HealthCheck(n), IsHealthiest(n, view[n])
  PROVE  Fits(n, view[n])
<1>1. pc[n] = "cycle" /\ view[n].owner = None /\ ~view[n].paused /\ ~FailoverKey(view[n])
  BY ElectNode DEF HealthCheck, Ready, InCycle, Elect, FailoverKey
<1>2. CASE Primary(n)
  <2>1. dcs.owner # n
    BY <1>1, ElectNode, HaAssumption DEF Knows
  <2>2. dcs.owner = None
    BY <1>2, <2>1, SafeNode DEF ElectInv, Fenced, Alone, Outlives
  <2>3. Fits(n, dcs) /\ view[n].optime = dcs.optime /\ view[n].hist = dcs.hist
    BY <1>1, <1>2, <2>2, ElectNode DEF Elect, Racing
  <2>4. QED
    BY <2>3 DEF Fits, IsLagging
<1>3. CASE ~Primary(n)
  <2>1. HealthiestAmong(n, view[n], Nodes, TRUE)
    BY <1>1, <1>3 DEF IsHealthiest
  <2>2. QED
    BY <2>1 DEF HealthiestAmong, Fits
<1>4. QED
  BY <1>2, <1>3

LEMMA HealthElect ==
  ASSUME ElectInv, IInv', NEW n \in Nodes, HealthCheck(n)
  PROVE  ElectInv' /\ \A m \in Nodes : Fittest(m)
<1>1. dcs' = dcs /\ pc[n] = "cycle" /\ view[n].owner = None
  BY DEF HealthCheck, Ready, InCycle
<1>2. CASE IsHealthiest(n, view[n])
  <2>1. Fits(n, view[n])
    BY <1>2, HealthyFits
  <2>2. pc' = Set(pc, n, "race") /\ view' = view /\ UNCHANGED pgVars
    BY <1>2 DEF HealthCheck, KeepNode
  <2>3. \A m \in Nodes : pc'[m] = IF m = n THEN "race" ELSE pc[m]
    BY <2>2, ElectNode DEF Types, CycleTypes, Set
  <2>4. ASSUME NEW m \in Nodes
        PROVE  Elect(m)'
    BY <1>1, <2>1, <2>2, <2>3, ElectNode DEF Elect, Racing, Fits, Lsn, Timeline, Primary, pgVars
  <2>5. \A m \in Nodes : ~TakesKey(m)
    BY <1>1, HaAssumption DEF TakesKey
  <2>6. QED
    BY <1>1, <2>4, <2>5, ElectNode DEF ElectInv, Fittest
<1>3. CASE FollowWith(n, dcs) /\ CycleEnds(n)
  <2>1. dcs.owner # n
    BY <1>1, ElectNode, HaAssumption DEF Knows
  <2>2. QED
    BY <1>1, <1>3, <2>1, FollowQuiet, QuietFittest, ElectNode DEF Types
<1>4. QED
  BY <1>2, <1>3 DEF HealthCheck

LEMMA AcquireElect ==
  ASSUME ElectInv, IInv', NEW n \in Nodes, Acquire(n)
  PROVE  ElectInv' /\ \A m \in Nodes : Fittest(m)
<1>1. pc[n] = "race" /\ dcs.owner # n /\ Fits(n, view[n]) /\ Racing(n) /\ task[n] = "none"
  BY ElectNode DEF Acquire, Knows, Elect, Racing
<1>2. CASE dcs.owner = None
  <2>1. dcs' = [dcs EXCEPT !.owner = n] /\ pc' = Set(pc, n, "won") /\ view' = view /\ UNCHANGED pgVars
    BY <1>2 DEF Acquire, KeepNode
  <2>2. Fits(n, dcs)
    BY <1>1, <1>2, ElectNode DEF Elect, Fits, IsLagging
  <2>3. /\ dcs'.owner = n /\ dcs'.optime = dcs.optime /\ dcs'.hist = dcs.hist /\ dcs'.fo = dcs.fo
    BY <2>1, ElectNode DEF Types, Clusters
  <2>4. \A m \in Nodes : pc'[m] = IF m = n THEN "won" ELSE pc[m]
    BY <2>1, ElectNode DEF Types, CycleTypes, Set
  <2>5. \A m \in Nodes : Lsn(m)' = Lsn(m) /\ Timeline(m)' = Timeline(m)
    BY <2>1 DEF Lsn, Timeline, pgVars
  <2>6. \A m \in Nodes : Fits(m, dcs)' <=> Fits(m, dcs)
    BY <2>3, <2>5 DEF Fits, IsLagging
  <2>7. \A m \in Nodes : Fits(m, view[m])' <=> Fits(m, view[m])
    BY <2>1, <2>5 DEF Fits, IsLagging
  <2>8. ASSUME NEW m \in Nodes
        PROVE  Elect(m)'
    BY <1>1, <2>1, <2>2, <2>3, <2>4, <2>6, <2>7, ElectNode, HaAssumption DEF Elect, Racing, Primary, pgVars
  <2>9. \A m \in Nodes : TakesKey(m) => m = n
    BY <2>3 DEF TakesKey
  <2>10. QED
    BY <2>2, <2>3, <2>8, <2>9, ElectNode DEF ElectInv, Fittest
<1>3. CASE dcs.owner # None
  <2>1. dcs' = dcs /\ FollowWith(n, dcs) /\ CycleEnds(n)
    BY <1>3 DEF Acquire
  <2>2. QED
    BY <1>1, <2>1, FollowQuiet, QuietFittest, ElectNode DEF Types
<1>4. QED
  BY <1>2, <1>3

LEMMA CycleElect ==
  ASSUME ElectInv, IInv', RaceEnds, NEW n \in Nodes, Cycle(n)
  PROVE  ElectInv' /\ \A m \in Nodes : Fittest(m)
<1>1. CASE Load(n) \/ HealthCheck(n) \/ Acquire(n)
  BY <1>1, LoadElect, HealthElect, AcquireElect
<1>2. ~DownInPause(n) /\ ~NotPrimaryInPause(n)
  BY ElectNode DEF DownInPause, NotPrimaryInPause
<1>3. CASE UpdateRefused(n)
  <2>1. CycleEnds(n) /\ dcs' = dcs /\ dcs.owner # n /\ (StopAndFollow(n) \/ KeepNode)
    BY <1>3 DEF UpdateRefused
  <2>2. QED
    BY <2>1, FollowQuiet, QuietFittest
<1>4. CASE FollowLeader(n)
  <2>1. CycleEnds(n) /\ dcs' = dcs /\ FollowWith(n, view[n]) /\ pc[n] = "cycle" /\ view[n].owner # n
    BY <1>4 DEF FollowLeader, Ready, InCycle
  <2>2. dcs.owner # n
    BY <2>1, ElectNode DEF Knows
  <2>3. QED
    BY <2>1, <2>2, FollowQuiet, QuietFittest, ElectNode
<1>5. CASE DcsFails(n) \/ FailsafeAgreed(n) \/ \E r \in Nodes : PostFailsafe(n, r)
  BY <1>5, FailsafeQuiet, QuietFittest
<1>6. CASE LongAction(n) \/ PostRecover(n) \/ Recover(n)
  BY <1>6, RecoverQuiet, QuietFittest
<1>7. CASE AfterAcquire(n) \/ UpdateKey(n)
  BY <1>7, EnforceQuiet, QuietFittest
<1>8. QED
  BY <1>1, <1>2, <1>3, <1>4, <1>5, <1>6, <1>7 DEF Cycle

\* Where nobody asks for a failover, none is ever asked for.
LEMMA NoRequest ==
  ASSUME Types, MaxRequests = 0, NEW from, NEW to
  PROVE  ~RequestFailover(from, to)
<1>1. ~(used.requests < MaxRequests)
  BY DEF Types, EnvTypes, Counts
<1>2. QED
  BY <1>1, Zenon DEF RequestFailover

LEMMA ElectStep ==
  ASSUME ElectInv, MaxPauses = 0, MaxRequests = 0, ~QuickRestart, [Next]_vars, [RaceEnds]_vars
  PROVE  ElectInv' /\ \A n \in Nodes : Fittest(n)
<1>1. IInv'
  BY SafeStep DEF ElectInv
<1>2. CASE UNCHANGED vars
  <2>1. UNCHANGED <<dcs, view, pc, pg, wal, task>>
    BY <1>2 DEF vars, pgVars
  <2>2. \A n \in Nodes : Elect(n)' /\ ~TakesKey(n)
    BY <2>1, ElectNode, HaAssumption DEF Elect, Racing, Fits, Lsn, Timeline, Primary, TakesKey
  <2>3. QED
    BY <1>1, <2>1, <2>2 DEF ElectInv, Fittest
<1>3. CASE Next /\ ~UNCHANGED vars
  <2>1. RaceEnds
    BY <1>3
  <2>2. (~\E from, to \in Maybe : RequestFailover(from, to)) /\ ~\E p \in BOOLEAN : SetPause(p)
    BY <1>3, NoRequest, PauseStep DEF ElectInv, IInv
  <2>3. PICK n \in Nodes : Cycle(n) \/ Task(n) \/ Happens(n) \/ Stream(n) \/ Write(n)
    BY <1>3, <2>2 DEF Next, Happens, Maybe
  <2>4. QED
    BY <1>1, <2>1, <2>3, CycleElect, TaskQuiet, HappensQuiet, WritingQuiet, QuietFittest
<1>4. QED
  BY <1>2, <1>3

LEMMA ElectInit ==
  ASSUME Init
  PROVE  ElectInv
<1>1. IInv /\ Types
  BY SafeInit DEF IInv
<1>2. PICK p \in Nodes \ (NoFailover \cup NoWatchdog) :
        /\ dcs = [NoView EXCEPT !.owner = p, !.optime = 1, !.hist = 1]
        /\ view = [n \in Nodes |-> NoView]
        /\ pc = [n \in Nodes |-> "idle"]
        /\ wal = [n \in Nodes |-> <<[tl |-> 1, by |-> p]>>]
        /\ task = [n \in Nodes |-> "none"]
  BY DEF Init
<1>3. dcs.fo = NoFailoverKey /\ dcs.optime = 1 /\ dcs.hist = 1
  BY <1>2 DEF NoView
<1>4. ASSUME NEW n \in Nodes
      PROVE  Elect(n)
  <2>1. Len(wal[n]) = 1 /\ wal[n][1] = [tl |-> 1, by |-> p]
    BY <1>2
  <2>2. Lsn(n) = 1 /\ Timeline(n) = 1 /\ Sorted(wal[n])
    BY <2>1 DEF Lsn, Timeline, Last, Sorted
  <2>3. Fits(n, dcs)
    BY <1>3, <2>2, HaAssumption DEF Fits, IsLagging
  <2>4. view[n].fo = NoFailoverKey /\ pc[n] = "idle" /\ task[n] = "none"
    BY <1>2 DEF NoView
  <2>5. QED
    BY <2>2, <2>3, <2>4 DEF Elect, Racing
<1>5. QED
  BY <1>1, <1>3, <1>4 DEF ElectInv

\* A node that takes the key by itself lacks no more than maximum_lag_on_failover of what
\* the last leader has published, for any nodes and any number of faults, if nobody asks for
\* a failover or pauses the cluster, and no key is given up while another node races for it.
THEOREM ElectedLacksLittle ==
  MaxPauses = 0 /\ MaxRequests = 0 /\ ~QuickRestart => (Spec /\ [][RaceEnds]_vars => BoundedLoss)
<1> SUFFICES ASSUME MaxPauses = 0, MaxRequests = 0, ~QuickRestart
             PROVE  Spec /\ [][RaceEnds]_vars => BoundedLoss
  OBVIOUS
<1>1. Init => ElectInv
  BY ElectInit
<1>2. ElectInv /\ [Next]_vars /\ [RaceEnds]_vars => ElectInv'
  BY ElectStep
<1>3. ElectInv /\ [Next]_vars /\ [RaceEnds]_vars =>
        [\A n \in Nodes :
           TakesKey(n) /\ ~Primary(n) /\ ~FailoverKey(view[n]) /\ ~dcs.paused => ~IsLagging(Lsn(n), dcs)]_vars
  BY ElectStep DEF Fittest, Fits
<1>4. QED
  BY <1>1, <1>2, <1>3, PTL DEF Spec, BoundedLoss

\* With check_timeline, under the same hypotheses, a node that takes the key is on the last
\* timeline of /history, or a later one.
THEOREM ElectedHasLatestTimeline ==
  MaxPauses = 0 /\ MaxRequests = 0 /\ ~QuickRestart => (Spec /\ [][RaceEnds]_vars => LatestTimeline)
<1> SUFFICES ASSUME MaxPauses = 0, MaxRequests = 0, ~QuickRestart
             PROVE  Spec /\ [][RaceEnds]_vars => LatestTimeline
  OBVIOUS
<1>1. Init => ElectInv
  BY ElectInit
<1>2. ElectInv /\ [Next]_vars /\ [RaceEnds]_vars => ElectInv'
  BY ElectStep
<1>3. ElectInv /\ [Next]_vars /\ [RaceEnds]_vars =>
        [\A n \in Nodes : CheckTimeline /\ TakesKey(n) /\ dcs.fo.to # n => Timeline(n) >= dcs.hist]_vars
  BY ElectStep DEF Fittest, Fits
<1>4. QED
  BY <1>1, <1>2, <1>3, PTL DEF Spec, LatestTimeline
-----------------------------------------------------------------------------
(* A switchover keeps every write *)

LEMMA PrefixOrder ==
  ASSUME NEW u \in Wals, NEW v \in Wals, NEW w \in Wals
  PROVE  /\ IsPrefix(v, v)
         /\ IsPrefix(u, v) /\ IsPrefix(v, w) => IsPrefix(u, w)
         /\ IsPrefix(v, w) => Len(v) <= Len(w)
         /\ IsPrefix(v, w) /\ Len(w) <= Len(v) => v = w
<1>1. \A s \in Wals : s \in Seq(Records) /\ Len(s) \in Nat /\ Len(s) > 0 /\ SubSeq(s, 1, Len(s)) = s
  BY WalFacts, SubSeqFull DEF Wals
<1>2. ASSUME IsPrefix(u, v), IsPrefix(v, w)
      PROVE  IsPrefix(u, w)
  <2>1. Len(u) <= Len(v) /\ Len(v) <= Len(w) /\ u = SubSeq(v, 1, Len(u)) /\ v = SubSeq(w, 1, Len(v))
    BY <1>1, <1>2 DEF IsPrefix
  <2>2. /\ 1 \in 1 .. Len(w) /\ Len(v) \in 1 .. Len(w)
        /\ 1 \in 1 .. Len(v) - 1 + 1 /\ Len(u) \in 1 .. Len(v) - 1 + 1
    BY <1>1, <2>1
  <2>3. SubSeq(SubSeq(w, 1, Len(v)), 1, Len(u)) = SubSeq(w, 1 + 1 - 1, 1 + Len(u) - 1)
    BY <1>1, <2>2, SubSeqOfSubSeq
  <2>4. 1 + 1 - 1 = 1 /\ 1 + Len(u) - 1 = Len(u) /\ Len(u) <= Len(w)
    BY <1>1, <2>1
  <2>5. SubSeq(w, 1, Len(u)) = u
    BY <2>1, <2>3, <2>4
  <2>6. QED
    BY <1>1, <2>4, <2>5 DEF IsPrefix
<1>3. IsPrefix(v, v) /\ (IsPrefix(v, w) => Len(v) <= Len(w))
  BY <1>1 DEF IsPrefix
<1>4. ASSUME IsPrefix(v, w), Len(w) <= Len(v)
      PROVE  v = w
  BY <1>1, <1>4 DEF IsPrefix
<1>5. QED
  BY <1>2, <1>3, <1>4

LEMMA PrefixAppend ==
  ASSUME NEW w \in Wals, NEW r \in Records
  PROVE  IsPrefix(w, Append(w, r)) /\ Len(Append(w, r)) = Len(w) + 1 /\ Last(Append(w, r)) = r
<1>1. w \in Seq(Records) /\ Len(w) \in Nat /\ Len(w) > 0
  BY WalFacts DEF Wals
<1>2. /\ Append(w, r) \in Seq(Records) /\ Len(Append(w, r)) = Len(w) + 1
      /\ \A i \in 1 .. Len(w) : Append(w, r)[i] = w[i]
      /\ Append(w, r)[Len(w) + 1] = r
  BY <1>1, AppendProperties
<1> DEFINE a == Append(w, r)
<1>3. SubSeq(a, 1, Len(w)) \in Seq(Records) /\ Len(SubSeq(a, 1, Len(w))) = Len(w)
      /\ \A i \in 1 .. Len(w) - 1 + 1 : SubSeq(a, 1, Len(w))[i] = a[1 + i - 1]
  <2>1. \A i \in 1 .. Len(w) : a[i] \in Records
    BY <1>1, <1>2, ElementOfSeq
  <2> HIDE DEF a
  <2>2. QED
    BY <1>1, <2>1, SubSeqProperties
<1>4. \A i \in 1 .. Len(w) : SubSeq(a, 1, Len(w))[i] = w[i]
  BY <1>1, <1>2, <1>3
<1>5. SubSeq(a, 1, Len(w)) = w
  <2> HIDE DEF a
  <2>1. QED
    BY <1>1, <1>3, <1>4, SeqEqual
<1>6. SubSeq(w, 1, Len(w)) = w
  BY <1>1, SubSeqFull
<1>7. QED
  BY <1>1, <1>2, <1>5, <1>6 DEF IsPrefix, Last

LEMMA PrefixNext ==
  ASSUME NEW v \in Wals, NEW w \in Wals, IsPrefix(v, w), v # w
  PROVE  /\ SubSeq(w, 1, Len(v) + 1) \in Wals
         /\ IsPrefix(v, SubSeq(w, 1, Len(v) + 1)) /\ IsPrefix(SubSeq(w, 1, Len(v) + 1), w)
<1> DEFINE s == SubSeq(w, 1, Len(v) + 1)
<1>1. /\ v \in Seq(Records) /\ w \in Seq(Records) /\ Len(v) \in Nat /\ Len(v) > 0 /\ Len(w) \in Nat
      /\ s \in Wals /\ s \in Seq(Records)
  BY WalFacts, NextRecord DEF Wals
<1>2. Len(v) <= Len(w) /\ SubSeq(v, 1, Len(v)) = SubSeq(w, 1, Len(v)) /\ Len(w) # Len(v)
  BY PrefixOrder DEF IsPrefix
<1>3. /\ SubSeq(v, 1, Len(v)) = v /\ SubSeq(s, 1, Len(s)) = s
  BY <1>1, SubSeqFull
<1>4. Len(s) = Len(v) + 1
  <2>1. Len(v) + 1 \in 1 .. Len(w)
    BY <1>1, <1>2
  <2>2. \A i \in 1 .. Len(v) + 1 : w[i] \in Records
    BY <1>1, <2>1, ElementOfSeq
  <2>3. QED
    BY <1>1, <2>2, SubSeqProperties
<1>5. IsPrefix(s, w)
  BY <1>1, <1>2, <1>3, <1>4 DEF IsPrefix
<1>6. SubSeq(s, 1, Len(v)) = SubSeq(w, 1, Len(v))
  <2>1. /\ 1 \in 1 .. Len(w) /\ Len(v) + 1 \in 1 .. Len(w)
        /\ 1 \in 1 .. (Len(v) + 1) - 1 + 1 /\ Len(v) \in 1 .. (Len(v) + 1) - 1 + 1
    BY <1>1, <1>2
  <2>2. SubSeq(SubSeq(w, 1, Len(v) + 1), 1, Len(v)) = SubSeq(w, 1 + 1 - 1, 1 + Len(v) - 1)
    BY <1>1, <2>1, SubSeqOfSubSeq
  <2>3. 1 + 1 - 1 = 1 /\ 1 + Len(v) - 1 = Len(v)
    BY <1>1
  <2>4. QED
    BY <2>2, <2>3
<1>7. IsPrefix(v, s)
  BY <1>1, <1>2, <1>4, <1>6 DEF IsPrefix
<1>8. QED
  BY <1>1, <1>5, <1>7
-----------------------------------------------------------------------------
\* What the property asks for.
Undisturbed == used.faults = 0 /\ used.requests <= 1

\* Without faults everybody is there, reads the DCS, and polls nobody.
Sound(n) ==
  /\ up[n] /\ cut[n] = "none" /\ fs[n] = None /\ pc[n] # "failsafe"
  /\ pc[n] # "idle" => paused[n] = view[n].paused

\* Who may lead; who has everything that was written; a view that is not ahead of a node.
Fit == Nodes \ (NoFailover \cup NoWatchdog)
Full(n) == \A m \in Nodes : IsPrefix(wal[m], wal[n])
Known(v, n) == v.optime <= Lsn(n) /\ v.hist <= Timeline(n)

\* m follows h, and its cycle, if any, has seen h lead.
Streams(m, h) ==
  /\ pg[m] = "replica" /\ upstream[m] = h /\ task[m] = "none"
  /\ pc[m] = "idle" \/ (pc[m] = "cycle" /\ view[m].owner = h)

\* The leader runs, or stops for the request; once it is down everybody has its WAL.
Demotes(h) == \E c \in Fit \ {h} : dcs.fo.to \in {None, c}

Serves(h) ==
  \/ task[h] = "none" /\ pg[h] = "primary"
  \/ /\ dcs.fo # NoFailoverKey /\ Demotes(h)
     /\ \/ task[h] = "demote" /\ pg[h] = "primary"
        \/ task[h] = "release" /\ pg[h] = "stopping"
        \/ task[h] = "release" /\ pg[h] = "down" /\ \A m \in Nodes : Full(m)

\* Until the first leader gives up the key.
Reign(h) ==
  /\ dcs.owner = h /\ h \notin NoWatchdog /\ Full(h) /\ Known(dcs, h)
  /\ pc[h] = "idle" \/ (pc[h] = "cycle" /\ view[h].owner = h /\ view[h].fo \in {NoFailoverKey, dcs.fo})
  /\ dcs.fo # NoFailoverKey => used.requests = 1 /\ dcs.fo.from \in {None, h} /\ dcs.fo.to \in Fit \cup {None}
  /\ Serves(h)
  /\ \A m \in Nodes \ {h} : Streams(m, h)

\* What is asked for, or nothing, does not speak against c.
Good(f, c) == f = NoFailoverKey \/ (f.to \in {None, c} /\ f.from # c)

Waits(n) ==
  \/ pg[n] = "replica" /\ task[n] \in {"none", "promote", "promoting"}
  \/ pg[n] \in {"stopping", "down"} /\ task[n] = "follow"

\* A cycle that has seen no leader; one that is in the race; the owner before it is promoted.
Seeks(n) == pc[n] # "idle" /\ view[n].owner = None

Races(n, c) ==
  /\ pg[n] = "replica" /\ task[n] = "none" /\ Full(n)
  /\ view[n].owner = None /\ (paused[n] => view[n].fo.to = n) /\ (view[n].fo.to = c => n = c)

Owns(n) ==
  /\ Full(n) /\ pg[n] = "replica"
  /\ pc[n] \in {"idle", "won", "cycle"}
  /\ pc[n] = "cycle" => view[n].owner = n /\ view[n].fo = dcs.fo
  /\ pc[n] # "won" => dcs.fo \in {NoFailoverKey, [from |-> None, to |-> n]}

\* What holds of every node in between.
Handles(n, c) ==
  /\ Waits(n)
  /\ task[n] \in {"promote", "promoting"} => dcs.owner = n /\ pc[n] # "won" /\ n \notin NoWatchdog
  /\ Seeks(n) =>
       /\ Good(view[n].fo, c) /\ Known(view[n], c)
       /\ dcs.fo = NoFailoverKey \/ (view[n].fo # NoFailoverKey /\ view[n].fo.to = dcs.fo.to)
       /\ view[n].fo.to = n => dcs.fo = view[n].fo /\ dcs.owner \in {None, n}
  /\ pc[n] \in {"race", "won"} => Races(n, c)
  /\ pc[n] = "won" => dcs.owner = n
  /\ dcs.owner = n => Owns(n)

\* From the release of the key to the promotion of the next leader; c is one who can be it.
Handover(c) ==
  /\ used.requests = 1
  /\ c \in Fit /\ Full(c) /\ pg[c] = "replica"
  /\ Good(dcs.fo, c) /\ Known(dcs, c)
  /\ \A n \in Nodes : Handles(n, c)

\* The next leader runs, and nobody is left who could take the key from it.
Served(h) == {NoFailoverKey, [from |-> None, to |-> h]}

Succeeded(h) ==
  /\ used.requests = 1
  /\ dcs.owner = h /\ h \notin NoWatchdog /\ Full(h)
  /\ pg[h] = "primary" /\ task[h] \in {"none", "waiting"}
  /\ dcs.fo \in Served(h)
  /\ pc[h] = "idle" \/ (pc[h] = "cycle" /\ view[h].owner = h /\ view[h].fo \in Served(h))
  /\ \A n \in Nodes \ {h} :
       /\ pc[n] # "won"
       /\ \/ pg[n] = "replica" /\ task[n] = "none"
          \/ pg[n] \in {"stopping", "down"} /\ task[n] = "follow"

Line(h) == Reign(h) \/ Handover(h) \/ Succeeded(h)
LineInv == Undisturbed => (\A n \in Nodes : Sound(n)) /\ \E h \in Nodes : Line(h)

-----------------------------------------------------------------------------
\* What every phase has in common.
Steady ==
  \A n \in Nodes :
    /\ Running(n) \/ Busy(n)
    /\ task[n] \notin {"start", "rewind"}
    /\ Primary(n) =>
         /\ Full(n) /\ dcs.owner = n /\ n \notin NoWatchdog
         /\ pc[n] = "idle" \/ (pc[n] = "cycle" /\ view[n].owner = n)

Basis == Types /\ (\A n \in Nodes : Sound(n)) /\ Steady

LEMMA LineIsSteady ==
  ASSUME HaAssumption, Types, NEW h \in Nodes, Line(h)
  PROVE  Steady
<1> SUFFICES ASSUME NEW n \in Nodes
             PROVE  /\ Running(n) \/ Busy(n)
                    /\ task[n] \notin {"start", "rewind"}
                    /\ Primary(n) =>
                         /\ Full(n) /\ dcs.owner = n /\ n \notin NoWatchdog
                         /\ pc[n] = "idle" \/ (pc[n] = "cycle" /\ view[n].owner = n)
  BY DEF Steady
<1> USE DEF Running, Busy, Primary
<1>1. CASE Reign(h)
  <2>1. CASE n = h
    BY <1>1, <2>1 DEF Reign, Serves
  <2>2. CASE n # h
    BY <1>1, <2>2 DEF Reign, Streams
  <2>3. QED
    BY <2>1, <2>2
<1>2. CASE Handover(h)
  BY <1>2 DEF Handover, Handles, Waits
<1>3. CASE Succeeded(h)
  BY <1>3 DEF Succeeded
<1>4. QED
  BY <1>1, <1>2, <1>3 DEF Line

Same(m) ==
  /\ pg'[m] = pg[m] /\ upstream'[m] = upstream[m] /\ task'[m] = task[m]
  /\ pc'[m] = pc[m] /\ view'[m] = view[m] /\ paused'[m] = paused[m]

Apart(n) == \A m \in Nodes \ {n} : Same(m)
Ended(n) == pc'[n] = "idle" /\ paused'[n] = paused[n]

\* Nobody goes away, nothing is cut off, and no request or fault is counted.
Intact ==
  /\ UNCHANGED <<up, cut>> /\ \A m \in Nodes : fs'[m] = None
  /\ used'.faults = used.faults /\ used'.requests = used.requests

LEMMA IntactStep ==
  ASSUME Basis, NEW n \in Nodes, Load(n) \/ LongAction(n) \/ HealthCheck(n) \/ Acquire(n) \/ AfterAcquire(n)
                                 \/ NotPrimaryInPause(n) \/ UpdateKey(n) \/ UpdateRefused(n) \/ FollowLeader(n)
                                 \/ Task(n) \/ Stream(n) \/ Write(n)
  PROVE  Intact
<1>0. (\A m \in Nodes : fs[m] = None) /\ fs \in [Nodes -> Maybe]
  BY DEF Basis, Sound, Types, NodeTypes
<1>1. ASSUME UNCHANGED <<up, cut, used>>, fs' = fs \/ fs' = Set(fs, n, None)
      PROVE  Intact
  BY <1>0, <1>1 DEF Intact, Set
<1>2. CASE Load(n)
  BY <1>1, <1>2 DEF Load, envVars
<1>3. CASE LongAction(n) \/ UpdateRefused(n)
  BY <1>1, <1>3 DEF LongAction, UpdateRefused, KeepNode, StopAndFollow, nodeVars, envVars
<1>4. CASE HealthCheck(n) \/ Acquire(n) \/ FollowLeader(n)
  <2>1. \A v : FollowWith(n, v) => UNCHANGED <<up, fs>>
    BY DEF FollowWith, StopAndFollow, nodeVars
  <2>2. QED
    BY <1>1, <1>4, <2>1 DEF HealthCheck, Acquire, FollowLeader, KeepNode, nodeVars, envVars
<1>5. CASE AfterAcquire(n) \/ UpdateKey(n)
  <2>1. \A owner, hist : Enforced(n, owner, hist) => up' = up /\ (fs' = fs \/ fs' = Set(fs, n, None))
    BY DEF Enforced, StopAndFollow, KeepNode, nodeVars
  <2>2. QED
    BY <1>1, <1>5, <2>1 DEF AfterAcquire, UpdateKey, envVars
<1>6. CASE NotPrimaryInPause(n)
  BY <1>1, <1>6 DEF NotPrimaryInPause, KeepNode, nodeVars, envVars
<1>7. CASE Task(n)
  <2>1. UNCHANGED <<up, fs, cut, used>>
    BY <1>7 DEF Task, PromoteCommits, PromoteDone, PromoteFails, PromoteEnds, GracefulStop, ReleaseKey, StopDone,
       FollowDone, StartDone, RewindDone, TaskRest, nodeVars, envVars
  <2>2. QED
    BY <1>1, <2>1
<1>8. CASE Stream(n)
  BY <1>1, <1>8 DEF Stream, OnlyPg, envVars
<1>9. CASE Write(n)
  <2>1. UNCHANGED <<up, cut, fs>> /\ used' = [used EXCEPT !["writes"] = @ + 1]
    BY <1>9 DEF Write, OnlyPg, Spend
  <2>2. used'.faults = used.faults /\ used'.requests = used.requests
    BY <2>1 DEF Basis, Types, EnvTypes, Counts
  <2>3. QED
    BY <1>0, <2>1, <2>2 DEF Intact
<1>10. QED
  BY <1>2, <1>3, <1>4, <1>5, <1>6, <1>7, <1>8, <1>9

\* No replica has left the WAL of a primary: following never needs pg_rewind.
LEMMA NeverDiverged ==
  ASSUME Basis, NEW n \in Nodes, NEW m \in Maybe
  PROVE  ~Diverged(n, m)
BY DEF Basis, Steady, Full, Diverged, Maybe

LEMMA FollowsOn ==
  ASSUME HaAssumption, Basis, NEW n \in Nodes, NEW v, v.owner \in Maybe, ~Primary(n), FollowWith(n, v)
  PROVE  /\ UNCHANGED <<pg, wal, task, paused>>
         /\ upstream' = Set(upstream, n, NodeToFollow(n, v))
<1>1. NodeToFollow(n, v) \in Maybe
  BY DEF NodeToFollow, Maybe
<1>2. QED
  BY <1>1, NeverDiverged DEF FollowWith, nodeVars

\* The cycle of n ends and leaves everything but what n follows as it is.
Retires(n) ==
  /\ pc[n] \in {"cycle", "race"} /\ Ended(n) /\ pg'[n] = pg[n] /\ task'[n] = task[n] /\ UNCHANGED <<dcs, wal>>
  /\ upstream'[n] \in {upstream[n], view[n].owner} \/ view[n].owner = None \/ pc[n] = "race"

\* A long action without the key is interrupted.
Interrupted(n) ==
  /\ pc[n] = "cycle" /\ Busy(n) /\ ~(view[n].owner = n /\ dcs.owner = n) /\ Ended(n) /\ UNCHANGED <<dcs, wal>>
  /\ upstream'[n] = upstream[n]
  /\ \/ pg'[n] = pg[n] /\ task[n] = "promote" /\ task'[n] = "none"
     \/ pg'[n] = "down" /\ task'[n] = task[n]

\* The cycle of n reads a cluster.
Loads(n) ==
  /\ pc[n] = "idle" /\ pc'[n] = "cycle" /\ view'[n] = dcs /\ paused'[n] = dcs.paused
  /\ pg'[n] = pg[n] /\ upstream'[n] = upstream[n] /\ task'[n] = task[n] /\ UNCHANGED <<dcs, wal>>

Rides(n) ==
  /\ pg'[n] = pg[n] /\ upstream'[n] = upstream[n] /\ task'[n] = task[n]
  /\ view'[n] = view[n] /\ paused'[n] = paused[n] /\ UNCHANGED wal

\* It joins the race for the key, and takes it.
Joins(n) ==
  /\ pc[n] = "cycle" /\ task[n] = "none" /\ Running(n) /\ view[n].owner = None /\ IsHealthiest(n, view[n])
  /\ pc'[n] = "race" /\ Rides(n) /\ UNCHANGED dcs

Gets(n) ==
  /\ pc[n] = "race" /\ dcs.owner = None
  /\ pc'[n] = "won" /\ Rides(n) /\ dcs' = [dcs EXCEPT !.owner = n]

\* It gives the key back in pause.
GivesBack(n) ==
  /\ pc[n] = "cycle" /\ task[n] = "none" /\ pg[n] = "replica" /\ paused[n]
  /\ view[n].owner = n /\ dcs.owner = n
  /\ Ended(n) /\ pg'[n] = pg[n] /\ upstream'[n] = upstream[n] /\ task'[n] = task[n] /\ UNCHANGED wal
  /\ dcs' = [dcs EXCEPT !.owner = None]

LEMMA LoadsFlat ==
  ASSUME HaAssumption, Basis, NEW n \in Nodes, Load(n)
  PROVE  Apart(n) /\ Loads(n)
<1>1. /\ pc[n] = "idle" /\ pc' = Set(pc, n, "cycle") /\ view' = Set(view, n, dcs) /\ paused' = Set(paused, n, dcs.paused)
      /\ UNCHANGED <<dcs, asked, pgVars>>
  BY DEF Load, Snapshot, Basis, Sound
<1>2. QED
  BY <1>1 DEF Basis, Types, CycleTypes, NodeTypes, Set, Apart, Same, Loads, pgVars

\* A cycle that ends with what it leaves of the node.
LEMMA EndFlat ==
  ASSUME HaAssumption, Basis, NEW n \in Nodes, CycleEnds(n),
         \A m \in Nodes \ {n} : pg'[m] = pg[m] /\ upstream'[m] = upstream[m] /\ task'[m] = task[m],
         UNCHANGED paused
  PROVE  Apart(n) /\ Ended(n)
BY EndsCycle DEF Basis, OnlyCycle, Apart, Same, Ended

LEMMA TurnsFlat ==
  ASSUME HaAssumption, Basis, NEW n \in Nodes, pc[n] \in {"cycle", "race"}, CycleEnds(n), UNCHANGED <<dcs, pg, wal, task, paused>>,
         NEW x, upstream' = Set(upstream, n, x),
         x \in {upstream[n], view[n].owner} \/ view[n].owner = None \/ pc[n] = "race"
  PROVE  Apart(n) /\ Retires(n)
<1>1. upstream \in [Nodes -> Maybe]
  BY DEF Basis, Types, PgTypes
<1>2. (\A m \in Nodes \ {n} : upstream'[m] = upstream[m]) /\ upstream'[n] = x
  BY <1>1 DEF Set
<1>3. QED
  BY <1>2, EndFlat DEF Retires

LEMMA RetiresFlat ==
  ASSUME HaAssumption, Basis, NEW n \in Nodes, pc[n] \in {"cycle", "race"}, CycleEnds(n), UNCHANGED <<dcs, pg, wal, task, paused, upstream>>
  PROVE  Apart(n) /\ Retires(n)
BY EndFlat DEF Retires

LEMMA LongFlat ==
  ASSUME HaAssumption, Basis, NEW n \in Nodes, LongAction(n)
  PROVE  Apart(n) /\ (Retires(n) \/ Interrupted(n))
<1>1. pc[n] = "cycle" /\ Busy(n) /\ CycleEnds(n) /\ UNCHANGED dcs
  BY DEF LongAction, InCycle
<1>2. CASE KeepNode \/ (ping' = Set(ping, n, "key") /\ UNCHANGED <<pgVars, up, paused, wd, fs>>)
  BY <1>1, <1>2, RetiresFlat DEF KeepNode, pgVars, nodeVars
<1>3. CASE ~(Holds(n) /\ dcs.owner = n) /\ task[n] = "promote" /\ task' = Set(task, n, "none")
           /\ UNCHANGED <<pg, role, wal, upstream, nodeVars>>
  <2>1. Apart(n) /\ Ended(n)
    BY <1>1, <1>3, EndFlat DEF Basis, Types, PgTypes, Set, nodeVars
  <2>2. QED
    BY <1>1, <1>3, <2>1 DEF Interrupted, Holds, Basis, Types, PgTypes, Set
<1>4. CASE ~(Holds(n) /\ dcs.owner = n) /\ StopAndFollow(n)
  <2>1. pg' = Set(pg, n, "down") /\ task' = Set(task, n, task[n]) /\ UNCHANGED <<wal, upstream, paused>>
    BY <1>1, <1>4 DEF StopAndFollow, Basis, Steady
  <2>2. Apart(n) /\ Ended(n)
    BY <1>1, <2>1, EndFlat DEF Basis, Types, PgTypes, Set
  <2>3. QED
    BY <1>1, <1>4, <2>1, <2>2 DEF Interrupted, Holds, Basis, Types, PgTypes, Set
<1>5. QED
  BY <1>2, <1>3, <1>4 DEF LongAction

LEMMA RaceFlat ==
  ASSUME HaAssumption, Basis, NEW n \in Nodes, NEW to, pc' = Set(pc, n, to), UNCHANGED <<view, asked>>, KeepNode
  PROVE  Apart(n) /\ Rides(n) /\ pc'[n] = to
BY DEF Basis, Types, CycleTypes, Set, Apart, Same, Rides, KeepNode, pgVars, nodeVars

\* A cycle that found no leader is not that of a primary.
LEMMA NotAPrimary ==
  ASSUME HaAssumption, Basis, NEW n \in Nodes, pc[n] # "idle", pc[n] # "cycle" \/ view[n].owner # n
  PROVE  ~Primary(n)
BY DEF Basis, Steady

LEMMA HealthFlat ==
  ASSUME HaAssumption, Basis, NEW n \in Nodes, HealthCheck(n)
  PROVE  Apart(n) /\ (Retires(n) \/ Joins(n))
<1>1. /\ pc[n] = "cycle" /\ task[n] = "none" /\ Running(n) /\ view[n].owner = None /\ UNCHANGED dcs
      /\ dcs.owner \in Maybe
  BY DEF HealthCheck, Ready, InCycle, Busy, Basis, Types, Clusters
<1>2. CASE IsHealthiest(n, view[n])
  BY <1>1, <1>2, RaceFlat DEF HealthCheck, Joins
<1>3. CASE ~IsHealthiest(n, view[n])
  <2>1. FollowWith(n, dcs) /\ CycleEnds(n) /\ ~Primary(n)
    BY <1>1, <1>3, NotAPrimary DEF HealthCheck, HaAssumption
  <2>2. QED
    BY <1>1, <2>1, FollowsOn, TurnsFlat
<1>4. QED
  BY <1>2, <1>3

LEMMA AcquireFlat ==
  ASSUME HaAssumption, Basis, NEW n \in Nodes, Acquire(n)
  PROVE  Apart(n) /\ (Retires(n) \/ Gets(n))
<1>1. pc[n] = "race" /\ dcs.owner \in Maybe
  BY DEF Acquire, Basis, Types, Clusters
<1>2. CASE dcs.owner = None
  BY <1>1, <1>2, RaceFlat DEF Acquire, Gets
<1>3. CASE dcs.owner # None
  <2>1. FollowWith(n, dcs) /\ CycleEnds(n) /\ ~Primary(n) /\ UNCHANGED dcs
    BY <1>1, <1>3, NotAPrimary DEF Acquire
  <2>2. QED
    BY <1>1, <2>1, FollowsOn, TurnsFlat
<1>4. QED
  BY <1>2, <1>3

LEMMA FollowFlat ==
  ASSUME HaAssumption, Basis, NEW n \in Nodes, FollowLeader(n)
  PROVE  Apart(n) /\ Retires(n)
<1>1. /\ pc[n] = "cycle" /\ view[n].owner # n /\ FollowWith(n, view[n]) /\ CycleEnds(n) /\ UNCHANGED dcs
      /\ view[n].owner \in Maybe
  BY DEF FollowLeader, Ready, InCycle, Basis, Types, CycleTypes, Clusters
<1>2. ~Primary(n) /\ NodeToFollow(n, view[n]) = view[n].owner
  BY <1>1, NotAPrimary DEF NodeToFollow
<1>3. QED
  BY <1>1, <1>2, FollowsOn, TurnsFlat

LEMMA RefusedFlat ==
  ASSUME HaAssumption, Basis, NEW n \in Nodes, UpdateRefused(n)
  PROVE  Apart(n) /\ Retires(n)
<1>1. pc[n] = "cycle" /\ CycleEnds(n) /\ UNCHANGED dcs /\ ~Primary(n) /\ KeepNode
  BY DEF UpdateRefused, Ready, InCycle, Basis, Steady
<1>2. QED
  BY <1>1, RetiresFlat DEF KeepNode, pgVars, nodeVars

LEMMA PauseFlat ==
  ASSUME HaAssumption, Basis, NEW n \in Nodes, NotPrimaryInPause(n)
  PROVE  Apart(n) /\ (Retires(n) \/ GivesBack(n))
<1>1. /\ pc[n] = "cycle" /\ task[n] = "none" /\ pg[n] = "replica" /\ view[n].owner = n /\ paused[n]
      /\ CycleEnds(n) /\ UNCHANGED <<pg, wal, task, upstream, paused>>
      /\ dcs' = dcs \/ (dcs.owner = n /\ dcs' = [dcs EXCEPT !.owner = None])
  BY DEF NotPrimaryInPause, Ready, InCycle, Busy, Running, Primary, Holds, KeepNode, pgVars, nodeVars
<1>2. CASE dcs' = dcs
  BY <1>1, <1>2, RetiresFlat
<1>3. CASE dcs.owner = n /\ dcs' = [dcs EXCEPT !.owner = None]
  BY <1>1, <1>3, EndFlat DEF GivesBack
<1>4. QED
  BY <1>1, <1>2, <1>3

\* What enforce_primary_role leaves: owner and hist as in Enforced.
Led(n, owner, hist) ==
  IF Primary(n) THEN owner = n /\ hist = Timeline(n) /\ task'[n] = task[n]
  ELSE /\ hist = dcs.hist
       /\ \/ owner = None /\ n \in NoWatchdog /\ ~paused[n] /\ task'[n] = task[n]
          \/ owner = n /\ (n \notin NoWatchdog \/ paused[n]) /\ task'[n] \in {task[n], "promote"}

LEMMA EnforcedFlat ==
  ASSUME HaAssumption, Basis, NEW n \in Nodes, NEW owner, NEW hist, Enforced(n, owner, hist)
  PROVE  /\ UNCHANGED <<pg, upstream, wal, paused>> /\ Led(n, owner, hist)
         /\ \A m \in Nodes \ {n} : task'[m] = task[m]
<1>1. (Primary(n) => n \notin NoWatchdog) /\ task \in [Nodes -> Tasks]
  BY DEF Basis, Steady, Types, PgTypes
<1>2. CASE n \in NoWatchdog /\ ~paused[n]
  BY <1>1, <1>2 DEF Enforced, KeepNode, pgVars, nodeVars, Led
<1>3. CASE ~(n \in NoWatchdog /\ ~paused[n])
  BY <1>1, <1>3 DEF Enforced, Led, Set
<1>4. QED
  BY <1>2, <1>3

\* Who has won the race drops the failover key, and begins to promote or gives up.
Dropped(n) ==
  IF view[n].fo = NoFailoverKey THEN dcs.fo
  ELSE IF paused[n] /\ view[n].fo.from # None /\ view[n].fo.to # None
         THEN [from |-> None, to |-> view[n].fo.to]
  ELSE NoFailoverKey

Claims(n) ==
  /\ pc[n] = "won" /\ ~Primary(n) /\ Ended(n) /\ pg'[n] = pg[n] /\ upstream'[n] = upstream[n] /\ UNCHANGED wal
  /\ dcs'.optime = dcs.optime /\ dcs'.fo = Dropped(n)
  /\ dcs.owner = n => Led(n, dcs'.owner, dcs'.hist)

LEMMA ClaimsFlat ==
  ASSUME HaAssumption, Basis, NEW n \in Nodes, AfterAcquire(n)
  PROVE  Apart(n) /\ Claims(n)
<1>1. pc[n] = "won" /\ CycleEnds(n) /\ ~Primary(n)
  BY NotAPrimary DEF AfterAcquire
<1> DEFINE fo == Dropped(n)
<1>2. PICK owner \in {n, None}, hist \in 0 .. MaxTimeline :
        /\ Enforced(n, owner, hist)
        /\ dcs' = [dcs EXCEPT !.owner = IF @ = n THEN owner ELSE @, !.hist = hist, !.fo = fo]
  BY DEF AfterAcquire, Dropped, FailoverKey
<1> HIDE DEF fo
<1>3. /\ dcs'.optime = dcs.optime /\ dcs'.fo = fo /\ dcs'.hist = hist
      /\ dcs.owner = n => dcs'.owner = owner
  BY <1>2 DEF Basis, Types, Clusters
<1>4. /\ UNCHANGED <<pg, upstream, wal, paused>> /\ Led(n, owner, hist)
      /\ \A m \in Nodes \ {n} : task'[m] = task[m]
  BY <1>2, EnforcedFlat
<1>5. Apart(n) /\ Ended(n)
  BY <1>1, <1>4, EndFlat
<1>6. Dropped(n) = fo
  BY DEF fo
<1>7. QED
  BY <1>1, <1>3, <1>4, <1>5, <1>6 DEF Claims

\* The holder updates its key: it begins to demote, or drops the failover key.
Updated(n) ==
  /\ pc[n] = "cycle" /\ task[n] = "none" /\ Running(n) /\ view[n].owner = n /\ dcs.owner = n
  /\ paused[n] => Primary(n)
  /\ Ended(n) /\ pg'[n] = pg[n] /\ upstream'[n] = upstream[n] /\ UNCHANGED wal
  /\ dcs'.optime = Lsn(n)
  /\ \/ /\ DemoteRequested(n) /\ task'[n] = "demote"
        /\ dcs'.owner = n /\ dcs'.hist = dcs.hist /\ dcs'.fo = dcs.fo
     \/ /\ ~DemoteRequested(n) /\ Led(n, dcs'.owner, dcs'.hist)
        /\ dcs'.fo = IF dcs.fo = view[n].fo THEN NoFailoverKey ELSE dcs.fo

LEMMA UpdatedFlat ==
  ASSUME HaAssumption, Basis, NEW n \in Nodes, UpdateKey(n)
  PROVE  Apart(n) /\ Updated(n)
<1>1. /\ pc[n] = "cycle" /\ task[n] = "none" /\ Running(n) /\ view[n].owner = n /\ dcs.owner = n
      /\ (paused[n] => Primary(n)) /\ CycleEnds(n)
  BY DEF UpdateKey, Ready, InCycle, Busy, Holds
<1>2. CASE DemoteRequested(n)
  <2>1. /\ dcs' = [dcs EXCEPT !.optime = Lsn(n)] /\ task' = Set(task, n, "demote")
        /\ UNCHANGED <<pg, wal, upstream, paused>>
    BY <1>2 DEF UpdateKey
  <2>2. Apart(n) /\ Ended(n) /\ task'[n] = "demote"
    BY <1>1, <2>1, EndFlat DEF Basis, Types, PgTypes, Set
  <2>3. dcs'.optime = Lsn(n) /\ dcs'.owner = n /\ dcs'.hist = dcs.hist /\ dcs'.fo = dcs.fo
    BY <1>1, <2>1 DEF Basis, Types, Clusters
  <2>4. QED
    BY <1>1, <1>2, <2>1, <2>2, <2>3 DEF Updated
<1>3. CASE ~DemoteRequested(n)
  <2> DEFINE fo == IF dcs.fo = view[n].fo THEN NoFailoverKey ELSE dcs.fo
  <2>1. PICK owner \in {n, None}, hist \in 0 .. MaxTimeline :
          /\ Enforced(n, owner, hist)
          /\ dcs' = [dcs EXCEPT !.owner = owner, !.optime = Lsn(n), !.hist = hist, !.fo = fo]
    BY <1>3 DEF UpdateKey
  <2> HIDE DEF fo
  <2>2. dcs'.optime = Lsn(n) /\ dcs'.owner = owner /\ dcs'.hist = hist /\ dcs'.fo = fo
    BY <2>1 DEF Basis, Types, Clusters
  <2>3. /\ UNCHANGED <<pg, upstream, wal, paused>> /\ Led(n, owner, hist)
        /\ \A m \in Nodes \ {n} : task'[m] = task[m]
    BY <2>1, EnforcedFlat
  <2>4. Apart(n) /\ Ended(n)
    BY <1>1, <2>3, EndFlat
  <2>5. QED
    BY <1>1, <1>3, <2>2, <2>3, <2>4 DEF Updated, fo
<1>4. QED
  BY <1>2, <1>3

\* The tasks.  Works(n): a step of a task of n that leaves its cycle alone.
Works(n) == pc'[n] = pc[n] /\ view'[n] = view[n] /\ paused'[n] = paused[n]

Advances(n) ==
  /\ \/ task[n] = "promote" /\ task'[n] = "promoting"
     \/ task[n] \in {"promoting", "waiting"} /\ task'[n] = "none"
  /\ pg'[n] = pg[n] /\ upstream'[n] = upstream[n] /\ UNCHANGED <<dcs, wal>>

Promotes(n) ==
  /\ task[n] = "promoting" /\ task'[n] = "waiting" /\ pg[n] = "replica" /\ pg'[n] = "primary"
  /\ \E r \in Records : wal' = Set(wal, n, Append(wal[n], r))
  /\ UNCHANGED dcs

Stopping(n) ==
  /\ task[n] = "demote" /\ task'[n] = "release"
  /\ pg'[n] = IF Primary(n) THEN "stopping" ELSE "down"
  /\ upstream'[n] = upstream[n] /\ UNCHANGED <<dcs, wal>>

Releases(n) ==
  /\ task[n] = "release" /\ task'[n] = "follow"
  /\ pg[n] = "stopping" => FailoverPossible(n, dcs, Lsn(n), FALSE)
  /\ pg'[n] = pg[n] /\ upstream'[n] = upstream[n] /\ UNCHANGED wal
  /\ dcs' = IF dcs.owner = n THEN [dcs EXCEPT !.owner = None, !.optime = Lsn(n)] ELSE dcs

Comes(n) ==
  /\ pg[n] = "stopping" /\ pg'[n] = "down" /\ task'[n] = task[n] /\ upstream'[n] = upstream[n]
  /\ \A m \in Nodes : upstream[m] = n /\ pg[m] = "replica" => IsPrefix(wal[n], wal[m]) \/ ~IsPrefix(wal[m], wal[n])
  /\ UNCHANGED <<dcs, wal>>

Returns(n) ==
  /\ task[n] = "follow" /\ task'[n] = "none" /\ pg[n] # "stopping" /\ pg'[n] = "replica"
  /\ UNCHANGED <<dcs, wal>>

LEMMA TaskFlat ==
  ASSUME HaAssumption, Basis, NEW n \in Nodes, Task(n)
  PROVE  /\ Apart(n) /\ Works(n)
         /\ Advances(n) \/ Promotes(n) \/ Stopping(n) \/ Releases(n) \/ Comes(n) \/ Returns(n)
<1>1. UNCHANGED <<pc, view, paused>>
  BY DEF Task, PromoteCommits, PromoteDone, PromoteFails, PromoteEnds, GracefulStop, ReleaseKey, StopDone,
         FollowDone, StartDone, RewindDone, TaskRest, nodeVars
<1>2. /\ pg \in [Nodes -> Pgs] /\ task \in [Nodes -> Tasks] /\ upstream \in [Nodes -> Maybe]
      /\ \A m \in Nodes : up[m] /\ cut[m] = "none"
      /\ task[n] \notin {"start", "rewind"}
  BY DEF Basis, Types, PgTypes, Sound, Steady
<1>3. Works(n)
  BY <1>1 DEF Works
<1>4. ASSUME \A m \in Nodes \ {n} : pg'[m] = pg[m] /\ task'[m] = task[m] /\ upstream'[m] = upstream[m]
      PROVE  Apart(n)
  BY <1>1, <1>4 DEF Apart, Same
<1>5. CASE PromoteCommits(n) \/ PromoteFails(n) \/ PromoteEnds(n)
  <2>1. UNCHANGED <<dcs, pg, wal, upstream>>
        /\ \/ task[n] = "promote" /\ task' = Set(task, n, "promoting")
           \/ task[n] \in {"promoting", "waiting"} /\ task' = Set(task, n, "none")
    BY <1>5 DEF PromoteCommits, PromoteFails, PromoteEnds, TaskStep
  <2>2. Apart(n) /\ Advances(n)
    BY <1>2, <1>4, <2>1 DEF Advances, Set
  <2>3. QED
    BY <1>3, <2>2
<1>6. CASE PromoteDone(n)
  <2>1. /\ task[n] = "promoting" /\ task' = Set(task, n, "waiting") /\ pg[n] = "replica" /\ pg' = Set(pg, n, "primary")
        /\ wal' = Set(wal, n, Append(wal[n], [tl |-> Timeline(n) + 1, by |-> n])) /\ upstream' = Set(upstream, n, None)
        /\ UNCHANGED dcs
    BY <1>6 DEF PromoteDone, TaskStep
  <2>2. \E r \in Records : wal' = Set(wal, n, Append(wal[n], r))
    BY <2>1, KeyTypes DEF Basis
  <2>3. Apart(n) /\ task'[n] = "waiting" /\ pg'[n] = "primary"
    BY <1>2, <1>4, <2>1 DEF Set
  <2>4. QED
    BY <1>3, <2>1, <2>2, <2>3 DEF Promotes
<1>7. CASE GracefulStop(n)
  <2>1. /\ task[n] = "demote" /\ task' = Set(task, n, "release")
        /\ pg' = Set(pg, n, IF Primary(n) THEN "stopping" ELSE "down") /\ UNCHANGED <<dcs, wal, upstream>>
    BY <1>7 DEF GracefulStop, TaskStep
  <2>2. Apart(n) /\ Stopping(n)
    BY <1>2, <1>4, <2>1 DEF Stopping, Set
  <2>3. QED
    BY <1>3, <2>2
<1>8. CASE ReleaseKey(n)
  <2>1. /\ task[n] = "release" /\ task' = Set(task, n, "follow")
        /\ pg[n] = "stopping" => FailoverPossible(n, dcs, Lsn(n), FALSE)
        /\ dcs' = IF dcs.owner = n THEN [dcs EXCEPT !.owner = None, !.optime = Lsn(n)] ELSE dcs
        /\ UNCHANGED <<pg, wal, upstream>>
    BY <1>2, <1>8 DEF ReleaseKey, TaskStep, Dcs
  <2>2. Apart(n) /\ Releases(n)
    BY <1>2, <1>4, <2>1 DEF Releases, Set
  <2>3. QED
    BY <1>3, <2>2
<1>9. CASE StopDone(n)
  <2>1. /\ pg[n] = "stopping" /\ pg' = Set(pg, n, "down") /\ UNCHANGED <<dcs, wal, upstream, task>>
        /\ \A m \in Nodes : upstream[m] = n /\ pg[m] = "replica" => IsPrefix(wal[n], wal[m]) \/ ~IsPrefix(wal[m], wal[n])
    BY <1>2, <1>9 DEF StopDone
  <2>2. Apart(n) /\ Comes(n)
    BY <1>2, <1>4, <2>1 DEF Comes, Set
  <2>3. QED
    BY <1>3, <2>2
<1>10. CASE FollowDone(n)
  <2>1. /\ task[n] = "follow" /\ task' = Set(task, n, "none") /\ pg[n] # "stopping" /\ pg' = Set(pg, n, "replica")
        /\ \E x : upstream' = Set(upstream, n, x)
        /\ UNCHANGED <<dcs, wal>>
    BY <1>10 DEF FollowDone, TaskStep
  <2>2. Apart(n) /\ Returns(n)
    BY <1>2, <1>4, <2>1 DEF Returns, Set
  <2>3. QED
    BY <1>3, <2>2
<1>11. CASE StartDone(n) \/ RewindDone(n)
  BY <1>2, <1>11 DEF StartDone, RewindDone, TaskStep
<1>12. QED
  BY <1>5, <1>6, <1>7, <1>8, <1>9, <1>10, <1>11 DEF Task

\* What the WALs keep.
LEMMA FullKept ==
  ASSUME NEW n \in Nodes, Full(n), UNCHANGED wal
  PROVE  Full(n)'
BY DEF Full

LEMMA FullAppended ==
  ASSUME Types, NEW n \in Nodes, Full(n), NEW r \in Records, wal' = Set(wal, n, Append(wal[n], r))
  PROVE  Full(n)' /\ Lsn(n)' = Lsn(n) + 1 /\ Timeline(n)' = r.tl
<1>1. wal \in [Nodes -> Wals] /\ Append(wal[n], r) \in Wals
  BY AppendWal DEF Types, WalTypes
<1>2. wal'[n] = Append(wal[n], r) /\ \A m \in Nodes \ {n} : wal'[m] = wal[m]
  BY <1>1 DEF Set
<1>3. IsPrefix(wal[n], wal'[n]) /\ Lsn(n)' = Lsn(n) + 1 /\ Timeline(n)' = r.tl
  BY <1>1, <1>2, PrefixAppend DEF Lsn, Timeline
<1>4. ASSUME NEW m \in Nodes
      PROVE  IsPrefix(wal'[m], wal'[n])
  BY <1>1, <1>2, <1>3, PrefixOrder DEF Full
<1>5. QED
  BY <1>3, <1>4 DEF Full

LEMMA FullStreamed ==
  ASSUME Types, NEW n \in Nodes, Stream(n), NEW c \in Nodes, Full(c)
  PROVE  Full(c)' /\ wal'[c] = wal[c]
<1> DEFINE u == upstream[n]
<1>1. /\ u \in Nodes /\ IsPrefix(wal[n], wal[u]) /\ wal[n] # wal[u]
      /\ wal' = Set(wal, n, SubSeq(wal[u], 1, Len(wal[n]) + 1)) /\ wal \in [Nodes -> Wals]
  BY DEF Stream, Types, PgTypes, WalTypes, Maybe, Lsn
<1> HIDE DEF u
<1>2. IsPrefix(wal[u], wal[c])
  BY <1>1 DEF Full
<1>3. c # n
  BY <1>1, <1>2, PrefixOrder DEF Full
<1>4. SubSeq(wal[u], 1, Len(wal[n]) + 1) \in Wals /\ IsPrefix(SubSeq(wal[u], 1, Len(wal[n]) + 1), wal[u])
  BY <1>1, PrefixNext
<1>5. IsPrefix(wal'[n], wal'[c]) /\ \A m \in Nodes \ {n} : wal'[m] = wal[m]
  BY <1>1, <1>2, <1>3, <1>4, PrefixOrder DEF Set
<1>6. QED
  BY <1>3, <1>5 DEF Full

LEMMA FullSame ==
  ASSUME Types, NEW n \in Nodes, NEW c \in Nodes, Full(c), Lsn(c) <= Lsn(n)
  PROVE  wal[n] = wal[c] /\ Full(n)
BY PrefixOrder DEF Types, WalTypes, Full, Lsn
-----------------------------------------------------------------------------
(* The steps of a reign *)

LEMMA ReignQuiet ==
  ASSUME HaAssumption, Basis, NEW h \in Nodes, Reign(h), NEW n \in Nodes, Apart(n), Intact,
         UNCHANGED <<dcs, wal>>, pg'[n] = pg[n], task'[n] = task[n],
         n # h => upstream'[n] = h,
         pc'[n] = "idle" \/ (pc'[n] = "cycle" /\ view'[n] = dcs)
  PROVE  Reign(h)'
<1>1. /\ dcs.owner = h /\ h \notin NoWatchdog /\ Full(h)' /\ Known(dcs, h)'
      /\ dcs.fo # NoFailoverKey => used.requests = 1 /\ dcs.fo.from \in {None, h} /\ dcs.fo.to \in Fit \cup {None}
      /\ used'.requests = used.requests
  BY FullKept DEF Reign, Known, Lsn, Timeline, Intact
<1>2. pc'[h] = "idle" \/ (pc'[h] = "cycle" /\ view'[h].owner = h /\ view'[h].fo \in {NoFailoverKey, dcs.fo})
  <2>1. CASE n = h
    BY <1>1, <2>1
  <2>2. CASE n # h
    BY <2>2 DEF Apart, Same, Reign
  <2>3. QED
    BY <2>1, <2>2
<1>3. Serves(h)'
  <2>1. pg'[h] = pg[h] /\ task'[h] = task[h]
    BY DEF Apart, Same
  <2>2. \A m \in Nodes : Full(m) => Full(m)'
    BY FullKept
  <2>3. QED
    BY <2>1, <2>2 DEF Serves, Demotes, Reign
<1>4. ASSUME NEW m \in Nodes \ {h}
      PROVE  Streams(m, h)'
  BY <1>1 DEF Reign, Streams, Apart, Same
<1>5. QED
  BY <1>1, <1>2, <1>3, <1>4 DEF Reign

LEMMA ReignCycle ==
  ASSUME HaAssumption, Basis, NEW h \in Nodes, Reign(h), NEW n \in Nodes, Apart(n), Intact,
         Loads(n) \/ Retires(n) \/ Interrupted(n) \/ Joins(n) \/ Gets(n) \/ GivesBack(n) \/ Claims(n)
  PROVE  Reign(h)'
<1>1. /\ dcs.owner = h /\ h # None
      /\ pc[h] = "idle" \/ (pc[h] = "cycle" /\ view[h].owner = h)
      /\ task[h] = "none" => pg[h] = "primary"
      /\ n # h => Streams(n, h)
  BY DEF Reign, Serves, HaAssumption
<1>2. CASE Loads(n)
  BY <1>1, <1>2, ReignQuiet DEF Loads, Streams
<1>3. CASE Retires(n)
  <2>1. n # h => upstream'[n] = h
    BY <1>1, <1>3 DEF Retires, Streams
  <2>2. QED
    BY <1>3, <2>1, ReignQuiet DEF Retires, Ended
<1>4. CASE Interrupted(n)
  BY <1>1, <1>4 DEF Interrupted, Streams, Busy
<1>5. CASE Joins(n) \/ Gets(n) \/ Claims(n)
  BY <1>1, <1>5 DEF Joins, Gets, Claims, Streams
<1>6. CASE GivesBack(n)
  BY <1>1, <1>6 DEF GivesBack
<1>7. QED
  BY <1>2, <1>3, <1>4, <1>5, <1>6

\* The leader updates its key.
LEMMA ReignUpdate ==
  ASSUME HaAssumption, Basis, NEW h \in Nodes, Reign(h), NEW n \in Nodes, Apart(n), Intact, Updated(n)
  PROVE  Reign(h)'
<1>1. /\ dcs.owner = h /\ n = h /\ h \notin NoWatchdog /\ pg[h] = "primary" /\ task[h] = "none"
      /\ pc'[h] = "idle" /\ pg'[h] = "primary" /\ used'.requests = used.requests /\ UNCHANGED wal
      /\ Lsn(h) \in Nat /\ Timeline(h) \in Nat
  BY KeyTypes DEF Reign, Serves, Updated, Ended, Intact, Basis
<1>2. \A m \in Nodes \ {h} : Streams(m, h)'
  BY <1>1 DEF Reign, Apart, Same, Streams
<1>3. Full(h)' /\ Lsn(h)' = Lsn(h) /\ Timeline(h)' = Timeline(h)
  BY <1>1, FullKept DEF Reign, Lsn, Timeline
<1>4. CASE DemoteRequested(n)
  <2>1. /\ dcs'.owner = h /\ dcs'.optime = Lsn(h) /\ dcs'.hist = dcs.hist /\ dcs'.fo = dcs.fo /\ task'[h] = "demote"
    BY <1>1, <1>4 DEF Updated
  <2>2. dcs.fo # NoFailoverKey /\ dcs.fo = view[h].fo
    BY <1>1, <1>4 DEF Updated, DemoteRequested, FailoverKey, Reign
  <2>3. Demotes(h)
    BY <1>1, <1>4, <2>2 DEF DemoteRequested, FailoverPossible, Candidates, MayPromote, Demotes, Fit
  <2>4. Serves(h)'
    BY <1>1, <2>1, <2>2, <2>3 DEF Serves, Demotes
  <2>5. Known(dcs, h)'
    BY <1>1, <1>3, <2>1 DEF Reign, Known
  <2>6. QED
    BY <1>1, <1>2, <1>3, <2>1, <2>4, <2>5 DEF Reign
<1>5. CASE ~DemoteRequested(n)
  <2>1. /\ dcs'.owner = h /\ dcs'.optime = Lsn(h) /\ dcs'.hist = Timeline(h) /\ task'[h] = "none"
        /\ dcs'.fo \in {NoFailoverKey, dcs.fo}
    BY <1>1, <1>5 DEF Updated, Led, Primary
  <2>2. Serves(h)'
    BY <1>1, <2>1 DEF Serves
  <2>3. Known(dcs, h)'
    BY <1>1, <1>3, <2>1 DEF Known
  <2>4. dcs'.fo # NoFailoverKey =>
          used'.requests = 1 /\ dcs'.fo.from \in {None, h} /\ dcs'.fo.to \in Fit \cup {None}
    BY <1>1, <2>1 DEF Reign
  <2>5. QED
    BY <1>1, <1>2, <1>3, <2>1, <2>2, <2>3, <2>4 DEF Reign
<1>6. QED
  BY <1>4, <1>5

\* The leader stops, and gives the key up when somebody who may follow has all of its WAL.
LEMMA ReignReleases ==
  ASSUME HaAssumption, Basis, NEW h \in Nodes, Reign(h), NEW n \in Nodes, Apart(n), Intact, Works(n), Releases(n)
  PROVE  \E c \in Nodes : Handover(c)'
<1>1. /\ n = h /\ dcs.owner = h /\ h # None /\ Full(h) /\ Known(dcs, h) /\ UNCHANGED wal
      /\ dcs.fo # NoFailoverKey /\ Demotes(h) /\ pg[h] \in {"stopping", "down"}
      /\ used'.requests = 1 /\ dcs.fo.from \in {None, h} /\ dcs \in Clusters
      /\ pg[h] = "down" => \A m \in Nodes : Full(m)
  BY DEF Reign, Streams, Serves, Releases, Intact, HaAssumption, Basis, Types
<1>2. /\ dcs'.owner = None /\ dcs'.optime = Lsn(h) /\ dcs'.hist = dcs.hist /\ dcs'.fo = dcs.fo
      /\ pg'[h] = pg[h] /\ task'[h] = "follow" /\ pc'[h] = pc[h] /\ view'[h] = view[h]
  BY <1>1 DEF Releases, Works, Clusters
<1>3. \A m \in Nodes : Lsn(m) \in Nat /\ Timeline(m) \in Nat
  BY KeyTypes DEF Basis
<1>4. PICK c \in Fit \ {h} : dcs.fo.to \in {None, c} /\ wal[c] = wal[h] /\ Full(c)
  <2>1. CASE pg[h] = "stopping"
    <3>1. FailoverPossible(h, dcs, Lsn(h), FALSE)
      BY <1>1, <2>1 DEF Releases
    <3>2. Lsn(h) > 0
      BY WalFacts DEF Basis, Types, WalTypes, Lsn
    <3>3. PICK c \in Nodes : c \in Fit \ {h} /\ dcs.fo.to \in {None, c} /\ Lsn(c) >= Lsn(h)
      BY <3>1, <3>2 DEF FailoverPossible, Candidates, MayPromote, Fit
    <3>4. QED
      BY <1>1, <1>3, <3>3, FullSame DEF Basis
  <2>2. CASE pg[h] = "down"
    <3>1. PICK c \in Fit \ {h} : dcs.fo.to \in {None, c}
      BY <1>1 DEF Demotes
    <3>2. Full(c) /\ c \in Nodes
      BY <1>1, <2>2, <3>1 DEF Fit
    <3>3. wal[c] = wal[h]
      BY <1>1, <3>2, PrefixOrder DEF Basis, Types, WalTypes, Full
    <3>4. QED
      BY <3>1, <3>2, <3>3
  <2>3. QED
    BY <1>1, <2>1, <2>2
<1>5. /\ c \in Nodes /\ c # h /\ c # None /\ pg'[c] = "replica" /\ Full(c)'
      /\ Lsn(c)' = Lsn(h) /\ Timeline(c)' = Timeline(h)
  BY <1>1, <1>4, FullKept DEF Fit, HaAssumption, Reign, Streams, Apart, Same, Lsn, Timeline
<1>7. Good(dcs'.fo, c) /\ Known(dcs, c)'
  BY <1>1, <1>2, <1>3, <1>4, <1>5 DEF Good, Known
<1>8. ASSUME NEW m \in Nodes
      PROVE  Handles(m, c)'
  <2>1. /\ pc'[m] = "idle" \/ (pc'[m] = "cycle" /\ view'[m].owner = h)
        /\ Waits(m)' /\ task'[m] \notin {"promote", "promoting"}
    <3>1. CASE m = h
      BY <1>1, <1>2, <3>1 DEF Reign, Waits
    <3>2. CASE m # h
      BY <1>1, <3>2 DEF Reign, Streams, Apart, Same, Waits
    <3>3. QED
      BY <3>1, <3>2
  <2>2. dcs'.owner # m
    BY <1>2 DEF HaAssumption
  <2>3. QED
    BY <1>1, <2>1, <2>2 DEF Handles, Seeks
<1>9. QED
  BY <1>1, <1>4, <1>5, <1>7, <1>8 DEF Handover

LEMMA ReignTask ==
  ASSUME HaAssumption, Basis, NEW h \in Nodes, Reign(h), NEW n \in Nodes, Apart(n), Intact, Works(n),
         Advances(n) \/ Promotes(n) \/ Stopping(n) \/ Releases(n) \/ Comes(n) \/ Returns(n)
  PROVE  \E c \in Nodes : Line(c)'
<1>1. CASE Releases(n)
  BY <1>1, ReignReleases DEF Line
<1>2. CASE Advances(n) \/ Promotes(n) \/ Returns(n)
  BY <1>2 DEF Advances, Promotes, Returns, Reign, Streams, Serves
<1>3. CASE Stopping(n) \/ Comes(n)
  <2>1. n = h /\ UNCHANGED <<dcs, wal>> /\ pc'[h] = pc[h] /\ view'[h] = view[h] /\ used'.requests = used.requests
        /\ dcs.fo # NoFailoverKey /\ Demotes(h)
    BY <1>3 DEF Stopping, Comes, Reign, Streams, Serves, Works, Intact
  <2>2. Serves(h)'
    <3>1. CASE Stopping(n)
      BY <2>1, <3>1 DEF Stopping, Reign, Serves, Demotes, Primary
    <3>2. CASE Comes(n)
      <4>1. task'[h] = "release" /\ pg'[h] = "down"
        BY <2>1, <3>2 DEF Comes, Reign, Serves
      <4>2. ASSUME NEW m \in Nodes
            PROVE  Full(m)
        <5>1. IsPrefix(wal[m], wal[h]) /\ (m # h => IsPrefix(wal[h], wal[m]))
          BY <2>1, <3>2 DEF Comes, Reign, Streams, Full
        <5>2. Lsn(h) <= Lsn(m)
          BY <5>1, PrefixOrder, KeyTypes DEF Basis, Types, WalTypes, Lsn
        <5>3. QED
          BY <5>2, FullSame DEF Reign, Basis
      <4>3. \A m \in Nodes : Full(m)'
        BY <2>1, <4>2, FullKept
      <4>4. QED
        BY <2>1, <4>1, <4>3 DEF Serves, Demotes
    <3>3. QED
      BY <1>3, <3>1, <3>2
  <2>3. Full(h)' /\ Known(dcs, h)'
    BY <2>1, FullKept DEF Reign, Known, Lsn, Timeline
  <2>4. \A m \in Nodes \ {h} : Streams(m, h)'
    BY <2>1 DEF Reign, Streams, Apart, Same
  <2>5. Reign(h)'
    BY <2>1, <2>2, <2>3, <2>4 DEF Reign
  <2>6. QED
    BY <2>5 DEF Line
<1>4. QED
  BY <1>1, <1>2, <1>3
-----------------------------------------------------------------------------
(* The steps that no cycle and no task takes *)

LEMMA LineKept ==
  ASSUME HaAssumption, Types, NEW h \in Nodes, Line(h), UNCHANGED <<pg, upstream, task, pc, view, paused>>,
         dcs'.owner = dcs.owner, dcs'.optime = dcs.optime, dcs'.hist = dcs.hist, dcs'.fo = dcs.fo,
         used'.requests = used.requests,
         \A m \in Nodes : Full(m) => Full(m)' /\ wal'[m] = wal[m]
  PROVE  Line(h)'
<1>1. CASE Reign(h)
  <2>1. Full(h)' /\ Known(dcs, h)'
    BY <1>1 DEF Reign, Known, Lsn, Timeline
  <2>2. Serves(h)'
    BY <1>1 DEF Reign, Serves, Demotes
  <2>3. QED
    BY <1>1, <2>1, <2>2 DEF Reign, Streams, Line
<1>2. CASE Handover(h)
  <2>1. Full(h)' /\ Known(dcs, h)'
    BY <1>2 DEF Handover, Known, Lsn, Timeline
  <2>2. ASSUME NEW n \in Nodes
        PROVE  Handles(n, h)'
    <3>1. Handles(n, h) /\ Full(h)
      BY <1>2 DEF Handover
    <3>2. Known(view[n], h) => Known(view[n], h)'
      BY <3>1 DEF Known, Lsn, Timeline
    <3>3. Waits(n)' = Waits(n) /\ Seeks(n)' = Seeks(n)
      BY DEF Waits, Seeks
    <3>4. (Races(n, h) => Races(n, h)') /\ (Owns(n) => Owns(n)')
      BY DEF Races, Owns
    <3>5. QED
      BY <3>1, <3>2, <3>3, <3>4 DEF Handles
  <2>3. QED
    BY <1>2, <2>1, <2>2 DEF Handover, Line
<1>3. CASE Succeeded(h)
  BY <1>3 DEF Succeeded, Line
<1>4. QED
  BY <1>1, <1>2, <1>3 DEF Line

LEMMA StreamLine ==
  ASSUME HaAssumption, Basis, NEW h \in Nodes, Line(h), NEW n \in Nodes, Stream(n), Intact
  PROVE  Line(h)'
<1>1. UNCHANGED <<pg, upstream, task, pc, view, paused, dcs>>
  BY DEF Stream, OnlyPg
<1>2. \A m \in Nodes : Full(m) => Full(m)' /\ wal'[m] = wal[m]
  BY FullStreamed DEF Basis
<1>3. QED
  BY <1>1, <1>2, LineKept DEF Basis, Intact

LEMMA WriteLine ==
  ASSUME HaAssumption, Basis, NEW h \in Nodes, Line(h), NEW n \in Nodes, Write(n), Intact
  PROVE  Line(h)'
<1>1. /\ UNCHANGED <<pg, upstream, task, pc, view, paused, dcs>> /\ used'.requests = used.requests /\ pg[n] = "primary"
      /\ wal' = Set(wal, n, Append(wal[n], [tl |-> Timeline(n), by |-> n]))
  BY DEF Write, OnlyPg, Intact, Primary
<1>2. n = h /\ (Reign(h) \/ Succeeded(h))
  BY <1>1 DEF Line, Reign, Streams, Handover, Handles, Waits, Succeeded
<1>3. Full(h) /\ [tl |-> Timeline(n), by |-> n] \in Records /\ Lsn(h) \in Nat /\ Timeline(h) \in Nat
  BY <1>2, KeyTypes DEF Reign, Succeeded, Basis
<1>4. Full(h)' /\ Lsn(h)' = Lsn(h) + 1 /\ Timeline(h)' = Timeline(h)
  BY <1>1, <1>2, <1>3, FullAppended DEF Basis
<1>5. CASE Reign(h)
  <2>1. Known(dcs, h)'
    BY <1>1, <1>3, <1>4, <1>5 DEF Reign, Known, Basis, Types, Clusters
  <2>2. Serves(h)'
    BY <1>1, <1>2, <1>5 DEF Reign, Serves, Demotes
  <2>3. QED
    BY <1>1, <1>4, <1>5, <2>1, <2>2 DEF Reign, Streams, Line
<1>6. CASE Succeeded(h)
  BY <1>1, <1>4, <1>6 DEF Succeeded, Line
<1>7. QED
  BY <1>2, <1>5, <1>6

\* The one request comes while a leader reigns.
LEMMA RequestLine ==
  ASSUME HaAssumption, Basis, NEW h \in Nodes, Line(h),
         NEW from \in Maybe, NEW to \in Maybe, RequestFailover(from, to), used'.requests <= 1
  PROVE  Line(h)' /\ used'.faults = used.faults
<1>1. /\ UNCHANGED <<pg, upstream, task, pc, view, paused, wal>>
      /\ dcs'.owner = dcs.owner /\ dcs'.optime = dcs.optime /\ dcs'.hist = dcs.hist
      /\ dcs'.fo = [from |-> from, to |-> to]
      /\ used'.requests = used.requests + 1 /\ used'.faults = used.faults /\ used.requests \in Nat
  BY DEF RequestFailover, pgVars, nodeVars, Event, Spend, Basis, Types, EnvTypes, Counts, Clusters
<1>2. used.requests = 0 /\ used'.requests = 1
  BY <1>1
<1>3. Reign(h) /\ dcs.fo = NoFailoverKey /\ dcs.owner = h
  BY <1>2 DEF Line, Reign, Handover, Succeeded
<1>4. task[h] = "none" /\ pg[h] = "primary"
  BY <1>3 DEF Reign, Serves
<1>5. from \in {None, h} /\ to \in Fit \cup {None}
  BY <1>3 DEF RequestFailover, GoodCandidate, MayPromote, Maybe, Fit
<1>6. Full(h)' /\ Known(dcs, h)'
  BY <1>1, <1>3, FullKept DEF Reign, Known, Lsn, Timeline
<1>7. Serves(h)'
  BY <1>1, <1>4 DEF Serves
<1>8. pc'[h] = "idle" \/ (pc'[h] = "cycle" /\ view'[h].owner = h /\ view'[h].fo \in {NoFailoverKey, dcs'.fo})
  BY <1>1, <1>3 DEF Reign
<1>9. QED
  BY <1>1, <1>2, <1>3, <1>5, <1>6, <1>7, <1>8 DEF Reign, Streams, Line

LEMMA PauseLine ==
  ASSUME HaAssumption, Basis, NEW h \in Nodes, Line(h), NEW p \in BOOLEAN, SetPause(p)
  PROVE  Line(h)' /\ used'.faults = used.faults
<1>1. /\ UNCHANGED <<pg, upstream, task, pc, view, paused, wal>>
      /\ dcs'.owner = dcs.owner /\ dcs'.optime = dcs.optime /\ dcs'.hist = dcs.hist /\ dcs'.fo = dcs.fo
      /\ used'.requests = used.requests /\ used'.faults = used.faults
  BY DEF SetPause, pgVars, nodeVars, Event, Spend, Basis, Types, EnvTypes, Counts, Clusters
<1>2. QED
  BY <1>1, LineKept, FullKept DEF Basis
-----------------------------------------------------------------------------
(* The steps after a handover *)

LEMMA SucceededKept ==
  ASSUME HaAssumption, Basis, NEW h \in Nodes, Succeeded(h), NEW n \in Nodes, Apart(n), Intact,
         dcs'.owner = h, dcs'.fo \in Served(h), Full(h)', pc'[n] # "won",
         IF n = h THEN /\ pg'[n] = "primary" /\ task'[n] \in {"none", "waiting"}
                       /\ pc'[n] = "idle" \/ (pc'[n] = "cycle" /\ view'[n].owner = h /\ view'[n].fo \in Served(h))
         ELSE \/ pg'[n] = "replica" /\ task'[n] = "none"
              \/ pg'[n] \in {"stopping", "down"} /\ task'[n] = "follow"
  PROVE  Succeeded(h)'
<1>1. ASSUME NEW m \in Nodes \ {h}
      PROVE  /\ pc'[m] # "won"
             /\ \/ pg'[m] = "replica" /\ task'[m] = "none"
                \/ pg'[m] \in {"stopping", "down"} /\ task'[m] = "follow"
  BY DEF Succeeded, Apart, Same
<1>2. /\ pg'[h] = "primary" /\ task'[h] \in {"none", "waiting"}
      /\ pc'[h] = "idle" \/ (pc'[h] = "cycle" /\ view'[h].owner = h /\ view'[h].fo \in Served(h))
  <2>1. CASE n = h
    BY <2>1
  <2>2. CASE n # h
    BY <2>2 DEF Succeeded, Apart, Same
  <2>3. QED
    BY <2>1, <2>2
<1>3. used'.requests = 1 /\ h \notin NoWatchdog
  BY DEF Succeeded, Intact
<1>4. QED
  BY <1>1, <1>2, <1>3 DEF Succeeded, Served

LEMMA SucceededCycle ==
  ASSUME HaAssumption, Basis, NEW h \in Nodes, Succeeded(h), NEW n \in Nodes, Apart(n), Intact,
         Loads(n) \/ Retires(n) \/ Interrupted(n) \/ Joins(n) \/ Gets(n) \/ GivesBack(n) \/ Claims(n) \/ Updated(n)
  PROVE  Succeeded(h)'
<1>1. /\ dcs.owner = h /\ h # None /\ dcs.fo \in Served(h) /\ Full(h) /\ pg[h] = "primary"
      /\ task[h] \in {"none", "waiting"} /\ h \notin NoWatchdog
      /\ pc[h] = "idle" \/ (pc[h] = "cycle" /\ view[h].owner = h /\ view[h].fo \in Served(h))
      /\ n # h => /\ pc[n] # "won"
                  /\ \/ pg[n] = "replica" /\ task[n] = "none"
                     \/ pg[n] \in {"stopping", "down"} /\ task[n] = "follow"
  BY DEF Succeeded, HaAssumption
<1>2. CASE Loads(n)
  BY <1>1, <1>2, SucceededKept, FullKept DEF Loads
<1>3. CASE Retires(n)
  BY <1>1, <1>3, SucceededKept, FullKept DEF Retires, Ended
<1>4. CASE Interrupted(n)
  BY <1>1, <1>4, SucceededKept, FullKept DEF Interrupted, Ended, Busy
<1>5. CASE Joins(n)
  BY <1>1, <1>5, SucceededKept, FullKept DEF Joins, Rides
<1>6. CASE Gets(n) \/ Claims(n) \/ GivesBack(n)
  BY <1>1, <1>6 DEF Gets, Claims, GivesBack
<1>7. CASE Updated(n)
  <2>1. n = h /\ view[h].fo \in Served(h)
    BY <1>1, <1>7 DEF Updated
  <2>2. ~DemoteRequested(n)
    <3>1. ~(view[n].fo # NoFailoverKey /\ view[n].fo.to # n)
      BY <2>1 DEF Served
    <3>2. QED
      BY <3>1, Zenon DEF DemoteRequested, FailoverKey
  <2>3. dcs'.owner = h /\ dcs'.fo \in Served(h) /\ task'[h] = task[h]
    BY <1>1, <1>7, <2>1, <2>2 DEF Updated, Led, Primary, Served
  <2>4. QED
    BY <1>1, <1>7, <2>1, <2>3, SucceededKept, FullKept DEF Updated, Ended
<1>8. QED
  BY <1>2, <1>3, <1>4, <1>5, <1>6, <1>7

LEMMA SucceededTask ==
  ASSUME HaAssumption, Basis, NEW h \in Nodes, Succeeded(h), NEW n \in Nodes, Apart(n), Intact, Works(n),
         Advances(n) \/ Promotes(n) \/ Stopping(n) \/ Releases(n) \/ Comes(n) \/ Returns(n)
  PROVE  Succeeded(h)'
<1>1. /\ dcs.owner = h /\ dcs.fo \in Served(h) /\ Full(h) /\ pg[h] = "primary" /\ task[h] \in {"none", "waiting"}
      /\ pc'[n] = pc[n] /\ view'[n] = view[n]
      /\ pc[h] = "idle" \/ (pc[h] = "cycle" /\ view[h].owner = h /\ view[h].fo \in Served(h))
      /\ n # h => /\ pc[n] # "won"
                  /\ \/ pg[n] = "replica" /\ task[n] = "none"
                     \/ pg[n] \in {"stopping", "down"} /\ task[n] = "follow"
  BY DEF Succeeded, Works
<1>2. CASE Advances(n)
  BY <1>1, <1>2, SucceededKept, FullKept DEF Advances
<1>3. CASE Promotes(n) \/ Stopping(n) \/ Releases(n)
  BY <1>1, <1>3 DEF Promotes, Stopping, Releases
<1>4. CASE Comes(n)
  BY <1>1, <1>4, SucceededKept, FullKept DEF Comes
<1>5. CASE Returns(n)
  BY <1>1, <1>5, SucceededKept, FullKept DEF Returns
<1>6. QED
  BY <1>2, <1>3, <1>4, <1>5
-----------------------------------------------------------------------------
(* The steps of a handover *)

LEMMA HandlesKept ==
  ASSUME Basis, NEW c \in Nodes, NEW n \in Nodes, Apart(n), UNCHANGED wal, NEW m \in Nodes \ {n}, Handles(m, c),
         Full(c) => Full(c)',
         dcs'.owner = m <=> dcs.owner = m, dcs.owner = m => dcs'.fo = dcs.fo,
         Seeks(m) => dcs'.fo = NoFailoverKey \/ (view[m].fo # NoFailoverKey /\ view[m].fo.to = dcs'.fo.to),
         Seeks(m) /\ view[m].fo.to = m => dcs'.fo = view[m].fo /\ dcs'.owner \in {None, m}
  PROVE  Handles(m, c)'
<1>1. Same(m)
  BY DEF Apart
<1>2. Waits(m)' /\ Seeks(m)' = Seeks(m) /\ Known(view[m], c)' = Known(view[m], c)
  BY <1>1 DEF Handles, Waits, Seeks, Same, Known, Lsn, Timeline
<1>3. (Races(m, c) => Races(m, c)') /\ (dcs.owner = m /\ Owns(m) => Owns(m)')
  BY <1>1, FullKept DEF Races, Owns, Same
<1>4. QED
  BY <1>1, <1>2, <1>3 DEF Handles, Same

\* What a step of n leaves of a handover, when the steps of the others stay possible.
LEMMA HandoverKept ==
  ASSUME HaAssumption, Basis, NEW c \in Nodes, Handover(c), NEW n \in Nodes, Apart(n), Intact, UNCHANGED wal,
         Known(dcs', c), Good(dcs'.fo, c), pg[n] = "replica" => pg'[n] = "replica",
         Handles(n, c)',
         \A m \in Nodes \ {n} :
           /\ dcs'.owner = m <=> dcs.owner = m
           /\ dcs.owner = m => dcs'.fo = dcs.fo
           /\ Seeks(m) => dcs'.fo = NoFailoverKey \/ (view[m].fo # NoFailoverKey /\ view[m].fo.to = dcs'.fo.to)
           /\ Seeks(m) /\ view[m].fo.to = m => dcs'.fo = view[m].fo /\ dcs'.owner \in {None, m}
  PROVE  Handover(c)'
<1>1. Full(c)' /\ Known(dcs, c)' /\ used'.requests = 1 /\ c \in Fit
  BY FullKept DEF Handover, Intact, Known, Lsn, Timeline
<1>2. pg'[c] = "replica"
  BY DEF Handover, Apart, Same
<1>3. \A m \in Nodes \ {n} : Handles(m, c)'
  BY <1>1, HandlesKept DEF Handover
<1>4. QED
  BY <1>1, <1>2, <1>3 DEF Handover

\* A step that leaves the DCS alone.
LEMMA HandoverQuiet ==
  ASSUME HaAssumption, Basis, NEW c \in Nodes, Handover(c), NEW n \in Nodes, Apart(n), Intact, UNCHANGED <<wal, dcs>>,
         pg[n] = "replica" => pg'[n] = "replica", Handles(n, c)'
  PROVE  Handover(c)'
BY HandoverKept DEF Handover, Handles

\* A node joins the race only with all of the WAL: the successor c is there and answers.
LEMMA JoinsWithAll ==
  ASSUME HaAssumption, Basis, NEW c \in Nodes, Handover(c), NEW n \in Nodes, Joins(n)
  PROVE  pg[n] = "replica" /\ Full(n) /\ (paused[n] => view[n].fo.to = n) /\ (view[n].fo.to = c => n = c)
<1> DEFINE v == view[n]
<1>1. /\ pg[n] = "replica" /\ ~Primary(n) /\ v.paused = paused[n] /\ pg[c] = "replica" /\ ~Primary(c) /\ Full(c)
      /\ Good(v.fo, c) /\ Known(v, c) /\ c \in Fit /\ IsHealthiest(n, v)
  BY DEF Handover, Joins, Handles, Waits, Seeks, Running, Primary, Basis, Sound
<1>2. MayPromote(n, c)
  BY <1>1 DEF MayPromote, Answers, Talks, Running, Fit, Basis, Sound
<1>3. v.optime \in Nat /\ v.hist \in Nat /\ Lsn(c) \in Nat /\ Timeline(c) \in Nat /\ Lsn(n) \in Nat /\ MaxLag \in Nat
  BY KeyTypes DEF Basis, Types, CycleTypes, Clusters, HaAssumption
<1>4. ~IsLagging(Lsn(c), v) /\ Timeline(c) >= v.hist
  BY <1>1, <1>3 DEF Known, IsLagging
<1>5. n # None /\ c # None /\ c \notin NoFailover
  BY <1>1 DEF HaAssumption, Fit
<1> HIDE DEF v
<1>6. ASSUME NEW members, c \in members, NEW lag, HealthiestAmong(n, v, members, lag)
      PROVE  Full(n)
  <2>1. CASE c = n
    BY <1>1, <2>1
  <2>2. CASE c # n
    <3>1. Lsn(c) <= Lsn(n)
      BY <1>2, <1>5, <1>6, <2>2 DEF HealthiestAmong
    <3>2. QED
      BY <1>1, <3>1, FullSame DEF Basis
  <2>3. QED
    BY <2>1, <2>2
<1>7. CASE v.fo = NoFailoverKey
  <2>1. v.fo.to = None /\ ~FailoverKey(v)
    BY <1>7 DEF NoFailoverKey, FailoverKey
  <2>2. ~v.paused /\ HealthiestAmong(n, v, Nodes, TRUE)
    BY <1>1, <2>1 DEF IsHealthiest
  <2>3. QED
    BY <1>1, <1>5, <1>6, <2>1, <2>2 DEF v
<1>8. CASE v.fo # NoFailoverKey
  <2>1. ManualFailoverToMe(n, v) /\ v.fo.to \in {None, c} /\ v.fo.from # c
    BY <1>1, <1>8 DEF IsHealthiest, FailoverKey, Good
  <2>2. CASE v.fo.to = n
    BY <1>1, <1>5, <2>1, <2>2 DEF v
  <2>3. CASE v.fo.to # n
    <3>1. /\ ~v.paused /\ v.fo.to = None
          /\ IF v.fo.from = n THEN ~FailoverPossible(n, v, 0, v.fo.to # None)
             ELSE HealthiestAmong(n, v, Nodes \ {v.fo.from}, FALSE)
      BY <1>2, <2>1, <2>3 DEF ManualFailoverToMe
    <3>2. CASE v.fo.from = n
      <4>1. c \in Candidates(n, v, FALSE)
        BY <1>5, <2>1, <3>1, <3>2 DEF Candidates
      <4>2. FailoverPossible(n, v, 0, FALSE)
        <5>1. IF 0 > 0 THEN Lsn(c) >= 0 ELSE ~IsLagging(Lsn(c), v)
          BY <1>4
        <5>2. QED
          BY <1>2, <1>4, <4>1, <5>1, Zenon DEF FailoverPossible
      <4>3. QED
        BY <3>1, <3>2, <4>2
    <3>3. CASE v.fo.from # n
      <4>1. c \in Nodes \ {v.fo.from}
        BY <2>1
      <4>2. Full(n)
        BY <1>6, <3>1, <3>3, <4>1
      <4>3. QED
        BY <1>1, <1>5, <3>1, <4>2 DEF v
    <3>4. QED
      BY <3>2, <3>3
  <2>4. QED
    BY <2>2, <2>3
<1>9. QED
  BY <1>7, <1>8

LEMMA HandoverCycle ==
  ASSUME HaAssumption, Basis, NEW c \in Nodes, Handover(c), NEW n \in Nodes, Apart(n), Intact,
         Loads(n) \/ Retires(n) \/ Interrupted(n) \/ Joins(n)
  PROVE  Handover(c)'
<1>1. Handles(n, c) /\ n # None /\ Full(c) /\ Good(dcs.fo, c) /\ Known(dcs, c)
  BY DEF Handover, HaAssumption
<1>2. UNCHANGED <<wal, dcs>> /\ (Full(n) => Full(n)') /\ (\A v : Known(v, c) => Known(v, c)')
  BY FullKept DEF Loads, Retires, Interrupted, Joins, Rides, Known, Lsn, Timeline
<1>3. CASE Loads(n)
  <2>1. /\ pc[n] = "idle" /\ pc'[n] = "cycle" /\ view'[n] = dcs /\ pg'[n] = pg[n] /\ task'[n] = task[n]
    BY <1>3 DEF Loads
  <2>2. Waits(n)' /\ (Owns(n) /\ dcs.owner = n => Owns(n)')
    BY <1>1, <1>2, <2>1 DEF Handles, Waits, Owns
  <2>3. Handles(n, c)'
    BY <1>1, <1>2, <2>1, <2>2 DEF Handles, Seeks
  <2>4. QED
    BY <1>2, <2>1, <2>3, HandoverQuiet
<1>4. CASE Retires(n)
  <2>1. pc'[n] = "idle" /\ pg'[n] = pg[n] /\ task'[n] = task[n] /\ pc[n] \in {"cycle", "race"}
    BY <1>4 DEF Retires, Ended
  <2>2. Waits(n)'
    BY <1>1, <2>1 DEF Handles, Waits
  <2>3. dcs.owner = n => Owns(n)'
    BY <1>1, <1>2, <2>1 DEF Handles, Owns
  <2>4. Handles(n, c)'
    BY <1>1, <1>2, <2>1, <2>2, <2>3 DEF Handles, Seeks
  <2>5. QED
    BY <1>2, <2>1, <2>4, HandoverQuiet
<1>5. CASE Interrupted(n)
  <2>1. /\ pc[n] = "cycle" /\ task[n] # "none" /\ ~(view[n].owner = n /\ dcs.owner = n) /\ pc'[n] = "idle"
    BY <1>5 DEF Interrupted, Busy, Ended
  <2>2. dcs.owner # n
    BY <1>1, <2>1 DEF Handles, Owns
  <2>3. task[n] = "follow" /\ pg[n] \in {"stopping", "down"}
    BY <1>1, <2>1, <2>2 DEF Handles, Waits
  <2>4. pg'[n] = "down" /\ task'[n] = "follow"
    BY <1>5, <2>3 DEF Interrupted
  <2>5. Handles(n, c)'
    BY <1>2, <2>1, <2>2, <2>4 DEF Handles, Waits, Seeks
  <2>6. QED
    BY <1>2, <2>3, <2>5, HandoverQuiet
<1>6. CASE Joins(n)
  <2>1. /\ pc[n] = "cycle" /\ pc'[n] = "race" /\ task[n] = "none" /\ view[n].owner = None
        /\ pg'[n] = pg[n] /\ task'[n] = task[n] /\ view'[n] = view[n] /\ paused'[n] = paused[n]
    BY <1>6 DEF Joins, Rides
  <2>2. pg[n] = "replica" /\ Full(n) /\ (paused[n] => view[n].fo.to = n) /\ (view[n].fo.to = c => n = c)
    BY <1>6, JoinsWithAll
  <2>3. dcs.owner # n
    BY <1>1, <2>1 DEF Handles, Owns
  <2>4. Races(n, c)' /\ Waits(n)'
    BY <1>2, <2>1, <2>2 DEF Races, Waits
  <2>5. Handles(n, c)'
    BY <1>1, <1>2, <2>1, <2>3, <2>4 DEF Handles, Seeks
  <2>6. QED
    BY <1>2, <2>1, <2>5, HandoverQuiet
<1>7. QED
  BY <1>3, <1>4, <1>5, <1>6

\* A node takes the key: whoever has been named would have had to be this node.
LEMMA HandoverGets ==
  ASSUME HaAssumption, Basis, NEW c \in Nodes, Handover(c), NEW n \in Nodes, Apart(n), Intact, Gets(n)
  PROVE  Handover(c)' /\ Full(n)
<1>1. /\ Handles(n, c) /\ n # None /\ c # None /\ Full(c) /\ Good(dcs.fo, c) /\ Known(dcs, c) /\ dcs \in Clusters
  BY DEF Handover, HaAssumption, Basis, Types
<1>2. /\ pc[n] = "race" /\ pc'[n] = "won" /\ dcs.owner = None /\ UNCHANGED wal
      /\ pg'[n] = pg[n] /\ task'[n] = task[n] /\ view'[n] = view[n] /\ paused'[n] = paused[n]
      /\ dcs' = [dcs EXCEPT !.owner = n]
  BY DEF Gets, Rides
<1>3. dcs'.owner = n /\ dcs'.fo = dcs.fo /\ dcs'.optime = dcs.optime /\ dcs'.hist = dcs.hist
  BY <1>1, <1>2 DEF Clusters
<1>4. Races(n, c) /\ Seeks(n) /\ Full(n) /\ pg[n] = "replica" /\ task[n] = "none"
  BY <1>1, <1>2 DEF Handles, Races, Seeks
<1>5. Races(n, c)' /\ Waits(n)' /\ Owns(n)' /\ Seeks(n)'
  BY <1>2, <1>4, FullKept DEF Races, Waits, Owns, Seeks
<1>6. Known(view[n], c)' = Known(view[n], c)
  BY <1>2 DEF Known, Lsn, Timeline
<1>7. Handles(n, c)'
  BY <1>1, <1>2, <1>3, <1>4, <1>5, <1>6 DEF Handles
<1>8. ASSUME NEW m \in Nodes \ {n}, Seeks(m)
      PROVE  view[m].fo.to # m
  <2>1. SUFFICES ASSUME view[m].fo.to = m
                 PROVE  FALSE
    OBVIOUS
  <2>2. Handles(m, c) /\ m # None
    BY DEF Handover, HaAssumption
  <2>3. dcs.fo = view[m].fo /\ Good(view[m].fo, c)
    BY <1>8, <2>1, <2>2 DEF Handles
  <2>4. m = c /\ dcs.fo # NoFailoverKey
    BY <2>1, <2>2, <2>3 DEF Good, NoFailoverKey
  <2>5. view[n].fo.to = c
    BY <1>1, <1>4, <2>1, <2>3, <2>4 DEF Handles
  <2>6. QED
    BY <1>4, <2>4, <2>5 DEF Races
<1>9. ASSUME NEW m \in Nodes \ {n}
      PROVE  /\ dcs'.owner = m <=> dcs.owner = m
             /\ dcs.owner = m => dcs'.fo = dcs.fo
             /\ Seeks(m) => dcs'.fo = NoFailoverKey \/ (view[m].fo # NoFailoverKey /\ view[m].fo.to = dcs'.fo.to)
             /\ Seeks(m) /\ view[m].fo.to = m => dcs'.fo = view[m].fo /\ dcs'.owner \in {None, m}
  <2>1. Handles(m, c) /\ m # None
    BY DEF Handover, HaAssumption
  <2>2. QED
    BY <1>2, <1>3, <1>8, <2>1 DEF Handles
<1>10. Known(dcs', c) /\ Good(dcs'.fo, c)
  BY <1>1, <1>3 DEF Known
<1>11. QED
  BY <1>2, <1>4, <1>7, <1>9, <1>10, HandoverKept

\* The holder has given the key back, kept it, or begun to promote: its cycle is over.
LEMMA HandoverHolder ==
  ASSUME HaAssumption, Basis, NEW c \in Nodes, Handover(c), NEW n \in Nodes, Apart(n), Intact, UNCHANGED wal,
         dcs.owner = n, dcs'.owner \in {n, None}, pc'[n] = "idle", pg'[n] = pg[n],
         task'[n] \in {task[n], "promote"}, task'[n] \in {"promote", "promoting"} => dcs'.owner = n /\ n \notin NoWatchdog,
         dcs'.owner = n => dcs'.fo \in Served(n),
         Known(dcs', c), Good(dcs'.fo, c),
         \A m \in Nodes \ {n} :
           Seeks(m) => dcs'.fo = NoFailoverKey \/ (view[m].fo # NoFailoverKey /\ view[m].fo.to = dcs'.fo.to)
  PROVE  Handover(c)'
<1>1. Handles(n, c) /\ n # None /\ Owns(n) /\ pg[n] = "replica"
  BY DEF Handover, HaAssumption, Handles, Owns
<1>2. Full(n)'
  BY <1>1, FullKept DEF Owns
<1>3. Owns(n)' \/ dcs'.owner = None
  BY <1>1, <1>2 DEF Owns, Served
<1>4. Waits(n)'
  BY <1>1 DEF Waits, Handles
<1>5. Handles(n, c)'
  BY <1>1, <1>3, <1>4 DEF Handles, Seeks
<1>6. ASSUME NEW m \in Nodes \ {n}
      PROVE  /\ dcs'.owner = m <=> dcs.owner = m
             /\ dcs.owner = m => dcs'.fo = dcs.fo
             /\ Seeks(m) /\ view[m].fo.to = m => dcs'.fo = view[m].fo /\ dcs'.owner \in {None, m}
  <2>1. Handles(m, c) /\ m # None
    BY DEF Handover, HaAssumption
  <2>2. QED
    BY <1>1, <2>1 DEF Handles
<1>7. QED
  BY <1>1, <1>5, <1>6, HandoverKept

LEMMA HandoverBack ==
  ASSUME HaAssumption, Basis, NEW c \in Nodes, Handover(c), NEW n \in Nodes, Apart(n), Intact, GivesBack(n)
  PROVE  Handover(c)'
<1>1. /\ dcs.owner = n /\ task'[n] = task[n] /\ task[n] = "none" /\ pc'[n] = "idle" /\ pg'[n] = pg[n] /\ UNCHANGED wal
      /\ dcs'.owner = None /\ dcs'.fo = dcs.fo /\ dcs'.optime = dcs.optime /\ dcs'.hist = dcs.hist /\ n # None
  BY DEF GivesBack, Ended, Basis, Types, Clusters, HaAssumption
<1>2. Known(dcs', c) /\ Good(dcs'.fo, c)
  BY <1>1 DEF Handover, Known
<1>3. \A m \in Nodes \ {n} :
        Seeks(m) => dcs'.fo = NoFailoverKey \/ (view[m].fo # NoFailoverKey /\ view[m].fo.to = dcs'.fo.to)
  BY <1>1 DEF Handover, Handles
<1>4. QED
  BY <1>1, <1>2, <1>3, HandoverHolder

LEMMA HandoverClaims ==
  ASSUME HaAssumption, Basis, NEW c \in Nodes, Handover(c), NEW n \in Nodes, Apart(n), Intact, Claims(n)
  PROVE  Handover(c)'
<1>1. /\ Handles(n, c) /\ n # None /\ c # None /\ c \in Fit /\ Good(dcs.fo, c) /\ Known(dcs, c)
  BY DEF Handover, HaAssumption
<1>2. /\ pc[n] = "won" /\ ~Primary(n) /\ pc'[n] = "idle" /\ pg'[n] = pg[n] /\ UNCHANGED wal
      /\ dcs'.optime = dcs.optime /\ dcs'.fo = Dropped(n)
  BY DEF Claims, Ended
<1>3. /\ dcs.owner = n /\ Races(n, c) /\ Seeks(n) /\ task[n] = "none"
  BY <1>1, <1>2 DEF Handles, Races, Seeks
<1>4. /\ dcs'.hist = dcs.hist
      /\ \/ dcs'.owner = None /\ n \in NoWatchdog /\ ~paused[n] /\ task'[n] = task[n]
         \/ dcs'.owner = n /\ (n \notin NoWatchdog \/ paused[n]) /\ task'[n] \in {task[n], "promote"}
  BY <1>2, <1>3 DEF Claims, Led
<1>5. /\ Good(view[n].fo, c) /\ (paused[n] => view[n].fo.to = n)
      /\ dcs.fo = NoFailoverKey \/ (view[n].fo # NoFailoverKey /\ view[n].fo.to = dcs.fo.to)
      /\ view[n].fo.to = n => dcs.fo = view[n].fo
  BY <1>1, <1>3 DEF Handles, Races
<1>6. paused[n] => n = c /\ view[n].fo # NoFailoverKey /\ dcs.fo = view[n].fo
  BY <1>1, <1>5 DEF Good, NoFailoverKey
<1>7. task'[n] \in {"promote", "promoting"} => dcs'.owner = n /\ n \notin NoWatchdog
  BY <1>1, <1>3, <1>4, <1>6 DEF Fit
<1>8. \/ dcs'.fo = NoFailoverKey
      \/ paused[n] /\ dcs'.fo = [from |-> None, to |-> n]
  BY <1>2, <1>5 DEF Dropped
<1>9. Good(dcs'.fo, c) /\ dcs'.fo \in Served(n)
  BY <1>1, <1>6, <1>8 DEF Good, Served
<1>10. Known(dcs', c)
  BY <1>1, <1>2, <1>4 DEF Known
<1>11. ASSUME NEW m \in Nodes \ {n}, Seeks(m)
       PROVE  dcs'.fo = NoFailoverKey \/ (view[m].fo # NoFailoverKey /\ view[m].fo.to = dcs'.fo.to)
  <2>1. Handles(m, c)
    BY DEF Handover
  <2>2. dcs.fo = NoFailoverKey \/ (view[m].fo # NoFailoverKey /\ view[m].fo.to = dcs.fo.to)
    BY <1>11, <2>1 DEF Handles
  <2>3. CASE dcs'.fo = NoFailoverKey
    BY <2>3
  <2>4. CASE paused[n] /\ dcs'.fo = [from |-> None, to |-> n]
    BY <1>5, <1>6, <2>2, <2>4
  <2>5. QED
    BY <1>8, <2>3, <2>4
<1>12. QED
  BY <1>2, <1>3, <1>4, <1>7, <1>9, <1>10, <1>11, HandoverHolder

LEMMA HandoverUpdate ==
  ASSUME HaAssumption, Basis, NEW c \in Nodes, Handover(c), NEW n \in Nodes, Apart(n), Intact, Updated(n)
  PROVE  Handover(c)'
<1>1. /\ Handles(n, c) /\ n # None /\ Full(c) /\ Known(dcs, c)
  BY DEF Handover, HaAssumption
<1>2. /\ pc[n] = "cycle" /\ task[n] = "none" /\ dcs.owner = n /\ pc'[n] = "idle" /\ pg'[n] = pg[n] /\ UNCHANGED wal
      /\ dcs'.optime = Lsn(n) /\ (paused[n] => Primary(n))
  BY DEF Updated, Ended
<1>3. view[n].fo = dcs.fo /\ dcs.fo \in Served(n) /\ pg[n] = "replica"
  BY <1>1, <1>2 DEF Handles, Owns, Served
<1>4. ~DemoteRequested(n)
  <2>1. ~(view[n].fo # NoFailoverKey /\ view[n].fo.to # n)
    BY <1>3 DEF Served
  <2>2. QED
    BY <2>1, Zenon DEF DemoteRequested, FailoverKey
<1>5. ~Primary(n) /\ ~paused[n]
  BY <1>2, <1>3 DEF Primary
<1>6. /\ dcs'.fo = NoFailoverKey /\ dcs'.hist = dcs.hist
      /\ \/ dcs'.owner = None /\ task'[n] = task[n]
         \/ dcs'.owner = n /\ n \notin NoWatchdog /\ task'[n] \in {task[n], "promote"}
  BY <1>3, <1>4, <1>5 DEF Updated, Led
<1>7. Known(dcs', c)
  <2>1. Lsn(n) <= Lsn(c)
    BY <1>1, PrefixOrder DEF Basis, Types, WalTypes, Full, Lsn
  <2>2. QED
    BY <1>1, <1>2, <1>6, <2>1 DEF Known
<1>8. Good(dcs'.fo, c) /\ dcs'.fo \in Served(n)
  BY <1>6 DEF Good, Served
<1>9. task'[n] \in {"promote", "promoting"} => dcs'.owner = n /\ n \notin NoWatchdog
  BY <1>2, <1>6
<1>10. QED
  BY <1>2, <1>6, <1>7, <1>8, <1>9, HandoverHolder

LEMMA HandoverTask ==
  ASSUME HaAssumption, Basis, NEW c \in Nodes, Handover(c), NEW n \in Nodes, Apart(n), Intact, Works(n),
         Advances(n) \/ Promotes(n) \/ Stopping(n) \/ Releases(n) \/ Comes(n) \/ Returns(n)
  PROVE  \E h \in Nodes : Line(h)'
<1>1. Handles(n, c) /\ n # None /\ Waits(n) /\ pc'[n] = pc[n] /\ view'[n] = view[n] /\ paused'[n] = paused[n]
  BY DEF Handover, Handles, HaAssumption, Works
<1>2. ASSUME UNCHANGED <<wal, dcs>>, pg[n] = "replica" => pg'[n] = "replica", Waits(n)', task[n] # "none",
             task'[n] \in {"none", "follow", "promoting"}, task'[n] = "promoting" => task[n] = "promote",
             dcs.owner = n => pg[n] = "replica"
      PROVE  Handover(c)'
  <2>1. pc[n] \notin {"race", "won"}
    BY <1>1, <1>2 DEF Handles, Races
  <2>2. dcs.owner = n => Owns(n)'
    BY <1>1, <1>2, FullKept DEF Handles, Owns
  <2>3. Known(view[n], c)' = Known(view[n], c)
    BY <1>1, <1>2 DEF Known, Lsn, Timeline
  <2>4. Handles(n, c)'
    BY <1>1, <1>2, <2>1, <2>2, <2>3 DEF Handles, Seeks
  <2>5. QED
    BY <1>2, <2>4, HandoverQuiet
<1>3. CASE Advances(n)
  BY <1>1, <1>2, <1>3 DEF Advances, Waits, Line
<1>4. CASE Comes(n)
  BY <1>1, <1>2, <1>4 DEF Comes, Waits, Line, Handles, Owns
<1>5. CASE Returns(n)
  BY <1>1, <1>2, <1>5 DEF Returns, Waits, Line, Handles, Owns
<1>6. CASE Stopping(n) \/ Releases(n)
  BY <1>1, <1>6 DEF Stopping, Releases, Waits
<1>7. CASE Promotes(n)
  <2>1. /\ task[n] = "promoting" /\ task'[n] = "waiting" /\ pg'[n] = "primary" /\ UNCHANGED dcs
        /\ \E r \in Records : wal' = Set(wal, n, Append(wal[n], r))
    BY <1>7 DEF Promotes
  <2>2. dcs.owner = n /\ pc[n] # "won" /\ n \notin NoWatchdog /\ Owns(n)
    BY <1>1, <2>1 DEF Handles
  <2>3. Full(n)'
    BY <2>1, <2>2, FullAppended DEF Owns, Basis
  <2>4. /\ dcs.fo \in Served(n)
        /\ pc'[n] = "idle" \/ (pc'[n] = "cycle" /\ view'[n].owner = n /\ view'[n].fo \in Served(n))
    BY <1>1, <2>2 DEF Owns, Served
  <2>5. ASSUME NEW m \in Nodes \ {n}
        PROVE  /\ pc'[m] # "won"
               /\ \/ pg'[m] = "replica" /\ task'[m] = "none"
                  \/ pg'[m] \in {"stopping", "down"} /\ task'[m] = "follow"
    BY <2>2 DEF Handover, Handles, Waits, Apart, Same
  <2>6. used'.requests = 1
    BY DEF Handover, Intact
  <2>7. Succeeded(n)'
    BY <2>1, <2>2, <2>3, <2>4, <2>5, <2>6 DEF Succeeded, Served
  <2>8. QED
    BY <2>7 DEF Line
<1>8. QED
  BY <1>3, <1>4, <1>5, <1>6, <1>7
-----------------------------------------------------------------------------
(* The steps of an undisturbed cluster *)

CycleDoes(n) ==
  Loads(n) \/ Retires(n) \/ Interrupted(n) \/ Joins(n) \/ Gets(n) \/ GivesBack(n) \/ Claims(n) \/ Updated(n)

TaskDoes(n) ==
  Advances(n) \/ Promotes(n) \/ Stopping(n) \/ Releases(n) \/ Comes(n) \/ Returns(n)

LEMMA CycleFlat ==
  ASSUME HaAssumption, Basis, NEW n \in Nodes, Cycle(n)
  PROVE  Apart(n) /\ Intact /\ CycleDoes(n)
<1>1. up[n] /\ Dcs(n) /\ pc[n] # "failsafe" /\ (Running(n) \/ Busy(n))
  BY DEF Basis, Sound, Steady, Dcs
<1>2. ~DcsFails(n) /\ ~FailsafeAgreed(n) /\ ~\E r \in Nodes : PostFailsafe(n, r)
  BY <1>1 DEF DcsFails, FailsafeAgreed, PostFailsafe
<1>3. ~PostRecover(n) /\ ~DownInPause(n) /\ ~Recover(n)
  BY <1>1 DEF PostRecover, DownInPause, Recover
<1>4. Load(n) \/ LongAction(n) \/ HealthCheck(n) \/ Acquire(n) \/ AfterAcquire(n)
        \/ NotPrimaryInPause(n) \/ UpdateKey(n) \/ UpdateRefused(n) \/ FollowLeader(n)
  BY <1>2, <1>3 DEF Cycle
<1>5. Intact
  BY <1>4, IntactStep
<1>6. QED
  BY <1>4, <1>5, LoadsFlat, LongFlat, HealthFlat, AcquireFlat, ClaimsFlat, PauseFlat, UpdatedFlat, RefusedFlat, FollowFlat
     DEF CycleDoes

\* Without a fault nothing happens by accident.
LEMMA NoAccident ==
  ASSUME Basis, NEW n \in Nodes, Happens(n)
  PROVE  used'.faults > 0
<1>1. up[n] /\ cut[n] = "none" /\ fs[n] = None /\ used.faults \in Nat /\ used \in Counts
  BY DEF Basis, Sound, Types, EnvTypes, Counts
<1>2. ASSUME Event("faults")
      PROVE  used'.faults > 0
  <2>1. used' = [used EXCEPT !["faults"] = @ + 1]
    BY <1>2 DEF Event, Spend
  <2>2. used'.faults = used.faults + 1
    BY <1>1, <2>1 DEF Counts
  <2>3. QED
    BY <1>1, <2>2
<1>3. ~Restart(n) /\ ~Heal(n) /\ ~FsExpires(n)
  BY <1>1 DEF Restart, Heal, FsExpires
<1>4. KeyExpires(n) \/ WatchdogFires(n) => Event("faults")
  BY <1>1 DEF KeyExpires, WatchdogFires, Dcs, Fault
<1>5. Faults(n) => Event("faults")
  BY DEF Faults, HostCrash, PatroniKilled, Shutdown, PgCrash, Cut, StartFails, Fault
<1>6. QED
  BY <1>2, <1>3, <1>4, <1>5 DEF Happens

LEMMA SoundStep ==
  ASSUME HaAssumption, Basis, NEW n \in Nodes, Apart(n), Intact, CycleDoes(n) \/ Works(n)
  PROVE  \A m \in Nodes : Sound(m)'
<1>1. ASSUME NEW m \in Nodes
      PROVE  Sound(m) /\ up'[m] = up[m] /\ cut'[m] = cut[m] /\ fs'[m] = None
  BY DEF Basis, Intact
<1>2. ASSUME NEW m \in Nodes \ {n}
      PROVE  Sound(m)'
  BY <1>1 DEF Apart, Same, Sound
<1>3. pc'[n] # "failsafe" /\ (pc'[n] # "idle" => paused'[n] = view'[n].paused)
  BY <1>1 DEF Sound, CycleDoes, Loads, Retires, Interrupted, Joins, Gets, GivesBack, Claims, Updated, Rides, Ended, Works
<1>4. QED
  BY <1>1, <1>2, <1>3 DEF Sound

LEMMA CycleLine ==
  ASSUME HaAssumption, Basis, NEW h \in Nodes, Line(h), NEW n \in Nodes, Apart(n), Intact, CycleDoes(n)
  PROVE  (\E c \in Nodes : Line(c)') /\ \A m \in Nodes : TakesKey(m) => Full(m)
<1> USE DEF CycleDoes
<1>1. CASE Reign(h)
  <2>1. Reign(h)'
    BY <1>1, ReignCycle, ReignUpdate
  <2>2. dcs.owner = h /\ h # None
    BY <1>1 DEF Reign, HaAssumption
  <2>3. QED
    BY <2>1, <2>2 DEF Line, TakesKey
<1>2. CASE Succeeded(h)
  <2>1. Succeeded(h)'
    BY <1>2, SucceededCycle
  <2>2. dcs.owner = h /\ h # None
    BY <1>2 DEF Succeeded, HaAssumption
  <2>3. QED
    BY <2>1, <2>2 DEF Line, TakesKey
<1>3. CASE Handover(h)
  <2>1. Handover(h)'
    BY <1>3, HandoverCycle, HandoverGets, HandoverBack, HandoverClaims, HandoverUpdate
  <2>2. ASSUME NEW m \in Nodes, TakesKey(m)
        PROVE  Full(m)
    <3>1. dcs.owner = None /\ dcs'.owner = m /\ m # None /\ n # None
      BY <2>2 DEF TakesKey, HaAssumption
    <3>2. Gets(n)
      <4>1. ~Claims(n)
        BY <1>3, <3>1 DEF Claims, Handover, Handles
      <4>2. QED
        BY <3>1, <4>1 DEF Loads, Retires, Interrupted, Joins, GivesBack, Updated
    <3>3. n = m
      BY <3>1, <3>2 DEF Gets, Basis, Types, Clusters
    <3>4. QED
      BY <1>3, <3>2, <3>3, HandoverGets
  <2>3. QED
    BY <2>1, <2>2 DEF Line
<1>4. QED
  BY <1>1, <1>2, <1>3 DEF Line

LEMMA TaskLine ==
  ASSUME HaAssumption, Basis, NEW h \in Nodes, Line(h), NEW n \in Nodes, Apart(n), Intact, Works(n), TaskDoes(n)
  PROVE  \E c \in Nodes : Line(c)'
BY ReignTask, HandoverTask, SucceededTask DEF Line, TaskDoes

\* No key is taken but by a cycle.
LEMMA OthersTakeNothing ==
  ASSUME HaAssumption, Types, NEW n \in Nodes, TakesKey(n)
  PROVE  /\ \A m \in Nodes : ~Task(m) /\ ~Happens(m) /\ ~Stream(m) /\ ~Write(m)
         /\ ~\E from, to \in Maybe : RequestFailover(from, to)
         /\ ~\E p \in BOOLEAN : SetPause(p)
<1>1. dcs.owner = None /\ dcs'.owner # None /\ dcs \in Clusters
  BY DEF TakesKey, HaAssumption, Types
<1>2. ASSUME NEW m \in Nodes
      PROVE  ~Task(m) /\ ~Happens(m) /\ ~Stream(m) /\ ~Write(m)
  <2>1. Task(m) => dcs' = dcs \/ dcs' = [dcs EXCEPT !.owner = None, !.optime = Lsn(m)]
    BY DEF Task, PromoteCommits, PromoteDone, PromoteFails, PromoteEnds, GracefulStop, ReleaseKey, StopDone,
           FollowDone, StartDone, RewindDone
  <2>2. Happens(m) => \/ dcs' = dcs \/ dcs' = [dcs EXCEPT !.owner = None]
                      \/ dcs' = [dcs EXCEPT !.owner = None, !.optime = Lsn(m)]
    BY Accidents DEF Accident
  <2>3. Stream(m) \/ Write(m) => dcs' = dcs
    BY DEF Stream, Write, OnlyPg
  <2>4. QED
    BY <1>1, <2>1, <2>2, <2>3 DEF Clusters
<1>3. ~\E from, to \in Maybe : RequestFailover(from, to)
  BY <1>1 DEF RequestFailover, Clusters
<1>4. ~\E p \in BOOLEAN : SetPause(p)
  BY <1>1 DEF SetPause, Clusters
<1>5. QED
  BY <1>2, <1>3, <1>4

\* What one step does to an undisturbed cluster, if it is not disturbed afterwards.
LEMMA UndisturbedStep ==
  ASSUME HaAssumption, Basis, NEW h \in Nodes, Line(h), Next, used'.faults = 0, used'.requests <= 1
  PROVE  (\A m \in Nodes : Sound(m)') /\ \E c \in Nodes : Line(c)'
<1>1. ASSUME NEW n \in Nodes, Cycle(n)
      PROVE  (\A m \in Nodes : Sound(m)') /\ \E c \in Nodes : Line(c)'
  BY <1>1, CycleFlat, SoundStep, CycleLine
<1>2. ASSUME NEW n \in Nodes, Task(n)
      PROVE  (\A m \in Nodes : Sound(m)') /\ \E c \in Nodes : Line(c)'
  <2>1. Apart(n) /\ Works(n) /\ TaskDoes(n) /\ Intact
    BY <1>2, TaskFlat, IntactStep DEF TaskDoes
  <2>2. QED
    BY <2>1, SoundStep, TaskLine
<1>3. ASSUME NEW n \in Nodes, Stream(n) \/ Write(n)
      PROVE  (\A m \in Nodes : Sound(m)') /\ \E c \in Nodes : Line(c)'
  <2>1. Intact
    BY <1>3, IntactStep
  <2>2. UNCHANGED <<pg, upstream, task, pc, view, paused>>
    BY <1>3 DEF Stream, Write, OnlyPg
  <2>3. Apart(n) /\ Works(n)
    BY <2>2 DEF Apart, Same, Works
  <2>4. QED
    BY <1>3, <2>1, <2>3, SoundStep, StreamLine, WriteLine
<1>4. ASSUME NEW n \in Nodes, Happens(n)
      PROVE  FALSE
  BY <1>4, NoAccident
<1>5. CASE (\E from, to \in Maybe : RequestFailover(from, to)) \/ (\E p \in BOOLEAN : SetPause(p))
  <2>1. UNCHANGED <<up, cut, fs, pc, paused, view>>
    BY <1>5 DEF RequestFailover, SetPause, nodeVars
  <2>2. \A m \in Nodes : Sound(m)'
    BY <2>1 DEF Basis, Sound
  <2>3. QED
    BY <1>5, <2>2, RequestLine, PauseLine
<1>6. QED
  BY <1>1, <1>2, <1>3, <1>4, <1>5 DEF Next, Happens, Maybe

\* The counts of faults and requests only grow.
LEMMA UsedGrows ==
  ASSUME HaAssumption, Types, Next
  PROVE  used.faults <= used'.faults /\ used.requests <= used'.requests
<1>1. used \in Counts
  BY DEF Types, EnvTypes
<1>2. ASSUME used' = used \/ \E what \in {"writes", "faults", "requests", "pauses"} : used' = [used EXCEPT ![what] = @ + 1]
      PROVE  used.faults <= used'.faults /\ used.requests <= used'.requests
  BY <1>1, <1>2 DEF Counts
<1>3. ASSUME NEW n \in Nodes, Cycle(n) \/ Task(n)
      PROVE  used' = used
  BY <1>3 DEF Cycle, Load, DcsFails, FailsafeAgreed, PostFailsafe, LongAction, PostRecover, DownInPause, Recover, HealthCheck,
     Acquire, AfterAcquire, NotPrimaryInPause, UpdateKey, UpdateRefused, FollowLeader, envVars, Task, PromoteCommits,
     PromoteDone, PromoteFails, PromoteEnds, GracefulStop, ReleaseKey, StopDone, FollowDone, StartDone, RewindDone, TaskRest
<1>4. ASSUME NEW n \in Nodes, Happens(n)
      PROVE  used' = used \/ used' = [used EXCEPT !["faults"] = @ + 1]
  BY <1>4, Accidents DEF Accident
<1>5. ASSUME NEW n \in Nodes, Stream(n) \/ Write(n)
      PROVE  used' = used \/ used' = [used EXCEPT !["writes"] = @ + 1]
  BY <1>5 DEF Stream, Write, Spend, envVars
<1>6. (\E from, to \in Maybe : RequestFailover(from, to)) => used' = [used EXCEPT !["requests"] = @ + 1]
  BY DEF RequestFailover, Event, Spend
<1>7. (\E p \in BOOLEAN : SetPause(p)) => used' = used \/ used' = [used EXCEPT !["pauses"] = @ + 1]
  BY DEF SetPause, Event, Spend
<1>8. QED
  BY <1>2, <1>3, <1>4, <1>5, <1>6, <1>7 DEF Next, Happens, Maybe

SwitchInv == Types /\ LineInv

TakenWith == \A n, m \in Nodes :
  used.faults = 0 /\ used.requests <= 1 /\ TakesKey(n) => IsPrefix(wal[m], wal[n])

LEMMA SwitchStep ==
  ASSUME SwitchInv, [Next]_vars
  PROVE  SwitchInv' /\ (Next => TakenWith)
<1>0. HaAssumption /\ Types /\ Types'
  BY HaAssumption, NextTypes DEF SwitchInv
<1>1. CASE UNCHANGED vars /\ ~Next
  <2>1. UNCHANGED <<dcs, view, pc, up, pg, wal, upstream, task, paused, fs, cut, used>>
    BY <1>1 DEF vars, pgVars, nodeVars, envVars
  <2>2. \A h \in Nodes : Line(h) => Line(h)'
    BY <1>0, <2>1, LineKept, FullKept
  <2>3. (\A n \in Nodes : Sound(n)) => \A n \in Nodes : Sound(n)'
    BY <2>1 DEF Sound
  <2>4. Undisturbed' => Undisturbed
    BY <2>1 DEF Undisturbed
  <2>5. LineInv'
    BY <2>2, <2>3, <2>4 DEF SwitchInv, LineInv
  <2>6. QED
    BY <1>0, <1>1, <2>5 DEF SwitchInv
<1>2. CASE Next
  <2>1. ASSUME Undisturbed
        PROVE  \E h \in Nodes : Basis /\ Line(h)
    BY <1>0, <2>1, LineIsSteady DEF SwitchInv, LineInv, Basis
  <2>2. ASSUME Undisturbed'
        PROVE  (\A m \in Nodes : Sound(m)') /\ \E c \in Nodes : Line(c)'
    <3>1. Undisturbed
      BY <1>0, <1>2, <2>2, UsedGrows DEF Undisturbed, Types, EnvTypes, Counts
    <3>2. PICK h \in Nodes : Basis /\ Line(h)
      BY <2>1, <3>1
    <3>3. used'.faults = 0 /\ used'.requests <= 1
      BY <2>2 DEF Undisturbed
    <3>4. QED
      BY <1>0, <1>2, <3>2, <3>3, UndisturbedStep
  <2>3. ASSUME NEW n \in Nodes, NEW m \in Nodes, Undisturbed, TakesKey(n)
        PROVE  IsPrefix(wal[m], wal[n])
    <3>1. PICK h \in Nodes : Basis /\ Line(h)
      BY <2>1, <2>3
    <3>2. PICK a \in Nodes : Cycle(a)
      BY <1>0, <1>2, <2>3, OthersTakeNothing DEF Next, Happens, Maybe
    <3>3. Full(n)
      BY <1>0, <2>3, <3>1, <3>2, CycleFlat, CycleLine
    <3>4. QED
      BY <3>3 DEF Full
  <2>4. LineInv'
    BY <2>2 DEF LineInv
  <2>5. QED
    BY <1>0, <2>3, <2>4 DEF SwitchInv, TakenWith, Undisturbed
<1>3. QED
  BY <1>1, <1>2

LEMMA SwitchInit ==
  ASSUME Init
  PROVE  SwitchInv
<1>1. Types
  BY InitTypes, HaAssumption
<1>2. PICK p \in Nodes \ (NoFailover \cup NoWatchdog) :
        /\ dcs = [NoView EXCEPT !.owner = p, !.optime = 1, !.hist = 1]
        /\ pc = [n \in Nodes |-> "idle"]
        /\ up = [n \in Nodes |-> TRUE]
        /\ pg = [n \in Nodes |-> IF n = p THEN "primary" ELSE "replica"]
        /\ wal = [n \in Nodes |-> <<[tl |-> 1, by |-> p]>>]
        /\ upstream = [n \in Nodes |-> IF n = p THEN None ELSE p]
        /\ task = [n \in Nodes |-> "none"]
        /\ fs = [n \in Nodes |-> None]
        /\ cut = [n \in Nodes |-> "none"]
  BY DEF Init
<1>3. \A n \in Nodes : Sound(n)
  BY <1>2 DEF Sound
<1>4. Lsn(p) = 1 /\ Timeline(p) = 1
  BY <1>2 DEF Lsn, Timeline, Last
<1>5. dcs.owner = p /\ Known(dcs, p) /\ dcs.fo = NoFailoverKey
  BY <1>2, <1>4 DEF NoView, Known
<1>6. Full(p)
  BY <1>1, <1>2, PrefixOrder DEF Full, Types, WalTypes
<1>7. Reign(p)
  BY <1>2, <1>5, <1>6 DEF Reign, Serves, Streams
<1>8. QED
  BY <1>1, <1>3, <1>7 DEF SwitchInv, LineInv, Line

\* One switchover or manual failover with nothing failing loses no write: who takes the key
\* has everything that any node has written, for any nodes, with and without pauses, and
\* whoever joins the race meanwhile.
THEOREM SwitchoverLosesNothing == Spec => SwitchoverKeepsWrites
<1>1. Init => SwitchInv
  BY SwitchInit
<1>2. SwitchInv /\ [Next]_vars => SwitchInv'
  BY SwitchStep
<1>3. SwitchInv /\ [Next]_vars =>
        [\A n, m \in Nodes :
           used.faults = 0 /\ used.requests <= 1 /\ TakesKey(n) => IsPrefix(wal[m], wal[n])]_vars
  BY SwitchStep DEF TakenWith
<1>4. QED
  BY <1>1, <1>2, <1>3, PTL DEF Spec, SwitchoverKeepsWrites
=============================================================================
