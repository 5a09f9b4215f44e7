------------------------------- MODULE Citus -------------------------------
(***************************************************************************)
(* CitusHandler on the leader of the coordinator: one thread keeps the     *)
(* rows of pg_dist_node in line with the leaders and the members of every  *)
(* group.  Tasks come from the HA loop of the coordinator (sync_meta_data) *)
(* and from the leaders of the workers over REST, around a switchover: a   *)
(* transaction opened by before_demote or before_promote pauses clients    *)
(* until after_promote commits it, or its deadline passes.                 *)
(***************************************************************************)
EXTENDS PgDistGroup, FiniteSetsExt, SequencesExt, TLC

CONSTANTS Hosts,      \* [group -> its hosts]; 0 is the group of the coordinator
          MaxEvents   \* bound: changes of the cluster, requests and failures

Groups == DOMAIN Hosts
AllHosts == UNION {Hosts[g] : g \in Groups}
FirstHost == [g \in Groups |-> CHOOSE h \in Hosts[g] : TRUE]
SecondHost == [g \in Groups |-> IF Cardinality(Hosts[g]) = 1 THEN FirstHost[g] ELSE CHOOSE h \in Hosts[g] \ {FirstHost[g]} : TRUE]
Orders == [g \in Groups |-> {f \in [Hosts[g] -> 1..Cardinality(Hosts[g])] : IsInjective(f)}]
NoTask == [group |-> 0, nodes |-> <<>>, event |-> "none", rest |-> FALSE, failover |-> FALSE]

VARIABLES dcs,      \* of every group: leader, whether its key says running primary, running members
          led,      \* hosts that have been leader of their group
          phase,    \* of every group's leader: stable, demoting, promoting, or none without a leader
          net,      \* REST requests to the coordinator that are under way
          loaded,   \* tasks of a heartbeat that has loaded the cluster before its last change
          up,       \* PostgreSQL of the coordinator runs as a primary
          db,       \* pg_dist_node, and whether its metadata is in sync on all primaries
          work,     \* ... as the open transaction has changed it
          cache,    \* _pg_dist_group
          tasks,    \* _tasks
          flight,   \* _in_flight, or NoTask
          expired,  \* its deadline has passed
          rebuild,  \* _schedule_load_pg_dist_group
          notified, \* the condition was notified while the thread waited
          pc,       \* where the thread is
          cur,      \* the task it works on: its index, whether it is still in the list, the outcome
          misled,   \* history: groups left without a primary in the cache by a rollback (see Misleads)
          events

worldVars == <<dcs, led, phase, net>>
dbVars == <<up, db, work>>
handlerVars == <<cache, tasks, flight, expired, rebuild, notified>>
threadVars == <<pc, cur>>
vars == <<worldVars, loaded, dbVars, handlerVars, threadVars, misled, events>>

NoCur == [i |-> 0, task |-> NoTask, same |-> FALSE, outcome |-> "none"]

\* All groups are registered as they are, and the thread has nothing to do.
InitNodes == [g \in Groups |-> [h \in {FirstHost[g], SecondHost[g]} |->
                Node(IF h = FirstHost[g] THEN "primary" ELSE "secondary", IF h = FirstHost[g] THEN 2 * g + 1 ELSE 2 * g + 2)]]

Init ==
  /\ dcs = [g \in Groups |-> [leader |-> FirstHost[g], primary |-> TRUE, running |-> DOMAIN InitNodes[g]]]
  /\ led = {FirstHost[g] : g \in Groups}
  /\ phase = [g \in Groups |-> "stable"]
  /\ net = {} /\ loaded = {} /\ up = TRUE
  /\ cache = InitNodes
  /\ db = [synced |-> TRUE,
            rows |-> [i \in {InitNodes[g][h].id : <<g, h>> \in {<<x, y>> \in Groups \X AllHosts : y \in DOMAIN InitNodes[x]}} |->
                       CHOOSE r \in [group : Groups, host : AllHosts, paused : {FALSE}, primary : BOOLEAN] :
                         /\ r.host \in DOMAIN InitNodes[r.group] /\ InitNodes[r.group][r.host].id = i
                         /\ r.primary <=> r.host = FirstHost[r.group]]]
  /\ work = db
  /\ tasks = <<>> /\ flight = NoTask /\ expired = FALSE /\ rebuild = FALSE /\ notified = FALSE
  /\ pc = "wait" /\ cur = NoCur
  /\ misled = {} /\ events = 0

Event == events < MaxEvents /\ events' = events + 1

-----------------------------------------------------------------------------
(* Citus: the rows map ids to hosts; a paused row has -demoted in its name. *)

Named(rows, host, paused) == {i \in DOMAIN rows : rows[i].host = host /\ rows[i].paused = paused}

CitusUpdate(d, s) ==
  LET paused == s.role = "demoted" IN
  IF s.id \notin DOMAIN d.rows \/ ~(Named(d.rows, s.host, paused) \subseteq {s.id})
  THEN [ok |-> FALSE, db |-> d, id |-> NoId]
  ELSE [ok |-> TRUE, id |-> s.id,
        db |-> [rows |-> [d.rows EXCEPT ![s.id].host = s.host, ![s.id].paused = paused],
                synced |-> d.synced /\ ~d.rows[s.id].primary]]

\* citus_add_node returns the row that has the name already.
CitusAdd(d, g, s) ==
  LET there == Named(d.rows, s.host, FALSE)
      id == 1 + Max(DOMAIN d.rows \cup {0})
  IN IF there # {} THEN [ok |-> TRUE, db |-> d, id |-> CHOOSE i \in there : TRUE]
     ELSE IF ~d.synced THEN [ok |-> FALSE, db |-> d, id |-> NoId]
     ELSE [ok |-> TRUE, id |-> id,
           db |-> [d EXCEPT !.rows = @ @@ (id :> [group |-> g, host |-> s.host, paused |-> FALSE,
                                                  primary |-> s.role = "primary"])]]

CitusRemove(d, s) ==
  LET there == Named(d.rows, s.host, FALSE) IN
  IF there = {} \/ ~d.synced THEN [ok |-> FALSE, db |-> d, id |-> NoId]
  ELSE [ok |-> TRUE, id |-> NoId, db |-> [d EXCEPT !.rows = Restrict(@, DOMAIN @ \ there)]]

\* update_node
UpdateNode(d, g, s) ==
  IF s.role \notin {"primary", "secondary", "demoted"} THEN CitusRemove(d, s)
  ELSE IF s.id # NoId THEN CitusUpdate(d, s)
  ELSE IF s.role # "demoted" THEN CitusAdd(d, g, s)
  ELSE [ok |-> TRUE, db |-> d, id |-> NoId]

\* The statements of a transition, one after the other; an added node gets its id.
Execute(d, g, nodes, stmts) ==
  FoldLeft(LAMBDA acc, s :
             IF ~acc.ok THEN acc
             ELSE LET r == UpdateNode(acc.db, g, s) IN
                  [ok |-> r.ok, db |-> r.db,
                   nodes |-> IF s.host \in DOMAIN acc.nodes /\ r.id # NoId
                             THEN [acc.nodes EXCEPT ![s.host].id = r.id] ELSE acc.nodes],
           [ok |-> TRUE, db |-> d, nodes |-> nodes], stmts)

SyncMetadata ==
  /\ up /\ ~db.synced
  /\ db' = [db EXCEPT !.synced = TRUE]
  /\ work' = IF work = db THEN db' ELSE work
  /\ UNCHANGED <<worldVars, loaded, up, handlerVars, threadVars, misled, events>>

-----------------------------------------------------------------------------
(* Tasks. *)

\* add_task: the leader of a group, and its running members as secondaries
TaskFor(event, g, rest) ==
  [group |-> g, event |-> event, rest |-> rest, failover |-> FALSE,
   nodes |-> [h \in dcs[g].running \cup {dcs[g].leader} |->
                Node(IF h # dcs[g].leader THEN "secondary"
                     ELSE IF event = "before_demote" THEN "demoted" ELSE "primary", NoId)]]

\* PgDistTask.__eq__
SameTask(a, b) == a.event = b.event /\ SameTopology(a.nodes, b.nodes)

\* What is in the cache counts as the result of after_promote.
Registration(g, known) == [NoTask EXCEPT !.group = g, !.event = "after_promote", !.nodes = known[g]]
Cached(g) == Registration(g, cache)

IndexOf(g) == {i \in DOMAIN tasks : tasks[i].group = g}

\* (As a mutant of Deferred: the transaction of a REST request is not disturbed after its deadline either.)
DeferredForever(task) ==
  /\ ~task.rest
  /\ \/ \E i \in IndexOf(task.group) : tasks[i].rest
     \/ flight # NoTask /\ flight.group = task.group /\ flight.rest

\* A task of the HA loop does not replace one from REST, nor disturb its transaction before the deadline.
Deferred(task) ==
  /\ ~task.rest
  /\ \/ \E i \in IndexOf(task.group) : tasks[i].rest
     \/ flight # NoTask /\ flight.group = task.group /\ flight.rest /\ ~expired

\* _add_task
AddTask(task) ==
  LET at == IndexOf(task.group)
      replace == \E i \in at : ~SameTask(task, tasks[i])
      append == at = {} /\ (rebuild \/ ~SameTask(task, Cached(task.group))
                              \/ (flight # NoTask /\ flight.group = task.group))
  IN IF Deferred(task) \/ ~(replace \/ append) THEN UNCHANGED <<tasks, notified, cur>>
     ELSE /\ tasks' = IF replace THEN [i \in DOMAIN tasks |-> IF i \in at THEN task ELSE tasks[i]]
                      ELSE Append(tasks, task)
          /\ cur' = IF replace /\ cur.i \in at THEN [cur EXCEPT !.same = FALSE] ELSE cur
          /\ notified' = (pc = "wait")

\* What a heartbeat of the leader of the coordinator makes of the cluster that it has loaded
Heartbeat(g) == IF dcs[g].leader # NoHost /\ dcs[g].primary THEN {TaskFor("after_promote", g, FALSE)} ELSE {}

\* A group changes in the DCS.  A heartbeat may be under way that has loaded it as it was.
GroupChanges(g, shown) ==
  /\ dcs' = [dcs EXCEPT ![g] = shown]
  /\ loaded' \in {loaded} \cup (IF up /\ ~\E t \in loaded : t.group = g THEN {loaded \cup Heartbeat(g)} ELSE {})

\* sync_meta_data for a group, every heartbeat, with the cluster as it was loaded
SyncMetaData(g) ==
  LET old == {t \in loaded : t.group = g} IN
  /\ up
  /\ \E t \in IF old # {} THEN old ELSE Heartbeat(g) : AddTask(t)
  /\ loaded' = loaded \ old
  /\ UNCHANGED <<worldVars, dbVars, cache, flight, expired, rebuild, pc, misled, events>>

\* handle_event, with the cluster that do_POST_mpp has loaded
HandleEvent(e) ==
  /\ e \in net /\ net' = net \ {e}
  /\ IF up /\ dcs[e.group].leader = e.leader
     THEN AddTask(TaskFor(e.type, e.group, TRUE)) ELSE UNCHANGED <<tasks, notified, cur>>
  /\ UNCHANGED <<dcs, led, phase, loaded, dbVars, cache, flight, expired, rebuild, pc, misled, events>>

-----------------------------------------------------------------------------
(* The thread. *)

Rollback == flight' = NoTask /\ expired' = FALSE /\ work' = db
Fail == Rollback /\ rebuild' = TRUE

\* A transition that hands the row of the new primary to an added standby marks the old primary as a
\* secondary (citus.py:228), in the cache as well, where the mark outlives the ROLLBACK of run, which
\* does not ask for the rows to be read again: as far as the cache goes the group has no primary then.
Misleads(g) == ~rebuild /\ g \in DOMAIN cache /\ Primary(cache[g]) = NoHost

\* run: is there anything to do?
Top ==
  LET due == rebuild \/ (tasks # <<>> /\ (flight # NoTask => expired)) IN
  /\ pc = "top"
  /\ pc' = IF due THEN "work" ELSE "wait"
  /\ IF due /\ flight # NoTask THEN Rollback ELSE UNCHANGED <<flight, expired, work>>
  /\ misled' = IF due /\ flight # NoTask /\ Misleads(flight.group) THEN misled \cup {flight.group} ELSE misled
  /\ UNCHANGED <<worldVars, loaded, up, db, cache, tasks, rebuild, notified, cur, events>>

\* The thread waits for a notification, and with tasks for the deadline.
Woken == pc = "wait" /\ (notified \/ (expired /\ tasks # <<>>))

RowsOf(g) == {i \in DOMAIN db.rows : db.rows[i].group = g}

\* The topology that the rows of a group stand for.
Registered(g) ==
  [h \in {db.rows[i].host : i \in RowsOf(g)} |->
     LET i == CHOOSE x \in RowsOf(g) : db.rows[x].host = h
     IN Node(IF db.rows[i].primary THEN "primary" ELSE "secondary", i)]

\* load_pg_dist_group, unless a transaction is open
Reload == rebuild /\ flight = NoTask
Loaded == IF Reload THEN [g \in Groups |-> Registered(g)] ELSE cache

\* pick_task: the one of the group whose transaction is open; otherwise the coordinator's, then the
\* oldest one, dropping those that would change nothing.
ByPriority == SelectSeq(tasks, LAMBDA t : t.group = 0) \o SelectSeq(tasks, LAMBDA t : t.group # 0)
FirstNeeded == SelectInSeq(ByPriority, LAMBDA t : ~SameTask(t, Registration(t.group, Loaded)))
Dropped == {ByPriority[i].group : i \in {j \in DOMAIN tasks : FirstNeeded = 0 \/ j < FirstNeeded}}

PickTask ==
  LET want == IF flight # NoTask THEN flight.group
              ELSE IF FirstNeeded # 0 THEN ByPriority[FirstNeeded].group ELSE -1
      left == IF flight # NoTask THEN tasks ELSE SelectSeq(tasks, LAMBDA t : t.group \notin Dropped)
      i == SelectInSeq(left, LAMBDA t : t.group = want)
  IN /\ tasks' = left
     /\ IF i = 0 THEN pc' = "top" /\ cur' = NoCur
        ELSE pc' = "process" /\ cur' = [i |-> i, task |-> left[i], same |-> TRUE, outcome |-> "none"]

\* process_tasks: an iteration, up to the task that is picked
Work ==
  /\ pc = "work" \/ Woken
  /\ notified' = FALSE
  /\ IF Reload /\ ~up
     THEN pc' = "top" /\ UNCHANGED <<cache, rebuild, tasks, cur, misled>>
     ELSE /\ cache' = Loaded
          /\ misled' = IF Reload THEN {} ELSE misled
          /\ rebuild' = (rebuild /\ ~Reload)
          /\ PickTask
  /\ UNCHANGED <<worldVars, loaded, dbVars, flight, expired, events>>

\* update_group: the transition from what is known, in a transaction of its own if none is open.
UpdateGroup(order) ==
  LET open == flight # NoTask
      old == IF open THEN flight ELSE Cached(cur.task.group)
      t == transition(cur.task.nodes, old.nodes, old.failover, order)
      r == Execute(work, cur.task.group, t.new, t.out)
  IN [ok |-> r.ok, db |-> r.db, old |-> t.old,
      task |-> [cur.task EXCEPT !.nodes = r.nodes, !.failover = t.failover]]

\* process_task.  The topology that was known is changed in place as well.
ProcessTask ==
  /\ pc = "process"
  /\ \E order \in Orders[cur.task.group] :
          LET u == UpdateGroup(order)
              commit == cur.task.event = "after_promote"
              known == IF flight # NoTask THEN cache ELSE [cache EXCEPT ![cur.task.group] = u.old]
          IN IF ~(up /\ u.ok)
             THEN /\ Fail /\ cache' = known
                  /\ cur' = [cur EXCEPT !.outcome = "error"]
                  /\ UNCHANGED db
             ELSE /\ cache' = known
                  /\ cur' = [cur EXCEPT !.task = IF commit THEN [u.task EXCEPT !.failover = FALSE] ELSE u.task,
                                        !.outcome = IF commit THEN "commit" ELSE "open"]
                  /\ work' = u.db
                  /\ db' = IF commit THEN u.db ELSE db
                  /\ flight' = IF flight # NoTask THEN [flight EXCEPT !.nodes = u.old] ELSE flight
                  /\ UNCHANGED <<expired, rebuild>>
  /\ pc' = "done"
  /\ UNCHANGED <<worldVars, loaded, up, tasks, notified, misled, events>>

\* process_tasks: the outcome is recorded, unless on_demote has cleared the tasks meanwhile; the list
\* may be shorter than it was.
Finish ==
  /\ pc = "done"
  /\ IF tasks = <<>> THEN UNCHANGED <<cache, flight, tasks, expired>>
     ELSE /\ cache' = IF cur.outcome = "commit" THEN [cache EXCEPT ![cur.task.group] = cur.task.nodes] ELSE cache
          /\ flight' = IF cur.outcome = "open" THEN cur.task ELSE NoTask
          /\ expired' = (cur.outcome = "open" /\ expired /\ ~cur.task.rest)
          /\ tasks' = IF cur.same THEN RemoveAt(tasks, cur.i) ELSE tasks
  /\ pc' = IF tasks # <<>> /\ cur.i > Len(tasks) THEN "top" ELSE "work"
  /\ cur' = NoCur
  /\ UNCHANGED <<worldVars, loaded, dbVars, rebuild, notified, misled, events>>

-----------------------------------------------------------------------------
(* The coordinator: failures of a query, demotion and promotion; deadlines. *)

Expire ==
  /\ flight.rest /\ ~expired
  /\ expired' = TRUE
  /\ UNCHANGED <<worldVars, loaded, dbVars, cache, tasks, flight, rebuild, notified, threadVars, misled, events>>

\* query: the connection is lost.
QueryFails ==
  /\ pc = "process" /\ Event
  /\ Fail
  /\ cur' = [cur EXCEPT !.outcome = "error"] /\ pc' = "done"
  /\ UNCHANGED <<worldVars, loaded, up, db, cache, tasks, notified, misled>>

\* on_demote; then PostgreSQL stops.
OnDemote ==
  /\ up /\ Event /\ loaded = {}
  /\ up' = FALSE /\ Rollback
  /\ cache' = [g \in Groups |-> <<>>] /\ tasks' = <<>>
  /\ cur' = [cur EXCEPT !.same = FALSE]
  /\ UNCHANGED <<worldVars, loaded, db, rebuild, notified, pc, misled>>

\* promote, and schedule_cache_rebuild.  PostgreSQL takes seconds for it: a task that was picked before
\* it stopped has been processed by then, and has failed.
OnPromote ==
  /\ ~up /\ pc # "process"
  /\ up' = TRUE /\ rebuild' = TRUE
  /\ UNCHANGED <<worldVars, loaded, db, work, cache, tasks, flight, expired, notified, threadVars, misled, events>>

-----------------------------------------------------------------------------
(* The groups, as the DCS shows them, and notify_mpp_coordinator. *)

Notify(g, type) == net' = net \cup {[group |-> g, leader |-> dcs'[g].leader, type |-> type]}

\* A member starts or stops.
MemberChanges(g, h) ==
  /\ h \in Hosts[g] \ {dcs[g].leader} /\ Event
  /\ GroupChanges(g, [dcs[g] EXCEPT !.running = IF h \in @ THEN @ \ {h} ELSE @ \cup {h}])
  /\ UNCHANGED <<led, phase, net, dbVars, handlerVars, threadVars, misled>>

\* demote or restart: the leader tells before it stops.
BeforeDemote(g) ==
  /\ phase[g] = "stable" /\ Event
  /\ phase' = [phase EXCEPT ![g] = "demoting"]
  /\ dcs' = dcs /\ Notify(g, "before_demote")
  /\ UNCHANGED <<led, loaded, dbVars, handlerVars, threadVars, misled>>

\* A restart is over.
AfterRestart(g) ==
  /\ phase[g] = "demoting"
  /\ phase' = [phase EXCEPT ![g] = "stable"]
  /\ dcs' = dcs /\ Notify(g, "after_promote")
  /\ UNCHANGED <<led, loaded, dbVars, handlerVars, threadVars, misled, events>>

\* The leader key goes: released after a demotion, or the leader has failed.
LeaderGone(g) ==
  /\ dcs[g].leader # NoHost
  /\ IF phase[g] = "demoting" THEN UNCHANGED events ELSE Event
  /\ phase' = [phase EXCEPT ![g] = "none"]
  /\ \E stays \in BOOLEAN :
       GroupChanges(g, [leader |-> NoHost, primary |-> FALSE,
                       running |-> IF stays THEN dcs[g].running ELSE dcs[g].running \ {dcs[g].leader}])
  /\ UNCHANGED <<led, net, dbVars, handlerVars, threadVars, misled>>

\* A member takes the key, and tells before it is promoted ...
BeforePromote(g, h) ==
  /\ phase[g] = "none" /\ h \in dcs[g].running
  /\ phase' = [phase EXCEPT ![g] = "promoting"]
  /\ GroupChanges(g, [dcs[g] EXCEPT !.leader = h])
  /\ led' = led \cup {h}
  /\ Notify(g, "before_promote")
  /\ UNCHANGED <<dbVars, handlerVars, threadVars, misled, events>>

\* ... and after, once its key says so.
AfterPromote(g) ==
  /\ phase[g] = "promoting"
  /\ phase' = [phase EXCEPT ![g] = "stable"]
  /\ GroupChanges(g, [dcs[g] EXCEPT !.primary = TRUE])
  /\ Notify(g, "after_promote")
  /\ UNCHANGED <<led, dbVars, handlerVars, threadVars, misled, events>>

Workers == Groups \ {0}

Thread == Top \/ Work \/ ProcessTask \/ Finish

Next ==
  \/ Thread \/ Expire \/ QueryFails \/ OnDemote \/ OnPromote \/ SyncMetadata
  \/ \E g \in Groups : SyncMetaData(g) \/ \E h \in Hosts[g] : MemberChanges(g, h)
  \/ \E g \in Workers :
       \/ BeforeDemote(g) \/ AfterRestart(g) \/ LeaderGone(g) \/ AfterPromote(g)
       \/ \E h \in Hosts[g] : BeforePromote(g, h)
  \/ \E e \in net : HandleEvent(e)

\* The thread goes on, deadlines pass, a stopped coordinator is promoted again and its metadata synced:
\* weak fairness of Top, Work, ProcessTask, Finish, Expire, OnPromote and SyncMetadata.  Each is enabled
\* exactly where it has something to do, and is the way out of there, which is cheaper to see than ENABLED.
Proceeds ==
  /\ \A at \in {"top", "process", "done"} : []<>(pc # at)
  /\ []<>~(pc = "work" \/ Woken)
  /\ []<>~(flight.rest /\ ~expired)
  /\ []<>(up \/ pc = "process")
  /\ []<>(~up \/ db.synced)

Fairness == Proceeds /\ \A g \in Groups : WF_vars(SyncMetaData(g))

Spec == Init /\ [][Next]_vars /\ Fairness

-----------------------------------------------------------------------------
TypeOK ==
  /\ \A g \in Groups : dcs[g].leader \in Hosts[g] \cup {NoHost} /\ dcs[g].running \subseteq Hosts[g]
  /\ Len(tasks) <= Cardinality(Groups)
  /\ \A g \in Groups : Cardinality(IndexOf(g)) <= 1
  /\ pc \in {"top", "wait", "work", "process", "done"}
  /\ \A d \in {db, work} : \A i, j \in DOMAIN d.rows :
       i # j => ~(d.rows[i].host = d.rows[j].host /\ d.rows[i].paused = d.rows[j].paused)

\* The coordinator never sends the writes of a group to a host that has not been its leader: whatever
\* changes the row of a primary, or adds one, writes the address of a leader, past or present, to it.
\* Excused is what a rolled-back transaction has misled (see Misleads), until the rows are read again.
PrimaryHasLed ==
  [][\A i \in DOMAIN db'.rows :
       db'.rows[i].primary /\ (i \in DOMAIN db.rows => db'.rows[i].host # db.rows[i].host)
         => db'.rows[i].host \in led \/ db'.rows[i].group \in misled]_vars

\* Clients are only paused inside of a transaction: no row that is committed has -demoted in its name,
\* whatever of before_demote, before_promote and after_promote comes, and in whatever order.
NoPauseCommitted == \A i \in DOMAIN db.rows : ~db.rows[i].paused

\* When the cluster is left alone with leaders in all groups, the writes of every group get to its leader
\* and to no other host.  Excused are the groups that a rolled-back transaction has misled (see Misleads).
WritesGoTo(g) == {db.rows[i].host : i \in {x \in RowsOf(g) : db.rows[x].primary}}
Quiet == \A g \in Groups : phase[g] = "stable"
LeaderShown == <>[]Quiet => <>[](\A g \in Groups \ misled : WritesGoTo(g) = {dcs[g].leader})

\* citus.py:282: "The inconsistency will be automatically resolved on the next Patroni heartbeat loop":
\* pg_dist_node gets to show the standbys as well.
Shown(g) == SameTopology(Registered(g), TaskFor("after_promote", g, FALSE).nodes)
StandbysShown == <>[]Quiet => <>[](\A g \in Groups \ misled : Shown(g))
=============================================================================
