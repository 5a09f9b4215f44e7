--------------------------- MODULE DynamicConfig ---------------------------
(***************************************************************************)
(* The dynamic configuration: the /config key of the DCS, the requests that *)
(* edit it (PATCH and PUT /config, patronictl edit-config), and how every  *)
(* node takes a new version over: Config.set_dynamic_configuration in the  *)
(* main loop, then the reload of the watchdog, of PostgreSQL and of the    *)
(* DCS object.  PostgreSQL (12 or newer) takes max_connections over when   *)
(* it restarts, and a standby refuses to run with less than its WAL asks.  *)
(*                                                                         *)
(* The main loop and the REST thread of a Patroni share objects: get_      *)
(* cluster leaves its result in dcs._cluster, set_dynamic_configuration    *)
(* keeps the dictionary it is given, and patch_config changes the nested   *)
(* dictionaries of the one it has read in place.  "shared" says who else   *)
(* holds the dictionary of the request under way; there is one at a time.  *)
(*                                                                         *)
(* The data is two keys: t, the timeouts at the top level, and conns, the  *)
(* nested postgresql.parameters.max_connections.                           *)
(***************************************************************************)
EXTENDS Integers, Sequences, SequencesExt

CONSTANTS
  Nodes,
  Absent,         \* no such key
  FirstLeader,    \* the leader in the beginning
  FirstData,      \* /config in the beginning
  TimeoutChoices, \* values that edits give the timeouts: [loop_wait, retry_timeout, ttl]
  ConnsChoices,   \* values that edits give max_connections
  Api,            \* nodes that clients send their requests to
  ZooKeeper,      \* a /config that was never changed has version 0, which stands for no version
  MaxEdits, MaxEvents \* bounds: edits, and faults with operator actions

MinConns == 25
DefaultConns == 100
MinLoopWait == 1
MinRetryTimeout == 3
MinTtl == 20

Timeouts == [loop_wait : Int, retry_timeout : Int, ttl : Int]

ASSUME FirstAssumption == FirstLeader \in Nodes /\ FirstData \in [t : Timeouts, conns : Nat]
ASSUME ChoicesAssumption ==
  /\ TimeoutChoices \subseteq Timeouts
  /\ ConnsChoices \subseteq Nat /\ Absent \notin Nat /\ Api \subseteq Nodes
ASSUME BoundsAssumption == MaxEdits \in Nat /\ MaxEvents \in Nat /\ ZooKeeper \in BOOLEAN

VARIABLES
  config,  \* /config: version and data (Absent when it is wiped)
  lead,    \* the node with the leader key
  wal,     \* the max_connections records of the WAL, as primaries wrote them
  up,      \* nodes whose Patroni runs
  pc,      \* where the main loop is
  object,  \* dcs.cluster.config as long as this cycle has to look at it: version, data, and whether
           \* a PATCH has changed it in place
  shared,  \* who holds the dictionary of the REST request: "dcs", "config"
  request, \* the PATCH or PUT under way
  editor,  \* the patronictl edit-config under way
  conf,    \* Config: version, dynamic configuration, effective configuration, cache_needs_saving
  disk,    \* patroni.dynamic.json
  timers,  \* the timeouts of the dcs object and of the watchdog
  param,   \* max_connections: in _server_parameters, in postgresql.conf; the pending_restart flag
  diff,    \* param_diff of the reload under way
  pg,      \* PostgreSQL: state, role, the value it runs with, the records it has replayed
  missed,  \* history: why a node has not taken over the version it has seen
  used     \* what is used up of the bounds

mainVars == <<pc, conf, disk, timers, param, diff>>
sharedVars == <<object, shared>>
vars == <<config, lead, wal, up, mainVars, sharedVars, request, editor, pg, missed, used>>

-----------------------------------------------------------------------------
(* Config: the effective configuration. *)

AtLeast(x, least) == IF x < least THEN least ELSE x

\* Mutant: loop_wait is reduced before the two retries are looked at.
AdjustLoopWaitOnly(t) ==
  LET rt  == AtLeast(t.retry_timeout, MinRetryTimeout)
      ttl == AtLeast(t.ttl, MinTtl)
      lw  == AtLeast(t.loop_wait, MinLoopWait)
  IN [loop_wait |-> IF lw + 2 * rt > ttl THEN AtLeast(ttl - 2 * rt, MinLoopWait) ELSE lw,
      retry_timeout |-> rt, ttl |-> ttl]

\* _validate_and_adjust_timeouts
AdjustTimeouts(t) ==
  LET rt  == AtLeast(t.retry_timeout, MinRetryTimeout)
      ttl == AtLeast(t.ttl, MinTtl)
      lw  == AtLeast(t.loop_wait, MinLoopWait)
  IN IF MinLoopWait + 2 * rt > ttl
       THEN [loop_wait |-> MinLoopWait, retry_timeout |-> (ttl - MinLoopWait) \div 2, ttl |-> ttl]
       ELSE [loop_wait |-> IF lw + 2 * rt > ttl THEN ttl - 2 * rt ELSE lw,
             retry_timeout |-> rt, ttl |-> ttl]

Adjusted(data) == [data EXCEPT !.t = AdjustTimeouts(@)]

\* Mutant: a value that fails its validator is kept.
EffectiveConnsUnchecked(conns) == conns

\* _process_postgresql_parameters: a value that fails its validator gives way to the default.
EffectiveConns(conns) == IF conns >= MinConns THEN conns ELSE DefaultConns

\* _build_effective_configuration; the local configuration may set neither of the two keys.
Effective(dyn) == [t |-> dyn.t, conns |-> EffectiveConns(dyn.conns)]

\* set_dynamic_configuration of the ClusterConfig o: what becomes of the Config c.
SetDynamic(c, o) ==
  IF o.ver = c.ver THEN c
  ELSE IF o.data = c.dyn THEN [c EXCEPT !.ver = o.ver]
  ELSE [ver |-> o.ver, dyn |-> Adjusted(o.data), eff |-> Effective(Adjusted(o.data)), saving |-> TRUE]

\* get_server_parameters
ServerParameters(c) == c.eff.conns

\* Mutant: the dictionaries are compared without those in them.
ChangesAtTheTop(c, o) == o.ver # c.ver /\ o.data.t # c.dyn.t

\* deep_compare: set_dynamic_configuration returns True.
Changes(c, o) == o.ver # c.ver /\ o.data # c.dyn

-----------------------------------------------------------------------------
NoConfig  == [ver |-> -1, data |-> Absent, dirty |-> FALSE]
NoRequest == [pc |-> "none", kind |-> "patch", key |-> "t", val |-> Absent, ver |-> -1, data |-> Absent]

Init ==
  LET dyn == Adjusted(FirstData)
      c == [ver |-> 0, dyn |-> dyn, eff |-> Effective(dyn), saving |-> FALSE]
      conns == c.eff.conns
  IN
  /\ config = [ver |-> 0, data |-> FirstData]
  /\ lead = FirstLeader
  /\ wal = <<conns>>
  /\ up = Nodes
  /\ pc = [n \in Nodes |-> "idle"]
  /\ object = [n \in Nodes |-> NoConfig]
  /\ shared = [n \in Nodes |-> {}]
  /\ request = [n \in Nodes |-> NoRequest]
  /\ editor = NoRequest
  /\ conf = [n \in Nodes |-> c]
  /\ disk = [n \in Nodes |-> dyn]
  /\ timers = [n \in Nodes |-> [dcs |-> dyn.t, watchdog |-> dyn.t]]
  /\ param = [n \in Nodes |-> [server |-> conns, file |-> conns, flag |-> FALSE]]
  /\ diff = [n \in Nodes |-> FALSE]
  /\ pg = [n \in Nodes |-> [state |-> "running", role |-> IF n = lead THEN "primary" ELSE "replica",
                            run |-> conns, pos |-> 1]]
  /\ missed = [n \in Nodes |-> {}]
  /\ used = [edits |-> 0, events |-> 0]

Set(f, n, v) == [f EXCEPT ![n] = v]
Event == used.events < MaxEvents /\ used' = [used EXCEPT !.events = @ + 1]

IsPrimary(n) == pg[n].role = "primary"
Runs(n)      == pg[n].state = "running"
Required(n)  == wal[pg[n].pos]        \* the setting in pg_controldata

-----------------------------------------------------------------------------
(* The main loop *)

\* get_cluster: a new object takes the place of the one in dcs._cluster.
GetCluster(n) == object' = Set(object, n, [ver |-> config.ver, data |-> config.data, dirty |-> FALSE])

\* Ha.run_cycle; the leader writes /config again when it has been wiped.  (Where no client
\* will send a request a cycle that finds nothing new is left out: it would change nothing.)
HaCycle(n) ==
  /\ n \in up /\ pc[n] = "idle"
  /\ (n \in Api /\ used.edits < MaxEdits) \/ config.ver # conf[n].ver \/ config.data = Absent
  /\ pc' = Set(pc, n, "ran")
  /\ IF config.data = Absent /\ lead = n
       THEN /\ config' = [ver |-> config.ver + 1, data |-> conf[n].dyn]
            /\ object' = Set(object, n, [ver |-> config'.ver, data |-> config'.data, dirty |-> FALSE])
       ELSE GetCluster(n) /\ UNCHANGED config
  /\ shared' = Set(shared, n, shared[n] \ {"dcs"})
  /\ UNCHANGED <<lead, wal, up, request, editor, conf, disk, timers, param, diff, pg, missed, used>>

\* The Config c is what the ClusterConfig o makes of it.
TakenFrom(c, o) == o.data # Absent /\ c.dyn = Adjusted(o.data) /\ c.eff = Effective(c.dyn)

\* _run_cycle: dcs.cluster is what the main loop or the REST thread read last.
ApplyConfig(n) ==
  LET o == object[n] IN
  /\ n \in up /\ pc[n] = "ran"
  /\ IF o.data # Absent /\ Changes(conf[n], o)
       THEN /\ pc' = Set(pc, n, "reload")
            /\ conf' = Set(conf, n, SetDynamic(conf[n], o))
            /\ shared' = Set(shared, n, IF "dcs" \in shared[n] THEN {"config"} ELSE {})
            /\ request' = IF "dcs" \in shared[n] /\ request[n].pc = "read"
                            THEN [request EXCEPT ![n].data = Adjusted(@)] ELSE request
       ELSE /\ pc' = Set(pc, n, IF conf[n].saving THEN "save" ELSE "idle")
            /\ conf' = IF o.data # Absent THEN Set(conf, n, SetDynamic(conf[n], o)) ELSE conf
            /\ shared' = Set(shared, n, shared[n] \ {"dcs"})
            /\ UNCHANGED request
  /\ object' = Set(object, n, NoConfig)
  /\ missed' = Set(missed, n, IF o.dirty /\ Changes(conf[n], o) THEN missed[n] \cup {"patched"}
                              ELSE IF ~o.dirty /\ TakenFrom(conf'[n], o) THEN missed[n] \ {"patched"}
                              ELSE missed[n])
  /\ UNCHANGED <<config, lead, wal, up, editor, disk, timers, param, diff, pg, used>>

DcsReloaded(n) == timers' = Set(timers, n, [dcs |-> conf[n].eff.t, watchdog |-> conf[n].eff.t])
Missing(n, why) == missed' = Set(missed, n, (missed[n] \cap {"patched"}) \cup why)

\* Patroni.reload_config up to the reload of PostgreSQL, which is running.
ReloadRunning(n, new) ==
  /\ IF pg[n].run # new \/ param[n].server # pg[n].run \/ pc[n] = "hup"
       THEN /\ param' = Set(param, n, [param[n] EXCEPT !.server = new, !.file = new])
            /\ diff' = Set(diff, n, pg[n].run # new)
            /\ pc' = Set(pc, n, "check")
            /\ timers' = [timers EXCEPT ![n].watchdog = conf[n].eff.t]
       ELSE /\ param' = Set(param, n, [param[n] EXCEPT !.server = new, !.flag = FALSE])
            /\ pc' = Set(pc, n, "save")
            /\ DcsReloaded(n) /\ UNCHANGED diff
  /\ Missing(n, {})

\* The query of pg_settings raises: the watchdog has been reloaded, and nothing else is.
ReloadFails(n) ==
  /\ n \in up /\ pc[n] \in {"reload", "hup"} /\ Runs(n) /\ Event
  /\ timers' = [timers EXCEPT ![n].watchdog = conf[n].eff.t]
  /\ pc' = Set(pc, n, "save")
  /\ missed' = Set(missed, n, missed[n] \cup {"failed"})
  /\ UNCHANGED <<config, lead, wal, up, sharedVars, request, editor, conf, disk, param, diff, pg>>

\* PostgreSQL does not run, or not yet: only _server_parameters changes, and the flag is cleared.
ReloadStopped(n, new) ==
  /\ param' = Set(param, n, [server |-> new, file |-> IF pc[n] = "hup" THEN new ELSE param[n].file, flag |-> FALSE])
  /\ Missing(n, IF pg[n].state = "starting" /\ pg[n].run # new THEN {"started"} ELSE {})
  /\ pc' = Set(pc, n, "save")
  /\ DcsReloaded(n) /\ UNCHANGED diff

\* Patroni.reload_config
Reload(n) ==
  /\ n \in up /\ pc[n] \in {"reload", "hup"}
  /\ LET new == ServerParameters(conf[n]) IN IF Runs(n) THEN ReloadRunning(n, new) ELSE ReloadStopped(n, new)
  /\ UNCHANGED <<config, lead, wal, up, sharedVars, request, editor, conf, disk, pg, used>>

\* A second after pg_ctl reload: which parameters wait for a restart?  The rest of reload_config.
ReloadCheck(n) ==
  /\ n \in up /\ pc[n] = "check"
  /\ param' = [param EXCEPT ![n].flag = IF Runs(n) THEN param[n].file # pg[n].run ELSE diff[n]]
  /\ DcsReloaded(n)
  /\ pc' = Set(pc, n, "save")
  /\ diff' = Set(diff, n, FALSE)
  /\ UNCHANGED <<config, lead, wal, up, sharedVars, request, editor, conf, disk, pg, missed, used>>

\* save_cache
SaveCache(n) ==
  /\ n \in up /\ pc[n] = "save"
  /\ pc' = Set(pc, n, "idle")
  /\ disk' = Set(disk, n, IF conf[n].saving THEN conf[n].dyn ELSE disk[n])
  /\ conf' = [conf EXCEPT ![n].saving = FALSE]
  /\ UNCHANGED <<config, lead, wal, up, sharedVars, request, editor, timers, param, diff, pg, missed, used>>

\* SIGHUP; the local configuration has changed (in keys of no interest here) or has not.
Sighup(n) ==
  /\ n \in up /\ pc[n] = "idle" /\ Event
  /\ \E localChanged \in BOOLEAN :
       conf' = IF localChanged THEN [conf EXCEPT ![n].eff = Effective(conf[n].dyn)] ELSE conf
  /\ pc' = Set(pc, n, "hup")
  /\ UNCHANGED <<config, lead, wal, up, sharedVars, request, editor, disk, timers, param, diff, pg, missed>>

-----------------------------------------------------------------------------
(* Edits of /config *)

\* Mutant: the version is left out.
AcceptsAny(ver) == config.data # Absent

\* set_config_value with a version: a compare and set.
Accepts(ver) == config.data # Absent /\ (config.ver = ver \/ (ZooKeeper /\ ver = 0))

Publish(data) == config' = [ver |-> config.ver + 1, data |-> data]

\* patch_config of the data by one key.
PatchConfig(data, key, val) == [data EXCEPT ![key] = val]

ValuesOf(key) == IF key = "t" THEN TimeoutChoices ELSE ConnsChoices

\* do_PATCH_config, do_PUT_config (of the first configuration): get_cluster leaves the object in dcs._cluster.
RequestRead(n) ==
  /\ n \in up \cap Api /\ request[n].pc = "none" /\ used.edits < MaxEdits
  /\ LET read == [NoRequest EXCEPT !.pc = "read", !.ver = config.ver, !.data = config.data] IN
     \/ request' = Set(request, n, [read EXCEPT !.kind = "put"])
     \/ /\ config.data # Absent
        /\ \E key \in {"t", "conns"} : \E val \in ValuesOf(key) :
             request' = Set(request, n, [read EXCEPT !.key = key, !.val = val])
  /\ IF pc[n] = "ran" THEN GetCluster(n) /\ shared' = Set(shared, n, {"dcs"})
     ELSE UNCHANGED object /\ shared' = Set(shared, n, {})
  /\ used' = [used EXCEPT !.edits = @ + 1]
  /\ UNCHANGED <<config, lead, wal, up, mainVars, editor, pg, missed>>

RequestEnds(n) == request' = Set(request, n, NoRequest) /\ shared' = Set(shared, n, {})

\* patch_config: data is a copy of the dictionary, but not of the dictionaries in it.
PatchMerge(n) ==
  LET r == request[n]
      merged == PatchConfig(r.data, r.key, r.val)
      inPlace == r.key = "conns"
  IN
  /\ r.pc = "read" /\ r.kind = "patch"
  /\ IF merged = r.data
       THEN RequestEnds(n) /\ UNCHANGED <<object, conf, missed>>
       ELSE /\ request' = Set(request, n, [r EXCEPT !.pc = "merged", !.data = merged])
            /\ object' = IF inPlace /\ "dcs" \in shared[n]
                           THEN [object EXCEPT ![n].data.conns = r.val, ![n].dirty = TRUE] ELSE object
            /\ conf' = IF inPlace /\ "config" \in shared[n]
                         THEN [conf EXCEPT ![n].dyn.conns = r.val] ELSE conf
            /\ missed' = IF inPlace /\ "config" \in shared[n]
                           THEN Set(missed, n, missed[n] \cup {"patched"}) ELSE missed
            /\ UNCHANGED shared
  /\ UNCHANGED <<config, lead, wal, up, pc, disk, timers, param, diff, editor, pg, used>>

\* The compare and set of a PATCH: 200, or 409.
PatchWrite(n) ==
  /\ request[n].pc = "merged"
  /\ IF Accepts(request[n].ver) THEN Publish(request[n].data) ELSE UNCHANGED config
  /\ RequestEnds(n)
  /\ UNCHANGED <<lead, wal, up, mainVars, object, editor, pg, missed, used>>

\* A PUT replaces the whole configuration, whatever it is by now.
PutWrite(n) ==
  /\ request[n].pc = "read" /\ request[n].kind = "put"
  /\ IF request[n].data # FirstData THEN Publish(FirstData) ELSE UNCHANGED config
  /\ RequestEnds(n)
  /\ UNCHANGED <<lead, wal, up, mainVars, object, editor, pg, missed, used>>

\* The DCS cannot be written.
RequestFails(n) ==
  /\ request[n].pc = "merged" /\ Event
  /\ RequestEnds(n)
  /\ UNCHANGED <<config, lead, wal, up, mainVars, object, editor, pg, missed>>

\* patronictl edit-config: the user sees the configuration, changes it, and confirms.
EditRead ==
  /\ editor.pc = "none" /\ config.data # Absent /\ used.edits < MaxEdits
  /\ \E key \in {"t", "conns"} : \E val \in ValuesOf(key) :
       /\ config.data[key] # val
       /\ editor' = [pc |-> "read", kind |-> "patch", key |-> key, val |-> val,
                     ver |-> config.ver, data |-> PatchConfig(config.data, key, val)]
  /\ used' = [used EXCEPT !.edits = @ + 1]
  /\ UNCHANGED <<config, lead, wal, up, mainVars, sharedVars, request, pg, missed>>

EditWrite ==
  /\ editor.pc = "read"
  /\ IF Accepts(editor.ver) THEN Publish(editor.data) ELSE UNCHANGED config
  /\ editor' = NoRequest
  /\ UNCHANGED <<lead, wal, up, mainVars, sharedVars, request, pg, missed, used>>

\* Somebody removes /config.
Wipe ==
  /\ config.data # Absent /\ Event
  /\ config' = [config EXCEPT !.data = Absent]
  /\ UNCHANGED <<lead, wal, up, mainVars, sharedVars, request, editor, pg, missed>>

-----------------------------------------------------------------------------
(* PostgreSQL *)

\* Mutant: a standby starts with the configured value.
ConfiguredValue(n, role) == param[n].server

\* effective_configuration: a standby starts with what its pg_controldata asks for.
EffectiveConfiguration(n, role) ==
  IF role = "primary" \/ param[n].server >= Required(n) THEN param[n].server ELSE Required(n)

\* Mutant: start clears the reasons after the configuration has been worked out.
NoFlagAtStart(n, value) == FALSE

\* start clears the reasons for a restart, and effective_configuration sets them again.
FlagAtStart(n, value) == value # param[n].server

\* Postgresql.start, by the thread of a restart or of the recovery that the main loop has started.
StartPg(n) ==
  LET role == IF lead = n THEN "primary" ELSE "replica"
      value == EffectiveConfiguration(n, role)
  IN
  /\ n \in up
  /\ pg[n].state = "restarting" \/ (pg[n].state = "down" /\ pc[n] # "check")
  /\ pg' = Set(pg, n, [state |-> "starting", role |-> role, run |-> value, pos |-> pg[n].pos])
  /\ param' = Set(param, n, [param[n] EXCEPT !.file = value, !.flag = FlagAtStart(n, value)])
  /\ missed' = Set(missed, n, IF pc[n] = "check" THEN missed[n] \cup {"started"} ELSE missed[n] \ {"started"})
  /\ UNCHANGED <<config, lead, wal, up, pc, conf, disk, timers, diff, sharedVars, request, editor, used>>

\* A primary that runs with another value writes a record of it.
Recorded(m, run, others) ==
  IF run # Last(wal) THEN wal' = Append(wal, run) /\ pg' = Set(others, m, [others[m] EXCEPT !.pos = Len(wal) + 1])
  ELSE pg' = others /\ UNCHANGED wal

\* PostgreSQL accepts connections.
PgUp(n) ==
  /\ pg[n].state = "starting"
  /\ LET upNow == [pg EXCEPT ![n].state = "running"] IN
     IF IsPrimary(n) THEN Recorded(n, pg[n].run, upNow) ELSE pg' = upNow /\ UNCHANGED wal
  /\ UNCHANGED <<config, lead, up, mainVars, sharedVars, request, editor, missed, used>>

\* A standby replays a record, and stops when it runs with less (from version 14 on it pauses, and
\* handle_parameter_change resumes it so that it stops).
Replay(n) ==
  /\ pg[n].role = "replica" /\ pg[n].state \in {"starting", "running"} /\ pg[n].pos < Len(wal)
  /\ pg' = [pg EXCEPT ![n].pos = @ + 1,
                      ![n].state = IF pg[n].run < wal[pg[n].pos + 1] THEN "down" ELSE @]
  /\ UNCHANGED <<config, lead, wal, up, mainVars, sharedVars, request, editor, missed, used>>

PgCrash(n) ==
  /\ pg[n].state \in {"starting", "running"} /\ Event
  /\ pg' = [pg EXCEPT ![n].state = "down"]
  /\ UNCHANGED <<config, lead, wal, up, mainVars, sharedVars, request, editor, missed>>

\* patronictl restart --pending
Restart(n) ==
  /\ n \in up /\ Runs(n) /\ param[n].flag
  /\ pg' = [pg EXCEPT ![n].state = "restarting"]
  /\ UNCHANGED <<config, lead, wal, up, mainVars, sharedVars, request, editor, missed, used>>

\* A switchover from the leader to m, which has replayed everything.
Switchover(m) ==
  /\ {lead, m} \subseteq up /\ m # lead /\ Runs(lead) /\ IsPrimary(lead) /\ Runs(m)
  /\ pg[m].pos = Len(wal) /\ Event
  /\ lead' = m
  /\ Recorded(m, pg[m].run, [pg EXCEPT ![lead].state = "down", ![lead].role = "replica", ![m].role = "primary"])
  /\ UNCHANGED <<config, up, mainVars, sharedVars, request, editor, missed>>

-----------------------------------------------------------------------------
(* Patroni ends and starts *)

Crash(n) ==
  /\ n \in up /\ Event
  /\ up' = up \ {n}
  /\ pc' = Set(pc, n, "idle")
  /\ diff' = Set(diff, n, FALSE)
  /\ object' = Set(object, n, NoConfig)
  /\ RequestEnds(n)
  /\ missed' = Set(missed, n, {})
  /\ pg' = IF pg[n].state = "restarting" THEN [pg EXCEPT ![n].state = "down"] ELSE pg
  /\ UNCHANGED <<config, lead, wal, conf, disk, timers, param, editor>>

\* _load_cache
LoadCache(n) ==
  LET cached == Adjusted(disk[n]) IN [ver |-> -1, dyn |-> cached, eff |-> Effective(cached), saving |-> FALSE]

\* apply_dynamic_configuration: /config is taken if there is one.
ApplyDynamic(c) == IF config.data = Absent THEN c ELSE SetDynamic(c, config)

\* load_current_server_parameters
RunningParameters(n) == pg[n].run

\* Postgresql.__init__ joins a PostgreSQL that runs: only a primary is given the new parameters.
StartPatroni(n) ==
  LET c == ApplyDynamic(LoadCache(n))
      new == ServerParameters(c)
      joins == Runs(n) /\ ~IsPrimary(n)
  IN
  /\ n \notin up
  /\ up' = up \cup {n}
  /\ conf' = Set(conf, n, c)
  /\ timers' = Set(timers, n, [dcs |-> c.eff.t, watchdog |-> c.eff.t])
  /\ param' = Set(param, n, [server |-> IF joins THEN RunningParameters(n) ELSE new,
                             file |-> IF Runs(n) /\ IsPrimary(n) THEN new ELSE param[n].file,
                             flag |-> Runs(n) /\ IsPrimary(n) /\ pg[n].run # new])
  /\ missed' = Set(missed, n, IF pg[n].run = new THEN {} ELSE IF joins THEN {"joined"}
                              ELSE IF pg[n].state = "starting" THEN {"started"} ELSE {})
  /\ UNCHANGED <<config, lead, wal, pc, disk, diff, sharedVars, request, editor, pg, used>>

Steps(n) == HaCycle(n) \/ ApplyConfig(n) \/ Reload(n) \/ ReloadCheck(n) \/ SaveCache(n)
Requests(n) == RequestRead(n) \/ PatchMerge(n) \/ PatchWrite(n) \/ PutWrite(n)
Faults(n) == ReloadFails(n) \/ RequestFails(n) \/ PgCrash(n) \/ Crash(n) \/ Sighup(n) \/ Switchover(n)

Next ==
  \/ \E n \in Nodes : Steps(n) \/ Requests(n) \/ Faults(n)
  \/ \E n \in Nodes : StartPg(n) \/ PgUp(n) \/ Replay(n) \/ Restart(n) \/ StartPatroni(n)
  \/ EditRead \/ EditWrite \/ Wipe

\* The main loop and the REST thread run, what ends is started again, WAL is replayed however often the standby is
\* restarted, and the operator restarts the nodes that say they need it.
Fairness ==
  \A n \in Nodes :
    /\ WF_vars(Steps(n))
    /\ WF_vars(StartPg(n)) /\ WF_vars(PgUp(n)) /\ WF_vars(StartPatroni(n))
    /\ WF_vars(Restart(n))
    /\ WF_vars(PatchMerge(n)) /\ WF_vars(PatchWrite(n)) /\ WF_vars(PutWrite(n))
    /\ SF_vars(Replay(n))

Spec == Init /\ [][Next]_vars /\ Fairness

-----------------------------------------------------------------------------
(* Properties *)

Data == [t : Timeouts, conns : Nat]

\* Whatever was written to /config, what a node works with is valid: its max_connections passes the
\* validator, and its timeouts, in the DCS object and in the watchdog, satisfy the rule that the
\* leader's race against its ttl rests on (_validate_and_adjust_timeouts).
Fits(t) == t.loop_wait >= 1 /\ t.retry_timeout >= 3 /\ t.loop_wait + 2 * t.retry_timeout <= t.ttl
EffectiveIsValid ==
  \A n \in Nodes : conf[n].eff.conns >= MinConns /\ Fits(timers[n].dcs) /\ Fits(timers[n].watchdog)

\* A standby never runs with fewer connections than the WAL it has replayed asks for, through
\* switchovers, restarts of either side and changes of the configuration (effective_configuration).
StandbyStarts ==
  \A n \in Nodes : pg[n].role = "replica" /\ pg[n].state \in {"starting", "running"} => pg[n].run >= Required(n)

\* A node that runs with another value than its configuration says is marked pending_restart once
\* its cycle is over, unless it has missed the change (see "missed").
SaysSo ==
  \A n \in up :
    pc[n] = "idle" /\ missed[n] = {} /\ Runs(n) /\ pg[n].run # param[n].server => param[n].flag

\* A PATCH or an edit-config never takes back another edit: what it has not named is as it was
\* when it writes, up to the adjustment of the timeouts.
KeepsOthers(r) == \A key \in {"t", "conns"} \ {r.key} :
                    IF key = "t" THEN AdjustTimeouts(config'.data.t) = AdjustTimeouts(config.data.t)
                    ELSE config'.data.conns = config.data.conns
EditsAreKept ==
  [][/\ \A n \in Nodes : request[n].pc = "merged" /\ request'[n].pc = "none" /\ config' # config =>
                           config.data # Absent /\ KeepsOthers(request[n])
     /\ editor.pc = "read" /\ editor'.pc = "none" /\ config' # config =>
          config.data # Absent /\ KeepsOthers(editor)]_vars

\* The configuration that is left in the end is the one that every node works with: its timeouts in
\* the DCS object and in the watchdog, its max_connections in PostgreSQL; unless the node has missed it
\* (a standby of a primary that has missed it may have to keep what the WAL asks for).
Taken(n) ==
  LET eff == Effective(Adjusted(config.data)) IN
  /\ timers[n] = [dcs |-> eff.t, watchdog |-> eff.t]
  /\ missed[lead] = {} => Runs(n) /\ pg[n].run = eff.conns
Converges == <>[](\A n \in Nodes : missed[n] # {} \/ (config.data # Absent /\ Taken(n)))
=============================================================================
