------------------------- MODULE DynamicConfigProofs -------------------------
(***************************************************************************)
(* The safety properties of DynamicConfig, for any nodes, any values that  *)
(* edits give the keys, and any number of edits and faults.                *)
(***************************************************************************)
EXTENDS DynamicConfig, TLAPS

-----------------------------------------------------------------------------
(* Timeouts *)

\* Whatever the timeouts, what _validate_and_adjust_timeouts makes of them obeys the rule ...
LEMMA AdjustedFits ==
  ASSUME NEW t \in Timeouts
  PROVE  AdjustTimeouts(t) \in Timeouts /\ Fits(AdjustTimeouts(t)) /\ AdjustTimeouts(t).ttl >= MinTtl
<1> DEFINE rt == AtLeast(t.retry_timeout, MinRetryTimeout)
           ttl == AtLeast(t.ttl, MinTtl)
           lw == AtLeast(t.loop_wait, MinLoopWait)
<1>1. /\ rt \in Int /\ rt >= 3 /\ ttl \in Int /\ ttl >= 20 /\ lw \in Int /\ lw >= 1
      /\ MinLoopWait = 1 /\ MinTtl = 20
  BY DEF Timeouts, AtLeast, MinRetryTimeout, MinTtl, MinLoopWait
<1>2. AdjustTimeouts(t) = IF MinLoopWait + 2 * rt > ttl
       THEN [loop_wait |-> MinLoopWait, retry_timeout |-> (ttl - MinLoopWait) \div 2, ttl |-> ttl]
       ELSE [loop_wait |-> IF lw + 2 * rt > ttl THEN ttl - 2 * rt ELSE lw,
             retry_timeout |-> rt, ttl |-> ttl]
  BY DEF AdjustTimeouts
<1> HIDE DEF rt, ttl, lw
<1>3. CASE 1 + 2 * rt > ttl
  <2> DEFINE half == (ttl - 1) \div 2
  <2>1. half \in Int /\ 3 <= half /\ 1 + 2 * half <= ttl
    BY <1>1, Z3
  <2> HIDE DEF half
  <2>2. AdjustTimeouts(t) = [loop_wait |-> 1, retry_timeout |-> half, ttl |-> ttl]
    BY <1>1, <1>2, <1>3 DEF half
  <2>3. QED
    BY <1>1, <2>1, <2>2 DEF Timeouts, Fits
<1>4. CASE ~(1 + 2 * rt > ttl)
  BY <1>1, <1>2, <1>4 DEF Timeouts, Fits
<1>5. QED
  BY <1>3, <1>4

\* ... and timeouts that obey it are left alone,
LEMMA FittingIsKept ==
  ASSUME NEW t \in Timeouts, Fits(t), t.ttl >= MinTtl
  PROVE  AdjustTimeouts(t) = t
<1>1. /\ AtLeast(t.retry_timeout, MinRetryTimeout) = t.retry_timeout
      /\ AtLeast(t.ttl, MinTtl) = t.ttl /\ AtLeast(t.loop_wait, MinLoopWait) = t.loop_wait
      /\ ~(MinLoopWait + 2 * t.retry_timeout > t.ttl)
      /\ ~(t.loop_wait + 2 * t.retry_timeout > t.ttl)
  BY DEF Timeouts, Fits, AtLeast, MinRetryTimeout, MinTtl, MinLoopWait
<1>2. t = [loop_wait |-> t.loop_wait, retry_timeout |-> t.retry_timeout, ttl |-> t.ttl]
  BY DEF Timeouts
<1>3. QED
  BY <1>1, <1>2 DEF AdjustTimeouts

\* so that adjusting them again changes nothing.
LEMMA AdjustedTwice ==
  ASSUME NEW t \in Timeouts
  PROVE  AdjustTimeouts(AdjustTimeouts(t)) = AdjustTimeouts(t)
BY AdjustedFits, FittingIsKept

LEMMA AdjustedType ==
  ASSUME NEW data \in Data
  PROVE  /\ Adjusted(data) \in Data /\ Fits(Adjusted(data).t)
         /\ Adjusted(data).t = AdjustTimeouts(data.t) /\ Adjusted(data).conns = data.conns
BY AdjustedFits DEF Adjusted, Data

LEMMA EffectiveType ==
  ASSUME NEW dyn \in Data, Fits(dyn.t)
  PROVE  /\ Effective(dyn) \in Data /\ Fits(Effective(dyn).t)
         /\ Effective(dyn).conns >= MinConns
BY DEF Effective, EffectiveConns, Data, MinConns, DefaultConns

LEMMA PatchType ==
  ASSUME NEW data \in Data, NEW key \in {"t", "conns"}, NEW val \in ValuesOf(key)
  PROVE  /\ PatchConfig(data, key, val) \in Data
         /\ key = "conns" => PatchConfig(data, key, val).t = data.t
         /\ key = "t" => PatchConfig(data, key, val).conns = data.conns
<1>1. CASE key = "t"
  BY <1>1, ChoicesAssumption DEF PatchConfig, Data, ValuesOf
<1>2. CASE key = "conns"
  BY <1>2, ChoicesAssumption DEF PatchConfig, Data, ValuesOf
<1>3. QED
  BY <1>1, <1>2

-----------------------------------------------------------------------------
(* Types *)

FitTimeouts == {t \in Timeouts : Fits(t)}

Configs == [ver : Int, data : Data \cup {Absent}]

Objects == [ver : Int, data : Data \cup {Absent}, dirty : BOOLEAN]

\* The Config of a node: dyn and eff obey the rule, whatever /config holds.
Confs == {c \in [ver : Int, dyn : Data, eff : Data, saving : BOOLEAN] :
            Fits(c.dyn.t) /\ Fits(c.eff.t) /\ c.eff.conns >= MinConns}

\* A request or an edit that is under way and is no PUT has read a configuration.
RequestRecords ==
  {r \in [pc : {"none", "read", "merged"}, kind : {"patch", "put"}, key : {"t", "conns"},
          val : Timeouts \cup Nat \cup {Absent}, ver : Int, data : Data \cup {Absent}] :
     /\ r.pc = "merged" \/ (r.pc = "read" /\ r.kind = "patch") => r.data \in Data
     /\ r.pc = "read" /\ r.kind = "patch" => r.val \in ValuesOf(r.key)}

Servers == [state : {"running", "starting", "restarting", "down"}, role : {"primary", "replica"},
            run : Nat, pos : Nat \ {0}]

\* What concerns /config and those who edit it ...
ConfigTypes ==
  /\ config \in Configs
  /\ object \in [Nodes -> Objects]
  /\ shared \in [Nodes -> SUBSET {"dcs", "config"}]
  /\ request \in [Nodes -> RequestRecords]
  /\ editor \in RequestRecords /\ (editor.pc = "read" => editor.data \in Data)

\* ... and the nodes
NodeTypes ==
  /\ lead \in Nodes /\ up \subseteq Nodes
  /\ pc \in [Nodes -> {"idle", "ran", "reload", "hup", "check", "save"}]
  /\ conf \in [Nodes -> Confs]
  /\ disk \in [Nodes -> Data]
  /\ timers \in [Nodes -> [dcs : FitTimeouts, watchdog : FitTimeouts]]
  /\ param \in [Nodes -> [server : Nat, file : Nat, flag : BOOLEAN]]
  /\ diff \in [Nodes -> BOOLEAN]
  /\ missed \in [Nodes -> SUBSET {"patched", "failed", "started", "joined"}]

PgTypes ==
  /\ wal \in Seq(Nat) /\ wal # <<>>
  /\ pg \in [Nodes -> Servers]
  /\ \A n \in Nodes : pg[n].pos <= Len(wal)

\* A request whose dictionary is that of dcs.cluster has read the same configuration.
SharedData ==
  \A n \in Nodes : "dcs" \in shared[n] /\ request[n].pc = "read" => object[n].data = request[n].data

Types == ConfigTypes /\ NodeTypes /\ PgTypes /\ SharedData

-----------------------------------------------------------------------------
LEMMA SetDynamicType ==
  ASSUME NEW c \in Confs, NEW o, o.ver \in Int, o.data \in Data
  PROVE  SetDynamic(c, o) \in Confs
<1> DEFINE d == Adjusted(o.data)
           e == Effective(d)
<1>1. d \in Data /\ Fits(d.t)
  BY AdjustedType
<1>2. e \in Data /\ Fits(e.t) /\ e.conns >= MinConns
  BY <1>1, EffectiveType
<1>3. SetDynamic(c, o) \in {c, [c EXCEPT !.ver = o.ver], [ver |-> o.ver, dyn |-> d, eff |-> e, saving |-> TRUE]}
  BY DEF SetDynamic
<1> HIDE DEF d, e
<1>4. [c EXCEPT !.ver = o.ver] \in Confs
  BY DEF Confs
<1>5. [ver |-> o.ver, dyn |-> d, eff |-> e, saving |-> TRUE] \in Confs
  BY <1>1, <1>2 DEF Confs
<1>6. QED
  BY <1>3, <1>4, <1>5

LEMMA TypesInit == Init => Types
<1> SUFFICES ASSUME Init PROVE Types
  OBVIOUS
<1> DEFINE dyn == Adjusted(FirstData)
           eff == Effective(dyn)
           c == [ver |-> 0, dyn |-> dyn, eff |-> eff, saving |-> FALSE]
<1>1. FirstData \in Data /\ FirstLeader \in Nodes
  BY FirstAssumption DEF Data
<1>2. dyn \in Data /\ Fits(dyn.t)
  BY <1>1, AdjustedType
<1>3. eff \in Data /\ Fits(eff.t) /\ eff.conns >= MinConns
  BY <1>2, EffectiveType
<1>4. c \in Confs /\ dyn.t \in FitTimeouts /\ eff.conns \in Nat
  BY <1>2, <1>3 DEF Confs, FitTimeouts, Data
<1>5. NoRequest \in RequestRecords /\ NoRequest.pc = "none"
  BY DEF NoRequest, RequestRecords
<1>6. ConfigTypes
  BY <1>1, <1>5 DEF Init, ConfigTypes, Configs, Objects, NoConfig
<1>7. NodeTypes
  <2>1. lead \in Nodes /\ up \subseteq Nodes /\ pc = [n \in Nodes |-> "idle"]
        /\ conf = [n \in Nodes |-> c] /\ disk = [n \in Nodes |-> dyn]
        /\ timers = [n \in Nodes |-> [dcs |-> dyn.t, watchdog |-> dyn.t]]
        /\ param = [n \in Nodes |-> [server |-> eff.conns, file |-> eff.conns, flag |-> FALSE]]
        /\ diff = [n \in Nodes |-> FALSE] /\ missed = [n \in Nodes |-> {}]
    BY <1>1 DEF Init
  <2> HIDE DEF c, dyn, eff
  <2>2. QED
    BY <1>2, <1>4, <2>1 DEF NodeTypes
<1>8. PgTypes
  <2>1. wal = <<eff.conns>>
        /\ pg = [n \in Nodes |-> [state |-> "running", role |-> IF n = lead THEN "primary" ELSE "replica",
                                  run |-> eff.conns, pos |-> 1]]
    BY DEF Init
  <2> HIDE DEF eff
  <2>2. QED
    BY <1>4, <2>1 DEF PgTypes, Servers
<1>9. SharedData
  BY SMTT(60) DEF Init, SharedData
<1>10. QED
  BY <1>6, <1>7, <1>8, <1>9 DEF Types

\* The configuration that a node reads or works with
LEMMA ConfigTypesNext ==
  ASSUME Types, [Next]_vars
  PROVE  ConfigTypes'
<1>1. /\ config \in Configs /\ object \in [Nodes -> Objects] /\ shared \in [Nodes -> SUBSET {"dcs", "config"}]
      /\ request \in [Nodes -> RequestRecords]
      /\ editor \in RequestRecords /\ (editor.pc = "read" => editor.data \in Data)
      /\ conf \in [Nodes -> Confs] /\ SharedData
  BY DEF Types, ConfigTypes, NodeTypes
<1>2. NoRequest \in RequestRecords /\ NoRequest.pc = "none" /\ NoConfig \in Objects
  BY DEF NoRequest, RequestRecords, NoConfig, Objects
<1>3. FirstData \in Data
  BY FirstAssumption DEF Data
<1>4. [ver |-> config.ver, data |-> config.data, dirty |-> FALSE] \in Objects
  BY <1>1 DEF Configs, Objects
<1>5. ASSUME NEW data \in Data, Publish(data) PROVE config' \in Configs
  BY <1>1, <1>5 DEF Publish, Configs
<1>6. ASSUME NEW n \in Nodes, HaCycle(n) PROVE ConfigTypes'
  <2>1. UNCHANGED <<request, editor>> /\ shared' = [shared EXCEPT ![n] = shared[n] \ {"dcs"}]
    BY <1>6 DEF HaCycle, Set
  <2>2. CASE config.data = Absent /\ lead = n
    <3>1. config' = [ver |-> config.ver + 1, data |-> conf[n].dyn] /\ conf[n].dyn \in Data
      BY <1>1, <1>6, <2>2 DEF HaCycle, Confs
    <3>2. config' \in Configs /\ [ver |-> config'.ver, data |-> config'.data, dirty |-> FALSE] \in Objects
      BY <1>1, <3>1 DEF Configs, Objects
    <3>3. object' = [object EXCEPT ![n] = [ver |-> config'.ver, data |-> config'.data, dirty |-> FALSE]]
      BY <1>6, <2>2 DEF HaCycle, Set
    <3>4. object' \in [Nodes -> Objects]
      BY <1>1, <3>2, <3>3
    <3>5. QED
      BY <1>1, <2>1, <3>2, <3>4 DEF ConfigTypes
  <2>3. CASE ~(config.data = Absent /\ lead = n)
    <3>1. config' = config /\ object' = [object EXCEPT ![n] = [ver |-> config.ver, data |-> config.data, dirty |-> FALSE]]
      BY <1>6, <2>3 DEF HaCycle, GetCluster, Set
    <3>2. QED
      BY <1>1, <1>4, <2>1, <3>1 DEF ConfigTypes
  <2>4. QED
    BY <2>2, <2>3
<1>7. ASSUME NEW n \in Nodes, ApplyConfig(n) PROVE ConfigTypes'
  <2>1. /\ UNCHANGED <<config, editor>> /\ object' = [object EXCEPT ![n] = NoConfig]
        /\ shared' \in {[shared EXCEPT ![n] = {"config"}], [shared EXCEPT ![n] = {}],
                        [shared EXCEPT ![n] = shared[n] \ {"dcs"}]}
    BY <1>7 DEF ApplyConfig, Set
  <2>2. CASE request' = request
    BY <1>1, <1>2, <2>1, <2>2 DEF ConfigTypes
  <2>3. CASE request' # request
    <3> DEFINE r == request[n]
               d == Adjusted(r.data)
    <3>1. /\ object[n].data # Absent /\ "dcs" \in shared[n] /\ r.pc = "read"
          /\ request' = [request EXCEPT ![n].data = d]
      BY <1>7, <2>3 DEF ApplyConfig
    <3>2. object[n].data \in Data /\ object[n].data = r.data
      BY <1>1, <3>1 DEF Objects, SharedData
    <3>3. d \in Data /\ r \in RequestRecords
      BY <1>1, <3>2, AdjustedType
    <3> HIDE DEF d
    <3>4. [r EXCEPT !.data = d] \in RequestRecords
      BY <3>1, <3>3 DEF RequestRecords
    <3>5. request' \in [Nodes -> RequestRecords]
      BY <1>1, <3>1, <3>4
    <3>6. QED
      BY ZenonT(60), <1>1, <1>2, <2>1, <3>5 DEF ConfigTypes
  <2>4. QED
    BY <2>2, <2>3
<1>8. ASSUME NEW n \in Nodes, RequestRead(n) PROVE ConfigTypes'
  <2>1. /\ UNCHANGED <<config, editor>>
        /\ object' \in {object, [object EXCEPT ![n] = [ver |-> config.ver, data |-> config.data, dirty |-> FALSE]]}
        /\ shared' \in {[shared EXCEPT ![n] = {"dcs"}], [shared EXCEPT ![n] = {}]}
    BY <1>8 DEF RequestRead, GetCluster, Set
  <2> DEFINE read == [NoRequest EXCEPT !.pc = "read", !.ver = config.ver, !.data = config.data]
  <2>2. CASE request' = Set(request, n, [read EXCEPT !.kind = "put"])
    <3>1. [read EXCEPT !.kind = "put"] \in RequestRecords
      BY <1>1 DEF RequestRecords, NoRequest, Configs
    <3>2. QED
      BY <1>1, <1>4, <2>1, <2>2, <3>1 DEF ConfigTypes, Set
  <2>3. CASE /\ config.data # Absent
             /\ \E key \in {"t", "conns"} : \E val \in ValuesOf(key) :
                  request' = Set(request, n, [read EXCEPT !.key = key, !.val = val])
    <3>1. PICK key \in {"t", "conns"} : \E val \in ValuesOf(key) :
            request' = Set(request, n, [read EXCEPT !.key = key, !.val = val])
      BY <2>3
    <3> PICK val \in ValuesOf(key) : request' = Set(request, n, [read EXCEPT !.key = key, !.val = val])
      BY <3>1
    <3>2. val \in Timeouts \cup Nat /\ config.data \in Data
      BY <1>1, <2>3, ChoicesAssumption DEF ValuesOf, Configs
    <3>3. [read EXCEPT !.key = key, !.val = val] \in RequestRecords
      BY <1>1, <3>2 DEF RequestRecords, NoRequest, Configs
    <3>4. QED
      BY <1>1, <1>4, <2>1, <3>3 DEF ConfigTypes, Set
  <2>4. QED
    BY <1>8, <2>2, <2>3 DEF RequestRead
<1>9. ASSUME NEW n \in Nodes, RequestEnds(n), object' = object, config' \in Configs, editor' = editor PROVE ConfigTypes'
  BY <1>1, <1>2, <1>9 DEF RequestEnds, Set, ConfigTypes
<1>10. ASSUME NEW n \in Nodes, PatchMerge(n) PROVE ConfigTypes'
  <2> DEFINE r == request[n]
             merged == PatchConfig(r.data, r.key, r.val)
  <2>1. r.pc = "read" /\ r.kind = "patch" /\ UNCHANGED <<config, editor>>
    BY <1>10 DEF PatchMerge
  <2>2. r \in RequestRecords /\ r.data \in Data /\ r.key \in {"t", "conns"} /\ r.val \in ValuesOf(r.key)
    BY <1>1, <2>1 DEF RequestRecords
  <2>3. merged \in Data
    BY <2>2, PatchType
  <2>4. CASE merged = r.data
    BY <1>1, <1>9, <1>10, <2>1, <2>4 DEF PatchMerge
  <2>5. CASE merged # r.data
    <3>1. /\ request' = Set(request, n, [r EXCEPT !.pc = "merged", !.data = merged]) /\ shared' = shared
          /\ object' = IF r.key = "conns" /\ "dcs" \in shared[n]
                         THEN [object EXCEPT ![n].data.conns = r.val, ![n].dirty = TRUE] ELSE object
      BY <1>10, <2>5 DEF PatchMerge
    <3> HIDE DEF merged
    <3>2. [r EXCEPT !.pc = "merged", !.data = merged] \in RequestRecords
      BY <2>2, <2>3 DEF RequestRecords
    <3>3. object' \in [Nodes -> Objects]
      <4>1. CASE r.key = "conns" /\ "dcs" \in shared[n]
        <5>1. object[n].data \in Data /\ r.val \in Nat
          BY <1>1, <2>1, <2>2, <4>1, ChoicesAssumption DEF SharedData, ValuesOf
        <5> DEFINE o == object[n]
                   d == [o.data EXCEPT !.conns = r.val]
        <5>2. d \in Data
          BY <5>1 DEF Data
        <5>3. object' = [object EXCEPT ![n] = [o EXCEPT !.data = d, !.dirty = TRUE]]
          BY <1>1, <3>1, <4>1 DEF Objects
        <5> HIDE DEF d
        <5>4. [o EXCEPT !.data = d, !.dirty = TRUE] \in Objects
          BY <1>1, <5>2 DEF Objects
        <5>5. QED
          BY <1>1, <5>3, <5>4
      <4>2. QED
        BY <1>1, <3>1, <4>1
    <3>4. QED
      BY <1>1, <2>1, <3>1, <3>2, <3>3 DEF ConfigTypes, Set
  <2>6. QED
    BY <2>4, <2>5
<1>11. ASSUME NEW n \in Nodes, PatchWrite(n) PROVE ConfigTypes'
  <2>1. request[n].data \in Data
    BY <1>1, <1>11 DEF PatchWrite, RequestRecords
  <2>2. QED
    BY <1>1, <1>5, <1>9, <1>11, <2>1 DEF PatchWrite
<1>12. ASSUME NEW n \in Nodes, PutWrite(n) PROVE ConfigTypes'
  BY <1>1, <1>3, <1>5, <1>9, <1>12 DEF PutWrite
<1>13. ASSUME NEW n \in Nodes, RequestFails(n) PROVE ConfigTypes'
  BY <1>1, <1>9, <1>13 DEF RequestFails
<1>14. ASSUME NEW n \in Nodes, Crash(n) PROVE ConfigTypes'
  BY <1>1, <1>2, <1>14 DEF Crash, RequestEnds, Set, ConfigTypes
<1>15. CASE EditRead
  <2>1. PICK key \in {"t", "conns"} : \E val \in ValuesOf(key) :
          editor' = [pc |-> "read", kind |-> "patch", key |-> key, val |-> val,
                     ver |-> config.ver, data |-> PatchConfig(config.data, key, val)]
    BY <1>15 DEF EditRead
  <2> PICK val \in ValuesOf(key) :
          editor' = [pc |-> "read", kind |-> "patch", key |-> key, val |-> val,
                     ver |-> config.ver, data |-> PatchConfig(config.data, key, val)]
    BY <2>1
  <2>2. config.data \in Data /\ config.ver \in Int /\ UNCHANGED <<config, object, shared, request>>
    BY <1>1, <1>15 DEF EditRead, Configs, sharedVars
  <2>3. PatchConfig(config.data, key, val) \in Data /\ val \in Timeouts \cup Nat
    BY <2>2, PatchType, ChoicesAssumption DEF ValuesOf
  <2>4. QED
    BY <1>1, <2>2, <2>3 DEF ConfigTypes, RequestRecords
<1>16. CASE EditWrite
  <2>1. config' \in Configs /\ editor' = NoRequest /\ UNCHANGED <<object, shared, request>>
    BY <1>1, <1>5, <1>16 DEF EditWrite, sharedVars
  <2>2. QED
    BY <1>1, <1>2, <2>1 DEF ConfigTypes
<1>17. CASE Wipe
  BY <1>1, <1>17 DEF Wipe, ConfigTypes, Configs, sharedVars
<1>18. ASSUME UNCHANGED <<config, sharedVars, request, editor>> PROVE ConfigTypes'
  BY <1>1, <1>18 DEF sharedVars, ConfigTypes
<1>19. QED
  BY <1>6, <1>7, <1>8, <1>10, <1>11, <1>12, <1>13, <1>14, <1>15, <1>16, <1>17, <1>18
  DEF Next, Steps, Requests, Faults, Reload, ReloadFails, ReloadCheck, SaveCache, Sighup, StartPg, PgUp, Replay,
      PgCrash, Restart, Switchover, StartPatroni, vars

LEMMA SharedDataNext ==
  ASSUME Types, [Next]_vars
  PROVE  SharedData'
<1>1. /\ object \in [Nodes -> Objects] /\ shared \in [Nodes -> SUBSET {"dcs", "config"}]
      /\ request \in [Nodes -> RequestRecords] /\ SharedData
  BY DEF Types, ConfigTypes
<1>2. NoRequest.pc = "none"
  BY DEF NoRequest
<1>3. ASSUME NEW n \in Nodes, HaCycle(n) PROVE SharedData'
  <2>1. request' = request /\ shared' = [shared EXCEPT ![n] = shared[n] \ {"dcs"}]
    BY <1>3 DEF HaCycle, Set
  <2>2. \A m \in Nodes \ {n} : object'[m] = object[m]
    BY <1>1, <1>3 DEF HaCycle, GetCluster, Set
  <2>3. QED
    BY <1>1, <2>1, <2>2 DEF SharedData
<1>4. ASSUME NEW n \in Nodes, ApplyConfig(n) PROVE SharedData'
  <2>1. /\ "dcs" \notin shared'[n]
        /\ \A m \in Nodes \ {n} : object'[m] = object[m] /\ shared'[m] = shared[m] /\ request'[m] = request[m]
    BY <1>1, <1>4 DEF ApplyConfig, Set
  <2>2. QED
    BY <1>1, <2>1 DEF SharedData
<1>5. ASSUME NEW n \in Nodes, RequestRead(n) PROVE SharedData'
  <2>1. \A m \in Nodes \ {n} : object'[m] = object[m] /\ shared'[m] = shared[m] /\ request'[m] = request[m]
    BY <1>1, <1>5 DEF RequestRead, GetCluster, Set
  <2>2. request'[n].data = config.data
    BY <1>1, <1>5 DEF RequestRead, Set, NoRequest
  <2>3. "dcs" \in shared'[n] => object'[n].data = config.data
    <3>1. CASE pc[n] = "ran"
      <4>1. object' = [object EXCEPT ![n] = [ver |-> config.ver, data |-> config.data, dirty |-> FALSE]]
        BY <1>5, <3>1 DEF RequestRead, GetCluster, Set
      <4>2. QED
        BY <1>1, <4>1
    <3>2. CASE pc[n] # "ran"
      <4>1. shared' = [shared EXCEPT ![n] = {}]
        BY <1>5, <3>2 DEF RequestRead, Set
      <4>2. QED
        BY <1>1, <4>1
    <3>3. QED
      BY <3>1, <3>2
  <2>4. QED
    BY <1>1, <2>1, <2>2, <2>3 DEF SharedData
<1>6. ASSUME NEW n \in Nodes, PatchMerge(n) PROVE SharedData'
  <2> DEFINE r == request[n]
             merged == PatchConfig(r.data, r.key, r.val)
  <2>1. /\ request'[n].pc # "read"
        /\ \A m \in Nodes \ {n} : object'[m] = object[m] /\ shared'[m] = shared[m] /\ request'[m] = request[m]
    <3>1. CASE merged = r.data
      <4>1. RequestEnds(n) /\ object' = object
        BY <1>6, <3>1 DEF PatchMerge
      <4>2. QED
        BY <1>1, <1>2, <4>1 DEF RequestEnds, Set
    <3>2. CASE merged # r.data
      <4>1. /\ request' = [request EXCEPT ![n] = [r EXCEPT !.pc = "merged", !.data = merged]] /\ shared' = shared
            /\ object' = IF r.key = "conns" /\ "dcs" \in shared[n]
                           THEN [object EXCEPT ![n].data.conns = r.val, ![n].dirty = TRUE] ELSE object
        BY <1>6, <3>2 DEF PatchMerge, Set
      <4> HIDE DEF merged
      <4>2. \A m \in Nodes \ {n} : object'[m] = object[m]
        BY <1>1, <4>1
      <4>3. r \in RequestRecords
        BY <1>1
      <4>4. [r EXCEPT !.pc = "merged", !.data = merged].pc = "merged"
        BY <4>3 DEF RequestRecords
      <4>5. QED
        BY <1>1, <4>1, <4>2, <4>4
    <3>3. QED
      BY <3>1, <3>2
  <2>2. QED
    BY <1>1, <2>1 DEF SharedData
<1>7. ASSUME NEW n \in Nodes, PatchWrite(n) \/ PutWrite(n) \/ RequestFails(n) \/ Crash(n) PROVE SharedData'
  <2>1. /\ RequestEnds(n) /\ \A m \in Nodes \ {n} : object'[m] = object[m]
    BY <1>1, <1>7 DEF PatchWrite, PutWrite, RequestFails, Crash, Set
  <2>2. QED
    BY <1>1, <1>2, <2>1 DEF RequestEnds, Set, SharedData
<1>8. ASSUME UNCHANGED <<sharedVars, request>> PROVE SharedData'
  BY <1>1, <1>8 DEF sharedVars, SharedData
<1>9. QED
  BY <1>3, <1>4, <1>5, <1>6, <1>7, <1>8
  DEF Next, Steps, Requests, Faults, Reload, ReloadFails, ReloadCheck, SaveCache, Sighup, StartPg, PgUp, Replay,
      PgCrash, Restart, Switchover, StartPatroni, EditRead, EditWrite, Wipe, vars

\* What the nodes have made of it
LEMMA NodeTypesNext ==
  ASSUME Types, [Next]_vars
  PROVE  NodeTypes'
<1>1. /\ lead \in Nodes /\ up \subseteq Nodes
      /\ pc \in [Nodes -> {"idle", "ran", "reload", "hup", "check", "save"}]
      /\ conf \in [Nodes -> Confs] /\ disk \in [Nodes -> Data]
      /\ timers \in [Nodes -> [dcs : FitTimeouts, watchdog : FitTimeouts]]
      /\ param \in [Nodes -> [server : Nat, file : Nat, flag : BOOLEAN]]
      /\ diff \in [Nodes -> BOOLEAN]
      /\ missed \in [Nodes -> SUBSET {"patched", "failed", "started", "joined"}]
      /\ ConfigTypes /\ PgTypes
  BY DEF Types, NodeTypes
<1>2. ASSUME NEW n \in Nodes
      PROVE  /\ conf[n] \in Confs /\ conf[n].dyn \in Data /\ Fits(conf[n].dyn.t) /\ conf[n].eff \in Data
             /\ conf[n].eff.t \in FitTimeouts /\ conf[n].eff.conns \in Nat
             /\ ServerParameters(conf[n]) \in Nat
             /\ pg[n] \in Servers /\ pg[n].run \in Nat /\ Required(n) \in Nat
  <2>1. conf[n] \in Confs /\ pg[n] \in Servers
    BY <1>1 DEF PgTypes
  <2>2. /\ conf[n].dyn \in Data /\ Fits(conf[n].dyn.t) /\ conf[n].eff \in Data /\ Fits(conf[n].eff.t)
    BY <2>1 DEF Confs
  <2>3. conf[n].eff.t \in FitTimeouts /\ conf[n].eff.conns \in Nat
    BY <2>2 DEF Data, FitTimeouts
  <2>4. pg[n].run \in Nat /\ pg[n].pos \in 1..Len(wal)
    BY <1>1, <2>1 DEF Servers, PgTypes
  <2>5. Required(n) \in Nat
    BY <1>1, <2>4 DEF PgTypes, Required
  <2>6. QED
    BY <2>1, <2>2, <2>3, <2>4, <2>5 DEF ServerParameters
<1>3. ASSUME NEW n \in Nodes, HaCycle(n) PROVE NodeTypes'
  BY <1>1, <1>3 DEF HaCycle, Set, NodeTypes
<1>4. ASSUME NEW n \in Nodes, ApplyConfig(n) PROVE NodeTypes'
  <2> DEFINE o == object[n]
  <2>1. o.data # Absent => SetDynamic(conf[n], o) \in Confs
    BY <1>1, <1>2, SetDynamicType DEF ConfigTypes, Objects
  <2>2. conf' \in {conf, Set(conf, n, SetDynamic(conf[n], o))} /\ (conf' # conf => o.data # Absent)
    BY <1>4 DEF ApplyConfig
  <2>3. conf' \in [Nodes -> Confs]
    BY <1>1, <2>1, <2>2 DEF Set
  <2>4. pc' \in [Nodes -> {"idle", "ran", "reload", "hup", "check", "save"}]
    BY <1>1, <1>4 DEF ApplyConfig, Set
  <2>5. missed' \in [Nodes -> SUBSET {"patched", "failed", "started", "joined"}]
    BY <1>1, <1>4 DEF ApplyConfig, Set
  <2>6. QED
    BY <1>1, <1>4, <2>3, <2>4, <2>5 DEF ApplyConfig, NodeTypes
<1>5. ASSUME NEW n \in Nodes, Reload(n) PROVE NodeTypes'
  <2> DEFINE new == ServerParameters(conf[n])
             t == conf[n].eff.t
  <2>1. /\ new \in Nat /\ t \in FitTimeouts
        /\ IF Runs(n) THEN ReloadRunning(n, new) ELSE ReloadStopped(n, new)
        /\ UNCHANGED <<lead, up, conf, disk>>
    BY <1>2, <1>5 DEF Reload
  <2> HIDE DEF new
  <2>2. /\ pc' \in [Nodes -> {"idle", "ran", "reload", "hup", "check", "save"}]
        /\ diff' \in [Nodes -> BOOLEAN]
    BY <1>1, <2>1 DEF ReloadRunning, ReloadStopped, Set
  <2>3. missed' \in [Nodes -> SUBSET {"patched", "failed", "started", "joined"}]
    BY <1>1, <2>1 DEF ReloadRunning, ReloadStopped, Missing, Set
  <2>4. timers' \in [Nodes -> [dcs : FitTimeouts, watchdog : FitTimeouts]]
    <3>1. timers' \in {[timers EXCEPT ![n] = [dcs |-> t, watchdog |-> t]], [timers EXCEPT ![n].watchdog = t]}
      BY <2>1 DEF ReloadRunning, ReloadStopped, DcsReloaded, Set
    <3>2. [timers[n] EXCEPT !.watchdog = t] \in [dcs : FitTimeouts, watchdog : FitTimeouts]
      BY <1>1, <2>1
    <3> HIDE DEF t
    <3>3. [dcs |-> t, watchdog |-> t] \in [dcs : FitTimeouts, watchdog : FitTimeouts]
      BY <2>1
    <3>4. QED
      BY <1>1, <3>1, <3>2, <3>3
  <2>5. param' \in [Nodes -> [server : Nat, file : Nat, flag : BOOLEAN]]
    <3> DEFINE p == param[n]
    <3>1. p \in [server : Nat, file : Nat, flag : BOOLEAN]
      BY <1>1
    <3>2. \E q \in [server : Nat, file : Nat, flag : BOOLEAN] : param' = [param EXCEPT ![n] = q]
      <4>1. CASE Runs(n)
        <5>1. /\ [p EXCEPT !.server = new, !.file = new] \in [server : Nat, file : Nat, flag : BOOLEAN]
              /\ [p EXCEPT !.server = new, !.flag = FALSE] \in [server : Nat, file : Nat, flag : BOOLEAN]
          BY <2>1, <3>1
        <5>2. QED
          BY <2>1, <4>1, <5>1 DEF ReloadRunning, Set
      <4>2. CASE ~Runs(n)
        BY <2>1, <3>1, <4>2 DEF ReloadStopped, Set
      <4>3. QED
        BY <4>1, <4>2
    <3>3. QED
      BY <1>1, <3>2
  <2>6. QED
    BY <1>1, <2>1, <2>2, <2>3, <2>4, <2>5 DEF NodeTypes
<1>6. ASSUME NEW n \in Nodes, ReloadFails(n) PROVE NodeTypes'
  BY ZenonT(60), <1>1, <1>2, <1>6 DEF ReloadFails, Set, NodeTypes
<1>7. ASSUME NEW n \in Nodes, ReloadCheck(n) PROVE NodeTypes'
  <2> DEFINE t == conf[n].eff.t
  <2>1. /\ timers' = [timers EXCEPT ![n] = [dcs |-> t, watchdog |-> t]]
        /\ pc' = [pc EXCEPT ![n] = "save"] /\ diff' = [diff EXCEPT ![n] = FALSE]
        /\ \E flag \in BOOLEAN : param' = [param EXCEPT ![n].flag = flag]
        /\ UNCHANGED <<lead, up, conf, disk, missed>>
    BY <1>1, <1>7 DEF ReloadCheck, DcsReloaded, Set
  <2>2. t \in FitTimeouts
    BY <1>2
  <2> HIDE DEF t
  <2>3. PICK flag \in BOOLEAN : param' = [param EXCEPT ![n].flag = flag]
    BY <2>1
  <2>4. [param[n] EXCEPT !.flag = flag] \in [server : Nat, file : Nat, flag : BOOLEAN]
    BY ZenonT(60), <1>1
  <2>5. param' \in [Nodes -> [server : Nat, file : Nat, flag : BOOLEAN]]
    BY <1>1, <2>3, <2>4
  <2>6. timers' \in [Nodes -> [dcs : FitTimeouts, watchdog : FitTimeouts]]
    BY <1>1, <2>1, <2>2
  <2>7. QED
    BY <1>1, <2>1, <2>5, <2>6 DEF NodeTypes
<1>8. ASSUME NEW n \in Nodes, SaveCache(n) PROVE NodeTypes'
  BY ZenonT(60), <1>1, <1>2, <1>8 DEF SaveCache, Set, NodeTypes, Confs
<1>9. ASSUME NEW n \in Nodes, Sighup(n) PROVE NodeTypes'
  <2> DEFINE e == Effective(conf[n].dyn)
             c == [conf[n] EXCEPT !.eff = e]
  <2>1. e \in Data /\ Fits(e.t) /\ e.conns >= MinConns
    BY <1>2, EffectiveType
  <2>2. conf' = conf \/ conf' = [conf EXCEPT ![n].eff = e]
    BY <1>9 DEF Sighup
  <2> HIDE DEF e
  <2>3. c \in Confs
    BY <1>2, <2>1 DEF Confs
  <2>4. conf' = conf \/ conf' = [conf EXCEPT ![n] = c]
    BY <2>2
  <2> HIDE DEF c
  <2>5. QED
    <3>1. pc' = [pc EXCEPT ![n] = "hup"] /\ UNCHANGED <<lead, up, disk, timers, param, diff, missed>>
      BY <1>9 DEF Sighup, Set
    <3>2. conf' \in [Nodes -> Confs]
      BY <1>1, <2>3, <2>4
    <3>3. QED
      BY <1>1, <3>1, <3>2 DEF NodeTypes
<1>10. ASSUME NEW n \in Nodes, PatchMerge(n) PROVE NodeTypes'
  <2> DEFINE r == request[n]
             d == [conf[n].dyn EXCEPT !.conns = r.val]
             c == [conf[n] EXCEPT !.dyn = d]
  <2>1. conf' = conf \/ (r.key = "conns" /\ conf' = [conf EXCEPT ![n].dyn.conns = r.val])
    BY <1>10 DEF PatchMerge
  <2>5. UNCHANGED <<lead, up, pc, disk, timers, param, diff>>
    BY <1>10 DEF PatchMerge
  <2>6. missed' = missed \/ missed' = [missed EXCEPT ![n] = missed[n] \cup {"patched"}]
    BY <1>10 DEF PatchMerge, Set
  <2>7. missed' \in [Nodes -> SUBSET {"patched", "failed", "started", "joined"}]
    BY SMTT(60), <1>1, <2>6
  <2>2. CASE conf' = conf
    BY <1>1, <2>2, <2>5, <2>7 DEF NodeTypes
  <2>3. CASE r.key = "conns" /\ conf' = [conf EXCEPT ![n].dyn.conns = r.val]
    <3>1. r \in RequestRecords /\ r.pc = "read" /\ r.kind = "patch"
      BY <1>1, <1>10 DEF PatchMerge, ConfigTypes
    <3>2. r.val \in Nat
      BY <2>3, <3>1, ChoicesAssumption DEF RequestRecords, ValuesOf
    <3>3. d \in Data /\ d.t = conf[n].dyn.t
      BY <1>2, <3>2 DEF Data
    <3>4. conf' = [conf EXCEPT ![n] = c]
      BY <2>3
    <3> HIDE DEF d
    <3>5. c \in Confs
      BY <1>2, <3>3 DEF Confs
    <3> HIDE DEF c
    <3>6. QED
      BY <1>1, <2>5, <2>7, <3>4, <3>5 DEF NodeTypes
  <2>4. QED
    BY <2>1, <2>2, <2>3
<1>11. ASSUME NEW n \in Nodes, StartPg(n) PROVE NodeTypes'
  <2>1. \E value \in Nat, flag \in BOOLEAN :
          param' = [param EXCEPT ![n] = [param[n] EXCEPT !.file = value, !.flag = flag]]
    <3> DEFINE role == IF lead = n THEN "primary" ELSE "replica"
               value == EffectiveConfiguration(n, role)
    <3>1. value \in Nat
      BY <1>1, <1>2 DEF EffectiveConfiguration
    <3>2. FlagAtStart(n, value) \in BOOLEAN
      BY DEF FlagAtStart
    <3>3. param' = [param EXCEPT ![n] = [param[n] EXCEPT !.file = value, !.flag = FlagAtStart(n, value)]]
      BY <1>11 DEF StartPg, Set
    <3> HIDE DEF value
    <3>4. QED
      BY <3>1, <3>2, <3>3
  <2>2. param' \in [Nodes -> [server : Nat, file : Nat, flag : BOOLEAN]]
    <3>1. PICK value \in Nat : \E flag \in BOOLEAN :
            param' = [param EXCEPT ![n] = [param[n] EXCEPT !.file = value, !.flag = flag]]
      BY <2>1
    <3>2. PICK flag \in BOOLEAN :
            param' = [param EXCEPT ![n] = [param[n] EXCEPT !.file = value, !.flag = flag]]
      BY <3>1
    <3>3. [param[n] EXCEPT !.file = value, !.flag = flag] \in [server : Nat, file : Nat, flag : BOOLEAN]
      BY ZenonT(60), <1>1
    <3>4. QED
      BY <1>1, <3>2, <3>3
  <2>3. missed' \in [Nodes -> SUBSET {"patched", "failed", "started", "joined"}]
    BY <1>1, <1>11 DEF StartPg, Set
  <2>4. QED
    BY <1>1, <1>11, <2>2, <2>3 DEF StartPg, NodeTypes
<1>12. ASSUME NEW n \in Nodes, Switchover(n) PROVE NodeTypes'
  BY <1>1, <1>12 DEF Switchover, NodeTypes, mainVars
<1>13. ASSUME NEW n \in Nodes, Crash(n) PROVE NodeTypes'
  BY <1>1, <1>13 DEF Crash, Set, NodeTypes
<1>14. ASSUME NEW n \in Nodes, StartPatroni(n) PROVE NodeTypes'
  <2> DEFINE c == ApplyDynamic(LoadCache(n))
  <2>1. Adjusted(disk[n]) \in Data /\ Fits(Adjusted(disk[n]).t)
    BY <1>1, AdjustedType
  <2>2. LoadCache(n) \in Confs
    BY <2>1, EffectiveType DEF LoadCache, Confs
  <2>3. c \in Confs
    BY <1>1, <2>2, SetDynamicType DEF ApplyDynamic, ConfigTypes, Configs
  <2> HIDE DEF c
  <2>4. c.eff.t \in FitTimeouts /\ ServerParameters(c) \in Nat
    BY <2>3 DEF Confs, FitTimeouts, Data, ServerParameters
  <2>5. /\ up' = up \cup {n} /\ conf' = [conf EXCEPT ![n] = c]
        /\ timers' = [timers EXCEPT ![n] = [dcs |-> c.eff.t, watchdog |-> c.eff.t]]
        /\ UNCHANGED <<lead, pc, disk, diff>>
    BY <1>14 DEF StartPatroni, Set, c
  <2>6. param' \in [Nodes -> [server : Nat, file : Nat, flag : BOOLEAN]]
    BY <1>1, <1>2, <1>14, <2>4 DEF StartPatroni, RunningParameters, Set, c
  <2>7. missed' \in [Nodes -> SUBSET {"patched", "failed", "started", "joined"}]
    BY <1>1, <1>14 DEF StartPatroni, Set
  <2>8. QED
    BY <1>1, <2>3, <2>4, <2>5, <2>6, <2>7 DEF NodeTypes
<1>15. ASSUME UNCHANGED <<lead, up, mainVars, missed>> PROVE NodeTypes'
  BY <1>1, <1>15 DEF mainVars, NodeTypes
<1>16. ASSUME NEW n \in Nodes, PatchWrite(n) \/ PutWrite(n) \/ RequestFails(n) \/ RequestRead(n) PROVE NodeTypes'
  BY <1>15, <1>16 DEF PatchWrite, PutWrite, RequestFails, RequestRead
<1>17. QED
  BY <1>3, <1>4, <1>5, <1>6, <1>7, <1>8, <1>9, <1>10, <1>11, <1>12, <1>13, <1>14, <1>15, <1>16
  DEF Next, Steps, Requests, Faults, PgUp, Replay, PgCrash, Restart, EditRead, EditWrite, Wipe, vars

-----------------------------------------------------------------------------
(* PostgreSQL *)

\* A primary records the value that it runs with at the end of the WAL; nobody else is touched.
LEMMA RecordedType ==
  ASSUME NEW m \in Nodes, NEW run \in Nat, NEW others \in [Nodes -> Servers], wal \in Seq(Nat), wal # <<>>,
         \A n \in Nodes : others[n].pos <= Len(wal), Recorded(m, run, others)
  PROVE  /\ wal' \in Seq(Nat) /\ wal' # <<>> /\ pg' \in [Nodes -> Servers]
         /\ \A n \in Nodes : /\ pg'[n].pos <= Len(wal')
                             /\ n # m => pg'[n] = others[n]
                             /\ pg'[n].state = others[n].state /\ pg'[n].role = others[n].role
                             /\ pg'[n].run = others[n].run
         /\ \A i \in 1..Len(wal) : wal'[i] = wal[i]
<1>1. CASE run = Last(wal)
  BY <1>1 DEF Recorded
<1>2. CASE run # Last(wal)
  <2>1. wal' = Append(wal, run) /\ pg' = [others EXCEPT ![m] = [others[m] EXCEPT !.pos = Len(wal) + 1]]
    BY <1>2 DEF Recorded, Set
  <2>2. [others[m] EXCEPT !.pos = Len(wal) + 1] \in Servers
    BY DEF Servers
  <2>3. Len(wal') = Len(wal) + 1 /\ wal' \in Seq(Nat) /\ \A i \in 1..Len(wal) : wal'[i] = wal[i]
    BY <2>1
  <2>4. pg' \in [Nodes -> Servers]
    BY <2>1, <2>2
  <2>5. /\ pg'[m].pos = Len(wal) + 1 /\ pg'[m].state = others[m].state
        /\ pg'[m].role = others[m].role /\ pg'[m].run = others[m].run
    BY <2>1 DEF Servers
  <2>6. \A n \in Nodes : n # m => pg'[n] = others[n]
    BY <2>1
  <2>7. \A n \in Nodes : others[n].pos \in Nat
    BY DEF Servers
  <2>8. QED
    BY <2>3, <2>4, <2>5, <2>6, <2>7
<1>3. QED
  BY <1>1, <1>2

\* A standby that starts has what its pg_controldata asks for.
LEMMA EnoughAtStart ==
  ASSUME NodeTypes, PgTypes, NEW n \in Nodes, NEW role \in {"primary", "replica"}
  PROVE  /\ EffectiveConfiguration(n, role) \in Nat /\ Required(n) \in Nat
         /\ role = "replica" => EffectiveConfiguration(n, role) >= Required(n)
<1>1. pg[n].pos \in 1..Len(wal)
  BY DEF PgTypes, Servers
<1>2. Required(n) \in Nat /\ param[n].server \in Nat
  BY SMTT(60), <1>1 DEF PgTypes, NodeTypes, Required
<1>3. QED
  BY <1>2 DEF EffectiveConfiguration

\* The steps of PostgreSQL keep the types, and no standby runs with less than its WAL asks for.
LEMMA PgNext ==
  ASSUME Types, StandbyStarts, [Next]_vars
  PROVE  PgTypes' /\ StandbyStarts'
<1>1. /\ wal \in Seq(Nat) /\ wal # <<>> /\ pg \in [Nodes -> Servers] /\ lead \in Nodes
      /\ \A n \in Nodes : pg[n].pos \in 1..Len(wal) /\ pg[n].run \in Nat
      /\ NodeTypes /\ PgTypes
  BY SMTT(60) DEF Types, PgTypes, NodeTypes, Servers
<1>2. ASSUME NEW n \in Nodes, NEW s \in Servers, pg' = [pg EXCEPT ![n] = s], wal' = wal, s.pos <= Len(wal),
             s.role = "replica" /\ s.state \in {"starting", "running"} => s.run >= wal[s.pos]
      PROVE  PgTypes' /\ StandbyStarts'
  <2>1. pg' \in [Nodes -> Servers] /\ pg'[n] = s /\ \A m \in Nodes \ {n} : pg'[m] = pg[m]
    BY <1>1, <1>2
  <2>2. QED
    BY <1>1, <1>2, <2>1 DEF PgTypes, StandbyStarts, Required
<1>3. ASSUME NEW n \in Nodes, StartPg(n) PROVE PgTypes' /\ StandbyStarts'
  <2> DEFINE role == IF lead = n THEN "primary" ELSE "replica"
             value == EffectiveConfiguration(n, role)
             s == [state |-> "starting", role |-> role, run |-> value, pos |-> pg[n].pos]
  <2>1. value \in Nat /\ (role = "replica" => value >= wal[pg[n].pos])
    BY <1>1, EnoughAtStart DEF Required
  <2>2. pg' = [pg EXCEPT ![n] = s] /\ wal' = wal
    BY <1>3 DEF StartPg, Set
  <2> HIDE DEF value
  <2>3. s \in Servers /\ s.pos <= Len(wal) /\ (s.role = "replica" => s.run >= wal[s.pos])
    BY <1>1, <2>1 DEF Servers
  <2> HIDE DEF s
  <2>4. QED
    BY <1>2, <2>2, <2>3
<1>4. ASSUME NEW n \in Nodes, PgUp(n) PROVE PgTypes' /\ StandbyStarts'
  <2> DEFINE s == [pg[n] EXCEPT !.state = "running"]
             others == [pg EXCEPT ![n] = s]
  <2>1. /\ s \in Servers /\ s.pos = pg[n].pos /\ s.role = pg[n].role /\ s.run = pg[n].run
        /\ pg[n].state = "starting"
    BY <1>1, <1>4 DEF PgUp, Servers
  <2>2. IF IsPrimary(n) THEN Recorded(n, pg[n].run, others) ELSE pg' = others /\ wal' = wal
    BY <1>4 DEF PgUp
  <2> HIDE DEF s
  <2>3. CASE ~IsPrimary(n)
    <3>1. s.role = "replica" => s.run >= wal[s.pos]
      BY <1>1, <2>1 DEF StandbyStarts, Required
    <3>2. QED
      BY <1>1, <1>2, <2>1, <2>2, <2>3, <3>1
  <2>4. CASE IsPrimary(n)
    <3>1. others \in [Nodes -> Servers] /\ \A m \in Nodes : others[m].pos = pg[m].pos
      BY <1>1, <2>1
    <3>2. \A m \in Nodes : others[m].pos <= Len(wal)
      BY <1>1, <3>1
    <3>3. Recorded(n, pg[n].run, others) /\ others[n] = s /\ \A m \in Nodes : m # n => others[m] = pg[m]
      BY <1>1, <2>1, <2>2, <2>4
    <3>4. pg[n].run \in Nat
      BY <1>1
    <3> HIDE DEF others
    <3>5. /\ wal' \in Seq(Nat) /\ wal' # <<>> /\ pg' \in [Nodes -> Servers]
          /\ \A m \in Nodes : /\ pg'[m].pos <= Len(wal')
                              /\ m # n => pg'[m] = others[m]
                              /\ pg'[m].state = others[m].state /\ pg'[m].role = others[m].role
          /\ \A i \in 1..Len(wal) : wal'[i] = wal[i]
      BY <1>1, <3>1, <3>2, <3>3, <3>4, RecordedType
    <3>6. pg'[n].role = "primary" /\ \A m \in Nodes : m # n => pg'[m] = pg[m]
      BY <1>1, <2>1, <2>4, <3>5, <3>3 DEF IsPrimary
    <3>7. \A m \in Nodes : m # n => wal'[pg'[m].pos] = wal[pg[m].pos]
      BY <1>1, <3>5, <3>6
    <3>8. QED
      BY <3>5, <3>6, <3>7 DEF PgTypes, StandbyStarts, Required
  <2>5. QED
    BY <2>3, <2>4
<1>5. ASSUME NEW n \in Nodes, Replay(n) PROVE PgTypes' /\ StandbyStarts'
  <2> DEFINE state == IF pg[n].run < wal[pg[n].pos + 1] THEN "down" ELSE pg[n].state
             pos == pg[n].pos + 1
             s == [pg[n] EXCEPT !.pos = pos, !.state = state]
  <2>1. pg' = [pg EXCEPT ![n] = s] /\ wal' = wal /\ pg[n].pos < Len(wal)
    BY <1>1, <1>5 DEF Replay
  <2>2. state \in {"running", "starting", "restarting", "down"} /\ pos \in Nat \ {0}
    BY <1>1 DEF Servers
  <2> HIDE DEF state, pos
  <2>3. /\ s \in Servers /\ s.pos = pos /\ s.run = pg[n].run /\ s.state = state
    BY <1>1, <2>2 DEF Servers
  <2> HIDE DEF s
  <2>4. wal[pg[n].pos + 1] \in Nat /\ s.pos <= Len(wal)
    BY <1>1, <2>1, <2>3 DEF pos
  <2>5. s.state \in {"starting", "running"} => s.run >= wal[s.pos]
    BY <1>1, <2>3, <2>4 DEF state, pos
  <2>6. QED
    BY <1>2, <2>1, <2>4, <2>5, <2>3
<1>6. ASSUME NEW n \in Nodes, NEW state \in {"down", "restarting"}, pg' = [pg EXCEPT ![n].state = state], wal' = wal
      PROVE  PgTypes' /\ StandbyStarts'
  <2> DEFINE s == [pg[n] EXCEPT !.state = state]
  <2>1. pg' = [pg EXCEPT ![n] = s] /\ s \in Servers /\ s.pos = pg[n].pos /\ s.state = state
    BY <1>1, <1>6 DEF Servers
  <2> HIDE DEF s
  <2>2. s.pos <= Len(wal) /\ s.state \notin {"starting", "running"}
    BY <1>1, <2>1
  <2>3. QED
    BY <1>2, <1>6, <2>1, <2>2
<1>7. ASSUME UNCHANGED <<wal, pg>> PROVE PgTypes' /\ StandbyStarts'
  BY <1>1, <1>7 DEF PgTypes, StandbyStarts, Required
<1>8. ASSUME NEW n \in Nodes, PgCrash(n) \/ Restart(n) \/ Crash(n) PROVE PgTypes' /\ StandbyStarts'
  BY <1>6, <1>7, <1>8 DEF PgCrash, Restart, Crash, Set
<1>9. ASSUME NEW m \in Nodes, Switchover(m) PROVE PgTypes' /\ StandbyStarts'
  <2> DEFINE old == [pg[lead] EXCEPT !.state = "down", !.role = "replica"]
             new == [pg[m] EXCEPT !.role = "primary"]
             others == [pg EXCEPT ![lead] = old, ![m] = new]
  <2>1. /\ old \in Servers /\ old.state = "down" /\ old.pos = pg[lead].pos
        /\ new \in Servers /\ new.role = "primary" /\ new.pos = pg[m].pos
    BY <1>1 DEF Servers
  <2>2. m # lead /\ Recorded(m, pg[m].run, [pg EXCEPT ![lead].state = "down", ![lead].role = "replica", ![m].role = "primary"])
    BY <1>9 DEF Switchover
  <2>3. [pg EXCEPT ![lead].state = "down", ![lead].role = "replica", ![m].role = "primary"] = others
    BY <1>1, <2>2
  <2> HIDE DEF old, new
  <2>4. Recorded(m, pg[m].run, others)
    BY <2>2, <2>3
  <2>5. /\ others \in [Nodes -> Servers] /\ others[lead] = old /\ others[m] = new
        /\ \A n \in Nodes \ {lead, m} : others[n] = pg[n]
    BY <1>1, <2>1, <2>2
  <2>6. \A n \in Nodes : others[n].pos <= Len(wal)
    BY <1>1, <2>1, <2>5
  <2> HIDE DEF others
  <2>7. /\ wal' \in Seq(Nat) /\ wal' # <<>> /\ pg' \in [Nodes -> Servers]
        /\ \A n \in Nodes : /\ pg'[n].pos <= Len(wal')
                            /\ n # m => pg'[n] = others[n]
                            /\ pg'[n].state = others[n].state /\ pg'[n].role = others[n].role
        /\ \A i \in 1..Len(wal) : wal'[i] = wal[i]
    BY <1>1, <2>4, <2>5, <2>6, RecordedType
  <2>8. pg'[m].role = "primary" /\ pg'[lead].state = "down"
    BY <1>1, <2>1, <2>5, <2>7
  <2>9. \A n \in Nodes \ {lead, m} : pg'[n] = pg[n] /\ wal'[pg'[n].pos] = wal[pg[n].pos]
    BY <1>1, <2>5, <2>7
  <2>10. QED
    BY <2>7, <2>8, <2>9 DEF PgTypes, StandbyStarts, Required
<1>10. QED
  BY ZenonT(60), <1>3, <1>4, <1>5, <1>7, <1>8, <1>9
  DEF Next, Steps, Requests, Faults, HaCycle, ApplyConfig, Reload, ReloadFails, ReloadCheck, SaveCache, Sighup,
      RequestRead, PatchMerge, PatchWrite, PutWrite, RequestFails, StartPatroni, EditRead, EditWrite, Wipe, vars

LEMMA TypesNext ==
  ASSUME Types, StandbyStarts, [Next]_vars
  PROVE  Types' /\ StandbyStarts'
BY ConfigTypesNext, NodeTypesNext, PgNext, SharedDataNext DEF Types

LEMMA StandbyStartsInit == Init => StandbyStarts
<1> SUFFICES ASSUME Init PROVE StandbyStarts
  OBVIOUS
<1>1. Types
  BY TypesInit
<1>2. \A n \in Nodes : pg[n].run = wal[1] /\ pg[n].pos = 1
  BY DEF Init
<1>3. wal[1] \in Nat
  BY <1>1 DEF Types, PgTypes
<1>4. QED
  BY <1>2, <1>3 DEF StandbyStarts, Required

LEMMA SpecTypes == Spec => [](Types /\ StandbyStarts)
BY TypesInit, StandbyStartsInit, TypesNext, PTL DEF Spec

\* Whatever anybody writes to /config, with PATCH, PUT or edit-config, however often, and whatever a
\* PATCH changes in place: every node works with timeouts that obey the rule, and with a
\* max_connections that passes the validator.
THEOREM EveryNodeIsValid == Spec => []EffectiveIsValid
<1>1. Types => EffectiveIsValid
  BY SMTT(60) DEF Types, NodeTypes, EffectiveIsValid, Confs, FitTimeouts
<1>2. QED
  BY SpecTypes, <1>1, PTL

\* No standby runs with a lower max_connections than the WAL that it has replayed asks for, however
\* often the setting, the leader and the state of the servers change.
THEOREM NoStandbyIsShort == Spec => []StandbyStarts
BY SpecTypes, PTL

-----------------------------------------------------------------------------
(* No edit takes back another *)

\* The data d that was read, but for what the edit r names, is that of /config.
Agrees(r, d) ==
  /\ r.key # "t" => AdjustTimeouts(r.data.t) = AdjustTimeouts(d.t)
  /\ r.key # "conns" => r.data.conns = d.conns

\* Nothing has been read before it was written, and one version of /config has one content.
UnderWay(r) == r.pc = "merged" \/ (r.pc = "read" /\ r.kind = "patch")
ReadsAgree(r) ==
  UnderWay(r) => r.ver <= config.ver /\ (r.ver = config.ver /\ config.data # Absent => Agrees(r, config.data))

EditorAgrees == editor.kind = "patch" /\ ReadsAgree(editor)
VersionInv == EditorAgrees /\ \A n \in Nodes : ReadsAgree(request[n])

\* /config when there is a new version of it, when it has been wiped, and when it is as it was
LEMMA ConfigSteps ==
  ASSUME Types, [Next]_vars
  PROVE  \/ config' = config
         \/ config' = [config EXCEPT !.data = Absent]
         \/ config'.ver = config.ver + 1
<1>1. ASSUME NEW n \in Nodes, HaCycle(n) PROVE config' = config \/ config'.ver = config.ver + 1
  <2>1. config' \in {config, [ver |-> config.ver + 1, data |-> conf[n].dyn]}
    BY <1>1 DEF HaCycle
  <2>2. QED
    BY <2>1
<1>2. ASSUME NEW data, Publish(data) PROVE config'.ver = config.ver + 1
  BY <1>2 DEF Publish
<1>3. ASSUME NEW n \in Nodes, PatchWrite(n) \/ PutWrite(n) PROVE config' = config \/ config'.ver = config.ver + 1
  BY <1>2, <1>3 DEF PatchWrite, PutWrite
<1>4. CASE EditWrite
  BY <1>2, <1>4 DEF EditWrite
<1>5. CASE Wipe
  BY <1>5 DEF Wipe
<1>6. QED
  BY ZenonT(60), <1>1, <1>3, <1>4, <1>5
  DEF Next, Steps, Requests, Faults, ApplyConfig, Reload, ReloadFails, ReloadCheck, SaveCache, Sighup,
      RequestRead, PatchMerge, RequestFails, StartPg, PgUp, Replay, PgCrash, Restart,
      Switchover, Crash, StartPatroni, EditRead, vars

\* A step that changes /config and touches a request is the write of a request, one that changes the
\* editor is the write of the editor.
LEMMA WhoWrites ==
  ASSUME [Next]_vars, config' # config
  PROVE  /\ request' # request => \E n \in Nodes : PatchWrite(n) \/ PutWrite(n)
         /\ editor' # editor => EditWrite
BY ZenonT(60) DEF Next, Steps, Requests, Faults, HaCycle, ApplyConfig, Reload, ReloadFails, ReloadCheck, SaveCache, Sighup,
       RequestRead, PatchMerge, PatchWrite, PutWrite, RequestFails, StartPg, PgUp, Replay, PgCrash, Restart,
       Switchover, Crash, StartPatroni, EditRead, EditWrite, Wipe, vars

\* What was read still agrees with /config after any step.
LEMMA StillAgrees ==
  ASSUME Types, [Next]_vars, NEW r \in RequestRecords, ReadsAgree(r)
  PROVE  UnderWay(r) => /\ r.ver <= config'.ver
                        /\ r.ver = config'.ver /\ config'.data # Absent => Agrees(r, config'.data)
<1>1. config \in Configs /\ r.ver \in Int
  BY DEF Types, ConfigTypes, RequestRecords
<1>2. CASE config' = config
  BY <1>2 DEF ReadsAgree
<1>3. CASE config' = [config EXCEPT !.data = Absent]
  BY <1>1, <1>3 DEF ReadsAgree, Configs
<1>4. CASE config'.ver = config.ver + 1
  BY <1>1, <1>4 DEF ReadsAgree, Configs
<1>5. QED
  BY <1>2, <1>3, <1>4, ConfigSteps

LEMMA VersionNext ==
  ASSUME Types, Types', VersionInv, [Next]_vars
  PROVE  VersionInv'
<1>1. /\ config \in Configs /\ editor \in RequestRecords /\ request \in [Nodes -> RequestRecords]
      /\ config' \in Configs /\ request' \in [Nodes -> RequestRecords]
  BY DEF Types, ConfigTypes
<1>2. ~UnderWay(NoRequest)
  BY DEF UnderWay, NoRequest
\* It is enough to look at the requests that a step changes.
<1>3. ASSUME NEW r \in RequestRecords, ReadsAgree(r)
      PROVE  UnderWay(r) => /\ r.ver <= config'.ver
                            /\ r.ver = config'.ver /\ config'.data # Absent => Agrees(r, config'.data)
  BY <1>3, StillAgrees
<1>4. editor' = editor => EditorAgrees'
  BY <1>1, <1>3 DEF VersionInv, EditorAgrees, ReadsAgree, UnderWay, Agrees
<1>5. \A n \in Nodes : request'[n] = request[n] => ReadsAgree(request[n])'
  <2>1. SUFFICES ASSUME NEW n \in Nodes, request'[n] = request[n] PROVE ReadsAgree(request[n])'
    OBVIOUS
  <2>2. request[n] \in RequestRecords /\ ReadsAgree(request[n])
    BY <1>1 DEF VersionInv
  <2>3. QED
    BY <1>3, <2>1, <2>2 DEF ReadsAgree, UnderWay, Agrees
<1>6. ASSUME NEW n \in Nodes, editor' = editor, ReadsAgree(request[n])',
             \A m \in Nodes \ {n} : request'[m] = request[m]
      PROVE  VersionInv'
  BY <1>4, <1>5, <1>6 DEF VersionInv
<1>7. ASSUME NEW n \in Nodes, editor' = editor, request' = [request EXCEPT ![n] = NoRequest]
      PROVE  VersionInv'
  <2>1. request'[n] = NoRequest /\ \A m \in Nodes \ {n} : request'[m] = request[m]
    BY <1>1, <1>7
  <2>2. ReadsAgree(request[n])'
    BY <1>2, <2>1 DEF ReadsAgree, UnderWay
  <2>3. QED
    BY <1>6, <1>7, <2>1, <2>2
<1>8. ASSUME NEW n \in Nodes, ApplyConfig(n) PROVE VersionInv'
  <2> DEFINE r == request[n]
             d == Adjusted(r.data)
  <2>1. config' = config /\ editor' = editor
    BY <1>8 DEF ApplyConfig
  <2>2. CASE request' = request
    BY <1>4, <1>5, <2>1, <2>2 DEF VersionInv
  <2>3. CASE request' # request
    <3>1. /\ object[n].data # Absent /\ "dcs" \in shared[n] /\ r.pc = "read"
          /\ request' = [request EXCEPT ![n].data = d]
      BY <1>8, <2>3 DEF ApplyConfig
    <3>2. r.data \in Data
      BY <3>1 DEF Types, ConfigTypes, Objects, SharedData
    <3>3. d.t = AdjustTimeouts(r.data.t) /\ d.conns = r.data.conns /\ r.data.t \in Timeouts
      BY <3>2, AdjustedType DEF Data
    <3>4. AdjustTimeouts(d.t) = AdjustTimeouts(r.data.t)
      BY <3>3, AdjustedTwice
    <3> HIDE DEF d
    <3>5. /\ request'[n] = [r EXCEPT !.data = d] /\ r \in RequestRecords
          /\ \A m \in Nodes \ {n} : request'[m] = request[m]
      BY <1>1, <3>1
    <3>6. /\ request'[n].pc = r.pc /\ request'[n].kind = r.kind /\ request'[n].key = r.key
          /\ request'[n].ver = r.ver /\ request'[n].data = d
      BY <3>5 DEF RequestRecords
    <3>7. ReadsAgree(r)
      BY DEF VersionInv
    <3>8. ReadsAgree(request[n])'
      BY <2>1, <3>3, <3>4, <3>6, <3>7 DEF ReadsAgree, UnderWay, Agrees
    <3>9. QED
      BY <1>6, <2>1, <3>5, <3>8
  <2>4. QED
    BY <2>2, <2>3
<1>9. ASSUME NEW n \in Nodes, RequestRead(n) PROVE VersionInv'
  <2> DEFINE read == [NoRequest EXCEPT !.pc = "read", !.ver = config.ver, !.data = config.data]
  <2>1. /\ config' = config /\ editor' = editor
        /\ \/ request' = Set(request, n, [read EXCEPT !.kind = "put"])
           \/ \E key \in {"t", "conns"} : \E val \in ValuesOf(key) :
                request' = Set(request, n, [read EXCEPT !.key = key, !.val = val])
    BY <1>9 DEF RequestRead
  <2>2. \A m \in Nodes \ {n} : request'[m] = request[m]
    BY <1>1, <2>1 DEF Set
  <2>3. CASE request' = Set(request, n, [read EXCEPT !.kind = "put"])
    <3>1. request'[n].kind = "put" /\ request'[n].pc = "read"
      BY <1>1, <2>3 DEF Set, NoRequest
    <3>2. QED
      BY <1>6, <2>1, <2>2, <3>1 DEF ReadsAgree, UnderWay
  <2>4. ASSUME NEW key \in {"t", "conns"}, NEW val, request' = Set(request, n, [read EXCEPT !.key = key, !.val = val])
        PROVE  VersionInv'
    <3>1. request'[n].ver = config.ver /\ request'[n].data = config.data
      BY <1>1, <2>4 DEF Set, NoRequest
    <3>2. config.ver \in Int
      BY <1>1 DEF Configs
    <3>3. ReadsAgree(request[n])'
      <4>1. request'[n].ver <= config'.ver
        <5>1. request'[n].ver = config.ver /\ config'.ver = config.ver
          BY <2>1, <3>1
        <5>2. QED
          BY <3>2, <5>1
      <4>2. request'[n].data = config'.data
        BY <2>1, <3>1
      <4>3. Agrees(request[n], config.data)'
        BY <4>2 DEF Agrees
      <4>4. QED
        BY <4>1, <4>3 DEF ReadsAgree
    <3>4. QED
      BY <1>6, <2>1, <2>2, <3>3
  <2>5. QED
    BY <2>1, <2>3, <2>4
<1>10. ASSUME NEW n \in Nodes, PatchMerge(n) PROVE VersionInv'
  <2> DEFINE r == request[n]
             merged == PatchConfig(r.data, r.key, r.val)
  <2>1. r \in RequestRecords /\ r.pc = "read" /\ r.kind = "patch" /\ config' = config /\ editor' = editor
    BY <1>1, <1>10 DEF PatchMerge
  <2>2. CASE merged = r.data
    BY <1>7, <1>10, <2>1, <2>2 DEF PatchMerge, RequestEnds, Set
  <2>3. CASE merged # r.data
    <3>1. request' = [request EXCEPT ![n] = [r EXCEPT !.pc = "merged", !.data = merged]]
      BY <1>10, <2>3 DEF PatchMerge, Set
    <3>2. r.data \in Data /\ r.key \in {"t", "conns"} /\ r.val \in ValuesOf(r.key)
      BY <2>1 DEF RequestRecords
    <3>3. (r.key = "conns" => merged.t = r.data.t) /\ (r.key = "t" => merged.conns = r.data.conns)
      BY <3>2, PatchType
    <3> HIDE DEF merged
    <3>4. /\ request'[n] = [r EXCEPT !.pc = "merged", !.data = merged]
          /\ \A m \in Nodes \ {n} : request'[m] = request[m]
      BY <1>1, <3>1
    <3>5. /\ request'[n].key = r.key /\ request'[n].ver = r.ver /\ request'[n].data = merged
      BY <2>1, <3>4 DEF RequestRecords
    <3>6. ReadsAgree(r)
      BY DEF VersionInv
    <3>7. ReadsAgree(request[n])'
      BY <2>1, <3>2, <3>3, <3>5, <3>6 DEF ReadsAgree, UnderWay, Agrees
    <3>8. QED
      BY <1>6, <2>1, <3>4, <3>7
  <2>4. QED
    BY <2>2, <2>3
<1>11. ASSUME NEW n \in Nodes, PatchWrite(n) \/ PutWrite(n) \/ RequestFails(n) \/ Crash(n) PROVE VersionInv'
  BY <1>7, <1>11 DEF PatchWrite, PutWrite, RequestFails, Crash, RequestEnds, Set
<1>12. CASE EditRead
  <2>1. PICK key \in {"t", "conns"} : \E val \in ValuesOf(key) :
          editor' = [pc |-> "read", kind |-> "patch", key |-> key, val |-> val,
                     ver |-> config.ver, data |-> PatchConfig(config.data, key, val)]
    BY <1>12 DEF EditRead
  <2>2. PICK val \in ValuesOf(key) :
          editor' = [pc |-> "read", kind |-> "patch", key |-> key, val |-> val,
                     ver |-> config.ver, data |-> PatchConfig(config.data, key, val)]
    BY <2>1
  <2>3. config' = config /\ config.data \in Data /\ config.ver \in Int /\ request' = request
    BY <1>1, <1>12 DEF EditRead, Configs
  <2> DEFINE merged == PatchConfig(config.data, key, val)
  <2>4. (key = "conns" => merged.t = config.data.t) /\ (key = "t" => merged.conns = config.data.conns)
    BY <2>3, PatchType
  <2> HIDE DEF merged
  <2>5. editor'.key = key /\ editor'.ver = config.ver /\ editor'.data = merged
    BY <2>2 DEF merged
  <2>6. EditorAgrees'
    BY <2>2, <2>3, <2>4, <2>5 DEF EditorAgrees, ReadsAgree, Agrees
  <2>7. QED
    BY <1>5, <2>3, <2>6 DEF VersionInv
<1>13. CASE EditWrite
  <2>1. editor' = NoRequest /\ request' = request
    BY <1>13 DEF EditWrite
  <2>2. EditorAgrees'
    BY <1>2, <2>1 DEF EditorAgrees, ReadsAgree, UnderWay, NoRequest
  <2>3. QED
    BY <1>5, <2>1, <2>2 DEF VersionInv
<1>14. ASSUME UNCHANGED <<request, editor>> PROVE VersionInv'
  BY <1>4, <1>5, <1>14 DEF VersionInv
<1>15. QED
  BY <1>8, <1>9, <1>10, <1>11, <1>12, <1>13, <1>14
  DEF Next, Steps, Requests, Faults, HaCycle, Reload, ReloadFails, ReloadCheck, SaveCache, Sighup,
      StartPg, PgUp, Replay, PgCrash, Restart, Switchover, StartPatroni, Wipe, vars

\* With a version that is always compared, an edit that is written changes nothing but the key that it
\* names: between the reading and the writing nobody else has written.
THEOREM NoEditIsTakenBack ==
  ASSUME ~ZooKeeper
  PROVE  Spec => EditsAreKept
<1>1. Init => VersionInv
  BY DEF Init, VersionInv, EditorAgrees, ReadsAgree, UnderWay, NoRequest
<1>2. ASSUME Types, Types', VersionInv, [Next]_vars
      PROVE  /\ \A n \in Nodes : request[n].pc = "merged" /\ request'[n].pc = "none" /\ config' # config =>
                  config.data # Absent /\ KeepsOthers(request[n])
             /\ editor.pc = "read" /\ editor'.pc = "none" /\ config' # config =>
                  config.data # Absent /\ KeepsOthers(editor)
  <2>1. ASSUME NEW r \in RequestRecords, ReadsAgree(r), UnderWay(r), Accepts(r.ver), Publish(r.data)
        PROVE  config.data # Absent /\ KeepsOthers(r)
    <3>1. config.data # Absent /\ config.ver = r.ver /\ config'.data = r.data
      BY <2>1 DEF Accepts, Publish
    <3>2. Agrees(r, config.data)
      BY <2>1, <3>1 DEF ReadsAgree
    <3>3. QED
      BY <3>1, <3>2 DEF Agrees, KeepsOthers
  <2>2. ASSUME NEW n \in Nodes, request[n].pc = "merged", request'[n].pc = "none", config' # config
        PROVE  config.data # Absent /\ KeepsOthers(request[n])
    <3>1. \E m \in Nodes : PatchWrite(m) \/ PutWrite(m)
      BY <1>2, <2>2, WhoWrites
    <3>2. PICK m \in Nodes : PatchWrite(m) \/ PutWrite(m)
      BY <3>1
    <3>3. request' = [request EXCEPT ![m] = NoRequest] /\ request \in [Nodes -> RequestRecords]
      BY <1>2, <3>2 DEF PatchWrite, PutWrite, RequestEnds, Set, Types, ConfigTypes
    <3>4. m = n /\ PatchWrite(n)
      BY <2>2, <3>2, <3>3 DEF PutWrite
    <3>5. Accepts(request[n].ver) /\ Publish(request[n].data)
      BY <2>2, <3>4 DEF PatchWrite
    <3>6. request[n] \in RequestRecords /\ ReadsAgree(request[n]) /\ UnderWay(request[n])
      BY <1>2, <2>2, <3>3 DEF VersionInv, UnderWay
    <3>7. QED
      BY <2>1, <3>5, <3>6
  <2>3. ASSUME editor.pc = "read", editor'.pc = "none", config' # config
        PROVE  config.data # Absent /\ KeepsOthers(editor)
    <3>1. EditWrite
      BY <1>2, <2>3, WhoWrites
    <3>2. Accepts(editor.ver) /\ Publish(editor.data)
      BY <2>3, <3>1 DEF EditWrite
    <3>3. editor \in RequestRecords /\ ReadsAgree(editor) /\ editor.kind = "patch"
      BY <1>2 DEF VersionInv, EditorAgrees, Types, ConfigTypes
    <3>4. UnderWay(editor)
      BY <2>3, <3>3 DEF UnderWay
    <3>5. QED
      BY <2>1, <3>2, <3>3, <3>4
  <2>4. QED
    BY <2>2, <2>3
<1>3. QED
  BY SpecTypes, <1>1, <1>2, VersionNext, PTL DEF Spec, EditsAreKept

-----------------------------------------------------------------------------
(* pending_restart *)

\* A node that has missed nothing (what a PATCH hid from it is of no interest here) says so whenever
\* PostgreSQL starts or runs with another value; between the reload and the look at pg_settings a
\* second later, postgresql.conf has the value that is looked for.
Marked(n) ==
  n \in up /\ missed[n] \subseteq {"patched"} /\ pg[n].state \in {"starting", "running"} =>
    IF pc[n] = "check" THEN Runs(n) /\ param[n].file = param[n].server
    ELSE pg[n].run # param[n].server => param[n].flag

Rests(n) == n \notin up => pc[n] = "idle"

SaysInv == \A n \in Nodes : Marked(n) /\ Rests(n)

\* What the two say of a node is about the node alone.
SameNode(n) ==
  /\ pc'[n] = pc[n] /\ param'[n] = param[n] /\ missed'[n] = missed[n]
  /\ pg'[n].state = pg[n].state /\ pg'[n].run = pg[n].run /\ (n \in up' <=> n \in up)

LEMMA SameIsMarked ==
  ASSUME NEW n \in Nodes, Marked(n), Rests(n), SameNode(n)
  PROVE  Marked(n)' /\ Rests(n)'
BY DEF Marked, Rests, SameNode, Runs

\* A PostgreSQL that changes its state, neither starting nor with another value, is marked as before.
LEMMA PgIsMarked ==
  ASSUME NEW n \in Nodes, Marked(n), Rests(n),
         pc'[n] = pc[n], param'[n] = param[n], missed'[n] = missed[n], n \in up' <=> n \in up,
         pg'[n].run = pg[n].run,
         pg'[n].state = "running" => pg[n].state \in {"starting", "running"},
         pg'[n].state # "starting" \/ pg[n].state = "starting"
  PROVE  Marked(n)' /\ Rests(n)'
BY DEF Marked, Rests, Runs

\* The main loop
LEMMA LoopIsMarked ==
  ASSUME Types, SaysInv, NEW n \in Nodes,
         Steps(n) \/ ReloadFails(n) \/ Sighup(n) \/ PatchMerge(n)
  PROVE  SaysInv'
<1> USE DEF Types, NodeTypes, PgTypes
<1>0. up' = up /\ pg' = pg
  BY DEF Steps, HaCycle, ApplyConfig, Reload, ReloadCheck, SaveCache, ReloadFails, Sighup, PatchMerge
<1>1. \A m \in Nodes \ {n} : SameNode(m)
  <2>1. CASE HaCycle(n) \/ ApplyConfig(n)
    BY <1>0, <2>1 DEF SameNode, HaCycle, ApplyConfig, Set
  <2>2. CASE Reload(n)
    BY <1>0, <2>2 DEF SameNode, Reload, ReloadRunning, ReloadStopped, Missing, Set
  <2>3. CASE ReloadCheck(n) \/ SaveCache(n) \/ ReloadFails(n) \/ Sighup(n) \/ PatchMerge(n)
    BY <1>0, <2>3 DEF SameNode, ReloadCheck, SaveCache, ReloadFails, Sighup, PatchMerge, Set
  <2>4. QED
    BY <2>1, <2>2, <2>3 DEF Steps
<1>2. Marked(n) /\ Rests(n)
  BY DEF SaysInv
<1>3. Rests(n)'
  BY <1>0 DEF Rests, SaysInv, Steps, HaCycle, ApplyConfig, Reload, ReloadCheck, SaveCache, ReloadFails,
              Sighup, PatchMerge
<1>4. Marked(n)'
  <2>1. CASE HaCycle(n) \/ SaveCache(n) \/ Sighup(n)
    BY <1>0, <1>2, <2>1 DEF Marked, Runs, HaCycle, SaveCache, Sighup, Set
  <2>2. CASE ApplyConfig(n)
    <3>1. pc[n] = "ran" /\ pc'[n] \in {"reload", "save", "idle"} /\ param' = param
      BY <2>2 DEF ApplyConfig, Set
    <3>2. missed'[n] \subseteq {"patched"} => missed[n] \subseteq {"patched"}
      BY <2>2 DEF ApplyConfig, Set
    <3>3. QED
      BY <1>0, <1>2, <3>1, <3>2 DEF Marked
  <2>3. CASE Reload(n) /\ Runs(n)
    <3> DEFINE new == ServerParameters(conf[n])
               p == param[n]
               both == [p EXCEPT !.server = new, !.file = new]
               same == [p EXCEPT !.server = new, !.flag = FALSE]
    <3>1. p \in [server : Nat, file : Nat, flag : BOOLEAN]
      OBVIOUS
    <3>2. both.server = new /\ both.file = new /\ same.server = new
      BY <3>1
    <3>3. \/ pc'[n] = "check" /\ param' = [param EXCEPT ![n] = both]
          \/ pg[n].run = new /\ pc'[n] = "save" /\ param' = [param EXCEPT ![n] = same]
      BY <2>3 DEF Reload, ReloadRunning, Set
    <3> HIDE DEF new, p, both, same
    <3>4. \/ pc'[n] = "check" /\ param'[n] = both
          \/ pg[n].run = new /\ pc'[n] = "save" /\ param'[n] = same
      BY <3>3
    <3>5. QED
      BY <1>0, <2>3, <3>2, <3>4 DEF Marked, Runs
  <2>4. CASE Reload(n) /\ ~Runs(n)
    <3> DEFINE new == ServerParameters(conf[n])
    <3>1. ReloadStopped(n, new)
      BY <2>4 DEF Reload
    <3> HIDE DEF new
    <3>2. pc'[n] = "save" /\ param'[n].server = new
      BY <3>1 DEF ReloadStopped, Set
    <3>3. pg[n].state = "starting" /\ pg[n].run # new => "started" \in missed'[n]
      BY <3>1 DEF ReloadStopped, Missing, Set
    <3>4. QED
      BY <1>0, <2>4, <3>2, <3>3 DEF Marked, Runs
  <2>5. CASE ReloadCheck(n)
    <3>1. /\ pc[n] = "check" /\ pc'[n] = "save" /\ missed' = missed
          /\ param'[n].server = param[n].server
          /\ Runs(n) => param'[n].flag = (param[n].file # pg[n].run)
      BY <2>5 DEF ReloadCheck, Set
    <3>2. QED
      BY <1>0, <1>2, <3>1 DEF Marked, Runs
  <2>6. CASE ReloadFails(n)
    BY <2>6 DEF ReloadFails, Marked, Set
  <2>7. CASE PatchMerge(n)
    <3>1. missed[n] \subseteq missed'[n] /\ pc' = pc /\ param' = param
      BY <2>7 DEF PatchMerge, Set
    <3>2. QED
      BY <1>0, <1>2, <3>1 DEF Marked, Runs
  <2>8. QED
    BY <2>1, <2>2, <2>3, <2>4, <2>5, <2>6, <2>7 DEF Steps
<1>5. QED
  BY <1>1, <1>3, <1>4, SameIsMarked DEF SaysInv

\* PostgreSQL is started, with the flag that belongs to its value ...
LEMMA StartIsMarked ==
  ASSUME Types, SaysInv, NEW n \in Nodes, StartPg(n)
  PROVE  SaysInv'
<1> DEFINE value == EffectiveConfiguration(n, IF lead = n THEN "primary" ELSE "replica")
<1> USE DEF Types, NodeTypes, PgTypes
<1>1. /\ up' = up /\ pc' = pc
      /\ pg'[n].state = "starting" /\ pg'[n].run = value
      /\ param'[n].server = param[n].server /\ param'[n].flag = (value # param[n].server)
      /\ pc[n] = "check" => "started" \in missed'[n]
  BY DEF StartPg, FlagAtStart, Set
<1>2. \A m \in Nodes \ {n} : SameNode(m)
  BY DEF StartPg, SameNode, Set
<1> HIDE DEF value
<1>3. Marked(n)' /\ Rests(n)'
  BY <1>1 DEF Marked, Rests, SaysInv
<1>4. QED
  BY <1>2, <1>3, SameIsMarked DEF SaysInv

\* ... and only then does it run.
LEMMA ServerIsMarked ==
  ASSUME Types, SaysInv, NEW n \in Nodes,
         PgUp(n) \/ Replay(n) \/ PgCrash(n) \/ Restart(n) \/ Switchover(n)
  PROVE  SaysInv'
<1>1. UNCHANGED <<up, pc, param, missed>>
  BY DEF PgUp, Replay, PgCrash, Restart, Switchover, mainVars
<1>2. /\ wal \in Seq(Nat) /\ wal # <<>> /\ pg \in [Nodes -> Servers] /\ lead \in Nodes
      /\ \A m \in Nodes : pg[m].pos <= Len(wal) /\ pg[m].run \in Nat
  BY DEF Types, NodeTypes, PgTypes, Servers
\* What a step makes of the servers (the records of the WAL apart)
<1> DEFINE Calm(f) ==
      \A m \in Nodes : /\ f[m].run = pg[m].run
                       /\ f[m].state = "running" => pg[m].state \in {"starting", "running"}
                       /\ f[m].state # "starting" \/ pg[m].state = "starting"
<1>3. Calm(pg') => SaysInv'
  BY <1>1, PgIsMarked DEF SaysInv
<1> HIDE DEF Calm
<1>4. ASSUME NEW x \in Nodes, NEW t \in Servers, pg' = [pg EXCEPT ![x] = t], t.run = pg[x].run,
             t.state = "running" => pg[x].state \in {"starting", "running"},
             t.state # "starting" \/ pg[x].state = "starting"
      PROVE  Calm(pg')
  <2>1. pg'[x] = t /\ \A m \in Nodes \ {x} : pg'[m] = pg[m]
    BY <1>2, <1>4
  <2>2. QED
    BY <1>4, <2>1 DEF Calm
<1>5. ASSUME NEW x \in Nodes, NEW others \in [Nodes -> Servers], Calm(others),
             \A m \in Nodes : others[m].pos = pg[m].pos, Recorded(x, pg[x].run, others)
      PROVE  Calm(pg')
  <2>1. \A m \in Nodes : others[m].pos <= Len(wal)
    BY <1>2, <1>5
  <2>2. \A m \in Nodes : pg'[m].run = others[m].run /\ pg'[m].state = others[m].state
    BY <1>2, <1>5, <2>1, RecordedType
  <2>3. QED
    BY <1>5, <2>2 DEF Calm
<1>6. CASE PgUp(n)
  <2> DEFINE t == [pg[n] EXCEPT !.state = "running"]
             others == [pg EXCEPT ![n] = t]
  <2>1. /\ t \in Servers /\ t.pos = pg[n].pos /\ t.run = pg[n].run /\ t.state = "running"
        /\ pg[n].state = "starting"
    BY <1>2, <1>6 DEF PgUp, Servers
  <2>2. Recorded(n, pg[n].run, others) \/ pg' = others
    BY <1>6 DEF PgUp
  <2> HIDE DEF t
  <2>3. others \in [Nodes -> Servers] /\ others[n] = t /\ \A m \in Nodes \ {n} : others[m] = pg[m]
    BY <1>2, <2>1
  <2>4. Calm(others) /\ \A m \in Nodes : others[m].pos = pg[m].pos
    BY <2>1, <2>3 DEF Calm
  <2> HIDE DEF others
  <2>5. CASE pg' = others
    BY <1>3, <2>4, <2>5 DEF Calm
  <2>6. QED
    BY <1>3, <1>5, <2>2, <2>3, <2>4, <2>5
<1>7. CASE Replay(n)
  <2> DEFINE state == IF pg[n].run < wal[pg[n].pos + 1] THEN "down" ELSE pg[n].state
             pos == pg[n].pos + 1
             t == [pg[n] EXCEPT !.pos = pos, !.state = state]
  <2>1. pg' = [pg EXCEPT ![n] = t]
    BY <1>2, <1>7 DEF Replay
  <2>2. state \in {"down", pg[n].state} /\ pos \in Nat \ {0}
    BY <1>2 DEF Servers
  <2> HIDE DEF state, pos
  <2>3. t \in Servers /\ t.run = pg[n].run /\ t.state = state
    BY <1>2, <2>2 DEF Servers
  <2> HIDE DEF t
  <2>4. QED
    BY <1>3, <1>4, <2>1, <2>2, <2>3
<1>8. CASE PgCrash(n) \/ Restart(n)
  <2>1. PICK state \in {"down", "restarting"} : pg' = [pg EXCEPT ![n].state = state]
    BY <1>8 DEF PgCrash, Restart
  <2> DEFINE t == [pg[n] EXCEPT !.state = state]
  <2>2. pg' = [pg EXCEPT ![n] = t] /\ t \in Servers /\ t.run = pg[n].run /\ t.state = state
    BY <1>2, <2>1 DEF Servers
  <2> HIDE DEF t
  <2>3. QED
    BY <1>3, <1>4, <2>2
<1>9. CASE Switchover(n)
  <2> DEFINE old == [pg[lead] EXCEPT !.state = "down", !.role = "replica"]
             new == [pg[n] EXCEPT !.role = "primary"]
             others == [pg EXCEPT ![lead] = old, ![n] = new]
  <2>1. /\ old \in Servers /\ old.state = "down" /\ old.pos = pg[lead].pos /\ old.run = pg[lead].run
        /\ new \in Servers /\ new.state = pg[n].state /\ new.pos = pg[n].pos /\ new.run = pg[n].run
    <3>1. pg[lead] \in Servers /\ pg[n] \in Servers
      BY <1>2
    <3>2. QED
      BY <3>1 DEF Servers
  <2>2. n # lead /\ Recorded(n, pg[n].run, [pg EXCEPT ![lead].state = "down", ![lead].role = "replica", ![n].role = "primary"])
    BY <1>9 DEF Switchover
  <2>3. [pg EXCEPT ![lead].state = "down", ![lead].role = "replica", ![n].role = "primary"] = others
    BY <1>2, <2>2
  <2> HIDE DEF old, new
  <2>4. Recorded(n, pg[n].run, others)
    BY <2>2, <2>3
  <2>5. /\ others \in [Nodes -> Servers] /\ others[lead] = old /\ others[n] = new
        /\ \A m \in Nodes \ {lead, n} : others[m] = pg[m]
    BY <1>2, <2>1, <2>2
  <2> HIDE DEF others
  <2>6. Calm(others) /\ \A m \in Nodes : others[m].pos = pg[m].pos
    BY <1>2, <2>1, <2>5 DEF Calm, Servers
  <2>7. QED
    BY <1>3, <1>5, <2>4, <2>5, <2>6
<1>10. QED
  BY <1>6, <1>7, <1>8, <1>9

\* Patroni ends and starts.
LEMMA PatroniIsMarked ==
  ASSUME Types, SaysInv, NEW n \in Nodes, Crash(n) \/ StartPatroni(n)
  PROVE  SaysInv'
<1> USE DEF Types, NodeTypes, PgTypes
<1>1. CASE Crash(n)
  <2>1. n \notin up' /\ pc'[n] = "idle"
    BY <1>1 DEF Crash, Set
  <2>2. \A m \in Nodes \ {n} : SameNode(m)
    BY <1>1 DEF Crash, SameNode, Set
  <2>3. QED
    BY <2>1, <2>2, SameIsMarked DEF SaysInv, Marked, Rests
<1>2. CASE StartPatroni(n)
  <2> DEFINE new == ServerParameters(ApplyDynamic(LoadCache(n)))
             joins == Runs(n) /\ ~IsPrimary(n)
  <2>1. /\ n \notin up /\ up' = up \cup {n} /\ pc' = pc /\ pg' = pg
        /\ param'[n].server = (IF joins THEN pg[n].run ELSE new)
        /\ param'[n].flag = (Runs(n) /\ IsPrimary(n) /\ pg[n].run # new)
        /\ pg[n].state = "starting" /\ pg[n].run # new => "started" \in missed'[n]
    BY <1>2 DEF StartPatroni, RunningParameters, Set, Runs
  <2>2. \A m \in Nodes \ {n} : SameNode(m)
    BY <1>2 DEF StartPatroni, SameNode, Set
  <2> HIDE DEF new
  <2>3. pc[n] = "idle"
    BY <2>1 DEF SaysInv, Rests
  <2>4. Marked(n)' /\ Rests(n)'
    BY <2>1, <2>3 DEF Marked, Rests, Runs
  <2>5. QED
    BY <2>2, <2>4, SameIsMarked DEF SaysInv
<1>3. QED
  BY <1>1, <1>2

LEMMA SaysNext ==
  ASSUME Types, SaysInv, [Next]_vars
  PROVE  SaysInv'
<1>1. ASSUME UNCHANGED <<up, pc, param, missed, pg>> PROVE SaysInv'
  BY <1>1 DEF SaysInv, Marked, Rests, Runs
<1>2. ASSUME NEW n \in Nodes, Steps(n) \/ Requests(n) \/ Faults(n) PROVE SaysInv'
  <2>1. CASE RequestRead(n) \/ PatchWrite(n) \/ PutWrite(n) \/ RequestFails(n)
    BY <1>1, <2>1 DEF RequestRead, PatchWrite, PutWrite, RequestFails, mainVars
  <2>2. QED
    BY <1>2, <2>1, LoopIsMarked, ServerIsMarked, PatroniIsMarked DEF Requests, Faults
<1>3. ASSUME NEW n \in Nodes, StartPg(n) \/ PgUp(n) \/ Replay(n) \/ Restart(n) \/ StartPatroni(n)
      PROVE  SaysInv'
  BY <1>3, StartIsMarked, ServerIsMarked, PatroniIsMarked
<1>4. CASE EditRead \/ EditWrite \/ Wipe \/ UNCHANGED vars
  BY <1>1, <1>4 DEF EditRead, EditWrite, Wipe, vars, mainVars
<1>5. QED
  BY <1>2, <1>3, <1>4 DEF Next

\* A node whose PostgreSQL runs with another max_connections than the node is set to says at the end
\* of its cycle that a restart is pending, whatever starts, ends, is edited or fails meanwhile,
\* unless the node has missed the change.
THEOREM PendingRestartIsShown == Spec => []SaysSo
<1>1. Init => SaysInv
  BY DEF Init, SaysInv, Marked, Rests
<1>2. Types /\ SaysInv => SaysSo
  BY DEF Types, NodeTypes, SaysInv, Marked, SaysSo, Runs
<1>3. QED
  BY SpecTypes, <1>1, <1>2, SaysNext, PTL DEF Spec
=============================================================================
