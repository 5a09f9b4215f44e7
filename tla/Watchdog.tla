------------------------------ MODULE Watchdog ------------------------------
(***************************************************************************)
(* The watchdog of one node: the device resets the host when it has not    *)
(* been fed for its timeout, and Patroni feeds it after every update of    *)
(* the leader key, and in failsafe mode, when the DCS cannot be reached,   *)
(* after every other member has agreed that it goes on.  Time is counted   *)
(* down: what is left until the key expires, until a member that has       *)
(* agreed may race again, and until a device fires.  Any process may be    *)
(* suspended at any point: nothing has to happen before time passes.       *)
(***************************************************************************)
EXTENDS Integers, FiniteSets

CONSTANTS Devices,        \* watchdog devices of the host: the drivers, with their configuration
          Settable,       \* those whose timeout can be set
          Closable,       \* those that stop when they are closed
          DefaultTimeout, \* the timeout of a device that has not been set
          Configs,        \* configurations: mode, driver, ttl, loop_wait
          SafetyMargin,   \* seconds, or -1 for half of the ttl
          SetFails,       \* setting a timeout may fail
          FailsafeMode    \* failsafe_mode

Null == "null"
Modes == {"off", "automatic", "required"}
Config == [mode : Modes, driver : Devices \cup {Null}, ttl : Nat, loop_wait : Nat]
Ttls == {c.ttl : c \in Configs}

ASSUME ConfigsAssumption == Configs \subseteq Config /\ \A c \in Configs : c.ttl > 0 /\ c.loop_wait > 0
ASSUME DevicesAssumption == Null \notin Devices /\ Settable \subseteq Devices /\ Closable \subseteq Devices
ASSUME TimeoutAssumption == DefaultTimeout \in Nat \ {0} /\ SafetyMargin \in Int
ASSUME FlagsAssumption == SetFails \in BOOLEAN /\ FailsafeMode \in BOOLEAN

VARIABLES config,       \* config
          activeConfig, \* active_config
          active,       \* active
          impl,         \* impl: a device or Null
          fds,          \* the devices that this process has open
          hw,           \* the devices: armed, what is left until they fire, the timeout
          key,          \* what is left until the leader key of this node expires
          agreed,       \* what is left until the first member that agreed stops taking it for the leader
          pc,           \* where the HA loop is
          primary,      \* PostgreSQL runs as a primary
          paused,       \* maintenance mode
          guarded       \* history: since it became primary a fit device was activated in time

watchdogVars == <<activeConfig, active, impl, fds, hw>>
vars == <<config, watchdogVars, key, agreed, pc, primary, paused, guarded>>

-----------------------------------------------------------------------------
(* WatchdogConfig and the devices. *)

timeout(c) == IF SafetyMargin = -1 THEN c.ttl \div 2 ELSE c.ttl - SafetyMargin
timing_slack(c) == timeout(c) - c.loop_wait

Off(d) == [armed |-> FALSE, left |-> 0, timeout |-> DefaultTimeout]

\* The state of the watchdog, which the operations below change one after the other; the outcomes of
\* the calls to the device are given.
State == [activeConfig |-> activeConfig, active |-> active, impl |-> impl, fds |-> fds, hw |-> hw]
Become(w) == /\ activeConfig' = w.activeConfig /\ active' = w.active /\ impl' = w.impl
             /\ fds' = w.fds /\ hw' = w.hw

Running(w) == w.impl \in w.fds

\* A device that has been opened runs, and feeding it or setting its timeout starts it anew.
Feed(w, t) == [w EXCEPT !.hw[w.impl] = [armed |-> TRUE, left |-> t, timeout |-> t]]
Fed(w) == IF Running(w) THEN Feed(w, w.hw[w.impl].timeout) ELSE w

\* close: a device that cannot be stopped goes on.
Close(w) == IF ~Running(w) THEN w
            ELSE [w EXCEPT !.fds = @ \ {w.impl},
                           !.hw[w.impl] = IF w.impl \in Closable THEN Off(w.impl) ELSE @]

get_impl(w) == [w EXCEPT !.impl = config.driver]

\* _set_timeout, of a device that has been opened; a timeout shorter than a cycle is of no use.
SetTimeout(w, set) ==
  LET timed == IF w.impl \in Settable THEN Feed(w, timeout(config)) ELSE w IN
  IF w.impl \in Settable /\ ~(set /\ timeout(config) > 0) THEN [w EXCEPT !.impl = Null]
  ELSE IF timed.hw[timed.impl].timeout < config.loop_wait /\ timed.impl \in Closable
       THEN [Close(timed) EXCEPT !.impl = Null]
  ELSE timed

\* _activate.  (When a timeout cannot be set the device stays open.)
Activated(w, open, set) ==
  LET w1 == [w EXCEPT !.activeConfig = config] IN
  IF w1.impl = Null \/ timing_slack(config) < 0 \/ ~open \/ w1.impl \in w1.fds
  THEN [w1 EXCEPT !.impl = Null]
  ELSE SetTimeout(Fed([w1 EXCEPT !.fds = @ \cup {w1.impl}]), set)

\* ... and what it returns
Suitable(w) == config.mode = "required" => Running(w) /\ w.hw[w.impl].timeout <= timeout(config)

\* (As a mutant of Disabled: the device is fed for the last time, and left open.)
DisabledFed(w) == Fed(w)

\* _disable: a device that cannot be stopped is fed for the last time.
Disabled(w) == Close(IF w.impl \in Closable THEN w ELSE Fed(w))

\* activate and disable
Activate(open, set) == Activated([State EXCEPT !.active = TRUE], open, set)
Disable == [Disabled(State) EXCEPT !.active = FALSE]

\* A pending change of the configuration is applied, unless the new timeout cannot be set.
Applied(w, open, set) ==
  IF (config.mode # "off" /\ w.activeConfig.mode = "off") THEN Activated(get_impl(w), open, set)
  ELSE IF config.driver # w.activeConfig.driver THEN Activated(get_impl(Disabled(w)), open, set)
  ELSE IF timeout(config) = timeout(w.activeConfig) THEN [w EXCEPT !.activeConfig = config]
  ELSE IF Running(w) /\ w.impl \in Settable /\ set /\ timeout(config) > 0
       THEN [Feed(w, timeout(config)) EXCEPT !.activeConfig = config]
  ELSE w

\* keepalive.  Feeding a device that is not open is an error.
Keepalive(open, set) ==
  IF ~active \/ (impl # Null /\ ~Running(State)) THEN State
  ELSE IF config = activeConfig THEN Fed(State)
  ELSE Applied(Fed(State), open, set)

\* (As a mutant of Reloaded: a device that is in use is not closed when the watchdog is turned off.)
ReloadedUnclosed(c) ==
  LET off == IF c.mode # "off" THEN State ELSE [State EXCEPT !.activeConfig = c, !.impl = Null]
  IN IF active THEN off
     ELSE [off EXCEPT !.impl = IF c.driver # off.activeConfig.driver THEN c.driver ELSE @,
                      !.activeConfig = c]

\* reload_config: unless it is turned off an active watchdog waits for the next keepalive.
Reloaded(c) ==
  LET off == IF c.mode # "off" THEN State
             ELSE [(IF active THEN Disabled(State) ELSE State) EXCEPT !.activeConfig = c, !.impl = Null]
  IN IF active THEN off
     ELSE [off EXCEPT !.impl = IF c.driver # off.activeConfig.driver THEN c.driver ELSE @,
                      !.activeConfig = c]

-----------------------------------------------------------------------------
(* What the HA loop does with it, unless a device fires now. *)

Due == \E d \in Devices : hw[d].armed /\ hw[d].left = 0

Outcomes == {o \in BOOLEAN \X BOOLEAN : o[2] \/ SetFails}

\* A process that starts
Fresh(c) == [activeConfig |-> c, active |-> FALSE, impl |-> IF c.mode = "off" THEN Null ELSE c.driver,
             fds |-> {}, hw |-> [d \in Devices |-> Off(d)]]

Init ==
  /\ config \in Configs
  /\ activeConfig = config /\ active = FALSE /\ impl = Fresh(config).impl /\ fds = {}
  /\ hw = [d \in Devices |-> Off(d)]
  /\ key = 0 /\ agreed = 0 /\ pc = "idle" /\ primary = FALSE /\ paused = FALSE /\ guarded = FALSE

\* What is left until another node may become the leader: until then the key is this node's, or the
\* members have agreed that it goes on.
Right == IF key < agreed THEN agreed ELSE key

\* The watchdog w guards the primary: a fit device fires before another node may become the leader.
Fit(w) == w.hw[w.impl].timeout <= timeout(config)
InTime(w) == Running(w) /\ Fit(w) /\ w.hw[w.impl].left <= Right

\* The key is taken by a primary whose key has expired, or by a standby, if the watchdog is healthy
\* (is_healthy).
Acquire ==
  /\ ~Due /\ pc = "idle" /\ key = 0
  /\ ~primary /\ config.mode = "required" => timing_slack(config) >= 0 /\ config.driver # Null
  /\ key' = config.ttl /\ pc' = "enforce"
  /\ UNCHANGED <<config, watchdogVars, agreed, primary, paused, guarded>>

\* enforce_primary_role, promotion included
Enforce ==
  /\ ~Due /\ pc = "enforce"
  /\ \E o \in Outcomes :
       LET w == IF paused \/ Running(State) THEN State ELSE Activate(o[1], o[2])
           fit == paused \/ Running(State) \/ Suitable(w)
       IN /\ Become(w)
          /\ primary' = (primary \/ fit)
          /\ pc' = IF fit \/ ~primary THEN "idle" ELSE "stopping"
          /\ key' = IF fit \/ primary THEN key ELSE 0
          /\ guarded' = IF paused \/ Running(State) THEN guarded ELSE InTime(w)
  /\ UNCHANGED <<config, agreed, paused>>

\* update_lock: the request ...
Update ==
  /\ ~Due /\ pc = "idle" /\ primary
  /\ pc' = "sent"
  /\ UNCHANGED <<config, watchdogVars, key, agreed, primary, paused, guarded>>

\* ... is carried out ...
KeyUpdated ==
  /\ ~Due /\ pc = "sent" /\ key > 0
  /\ key' = config.ttl /\ pc' = "updated"
  /\ UNCHANGED <<config, watchdogVars, agreed, primary, paused, guarded>>

\* The device is fed, and a change of the configuration applied to it.
Feeds ==
  \E o \in Outcomes :
    LET w == Keepalive(o[1], o[2])
    IN Become(w) /\ guarded' = IF config = activeConfig THEN guarded /\ (Running(w) => Fit(w)) ELSE InTime(w)

\* ... and answered.
Answered ==
  /\ ~Due /\ pc = "updated"
  /\ Feeds
  /\ pc' = "enforce"
  /\ UNCHANGED <<config, key, agreed, primary, paused>>

\* (As a mutant of UpdateFails: the device is fed before the members have answered.)
UpdateFailsFed ==
  /\ ~Due /\ pc \in {"sent", "updated"}
  /\ pc' \in IF paused THEN {"idle"} ELSE {"stopping"} \cup (IF FailsafeMode THEN {"asking"} ELSE {})
  /\ IF pc' = "asking" THEN Feeds ELSE UNCHANGED <<watchdogVars, guarded>>
  /\ UNCHANGED <<config, key, agreed, primary, paused>>

\* The request is refused, or fails: the primary is demoted, unless it is paused, or in failsafe mode
\* every other member agrees to its going on.
UpdateFails ==
  /\ ~Due /\ pc \in {"sent", "updated"}
  /\ pc' \in IF paused THEN {"idle"} ELSE {"stopping"} \cup (IF FailsafeMode THEN {"asking"} ELSE {})
  /\ UNCHANGED <<config, watchdogVars, key, agreed, primary, paused, guarded>>

\* check_failsafe_topology: a member that agrees takes this node for the leader for another ttl
\* (Failsafe.update), from the moment when it is asked ...
MembersAsked ==
  /\ ~Due /\ pc = "asking"
  /\ \/ agreed' = config.ttl /\ pc' = "agreed"
     \/ agreed' = agreed /\ pc' = "stopping"
  /\ UNCHANGED <<config, watchdogVars, key, primary, paused, guarded>>

\* ... and the primary goes on once it has all the answers.
GoesOn ==
  /\ ~Due /\ pc = "agreed"
  /\ Feeds
  /\ pc' = "idle"
  /\ UNCHANGED <<config, key, agreed, primary, paused>>

\* demote: a watchdog that runs is disabled when no client can write any more (on_safepoint).
Stopped ==
  /\ ~Due /\ pc = "stopping"
  /\ Become(IF Running(State) THEN Disable ELSE State)
  /\ primary' = FALSE /\ guarded' = FALSE /\ pc' = "idle"
  /\ UNCHANGED <<config, key, agreed, paused>>

\* The cluster is paused, or is no longer.
Pause ==
  /\ ~Due /\ pc = "idle"
  /\ paused' = ~paused
  /\ IF paused THEN UNCHANGED <<watchdogVars, guarded>> ELSE Become(Disable) /\ guarded' = FALSE
  /\ UNCHANGED <<config, key, agreed, pc, primary>>

\* Patroni.reload_config, between two cycles.  (A device that cannot be stopped goes on when it is
\* turned off, as it does when it is disabled.)
Reload(c) ==
  /\ ~Due /\ pc = "idle" /\ c # config
  /\ config' = c /\ Become(Reloaded(c))
  /\ guarded' = (guarded /\ c.mode # "off")
  /\ UNCHANGED <<key, agreed, pc, primary, paused>>

\* Patroni dies and is started again; PostgreSQL and the devices go on.
Restart ==
  /\ ~Due
  /\ Become([Fresh(config) EXCEPT !.hw = hw])
  /\ pc' = "idle"
  /\ UNCHANGED <<config, key, agreed, primary, paused, guarded>>

-----------------------------------------------------------------------------
\* Time passes, until a device fires.
Tick ==
  /\ ~Due
  /\ hw' = [d \in Devices |-> IF hw[d].armed THEN [hw[d] EXCEPT !.left = @ - 1] ELSE hw[d]]
  /\ key' = IF key > 0 THEN key - 1 ELSE 0
  /\ agreed' = IF agreed > 0 THEN agreed - 1 ELSE 0
  /\ UNCHANGED <<config, activeConfig, active, impl, fds, pc, primary, paused, guarded>>

\* The host is reset.
Fire ==
  /\ Due
  /\ Become(Fresh(config))
  /\ pc' = "idle" /\ primary' = FALSE /\ guarded' = FALSE
  /\ UNCHANGED <<config, key, agreed, paused>>

Next ==
  \/ Acquire \/ Enforce \/ Update \/ KeyUpdated \/ Answered \/ UpdateFails \/ MembersAsked \/ GoesOn
  \/ Stopped \/ Pause \/ Restart \/ Tick \/ Fire
  \/ \E c \in Configs : Reload(c)

Spec == Init /\ [][Next]_vars

-----------------------------------------------------------------------------
TypeOK ==
  /\ config \in Configs /\ activeConfig \in Configs
  /\ active \in BOOLEAN /\ impl \in Devices \cup {Null} /\ fds \subseteq Devices
  /\ hw \in [Devices -> [armed : BOOLEAN, left : Nat, timeout : Nat]]
  /\ key \in Nat /\ agreed \in Nat
  /\ pc \in {"idle", "enforce", "sent", "updated", "asking", "agreed", "stopping"}
  /\ primary \in BOOLEAN /\ paused \in BOOLEAN /\ guarded \in BOOLEAN
  /\ Running(State) => active

\* A primary whose watchdog was activated in time never outlives its right to lead, wherever Patroni
\* is suspended, killed or waits for an answer: the host is reset before its leader key has expired
\* and a member that agreed to its going on in failsafe mode may race.
Fenced == primary /\ guarded => key > 0 \/ agreed > 0 \/ Due

\* A device that Patroni could stop is not left running when there is no primary: it would reset a
\* standby.
FedByLeaders == \A d \in fds \cap Closable : hw[d].armed => primary

\* watchdog/base.py:16: "Will not run if a watchdog is not available": when it is required and
\* could not be set to fire before the key expires, the node does not become a primary.
RequiredMeansFit ==
  primary /\ pc = "idle" /\ ~paused /\ config.mode = "required" /\ activeConfig = config /\ active
    => Running(State) /\ hw[impl].timeout <= timeout(config)
=============================================================================
