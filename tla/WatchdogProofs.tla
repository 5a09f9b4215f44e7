--------------------------- MODULE WatchdogProofs ---------------------------
(***************************************************************************)
(* The safety properties of Watchdog, for any devices and configurations.  *)
(***************************************************************************)
EXTENDS Watchdog, TLAPS

Timers == [armed : BOOLEAN, left : Nat, timeout : Nat]

\* The state of the watchdog that the operations of _activate, _disable and keepalive pass on
Watchdogs == [activeConfig : Configs, active : BOOLEAN, impl : Devices \cup {Null},
              fds : SUBSET Devices, hw : [Devices -> Timers]]

\* The process holds no descriptor but that of impl, and an armed device fires after its timeout at
\* the latest ...
Kept(w) ==
  /\ w \in Watchdogs
  /\ w.fds \subseteq {w.impl}
  /\ \A d \in Devices : w.hw[d].armed => w.hw[d].left <= w.hw[d].timeout

\* ... and an open one is armed.
Sound(w) == Kept(w) /\ \A d \in w.fds : w.hw[d].armed

\* Only an active watchdog has a device open, and none when it is turned off.
Consistent(w, c) ==
  /\ w.fds # {} => w.active
  /\ w.activeConfig.mode = "off" => w.impl = Null
  /\ c.mode = "off" => w.activeConfig = c

\* Where the HA loop can be
Stations == {"idle", "enforce", "sent", "updated", "asking", "agreed", "stopping"}

\* What holds of the watchdog in every state
WInv ==
  /\ config \in Configs /\ key \in Nat /\ agreed \in Nat /\ pc \in Stations
  /\ primary \in BOOLEAN /\ paused \in BOOLEAN /\ guarded \in BOOLEAN
  /\ Sound(State) /\ Consistent(State, config)

-----------------------------------------------------------------------------
(* The operations on the watchdog *)

LEMMA TimeoutType ==
  ASSUME NEW c \in Configs
  PROVE  /\ timeout(c) \in Int /\ c.loop_wait \in Nat \ {0} /\ c.ttl \in Nat \ {0}
         /\ c.driver \in Devices \cup {Null} /\ c.mode \in Modes
         /\ timing_slack(c) >= 0 => timeout(c) \in Nat \ {0}
BY ConfigsAssumption, TimeoutAssumption DEF timeout, timing_slack, Config

\* Feeding arms the device, which may just have been opened.
LEMMA FeedSound ==
  ASSUME NEW w, Kept(w), w.impl \in Devices, NEW t \in Nat
  PROVE  /\ Sound(Feed(w, t))
         /\ Feed(w, t).impl = w.impl /\ Feed(w, t).fds = w.fds
         /\ Feed(w, t).active = w.active /\ Feed(w, t).activeConfig = w.activeConfig
         /\ Feed(w, t).hw[w.impl] = [armed |-> TRUE, left |-> t, timeout |-> t]
         /\ \A d \in Devices \ {w.impl} : Feed(w, t).hw[d] = w.hw[d]
<1> DEFINE new == [armed |-> TRUE, left |-> t, timeout |-> t]
           h == [w.hw EXCEPT ![w.impl] = new]
<1>1. w \in Watchdogs /\ w.hw \in [Devices -> Timers] /\ new \in Timers
  BY DEF Sound, Kept, Watchdogs, Timers
<1>2. h \in [Devices -> Timers] /\ h[w.impl] = new /\ \A d \in Devices \ {w.impl} : h[d] = w.hw[d]
  BY <1>1
<1>3. Feed(w, t) = [w EXCEPT !.hw = h]
  BY DEF Feed
<1> HIDE DEF h
<1>4. /\ Feed(w, t) \in Watchdogs /\ Feed(w, t).hw = h
      /\ Feed(w, t).impl = w.impl /\ Feed(w, t).fds = w.fds
      /\ Feed(w, t).active = w.active /\ Feed(w, t).activeConfig = w.activeConfig
  BY <1>1, <1>2, <1>3 DEF Watchdogs
<1>5. Sound(Feed(w, t))
  BY <1>1, <1>2, <1>4 DEF Sound, Kept, Timers
<1>6. QED
  BY <1>2, <1>4, <1>5

LEMMA FedSound ==
  ASSUME NEW w, Sound(w)
  PROVE  /\ Sound(Fed(w))
         /\ Fed(w).impl = w.impl /\ Fed(w).fds = w.fds
         /\ Fed(w).active = w.active /\ Fed(w).activeConfig = w.activeConfig
         /\ \A d \in Devices : Fed(w).hw[d].timeout = w.hw[d].timeout
         /\ \A d \in Devices \ {w.impl} : Fed(w).hw[d] = w.hw[d]
         /\ ~Running(w) => Fed(w) = w
<1>1. CASE Running(w)
  <2>1. w.impl \in Devices /\ w.hw[w.impl].timeout \in Nat
    BY <1>1 DEF Running, Sound, Kept, Watchdogs, Timers
  <2> DEFINE t == w.hw[w.impl].timeout
             f == Feed(w, t)
  <2>2. Fed(w) = f
    BY <1>1 DEF Fed
  <2>3. /\ Sound(f) /\ f.impl = w.impl /\ f.fds = w.fds
        /\ f.active = w.active /\ f.activeConfig = w.activeConfig
        /\ f.hw[w.impl] = [armed |-> TRUE, left |-> t, timeout |-> t]
        /\ \A d \in Devices \ {w.impl} : f.hw[d] = w.hw[d]
    BY <2>1, FeedSound DEF Sound, Kept
  <2> HIDE DEF f
  <2>4. \A d \in Devices : f.hw[d].timeout = w.hw[d].timeout
    BY <2>3
  <2>5. QED
    BY <1>1, <2>2, <2>3, <2>4
<1>2. CASE ~Running(w)
  BY <1>2 DEF Fed
<1>3. QED
  BY <1>1, <1>2

LEMMA CloseSound ==
  ASSUME NEW w, Sound(w)
  PROVE  /\ Sound(Close(w))
         /\ Close(w).fds = {} /\ Close(w).impl = w.impl
         /\ Close(w).active = w.active /\ Close(w).activeConfig = w.activeConfig
<1>1. CASE Running(w)
  <2>1. w.impl \in Devices /\ Off(w.impl) \in Timers /\ ~Off(w.impl).armed
    BY <1>1, TimeoutAssumption DEF Running, Sound, Kept, Watchdogs, Timers, Off
  <2>2. QED
    BY <1>1, <2>1 DEF Close, Running, Sound, Kept, Watchdogs
<1>2. CASE ~Running(w)
  BY <1>2 DEF Close, Running, Sound, Kept
<1>3. QED
  BY <1>1, <1>2

\* Whatever the device, disable leaves nothing open.
LEMMA DisabledSound ==
  ASSUME NEW w, Sound(w)
  PROVE  /\ Sound(Disabled(w))
         /\ Disabled(w).fds = {} /\ Disabled(w).impl = w.impl
         /\ Disabled(w).active = w.active /\ Disabled(w).activeConfig = w.activeConfig
BY FedSound, CloseSound DEF Disabled

\* A device that can be set fires after the timeout of the configuration, if it is opened at all.
LEMMA SetTimeoutSound ==
  ASSUME config \in Configs, NEW w, Sound(w), Running(w), timing_slack(config) >= 0
  PROVE  LET r == SetTimeout(w, TRUE) IN
         /\ Sound(r) /\ r.active = w.active /\ r.activeConfig = w.activeConfig
         /\ r.fds # {} => /\ r.impl = w.impl
                          /\ w.impl \in Settable => r.hw[w.impl].timeout = timeout(config)
<1> DEFINE t == timeout(config)
           timed == IF w.impl \in Settable THEN Feed(w, t) ELSE w
<1>1. t \in Nat \ {0} /\ w.impl \in Devices
  BY TimeoutType DEF Running, Sound, Kept, Watchdogs
<1>2. /\ Sound(timed) /\ timed.impl = w.impl /\ timed.fds = w.fds
      /\ timed.active = w.active /\ timed.activeConfig = w.activeConfig
      /\ w.impl \in Settable => timed.hw[w.impl].timeout = t
  <2>1. CASE w.impl \in Settable
    <3> DEFINE f == Feed(w, t)
    <3>1. /\ Sound(f) /\ f.impl = w.impl /\ f.fds = w.fds
          /\ f.active = w.active /\ f.activeConfig = w.activeConfig
          /\ f.hw[w.impl] = [armed |-> TRUE, left |-> t, timeout |-> t]
      BY <1>1, FeedSound DEF Sound
    <3>2. timed = f
      BY <2>1
    <3> HIDE DEF f, timed
    <3>3. QED
      BY <3>1, <3>2
  <2>2. CASE w.impl \notin Settable
    BY <2>2
  <2>3. QED
    BY <2>1, <2>2
<1>3. SetTimeout(w, TRUE) = IF timed.hw[timed.impl].timeout < config.loop_wait /\ timed.impl \in Closable
                            THEN [Close(timed) EXCEPT !.impl = Null] ELSE timed
  BY <1>1 DEF SetTimeout
<1> HIDE DEF timed
<1> DEFINE closed == [Close(timed) EXCEPT !.impl = Null]
<1>4. /\ Sound(closed) /\ closed.fds = {}
      /\ closed.active = w.active /\ closed.activeConfig = w.activeConfig
  BY <1>2, CloseSound DEF Sound, Kept, Watchdogs
<1>5. SetTimeout(w, TRUE) \in {closed, timed}
  BY <1>3
<1> HIDE DEF closed
<1>6. QED
  BY <1>2, <1>4, <1>5

\* _activate leaves a device open only if it was set.
LEMMA ActivatedSound ==
  ASSUME config \in Configs, NEW w, Sound(w), w.fds = {}, NEW open \in BOOLEAN
  PROVE  LET r == Activated(w, open, TRUE) IN
         /\ Sound(r) /\ r.active = w.active /\ r.activeConfig = config
         /\ w.impl = Null => r.impl = Null
         /\ r.fds # {} => /\ r.impl = w.impl
                          /\ w.impl \in Settable => r.hw[w.impl].timeout = timeout(config)
<1> DEFINE w1 == [w EXCEPT !.activeConfig = config]
           off == [w1 EXCEPT !.impl = Null]
           w2 == [w1 EXCEPT !.fds = @ \cup {w1.impl}]
           refused == w1.impl = Null \/ timing_slack(config) < 0 \/ ~open \/ w1.impl \in w1.fds
<1>1. Activated(w, open, TRUE) = IF refused THEN off ELSE SetTimeout(Fed(w2), TRUE)
  BY DEF Activated
<1>2. /\ w1 \in Watchdogs /\ w1.impl = w.impl /\ w1.fds = {} /\ w1.hw = w.hw
      /\ w1.active = w.active /\ w1.activeConfig = config
  BY DEF Sound, Kept, Watchdogs
<1>3. /\ Sound(off) /\ off.fds = {} /\ off.impl = Null
      /\ off.active = w.active /\ off.activeConfig = config
  BY <1>2 DEF Sound, Kept, Watchdogs
<1>4. CASE refused
  BY <1>1, <1>3, <1>4
<1>5. CASE ~refused
  <2>1. w.impl \in Devices /\ timing_slack(config) >= 0 /\ timing_slack(config) \in Int
    BY <1>2, <1>5, TimeoutType DEF Watchdogs, timing_slack
  <2>2. /\ w2 \in Watchdogs /\ w2.impl = w.impl /\ w2.fds = {w.impl} /\ w2.hw = w.hw
        /\ w2.active = w.active /\ w2.activeConfig = config
    BY <1>2, <2>1 DEF Watchdogs
  <2>3. w2.hw[w.impl].timeout \in Nat /\ Running(w2)
    BY <2>1, <2>2 DEF Watchdogs, Timers, Running
  <2> DEFINE t == w2.hw[w.impl].timeout
             f == Feed(w2, t)
  <2>4. Fed(w2) = f
    BY <2>2, <2>3 DEF Fed
  <2>5. /\ Sound(f) /\ f.impl = w.impl /\ f.fds = {w.impl}
        /\ f.active = w.active /\ f.activeConfig = config
    <3>1. Kept(w2)
      BY <1>2, <2>2 DEF Sound, Kept
    <3> HIDE DEF w2
    <3>2. QED
      BY ZenonT(60), <2>1, <2>2, <2>3, <3>1, FeedSound
  <2> HIDE DEF f, w2
  <2>6. Running(f)
    BY <2>5 DEF Running
  <2> DEFINE r == SetTimeout(f, TRUE)
  <2>7. /\ Sound(r) /\ r.active = w.active /\ r.activeConfig = config
        /\ r.fds # {} => /\ r.impl = w.impl
                         /\ w.impl \in Settable => r.hw[w.impl].timeout = timeout(config)
    BY <2>1, <2>5, <2>6, SetTimeoutSound
  <2>8. Activated(w, open, TRUE) = r /\ w.impl # Null
    BY <1>1, <1>5, <2>1, <2>4, DevicesAssumption
  <2> HIDE DEF r
  <2>9. QED
    BY <2>7, <2>8
<1>6. QED
  BY <1>4, <1>5

\* A change of the configuration that keepalive applies leaves the watchdog sound.
LEMMA AppliedSound ==
  ASSUME config \in Configs, NEW w, Sound(w), Consistent(w, config), w.active, NEW open \in BOOLEAN
  PROVE  LET r == Applied(w, open, TRUE) IN Sound(r) /\ Consistent(r, config)
<1> DEFINE r == Applied(w, open, TRUE)
           started(v) == Activated(get_impl(v), open, TRUE)
<1>1. ASSUME NEW v, Sound(v), v.fds = {}, v.active, config.mode # "off"
      PROVE  Sound(started(v)) /\ Consistent(started(v), config)
  <2> DEFINE g == get_impl(v)
  <2>1. config.driver \in Devices \cup {Null}
    BY TimeoutType
  <2>2. Sound(g) /\ g.fds = {} /\ g.active
    BY <1>1, <2>1 DEF get_impl, Sound, Kept, Watchdogs
  <2> HIDE DEF g
  <2> DEFINE a == Activated(g, open, TRUE)
  <2>3. Sound(a) /\ a.active = g.active /\ a.activeConfig = config
    BY <2>2, ActivatedSound
  <2> HIDE DEF a
  <2>4. Sound(a) /\ Consistent(a, config)
    BY <1>1, <2>2, <2>3 DEF Consistent
  <2>5. QED
    BY <2>4 DEF g, a
<1>2. CASE config.mode # "off" /\ w.activeConfig.mode = "off"
  <2>1. w.fds = {}
    BY <1>2, DevicesAssumption DEF Consistent, Sound, Kept, Watchdogs
  <2>2. r = started(w)
    BY <1>2 DEF Applied
  <2>3. QED
    BY <1>1, <1>2, <2>1, <2>2
<1>3. CASE ~(config.mode # "off" /\ w.activeConfig.mode = "off") /\ config.driver # w.activeConfig.driver
  <2> DEFINE v == Disabled(w)
  <2>1. Sound(v) /\ v.fds = {} /\ v.active = w.active
    BY DisabledSound
  <2>2. r = started(v) /\ config.mode # "off"
    BY <1>3 DEF Applied, Consistent
  <2> HIDE DEF v
  <2>3. QED
    BY <1>1, <2>1, <2>2
<1>4. CASE /\ ~(config.mode # "off" /\ w.activeConfig.mode = "off") /\ config.driver = w.activeConfig.driver
           /\ timeout(config) = timeout(w.activeConfig)
  <2>1. r = [w EXCEPT !.activeConfig = config]
    BY <1>4 DEF Applied
  <2>2. QED
    BY <1>4, <2>1 DEF Sound, Kept, Watchdogs, Consistent
<1>5. CASE /\ ~(config.mode # "off" /\ w.activeConfig.mode = "off") /\ config.driver = w.activeConfig.driver
           /\ timeout(config) # timeout(w.activeConfig)
  <2>1. CASE Running(w) /\ w.impl \in Settable /\ timeout(config) > 0
    <3> DEFINE f == Feed(w, timeout(config))
    <3>1. w.impl \in Devices /\ timeout(config) \in Nat
      BY <2>1, TimeoutType DEF Running, Sound, Kept, Watchdogs
    <3>2. Sound(f) /\ f.impl = w.impl /\ f.fds = w.fds /\ f.active = w.active
      BY <3>1, FeedSound DEF Sound
    <3>3. r = [f EXCEPT !.activeConfig = config]
      BY <1>5, <2>1 DEF Applied
    <3> HIDE DEF f
    <3>4. QED
      BY <1>5, <3>2, <3>3 DEF Sound, Kept, Watchdogs, Consistent
  <2>2. CASE ~(Running(w) /\ w.impl \in Settable /\ timeout(config) > 0)
    <3>1. r = w
      BY <1>5, <2>2 DEF Applied
    <3>2. QED
      BY <3>1
  <2>3. QED
    BY <2>1, <2>2
<1>6. QED
  BY <1>2, <1>3, <1>4, <1>5

LEMMA KeepaliveSound ==
  ASSUME config \in Configs, Sound(State), Consistent(State, config), NEW open \in BOOLEAN
  PROVE  LET r == Keepalive(open, TRUE) IN Sound(r) /\ Consistent(r, config)
<1> DEFINE s == State
           f == Fed(s)
<1>1. s.active = active /\ s.impl = impl
  BY DEF State
<1>2. /\ Sound(f) /\ f.impl = s.impl /\ f.fds = s.fds
      /\ f.active = s.active /\ f.activeConfig = s.activeConfig
  BY FedSound
<1>3. Consistent(f, config)
  BY <1>2 DEF Consistent
<1>4. Keepalive(open, TRUE) \in {s, f} \/ (active /\ Keepalive(open, TRUE) = Applied(f, open, TRUE))
  BY DEF Keepalive, State
<1> HIDE DEF s, f
<1>5. CASE Keepalive(open, TRUE) \in {s, f}
  BY <1>2, <1>3, <1>5 DEF s
<1>6. CASE active /\ Keepalive(open, TRUE) = Applied(f, open, TRUE)
  <2>1. f.active
    BY <1>1, <1>2, <1>6
  <2>2. Sound(Applied(f, open, TRUE)) /\ Consistent(Applied(f, open, TRUE), config)
    BY <1>2, <1>3, <2>1, AppliedSound
  <2>3. QED
    BY <1>6, <2>2
<1>7. QED
  BY <1>4, <1>5, <1>6

\* A new configuration does not touch the devices, except that a device in use is closed when the
\* watchdog is turned off.
LEMMA ReloadedSound ==
  ASSUME NEW c \in Configs, Sound(State), Consistent(State, config)
  PROVE  LET r == Reloaded(c) IN
         /\ Sound(r) /\ Consistent(r, c)
         /\ r.fds \subseteq fds
         /\ c.mode # "off" => r.hw = hw
<1> DEFINE s == State
           d == Disabled(s)
           r == Reloaded(c)
<1>1. /\ s.activeConfig = activeConfig /\ s.active = active /\ s.impl = impl /\ s.fds = fds /\ s.hw = hw
      /\ Sound(s) /\ Consistent(s, config)
  BY DEF State
<1>2. Sound(d) /\ d.fds = {} /\ d.active = s.active
  BY DisabledSound
<1>3. c.driver \in Devices \cup {Null} /\ active \in BOOLEAN
  BY <1>1, TimeoutType DEF Sound, Kept, Watchdogs
<1> DEFINE off == IF c.mode # "off" THEN s
                  ELSE [(IF active THEN d ELSE s) EXCEPT !.activeConfig = c, !.impl = Null]
<1>4. r = IF active THEN off
          ELSE [off EXCEPT !.impl = IF c.driver # off.activeConfig.driver THEN c.driver ELSE @,
                           !.activeConfig = c]
  BY DEF Reloaded
<1>5. active \/ fds = {}
  BY <1>1 DEF Consistent
<1> HIDE DEF s, d
<1>6. CASE c.mode # "off" /\ active
  <2>1. r = s
    BY <1>4, <1>6
  <2>2. QED
    BY <1>1, <1>6, <2>1 DEF Consistent
<1>7. CASE c.mode # "off" /\ ~active
  <2>1. r = [s EXCEPT !.impl = IF c.driver # s.activeConfig.driver THEN c.driver ELSE @,
                      !.activeConfig = c]
    BY <1>4, <1>7
  <2>2. /\ r \in Watchdogs /\ r.fds = {} /\ r.active = active
        /\ r.activeConfig = c /\ r.hw = hw
    BY <1>1, <1>3, <1>5, <1>7, <2>1 DEF Sound, Kept, Watchdogs
  <2>3. QED
    BY <1>1, <1>7, <2>2 DEF Consistent, Sound, Kept
<1>8. CASE c.mode = "off"
  <2> DEFINE v == IF active THEN d ELSE s
  <2>1. Sound(v) /\ v.fds = {}
    BY <1>1, <1>2, <1>5
  <2>2. off = [v EXCEPT !.activeConfig = c, !.impl = Null]
    BY <1>8
  <2> HIDE DEF v
  <2>3. /\ off \in Watchdogs /\ off.fds = {} /\ off.impl = Null /\ off.activeConfig = c
        /\ off.hw = v.hw
    BY <2>1, <2>2 DEF Sound, Kept, Watchdogs
  <2>4. r = off \/ r = [off EXCEPT !.impl = off.impl, !.activeConfig = c]
    BY <1>4, <2>3
  <2> HIDE DEF off
  <2>5. /\ r \in Watchdogs /\ r.fds = {} /\ r.impl = Null /\ r.activeConfig = c
        /\ r.hw = off.hw
    BY <2>3, <2>4 DEF Watchdogs
  <2> HIDE DEF r
  <2>6. Sound(r) /\ Consistent(r, c) /\ r.fds \subseteq fds /\ (c.mode # "off" => r.hw = hw)
    BY <1>8, <2>1, <2>3, <2>5 DEF Consistent, Sound, Kept
  <2>7. QED
    BY <2>6 DEF r
<1>9. QED
  BY <1>6, <1>7, <1>8

-----------------------------------------------------------------------------
(* The steps *)

LEMMA BecomeState ==
  ASSUME NEW w \in Watchdogs, Become(w)
  PROVE  State' = w
BY DEF Become, State, Watchdogs

LEMMA SameState ==
  ASSUME UNCHANGED watchdogVars
  PROVE  State' = State
BY DEF watchdogVars, State

\* A timeout that can be set is set.
LEMMA OutcomesType ==
  ASSUME ~SetFails, NEW o \in Outcomes
  PROVE  o[1] \in BOOLEAN /\ o[2] = TRUE
BY DEF Outcomes

LEMMA FreshSound ==
  ASSUME NEW c \in Configs, NEW h \in [Devices -> Timers],
         \A d \in Devices : h[d].armed => h[d].left <= h[d].timeout
  PROVE  LET r == [Fresh(c) EXCEPT !.hw = h] IN Sound(r) /\ Consistent(r, c) /\ r.fds = {}
BY TimeoutType, TimeoutAssumption DEF Fresh, Off, Sound, Kept, Consistent, Watchdogs, Timers

LEMMA OffTimers ==
  LET h == [d \in Devices |-> Off(d)] IN
  h \in [Devices -> Timers] /\ \A d \in Devices : ~h[d].armed
BY TimeoutAssumption DEF Off, Timers

\* What enforce_primary_role makes of the watchdog
LEMMA EnforceSound ==
  ASSUME WInv, NEW open \in BOOLEAN
  PROVE  LET w == IF paused \/ Running(State) THEN State ELSE Activate(open, TRUE) IN
         Sound(w) /\ Consistent(w, config)
<1> DEFINE s == [State EXCEPT !.active = TRUE]
           a == Activated(s, open, TRUE)
<1>1. config \in Configs /\ Sound(State) /\ Consistent(State, config)
  BY DEF WInv
<1>2. CASE ~Running(State)
  <2>1. Sound(s) /\ s.fds = {} /\ s.active /\ s.activeConfig = State.activeConfig /\ s.impl = State.impl
    BY <1>1, <1>2 DEF Sound, Kept, Watchdogs, Running
  <2> HIDE DEF s
  <2>2. Sound(a) /\ a.active /\ a.activeConfig = config /\ (s.impl = Null => a.impl = Null)
    BY <1>1, <2>1, ActivatedSound
  <2>3. Consistent(a, config)
    BY <1>1, <2>1, <2>2 DEF Consistent
  <2>4. QED
    BY <1>1, <2>2, <2>3 DEF s, Activate
<1>3. QED
  BY <1>1, <1>2

\* Disabling it
LEMMA DisableSound ==
  ASSUME WInv
  PROVE  Sound(Disable) /\ Consistent(Disable, config) /\ Disable.fds = {}
<1> DEFINE d == Disabled(State)
<1>1. Sound(d) /\ d.fds = {} /\ d.impl = State.impl /\ d.activeConfig = State.activeConfig
  BY DisabledSound DEF WInv
<1>2. Disable = [d EXCEPT !.active = FALSE]
  BY DEF Disable
<1> HIDE DEF d
<1>3. QED
  BY <1>1, <1>2 DEF WInv, Sound, Kept, Watchdogs, Consistent

\* What a step shows that makes the watchdog w
LEMMA WInvAfter ==
  ASSUME NEW w, Become(w), Sound(w), Consistent(w, config'), config' \in Configs,
         key' \in Nat, agreed' \in Nat, pc' \in Stations,
         primary' \in BOOLEAN, paused' \in BOOLEAN, guarded' \in BOOLEAN
  PROVE  WInv'
<1>1. State' = w
  BY BecomeState DEF Sound, Kept
<1>2. Sound(State') /\ Consistent(State', config')
  BY <1>1
<1>3. QED
  BY <1>2 DEF WInv, Sound, Kept, Consistent

LEMMA WInvInit == Init => WInv
<1> SUFFICES ASSUME Init PROVE WInv
  OBVIOUS
<1> DEFINE h == [d \in Devices |-> Off(d)]
           r == [Fresh(config) EXCEPT !.hw = h]
<1>1. h \in [Devices -> Timers] /\ \A d \in Devices : ~h[d].armed
  BY OffTimers
<1>2. Sound(r) /\ Consistent(r, config)
  BY <1>1, FreshSound DEF Init
<1>3. State = r
  BY DEF State, Fresh, Init
<1>4. QED
  BY <1>2, <1>3 DEF Init, WInv, Stations

\* Feeding the device keeps it.
LEMMA FeedsSound ==
  ASSUME ~SetFails, WInv, Feeds, pc' \in Stations, UNCHANGED <<config, key, agreed, primary, paused>>
  PROVE  WInv'
<1>1. /\ config \in Configs /\ Sound(State) /\ Consistent(State, config)
      /\ key \in Nat /\ agreed \in Nat /\ paused \in BOOLEAN /\ guarded \in BOOLEAN /\ primary \in BOOLEAN
  BY DEF WInv
<1>2. PICK o \in Outcomes :
        LET w == Keepalive(o[1], o[2])
        IN /\ Become(w)
           /\ guarded' = IF config = activeConfig THEN guarded /\ (Running(w) => Fit(w)) ELSE InTime(w)
  BY DEF Feeds
<1>3. o[1] \in BOOLEAN /\ o[2] = TRUE
  BY OutcomesType
<1> DEFINE w == Keepalive(o[1], TRUE)
<1>4. Sound(w) /\ Consistent(w, config)
  BY <1>1, <1>3, KeepaliveSound
<1>5. InTime(w) \in BOOLEAN /\ (Running(w) => Fit(w)) \in BOOLEAN
  BY DEF InTime, Running, Fit
<1>6. Become(w) /\ guarded' \in BOOLEAN
  BY <1>1, <1>2, <1>3, <1>5
<1> HIDE DEF w
<1>7. QED
  BY <1>1, <1>4, <1>6, WInvAfter

\* Every step keeps the invariant, as long as a timeout that can be set is set.
LEMMA WInvNext ==
  ASSUME ~SetFails, WInv, [Next]_vars
  PROVE  WInv'
<1>1. /\ config \in Configs /\ Sound(State) /\ Consistent(State, config)
      /\ key \in Nat /\ paused \in BOOLEAN /\ guarded \in BOOLEAN /\ primary \in BOOLEAN
      /\ agreed \in Nat /\ pc \in Stations
  BY DEF WInv
<1>2. /\ config.ttl \in Nat /\ hw \in [Devices -> Timers]
      /\ \A d \in Devices : hw[d].armed => hw[d].left <= hw[d].timeout
  BY <1>1, TimeoutType DEF State, Watchdogs, Sound, Kept
<1>3. ASSUME UNCHANGED <<config, watchdogVars>>, key' \in Nat, agreed' \in Nat,
             pc' \in Stations,
             primary' \in BOOLEAN, paused' \in BOOLEAN, guarded' \in BOOLEAN
      PROVE  WInv'
  <2>1. Become(State)
    BY <1>3 DEF Become, State, watchdogVars
  <2>2. QED
    BY <1>1, <1>3, <2>1, WInvAfter
<1>4. CASE Acquire
  BY <1>1, <1>2, <1>3, <1>4 DEF Acquire, Stations
<1>5. CASE Enforce
  <2>1. PICK o \in Outcomes :
          LET w == IF paused \/ Running(State) THEN State ELSE Activate(o[1], o[2])
              fit == paused \/ Running(State) \/ Suitable(w)
          IN /\ Become(w)
             /\ primary' = (primary \/ fit)
             /\ pc' = IF fit \/ ~primary THEN "idle" ELSE "stopping"
             /\ key' = IF fit \/ primary THEN key ELSE 0
             /\ guarded' = IF paused \/ Running(State) THEN guarded ELSE InTime(w)
    BY <1>5 DEF Enforce
  <2>2. o[1] \in BOOLEAN /\ o[2] = TRUE
    BY OutcomesType
  <2> DEFINE w == IF paused \/ Running(State) THEN State ELSE Activate(o[1], TRUE)
  <2>3. Sound(w) /\ Consistent(w, config)
    BY <2>2, EnforceSound
  <2>4. InTime(w) \in BOOLEAN
    BY DEF InTime, Running
  <2>5. /\ Become(w) /\ key' \in Nat /\ pc' \in {"idle", "stopping"}
        /\ primary' \in BOOLEAN /\ guarded' \in BOOLEAN
    BY <1>1, <2>1, <2>2, <2>4
  <2>6. config' = config /\ agreed' = agreed /\ paused' = paused
    BY <1>5 DEF Enforce
  <2> HIDE DEF w
  <2>7. QED
    BY <1>1, <2>3, <2>5, <2>6, WInvAfter DEF Stations
<1>6. CASE Update
  BY <1>1, <1>3, <1>6 DEF Update, Stations
<1>7. CASE KeyUpdated
  BY <1>1, <1>2, <1>3, <1>7 DEF KeyUpdated, Stations
<1>8. CASE Answered
  BY <1>1, <1>8, FeedsSound DEF Answered, Stations
<1>9. CASE UpdateFails
  <2>1. pc' \in {"idle", "stopping", "asking"}
    BY <1>9 DEF UpdateFails
  <2>2. QED
    BY <1>1, <1>3, <1>9, <2>1 DEF UpdateFails, Stations
<1>18. CASE MembersAsked
  BY <1>1, <1>2, <1>3, <1>18 DEF MembersAsked, Stations
<1>19. CASE GoesOn
  BY <1>1, <1>19, FeedsSound DEF GoesOn, Stations
<1>10. CASE Stopped
  <2> DEFINE w == IF Running(State) THEN Disable ELSE State
  <2>1. Sound(w) /\ Consistent(w, config)
    BY <1>1, DisableSound
  <2>2. /\ Become(w) /\ config' = config /\ key' = key /\ agreed' = agreed /\ paused' = paused
        /\ primary' = FALSE /\ guarded' = FALSE /\ pc' = "idle"
    BY <1>10 DEF Stopped
  <2> HIDE DEF w
  <2>3. QED
    BY <1>1, <2>1, <2>2, WInvAfter DEF Stations
<1>11. CASE Pause
  <2>1. CASE paused
    BY <1>1, <1>3, <1>11, <2>1 DEF Pause, watchdogVars
  <2>2. CASE ~paused
    BY <1>1, <1>11, <2>2, DisableSound, WInvAfter DEF Pause
  <2>3. QED
    BY <2>1, <2>2
<1>12. ASSUME NEW c \in Configs, Reload(c) PROVE WInv'
  <2> DEFINE w == Reloaded(c)
  <2>1. Sound(w) /\ Consistent(w, c)
    BY <1>1, ReloadedSound
  <2>2. /\ Become(w) /\ config' = c /\ key' = key /\ agreed' = agreed /\ paused' = paused
        /\ primary' = primary /\ guarded' \in BOOLEAN /\ pc' = pc
    BY <1>1, <1>12 DEF Reload
  <2> HIDE DEF w
  <2>3. QED
    BY <1>1, <2>1, <2>2, WInvAfter DEF Stations
<1>13. CASE Restart
  <2> DEFINE w == [Fresh(config) EXCEPT !.hw = hw]
  <2>1. Sound(w) /\ Consistent(w, config)
    BY <1>1, <1>2, FreshSound
  <2>2. /\ Become(w) /\ config' = config /\ key' = key /\ agreed' = agreed /\ paused' = paused
        /\ primary' = primary /\ guarded' = guarded /\ pc' = "idle"
    BY <1>13 DEF Restart
  <2> HIDE DEF w
  <2>3. QED
    BY <1>1, <2>1, <2>2, WInvAfter DEF Stations
<1>14. CASE Tick
  <2> DEFINE h == [d \in Devices |-> IF hw[d].armed THEN [hw[d] EXCEPT !.left = @ - 1] ELSE hw[d]]
             w == [State EXCEPT !.hw = h]
  <2>1. \A d \in Devices : hw[d].armed => hw[d].left \in Nat \ {0}
    BY <1>2, <1>14 DEF Tick, Due, Timers
  <2>2. h \in [Devices -> Timers]
    BY <1>2, <2>1 DEF Timers
  <2>3. \A d \in Devices : h[d].armed = hw[d].armed /\ (h[d].armed => h[d].left <= h[d].timeout)
    BY <1>2, <2>1 DEF Timers
  <2>4. /\ config' = config /\ paused' = paused /\ primary' = primary /\ guarded' = guarded
        /\ pc' = pc /\ key' \in Nat /\ agreed' \in Nat /\ Become(w)
    BY <1>1, <1>14 DEF Tick, Become, State
  <2> HIDE DEF h
  <2>5. Sound(w) /\ Consistent(w, config)
    BY <1>1, <2>2, <2>3 DEF Sound, Kept, Watchdogs, Consistent, State
  <2> HIDE DEF w
  <2>6. QED
    BY <1>1, <2>4, <2>5, WInvAfter DEF Stations
<1>15. CASE Fire
  <2> DEFINE h == [d \in Devices |-> Off(d)]
             w == [Fresh(config) EXCEPT !.hw = h]
  <2>1. Sound(w) /\ Consistent(w, config)
    BY <1>1, OffTimers, FreshSound
  <2>2. Fresh(config) = w
    BY DEF Fresh
  <2>3. /\ Become(w) /\ config' = config /\ key' = key /\ agreed' = agreed /\ paused' = paused
        /\ primary' = FALSE /\ guarded' = FALSE /\ pc' = "idle"
    BY <1>15, <2>2 DEF Fire
  <2> HIDE DEF w
  <2>4. QED
    BY <1>1, <2>1, <2>3, WInvAfter DEF Stations
<1>16. CASE UNCHANGED vars
  BY <1>1, <1>3, <1>16 DEF vars, watchdogVars
<1>17. QED
  BY <1>4, <1>5, <1>6, <1>7, <1>8, <1>9, <1>10, <1>11, <1>12, <1>13, <1>14, <1>15, <1>16,
     <1>18, <1>19 DEF Next

-----------------------------------------------------------------------------
\* The watchdog is typed in every state, and a device is open only while the watchdog is active: after
\* disable() nothing feeds one.  (A failure to set a timeout leaves a device open.)
THEOREM TypeCorrect ==
  ASSUME ~SetFails
  PROVE  Spec => []TypeOK
<1>1. WInv => TypeOK
  BY DEF WInv, Sound, Kept, Consistent, Watchdogs, Timers, State, Running, TypeOK, Stations
<1>2. WInv /\ [Next]_vars => WInv'
  BY WInvNext
<1>3. QED
  BY WInvInit, <1>1, <1>2, PTL DEF Spec

-----------------------------------------------------------------------------
(* A device that can be stopped runs only on a primary *)

\* Only a primary updates the key, or asks the members to let it go on.
LoopInv == pc \in {"sent", "updated", "asking", "agreed"} => primary

LEMMA LoopNext ==
  ASSUME LoopInv, [Next]_vars
  PROVE  LoopInv'
BY DEF LoopInv, Next, Acquire, Enforce, Update, KeyUpdated, Answered, UpdateFails, MembersAsked, GoesOn,
       Stopped, Pause, Reload, Restart, Tick, Fire, vars

LedInv == fds \cap Closable # {} => primary

\* A device that was set is suitable.
LEMMA ActivateSuits ==
  ASSUME WInv, ~Running(State), NEW open \in BOOLEAN
  PROVE  LET w == Activate(open, TRUE) IN w.fds \cap Settable # {} => Suitable(w)
<1> DEFINE s == [State EXCEPT !.active = TRUE]
           a == Activated(s, open, TRUE)
<1>1. Sound(s) /\ s.fds = {} /\ config \in Configs
  BY DEF WInv, Sound, Kept, Watchdogs, Running
<1> HIDE DEF s
<1>2. /\ Sound(a)
      /\ a.fds # {} => /\ a.impl = s.impl
                       /\ s.impl \in Settable => a.hw[s.impl].timeout = timeout(config)
  BY <1>1, ActivatedSound
<1>3. timeout(config) \in Int
  BY <1>1, TimeoutType
<1> HIDE DEF a
<1>4. a.fds \cap Settable # {} => a.impl \in Settable /\ Running(a) /\ a.hw[a.impl].timeout = timeout(config)
  BY <1>2 DEF Sound, Kept, Running
<1>5. a.fds \cap Settable # {} => Suitable(a)
  BY <1>3, <1>4 DEF Suitable
<1>6. QED
  BY <1>5 DEF a, s, Activate

LEMMA LedNext ==
  ASSUME ~SetFails, Closable \subseteq Settable, WInv, LoopInv, LedInv, [Next]_vars
  PROVE  LedInv'
<1>1. CASE Enforce
  <2>1. PICK o \in Outcomes :
          LET w == IF paused \/ Running(State) THEN State ELSE Activate(o[1], o[2])
              fit == paused \/ Running(State) \/ Suitable(w)
          IN /\ Become(w)
             /\ primary' = (primary \/ fit)
             /\ pc' = IF fit \/ ~primary THEN "idle" ELSE "stopping"
             /\ key' = IF fit \/ primary THEN key ELSE 0
             /\ guarded' = IF paused \/ Running(State) THEN guarded ELSE InTime(w)
    BY <1>1 DEF Enforce
  <2>2. o[1] \in BOOLEAN /\ o[2] = TRUE
    BY OutcomesType
  <2>4. CASE paused \/ Running(State)
    BY <2>1, <2>4 DEF LedInv
  <2>5. CASE ~(paused \/ Running(State))
    <3> DEFINE w == Activate(o[1], TRUE)
    <3>1. w.fds \cap Settable # {} => Suitable(w)
      BY <2>2, <2>5, ActivateSuits
    <3>2. fds' = w.fds /\ (Suitable(w) => primary')
      BY <2>1, <2>2, <2>5 DEF Become
    <3>3. QED
      BY <3>1, <3>2 DEF LedInv
  <2>6. QED
    BY <2>4, <2>5
<1>2. CASE Stopped \/ Pause
  <2>1. fds' = {} \/ (fds' = fds /\ primary' = primary)
    BY <1>2, DisableSound DEF Stopped, Pause, Become, State, Running, WInv, Sound, Kept, watchdogVars
  <2>2. QED
    BY <2>1 DEF LedInv
<1>3. ASSUME NEW c \in Configs, Reload(c) PROVE LedInv'
  <2>1. Reloaded(c).fds \subseteq fds
    BY <1>3, ReloadedSound DEF WInv
  <2>2. QED
    BY <1>3, <2>1 DEF LedInv, Reload, Become
<1>4. CASE Restart \/ Fire
  BY <1>4 DEF LedInv, Restart, Fire, Become, Fresh
<1>5. CASE Answered \/ GoesOn
  BY <1>5 DEF LedInv, LoopInv, Answered, GoesOn
<1>6. CASE Acquire \/ Update \/ KeyUpdated \/ UpdateFails \/ MembersAsked \/ Tick \/ UNCHANGED vars
  BY <1>6 DEF LedInv, Acquire, Update, KeyUpdated, UpdateFails, MembersAsked, Tick, vars, watchdogVars
<1>7. QED
  BY <1>1, <1>2, <1>3, <1>4, <1>5, <1>6 DEF Next

\* A watchdog that Patroni could stop never outlasts the primary that it was opened for, provided that
\* every such device can be set: one that cannot, with too long a timeout, is refused and left open.
THEOREM OnlyLeadersFeed ==
  ASSUME ~SetFails, Closable \subseteq Settable
  PROVE  Spec => []FedByLeaders
<1>1. Init => LedInv /\ LoopInv
  BY DEF Init, LedInv, LoopInv
<1>2. LedInv => FedByLeaders
  BY DEF LedInv, FedByLeaders
<1>3. WInv /\ [Next]_vars => WInv'
  BY WInvNext
<1>4. WInv /\ LoopInv /\ LedInv /\ [Next]_vars => LoopInv' /\ LedInv'
  BY LedNext, LoopNext
<1>5. QED
  BY WInvInit, <1>1, <1>2, <1>3, <1>4, PTL DEF Spec

-----------------------------------------------------------------------------
(* A guarded primary never outlives its right to lead *)

\* Where the key has just been renewed, or the members have just agreed, and what is then left
Renewed == {"updated", "agreed"}
Renewal == IF pc = "agreed" THEN agreed ELSE key

\* d fires before the right to lead is over, and when it has just been renewed with as much time to
\* spare as the ttl exceeds its timeout.
Guards(d) ==
  /\ hw[d].armed /\ hw[d].left <= Right
  /\ \E c \in Configs : hw[d].timeout <= timeout(c)
  /\ pc \in Renewed => hw[d].left + config.ttl <= Renewal + hw[d].timeout

GuardInv == guarded => primary /\ \E d \in Devices : Guards(d)

\* No ttl is shorter than the timeout to which another configuration set the device.
TtlsAreClose == \A c, e \in Configs : timeout(c) <= e.ttl

\* Half of the ttl leaves the other half to the key, whichever of the two is rounded up.
LEMMA HalfIsEnough ==
  ASSUME SafetyMargin = -1, NEW c \in Configs
  PROVE  timeout(c) \in Nat /\ 2 * timeout(c) <= c.ttl
<1>1. c.ttl \in Nat
  BY TimeoutType
<1>2. timeout(c) = c.ttl \div 2
  BY DEF timeout
<1>3. QED
  BY <1>1, <1>2, Z3

\* A watchdog that runs in time guards the primary.
LEMMA InTimeGuards ==
  ASSUME config \in Configs, NEW w, Sound(w), InTime(w), hw' = w.hw,
         UNCHANGED <<key, agreed, config>>, pc' \notin Renewed
  PROVE  \E d \in Devices : Guards(d)'
<1>1. /\ w.impl \in Devices /\ w.hw[w.impl].armed
      /\ w.hw[w.impl].left <= Right /\ w.hw[w.impl].timeout <= timeout(config)
  BY DEF InTime, Running, Fit, Sound, Kept, Watchdogs
<1>2. hw'[w.impl] = w.hw[w.impl] /\ timeout(config)' = timeout(config) /\ Right' = Right
  BY DEF timeout, Right
<1>3. Guards(w.impl)'
  BY <1>1, <1>2 DEF Guards
<1>4. QED
  BY <1>1, <1>3

\* A device that is left alone goes on guarding the primary until the right to lead is renewed or a
\* new configuration is read.
LEMMA StillGuards ==
  ASSUME NEW d \in Devices, Guards(d), hw'[d] = hw[d], UNCHANGED <<key, agreed>>,
         pc' \notin Renewed \/ (pc' = pc /\ config' = config)
  PROVE  Guards(d)'
<1>1. Right' = Right
  BY DEF Right
<1>2. QED
  BY <1>1 DEF Guards, timeout, Renewal

\* A right to lead that is renewed for a ttl outlives a device that guards the primary.
LEMMA GuardRenewed ==
  ASSUME TtlsAreClose, WInv, GuardInv, UNCHANGED <<hw, config, primary, guarded>>,
         key' \in Nat, agreed' \in Nat, pc' \in Renewed, Renewal' = config.ttl
  PROVE  GuardInv'
<1>1. /\ config \in Configs /\ config.ttl \in Nat /\ hw \in [Devices -> Timers]
      /\ \A d \in Devices : hw[d].armed => hw[d].left <= hw[d].timeout
  BY TimeoutType DEF WInv, State, Watchdogs, Sound, Kept
<1>2. Right' \in Nat /\ config.ttl <= Right'
  BY <1>1 DEF Right, Renewal
<1>3. ASSUME NEW d \in Devices, Guards(d) PROVE Guards(d)'
  <2>1. PICK c \in Configs : hw[d].timeout <= timeout(c)
    BY <1>3 DEF Guards
  <2>2. hw[d].left \in Nat /\ hw[d].timeout \in Nat /\ timeout(c) \in Int /\ hw[d].left <= hw[d].timeout
    BY <1>1, <1>3, TimeoutType DEF Guards, Timers
  <2>3. timeout(c) <= config.ttl
    BY <1>1 DEF TtlsAreClose
  <2>4. hw[d].left <= Right'
    BY <1>1, <1>2, <2>1, <2>2, <2>3
  <2>5. timeout(c)' = timeout(c)
    BY DEF timeout
  <2>6. QED
    BY <1>1, <1>3, <2>1, <2>2, <2>4, <2>5 DEF Guards
<1>4. QED
  BY <1>3 DEF GuardInv

\* A device that is fed when the right to lead has just been renewed guards the primary still: half of
\* the ttl has been left for the answer.
LEMMA GuardFed ==
  ASSUME ~SetFails, SafetyMargin = -1, WInv, GuardInv, primary, ~Due, pc \in Renewed, Feeds,
         pc' \notin Renewed, UNCHANGED <<config, key, agreed, primary>>
  PROVE  GuardInv'
<1>0. /\ config \in Configs /\ Sound(State) /\ Consistent(State, config)
      /\ key \in Nat /\ agreed \in Nat /\ guarded \in BOOLEAN
      /\ config.ttl \in Nat /\ hw \in [Devices -> Timers]
  BY TimeoutType DEF WInv, State, Watchdogs, Sound, Kept
<1>1. PICK o \in Outcomes :
        LET w == Keepalive(o[1], o[2])
        IN /\ Become(w)
           /\ guarded' = IF config = activeConfig THEN guarded /\ (Running(w) => Fit(w)) ELSE InTime(w)
  BY DEF Feeds
<1>2. o[1] \in BOOLEAN /\ o[2] = TRUE
  BY OutcomesType
<1> DEFINE w == Keepalive(o[1], TRUE)
<1>3. Sound(w)
  BY <1>0, <1>2, KeepaliveSound
<1>4. /\ hw' = w.hw
      /\ guarded' = IF config = activeConfig THEN guarded /\ (Running(w) => Fit(w)) ELSE InTime(w)
  BY <1>1, <1>2 DEF Become
<1>5. CASE config = activeConfig
  <2> SUFFICES ASSUME guarded' PROVE primary' /\ \E d \in Devices : Guards(d)'
    BY DEF GuardInv
  <2>1. guarded /\ primary' /\ (Running(w) => Fit(w))
    BY <1>4, <1>5 DEF GuardInv
  <2>2. PICK d \in Devices : Guards(d)
    BY <2>1 DEF GuardInv
  <2>3. w \in {State, Fed(State)}
    BY <1>5 DEF Keepalive
  <2>4. CASE hw'[d] = hw[d]
    BY <1>4, <2>1, <2>2, <2>4, StillGuards
  <2>5. CASE hw'[d] # hw[d]
    <3> DEFINE s == State
               t == hw[d].timeout
               f == Feed(s, t)
    <3>1. s.impl = impl /\ s.fds = fds /\ s.hw = hw /\ Sound(s)
      BY <1>0 DEF State
    <3>2. w = Fed(s) /\ d = impl /\ Running(s)
      <4> HIDE DEF s
      <4>1. \A e \in Devices \ {impl} : Fed(s).hw[e] = hw[e]
        BY <3>1, FedSound
      <4>2. ~Running(s) => Fed(s) = s
        BY <3>1, FedSound
      <4>3. w = s \/ w = Fed(s)
        BY <2>3 DEF s
      <4> HIDE DEF w
      <4>4. QED
        BY <1>4, <2>5, <3>1, <4>1, <4>2, <4>3
    <3>3. t \in Nat /\ hw[d].left \in Nat \ {0}
      BY <1>0, <2>2 DEF Guards, Timers, Due
    <3>4. w = f
      BY <3>1, <3>2 DEF Fed
    <3> HIDE DEF s, w, t
    <3>5. /\ w.impl = d /\ w.fds = fds
          /\ hw'[d] = [armed |-> TRUE, left |-> t, timeout |-> t]
      <4>1. /\ f.impl = s.impl /\ f.fds = s.fds
            /\ f.hw[s.impl] = [armed |-> TRUE, left |-> t, timeout |-> t]
        BY <3>1, <3>2, <3>3, FeedSound DEF Sound
      <4>2. QED
        BY <1>4, <3>1, <3>2, <3>4, <4>1
    <3>6. t <= timeout(config)
      <4>1. Running(w) /\ w.hw[w.impl].timeout = t
        BY <1>4, <3>1, <3>2, <3>5 DEF Running
      <4>2. QED
        BY <2>1, <4>1 DEF Fit
    <3>7. t <= Right'
      <4>1. hw[d].left + config.ttl <= Renewal + t
        BY <2>2 DEF Guards, t
      <4>2. timeout(config) \in Nat /\ 2 * timeout(config) <= config.ttl
        BY <1>0, HalfIsEnough
      <4>3. Renewal \in Nat /\ Right' \in Nat /\ Renewal <= Right'
        BY <1>0 DEF Renewal, Right
      <4>4. QED
        BY <1>0, <3>3, <3>6, <4>1, <4>2, <4>3
    <3>8. timeout(config)' = timeout(config)
      BY DEF timeout
    <3>9. Guards(d)'
      BY <1>0, <3>5, <3>6, <3>7, <3>8 DEF Guards
    <3>10. QED
      BY <2>1, <3>9
  <2>6. QED
    BY <2>4, <2>5
<1>6. CASE config # activeConfig
  <2> HIDE DEF w
  <2>1. QED
    BY <1>0, <1>3, <1>4, <1>6, InTimeGuards DEF GuardInv
<1>7. QED
  BY <1>5, <1>6

LEMMA GuardNext ==
  ASSUME ~SetFails, SafetyMargin = -1, TtlsAreClose, WInv, LoopInv, GuardInv, [Next]_vars
  PROVE  GuardInv'
<1>1. /\ config \in Configs /\ Sound(State) /\ Consistent(State, config)
      /\ key \in Nat /\ agreed \in Nat
      /\ paused \in BOOLEAN /\ guarded \in BOOLEAN /\ primary \in BOOLEAN
      /\ config.ttl \in Nat /\ hw \in [Devices -> Timers]
      /\ \A d \in Devices : hw[d].armed => hw[d].left <= hw[d].timeout
  BY TimeoutType DEF WInv, State, Watchdogs, Sound, Kept
<1>2. ASSUME guarded' => guarded, guarded => primary', UNCHANGED <<hw, key, agreed>>,
             pc' \notin Renewed \/ UNCHANGED vars
      PROVE  GuardInv'
  <2>1. SUFFICES ASSUME guarded' PROVE primary' /\ \E d \in Devices : Guards(d)'
    BY DEF GuardInv
  <2>2. PICK d \in Devices : Guards(d)
    BY <1>2, <2>1 DEF GuardInv
  <2>3. Guards(d)'
    BY <1>2, <2>2, StillGuards DEF vars
  <2>4. QED
    BY <1>2, <2>1, <2>3
<1>3. CASE Acquire
  <2>1. /\ UNCHANGED <<hw, config, primary, guarded, agreed>> /\ pc' \notin Renewed
        /\ key = 0 /\ key' \in Nat
    BY <1>1, <1>3 DEF Acquire, Renewed, watchdogVars
  <2>2. Right \in Nat /\ Right' \in Nat /\ Right <= Right'
    BY <1>1, <2>1 DEF Right
  <2>3. ASSUME NEW d \in Devices, Guards(d) PROVE Guards(d)'
    <3>1. hw[d].left \in Nat
      BY <1>1 DEF Timers
    <3>2. \A c \in Configs : timeout(c)' = timeout(c)
      BY DEF timeout
    <3>3. QED
      BY <2>1, <2>2, <2>3, <3>1, <3>2 DEF Guards
  <2>4. QED
    BY <2>1, <2>3 DEF GuardInv
<1>4. CASE Enforce
  <2>1. PICK o \in Outcomes :
          LET w == IF paused \/ Running(State) THEN State ELSE Activate(o[1], o[2])
              fit == paused \/ Running(State) \/ Suitable(w)
          IN /\ Become(w)
             /\ primary' = (primary \/ fit)
             /\ pc' = IF fit \/ ~primary THEN "idle" ELSE "stopping"
             /\ key' = IF fit \/ primary THEN key ELSE 0
             /\ guarded' = IF paused \/ Running(State) THEN guarded ELSE InTime(w)
    BY <1>4 DEF Enforce
  <2>2. o[1] \in BOOLEAN /\ o[2] = TRUE /\ pc' \notin Renewed /\ UNCHANGED <<config, agreed>>
    BY <1>4, <2>1, OutcomesType DEF Enforce, Renewed
  <2>3. CASE paused \/ Running(State)
    BY <1>2, <2>1, <2>2, <2>3 DEF Become, State
  <2>4. CASE ~(paused \/ Running(State))
    <3> DEFINE w == Activate(o[1], TRUE)
    <3>1. Sound(w)
      BY <2>2, <2>4, EnforceSound
    <3>2. /\ hw' = w.hw /\ guarded' = InTime(w)
          /\ Suitable(w) => primary' /\ key' = key
      BY <2>1, <2>2, <2>4 DEF Become
    <3>3. InTime(w) => Suitable(w)
      BY DEF InTime, Suitable, Fit
    <3> HIDE DEF w
    <3>4. QED
      BY <1>1, <2>2, <3>1, <3>2, <3>3, InTimeGuards DEF GuardInv
  <2>5. QED
    BY <2>3, <2>4
<1>5. CASE Update \/ UpdateFails
  <2>1. UpdateFails => pc' \in {"idle", "stopping", "asking"}
    BY DEF UpdateFails
  <2>2. QED
    BY <1>2, <1>5, <2>1 DEF Update, UpdateFails, GuardInv, watchdogVars, Renewed
<1>6. CASE KeyUpdated
  BY <1>1, <1>6, GuardRenewed DEF KeyUpdated, Renewed, Renewal, watchdogVars
<1>7. CASE Answered \/ GoesOn
  BY <1>7, GuardFed DEF Answered, GoesOn, LoopInv, Renewed
<1>16. CASE MembersAsked
  <2>1. CASE pc' = "agreed"
    BY <1>1, <1>16, <2>1, GuardRenewed DEF MembersAsked, Renewed, Renewal, watchdogVars
  <2>2. CASE pc' # "agreed"
    BY <1>2, <1>16, <2>2 DEF MembersAsked, GuardInv, watchdogVars, Renewed
  <2>3. QED
    BY <2>1, <2>2
<1>8. CASE Stopped
  BY <1>8 DEF Stopped, GuardInv
<1>9. CASE Pause
  BY <1>2, <1>9 DEF Pause, GuardInv, watchdogVars, Renewed
<1>10. ASSUME NEW c \in Configs, Reload(c) PROVE GuardInv'
  <2>1. guarded' => guarded /\ c.mode # "off"
    BY <1>10 DEF Reload
  <2>2. c.mode # "off" => hw' = hw
    BY <1>1, <1>10, ReloadedSound DEF Reload, Become
  <2>3. UNCHANGED <<key, agreed, primary>> /\ pc' \notin Renewed
    BY <1>10 DEF Reload, Renewed
  <2>4. CASE c.mode # "off"
    BY <1>2, <2>1, <2>2, <2>3, <2>4 DEF GuardInv
  <2>5. QED
    BY <2>1, <2>4 DEF GuardInv
<1>11. CASE Restart
  <2>1. hw' = hw
    BY <1>11 DEF Restart, Become, Fresh
  <2>2. QED
    BY <1>2, <1>11, <2>1 DEF Restart, GuardInv, Renewed
<1>12. CASE Tick
  <2>1. /\ guarded' = guarded /\ primary' = primary /\ config' = config /\ pc' = pc /\ ~Due
        /\ key' = IF key > 0 THEN key - 1 ELSE 0
        /\ agreed' = IF agreed > 0 THEN agreed - 1 ELSE 0
        /\ \A d \in Devices : hw'[d] = IF hw[d].armed THEN [hw[d] EXCEPT !.left = @ - 1] ELSE hw[d]
    BY <1>12 DEF Tick
  <2>2. ASSUME NEW d \in Devices, Guards(d) PROVE Guards(d)'
    <3>1. hw[d].armed /\ hw[d].left \in Nat \ {0} /\ hw[d].timeout \in Nat /\ hw[d].left <= Right
      BY <1>1, <2>1, <2>2 DEF Guards, Timers, Due
    <3>2. hw'[d].armed /\ hw'[d].left = hw[d].left - 1 /\ hw'[d].timeout = hw[d].timeout
      BY <1>1, <2>1, <3>1 DEF Timers
    <3>3. /\ Right \in Nat \ {0} /\ Right' = Right - 1
          /\ Renewal \in Nat /\ Renewal' \in Nat /\ Renewal' >= Renewal - 1
      BY <1>1, <2>1, <3>1 DEF Right, Renewal
    <3>4. \A c \in Configs : timeout(c)' = timeout(c)
      BY DEF timeout
    <3>5. QED
      BY <1>1, <2>1, <2>2, <3>1, <3>2, <3>3, <3>4 DEF Guards
  <2>3. QED
    BY <2>1, <2>2 DEF GuardInv
<1>13. CASE Fire
  BY <1>13 DEF Fire, GuardInv
<1>14. CASE UNCHANGED vars
  BY <1>2, <1>14 DEF vars, watchdogVars, GuardInv
<1>15. QED
  BY <1>3, <1>4, <1>5, <1>6, <1>7, <1>8, <1>9, <1>10, <1>11, <1>12, <1>13, <1>14, <1>16
  DEF Next

\* With a timeout of half of the ttl, a primary that was guarded when it was promoted is reset before
\* its leader key has expired and so has every agreement of the members in failsafe mode, for any devices
\* and ttls, as long as no ttl is edited to less than the timeout of a configuration before it.
THEOREM GuardedPrimaryIsFenced ==
  ASSUME ~SetFails, SafetyMargin = -1, TtlsAreClose
  PROVE  Spec => []Fenced
<1>1. Init => GuardInv /\ LoopInv
  BY DEF Init, GuardInv, LoopInv
<1>2. WInv /\ GuardInv => Fenced
  <2> SUFFICES ASSUME WInv, GuardInv, guarded, key = 0, agreed = 0 PROVE Due
    BY DEF Fenced, WInv
  <2>1. PICK d \in Devices : Guards(d)
    BY DEF GuardInv
  <2>2. hw[d].armed /\ hw[d].left \in Nat /\ hw[d].left <= 0
    BY <2>1 DEF Guards, Right, WInv, Sound, Kept, Watchdogs, Timers, State
  <2>3. QED
    BY <2>2 DEF Due
<1>3. WInv /\ [Next]_vars => WInv'
  BY WInvNext
<1>4. WInv /\ LoopInv /\ GuardInv /\ [Next]_vars => LoopInv' /\ GuardInv'
  BY GuardNext, LoopNext
<1>5. QED
  BY WInvInit, <1>1, <1>2, <1>3, <1>4, PTL DEF Spec
=============================================================================
