------------------------------- MODULE LeaderKey -------------------------------
(***************************************************************************)
(* The leader key as the DCS backends of Patroni keep it                   *)
(* (patroni/dcs/{etcd,etcd3,consul,zookeeper,raft,kubernetes}.py).         *)
(*                                                                         *)
(* Init picks one backend.  `srv` is the server: the history of the leader *)
(* key and its leases (an id with the ticks since it was last renewed).    *)
(* A client runs HA cycles: it loads the cluster through a cache or a      *)
(* replica that may lag, chooses a call from what it saw, and the call is  *)
(* a series of requests.  Each backend has one operator per call, which    *)
(* maps the server and the caller to the server and the caller after the   *)
(* next request of that call.  A reply can be lost; the request is then    *)
(* sent again, or the call fails.                                          *)
(***************************************************************************)
EXTENDS Integers, Sequences, FiniteSets, TLC

CONSTANTS
  Clients,      \* the Patroni nodes
  None,
  Backends,     \* the backends Init chooses from
  TTL,          \* ticks a lease lives without renewal, and a client trusts it
  LoopWait,     \* ticks a lease that was renewed is not renewed again unless
                \* the call insists
  MaxRev,       \* bound, for each backend: writes of the leader key
  MaxLease,     \* bound: leases ever granted
  MaxFaults     \* bound: lost replies, failed calls, foreign writes, changes
                \* of the ttl setting

VARIABLES backend, srv, cl, faults

vars == <<backend, srv, cl, faults>>

All == {"etcd", "etcd3", "consul", "zookeeper", "raft", "kubernetes"}

ASSUME BackendsAssumption == Backends \subseteq All
ASSUME NoneIsNoClient == None \notin Clients
ASSUME BoundsAssumption ==
  /\ TTL \in Nat \ {0} /\ LoopWait \in Nat /\ MaxRev \in [All -> Nat]
  /\ IsFiniteSet(Clients) /\ MaxLease \in Nat \ {0} /\ Cardinality(Clients) <= MaxLease

Dead    == -1
NoStamp == <<None, 0>>
NoKey   == [owner |-> None, session |-> 0, version |-> 0, stamp |-> NoStamp]

KeyOf(S) == S.log[Len(S.log)]

------------------------------------------------------------------------------
(* The server's primitives *)

Bounded(x) == IF x >= TTL THEN TTL ELSE x + 1

Put(S, k) == [S EXCEPT !.rev = @ + 1,
                       !.log = Append(@, [k EXCEPT !.version = S.rev + 1])]

\* A write of the key for c that hangs it on the lease s.
Attach(S, c, s) == Put(S, [NoKey EXCEPT !.owner = c, !.session = s])

\* A write of the key with a ttl of its own, kept as lease 1, t ticks old.
Write(S, c, t) == [Attach(S, c, 1) EXCEPT !.lease[1] = t]

Drop(S) == IF KeyOf(S).owner = None THEN S ELSE Put(S, NoKey)

Alive(S, s) == s # 0 /\ S.lease[s] # Dead

\* The lease s ends and takes the key that hangs on it along.
End(S, s) == LET T == [S EXCEPT !.lease[s] = Dead]
             IN  IF KeyOf(S).session = s THEN Drop(T) ELSE T

------------------------------------------------------------------------------
(* The caller *)

Out(S, C) == [srv |-> S, cl |-> C]

Goto(C, n) == [C EXCEPT !.step = n]

Idle(C) == [C EXCEPT !.op = "idle", !.step = 1, !.base = 0, !.t = 0, !.mark = 0,
                     !.view = IF backend = "kubernetes" THEN @ ELSE NoKey]

\* The age that the lease may have when a call answers True.  An update renews it;
\* an acquisition by etcd v3 or Consul may find it up to loop_wait old (RefreshIfOld).
\* Ha._leader_expiry knows neither: it counts a whole ttl from the answer on.
Age(C) ==
  IF C.op # "acquire" \/ backend \notin {"etcd3", "consul"} THEN C.t
  ELSE IF C.t + LoopWait > TTL THEN TTL ELSE C.t + LoopWait

\* The call about the leader key returns; ha.py stays leader only on True.  `since`
\* is how much of the ttl was used up by then, so it is what a client may rely on.
Return(C, ok) == [Idle(C) EXCEPT !.since = IF ok THEN Age(C) ELSE TTL]

\* KVCache.set and ObjectCache.set: only a newer version replaces the copy.
Remember(C, k) == [C EXCEPT !.cache = IF @.version < k.version THEN k ELSE @,
                            !.at = IF @ = k.version THEN @ + 1 ELSE @]

\* Mutant: the new lease is not recorded as granted.
RefreshUncounted(S, C) ==
  LET D == [C EXCEPT !.last = 0]
  IN  IF Alive(S, C.mine) THEN Out([S EXCEPT !.lease[C.mine] = 0], D)
      ELSE IF S.granted = MaxLease THEN Out(S, [D EXCEPT !.mine = 0])
      ELSE Out([S EXCEPT !.lease[S.granted + 1] = 0], [D EXCEPT !.mine = S.granted + 1])

\* The lease of c is renewed, or a new one granted if it is gone.
Refresh(S, C) ==
  LET D == [C EXCEPT !.last = 0]
  IN  IF Alive(S, C.mine) THEN Out([S EXCEPT !.lease[C.mine] = 0], D)
      ELSE IF S.granted = MaxLease THEN Out(S, [D EXCEPT !.mine = 0])
      ELSE Out([S EXCEPT !.granted = @ + 1, !.lease[S.granted + 1] = 0],
               [D EXCEPT !.mine = S.granted + 1])

\* _do_refresh_lease and _do_refresh_session without force: not again within loop_wait.
RefreshIfOld(S, C) == IF C.mine # 0 /\ C.last <= LoopWait THEN Out(S, C) ELSE Refresh(S, C)

------------------------------------------------------------------------------
(* etcd v2: the key has a ttl of its own, conditions on its value *)

EtcdAcquire(S, C, c) ==
  IF KeyOf(S).owner = None
  THEN Out(Write(S, c, 0), Return(C, TRUE))
  ELSE Out(S, Return(C, FALSE))

\* Mutant: the key is written without prevValue.
EtcdUpdateUnconditional(S, C, c) == Out(Write(S, c, 0), Return(C, TRUE))

\* prevValue = name; on "key not found" the key is created instead.
EtcdUpdate(S, C, c) ==
  IF C.step = 2 THEN EtcdAcquire(S, C, c)
  ELSE IF KeyOf(S).owner = c THEN Out(Write(S, c, 0), Return(C, TRUE))
  ELSE IF KeyOf(S).owner = None THEN Out(S, Goto(C, 2))
  ELSE Out(S, Return(C, FALSE))

EtcdDelete(S, C, c) ==
  Out(IF KeyOf(S).owner = c THEN Drop(S) ELSE S, Return(C, FALSE))

------------------------------------------------------------------------------
(* etcd v3: the key hangs on the lease of its owner *)

\* The copy of the leader key after an event (KVCache._process_event).
Etcd3Event(old, k) ==
  IF k.version < old.version THEN old ELSE IF k.owner = None THEN NoKey ELSE k

\* After a failed request or a failed condition the watch is restarted: the
\* copy is built anew, from a member that is up to date.
Rebuilt(S, C) == [C EXCEPT !.cache = Etcd3Event(NoKey, KeyOf(S)), !.at = Len(S.log)]

\* Puts the key under the lease of the caller, whose copy learns of it.
Etcd3Put(S, C, c) ==
  LET T == Attach(S, c, C.mine) IN Out(T, Return(Remember(C, KeyOf(T)), TRUE))

\* Refresh the lease if it is old, create the key; when the lease turns out to be
\* gone, once more with a new one.
Etcd3Acquire(S, C, c) ==
  IF C.step \in {1, 3} THEN LET r == RefreshIfOld(S, C) IN Out(r.srv, Goto(r.cl, C.step + 1))
  ELSE IF ~Alive(S, C.mine)
    THEN Out(S, IF C.step = 2 THEN Goto([C EXCEPT !.mine = 0], 3) ELSE Return(C, FALSE))
  ELSE IF KeyOf(S).owner = None THEN Etcd3Put(S, C, c)
  ELSE Out(S, Return(Rebuilt(S, C), FALSE))

\* Mutant: a keepalive is enough, whatever lease the key hangs on.
Etcd3UpdateKeepalive(S, C, c) ==
  LET r == Refresh(S, C) IN Out(r.srv, Return(r.cl, r.cl.mine # 0))

\* A keepalive is enough as long as the key seen hangs on the same lease.
Etcd3Update(S, C, c) ==
  IF C.step = 1
  THEN LET r == Refresh(S, C)
       IN  Out(r.srv, IF r.cl.mine # 0 /\ C.view.session # r.cl.mine THEN Goto(r.cl, 2)
                      ELSE Return(r.cl, r.cl.mine # 0))
  ELSE IF Alive(S, C.mine) /\ KeyOf(S).owner \in {c, None} THEN Etcd3Put(S, C, c)
  ELSE Out(S, Return(C, FALSE))

\* The cache forgets the key at once, and with it the revision.
Etcd3Delete(S, C, c) ==
  IF KeyOf(S).owner = c THEN Out(Drop(S), Return([C EXCEPT !.cache = NoKey], FALSE))
  ELSE Out(S, Return(Rebuilt(S, C), FALSE))

\* touch_member renews the lease if it is old, or replaces it.
Etcd3Touch(S, C) == RefreshIfOld(S, C)

------------------------------------------------------------------------------
(* Consul: the key is locked by the session of its owner *)

\* PUT ?acquire: succeeds when free or already locked by this very session.
ConsulLock(S, C, c) ==
  IF KeyOf(S).owner = None \/ KeyOf(S).session = C.mine
  THEN Out(Attach(S, c, C.mine), Return(C, TRUE))
  ELSE Out(S, Return(C, FALSE))

ConsulAcquire(S, C, c) ==
  IF C.step \in {1, 3} THEN LET r == RefreshIfOld(S, C) IN Out(r.srv, Goto(r.cl, C.step + 1))
  ELSE IF ~Alive(S, C.mine)
    THEN Out(S, IF C.step = 2 THEN Goto([C EXCEPT !.mine = 0], 3) ELSE Return(C, FALSE))
  ELSE ConsulLock(S, C, c)

\* With a new session the old key is deleted and locked anew; what the two
\* requests answer is not looked at.
ConsulUpdate(S, C, c) ==
  IF C.step = 1
    THEN LET r == Refresh(S, C)
         IN  Out(r.srv, IF r.cl.mine # 0 /\ C.view.session # r.cl.mine THEN Goto(r.cl, 2)
                        ELSE Return(r.cl, r.cl.mine # 0))
  ELSE IF C.step = 2
    THEN Out(IF KeyOf(S).version = C.view.version THEN Drop(S) ELSE S, Goto(C, 3))
  ELSE IF ~Alive(S, C.mine) THEN Out(S, Return(C, FALSE))
  ELSE Out(ConsulLock(S, C, c).srv, Return(C, C.mine # 0))

ConsulDelete(S, C, c) ==
  Out(IF KeyOf(S).version = C.view.version THEN Drop(S) ELSE S, Return(C, FALSE))

ConsulTouch(S, C) == RefreshIfOld(S, C)

------------------------------------------------------------------------------
(* ZooKeeper: the key is ephemeral; kazoo keeps the session alive *)

ZooKeeperAcquire(S, C, c) ==
  IF Alive(S, C.mine) /\ KeyOf(S).owner = None
  THEN Out(Attach(S, c, C.mine), Return(C, TRUE))
  ELSE Out(S, Return(C, FALSE))

\* Same session: nothing is sent.  Otherwise whatever key there is, is deleted.
ZooKeeperUpdate(S, C, c) ==
  IF C.step = 2 THEN ZooKeeperAcquire(S, C, c)
  ELSE IF C.mine = C.view.session THEN Out(S, Return(C, TRUE))
  ELSE IF Alive(S, C.mine) THEN Out(Drop(S), Goto(C, 2))
  ELSE Out(S, Return(C, FALSE))

\* touch_member gets through with a session only, and kazoo reopens it.
ZooKeeperTouch(S, C) == Refresh(S, C)

\* client.restart(): the session is closed and a new one opened.
ZooKeeperDelete(S, C, c) ==
  LET T == IF Alive(S, C.mine) THEN End(S, C.mine) ELSE S
      r == Refresh(T, C)
  IN  Out(r.srv, Return(r.cl, FALSE))

------------------------------------------------------------------------------
(* Raft (pysyncobj): the conditions are checked on the local copy, then by  *)
(* the replicated command; the ttl counts from the start of the call        *)

RaftAcquire(S, C, c) ==
  IF C.cache.owner = None /\ KeyOf(S).owner = None
  THEN Out(Write(S, c, C.t), Return(C, TRUE))
  ELSE Out(S, Return(C, FALSE))

RaftUpdate(S, C, c) ==
  IF C.step = 2 THEN RaftAcquire(S, C, c)
  ELSE IF C.cache.owner = c /\ KeyOf(S).owner = c THEN Out(Write(S, c, C.t), Return(C, TRUE))
  ELSE IF C.cache.owner = None THEN Out(S, Goto(C, 2))
  ELSE Out(S, Return(C, FALSE))

RaftDelete(S, C, c) ==
  Out(IF C.cache.owner = c /\ KeyOf(S).owner = c THEN Drop(S) ELSE S, Return(C, FALSE))

------------------------------------------------------------------------------
(* Kubernetes: an annotated object; its resource version is the condition   *)

Stamp(C, c) == <<c, C.mark>>

\* _patch_or_create for the leader object.
Patch(S, C, c, ok) ==
  LET T == Put(S, [NoKey EXCEPT !.owner = c, !.stamp = Stamp(C, c)])
  IN  Out(T, Return(Remember(C, KeyOf(T)), ok))

\* On a conflict the object is read: had the first request been executed
\* after all, it carries the annotations just sent.
KubernetesAcquire(S, C, c) ==
  LET K == KeyOf(S)
  IN  IF C.step = 2
        THEN Out(S, Return(C, K.version # C.base /\ K.owner = c /\ K.stamp = Stamp(C, c)))
      ELSE IF K.version = C.base THEN Patch(S, C, c, TRUE)
      ELSE Out(S, IF C.base = 0 THEN Return(C, FALSE) ELSE Goto(C, 2))

\* The same with one more attempt while the object still names the caller.
KubernetesUpdate(S, C, c) ==
  LET K == KeyOf(S)
      D == Remember(C, K)
  IN  IF C.step = 1 /\ C.base # 0 /\ C.cache.owner # c THEN Out(S, Return(C, FALSE))
      ELSE IF C.step \in {1, 3}
        THEN IF K.version = C.base THEN Patch(S, C, c, TRUE)
             ELSE Out(S, IF C.step = 1 THEN Goto(C, 2) ELSE Return(C, FALSE))
      ELSE IF K.owner # c \/ K.version = C.base THEN Out(S, Return(D, FALSE))
      ELSE IF K.stamp = Stamp(C, c) THEN Out(S, Return(D, TRUE))
      ELSE Out(S, [Goto(D, 3) EXCEPT !.base = K.version])

KubernetesDelete(S, C, c) ==
  LET K == KeyOf(S)
      T == Put(S, [K EXCEPT !.owner = None])
  IN  IF C.cache.owner = c /\ K.version = C.base
      THEN Out(T, Return(Remember(C, KeyOf(T)), FALSE)) ELSE Out(S, Return(C, FALSE))

\* ObjectCache._process_event
KubernetesEvent(old, k) == IF old.version < k.version THEN k ELSE old

\* Since when the observed record did not change; after a ttl its leader
\* counts as gone.
Observe(C) ==
  LET record(x) == <<x.owner, x.stamp>>
  IN  [C EXCEPT !.view = C.cache, !.seen = IF record(C.cache) # record(C.view) THEN 0 ELSE @]

\* attempt_to_acquire_leader takes the newer version of an unchanged record.
ObservedVersion(C) ==
  IF <<C.cache.owner, C.cache.stamp>> = <<C.view.owner, C.view.stamp>>
  THEN C.cache.version ELSE C.view.version

------------------------------------------------------------------------------
(* One request of the call client c is in *)

EtcdCall(S, C, c) ==
  CASE C.op = "acquire" -> EtcdAcquire(S, C, c)
    [] C.op = "update"  -> EtcdUpdate(S, C, c)
    [] C.op = "delete"  -> EtcdDelete(S, C, c)

Etcd3Call(S, C, c) ==
  CASE C.op = "acquire" -> Etcd3Acquire(S, C, c)
    [] C.op = "update"  -> Etcd3Update(S, C, c)
    [] C.op = "delete"  -> Etcd3Delete(S, C, c)

ConsulCall(S, C, c) ==
  CASE C.op = "acquire" -> ConsulAcquire(S, C, c)
    [] C.op = "update"  -> ConsulUpdate(S, C, c)
    [] C.op = "delete"  -> ConsulDelete(S, C, c)

ZooKeeperCall(S, C, c) ==
  CASE C.op = "acquire" -> ZooKeeperAcquire(S, C, c)
    [] C.op = "update"  -> ZooKeeperUpdate(S, C, c)
    [] C.op = "delete"  -> ZooKeeperDelete(S, C, c)

RaftCall(S, C, c) ==
  CASE C.op = "acquire" -> RaftAcquire(S, C, c)
    [] C.op = "update"  -> RaftUpdate(S, C, c)
    [] C.op = "delete"  -> RaftDelete(S, C, c)

KubernetesCall(S, C, c) ==
  CASE C.op = "acquire" -> KubernetesAcquire(S, C, c)
    [] C.op = "update"  -> KubernetesUpdate(S, C, c)
    [] C.op = "delete"  -> KubernetesDelete(S, C, c)

Call(S, C, c) ==
  CASE backend = "etcd"       -> EtcdCall(S, C, c)
    [] backend = "etcd3"      -> Etcd3Call(S, C, c)
    [] backend = "consul"     -> ConsulCall(S, C, c)
    [] backend = "zookeeper"  -> ZooKeeperCall(S, C, c)
    [] backend = "raft"       -> RaftCall(S, C, c)
    [] backend = "kubernetes" -> KubernetesCall(S, C, c)

Within(S) == S.rev <= MaxRev[backend]

\* Consul, ZooKeeper and Raft let a client read what it has written; the
\* other three have a copy of their own, or any etcd machine may answer.
ReadsOwn(S, C) ==
  IF backend \in {"consul", "zookeeper", "raft"} /\ S.rev # srv.rev
  THEN [C EXCEPT !.at = Len(S.log), !.cache = KeyOf(S)] ELSE C

\* The request is executed and answered.
Answer(c) ==
  /\ cl[c].op # "idle"
  /\ LET r == Call(srv, cl[c], c)
     IN  /\ Within(r.srv)
         /\ srv' = r.srv
         /\ cl' = [cl EXCEPT ![c] = ReadsOwn(r.srv, r.cl)]
  /\ UNCHANGED <<backend, faults>>

\* Whether the caller sends the request again: etcd to the next machine, if
\* the call has a retry; Raft until its deadline; Kubernetes to the next API
\* server; kazoo and the Consul client after a pause.
EtcdRepeats(C)       == C.op # "delete"
ConsulRepeats(C)     == C.op # "delete"
ZooKeeperRepeats(C)  == C.op # "delete"
RaftRepeats(C)       == TRUE
KubernetesRepeats(C) == C.op # "delete"

Repeats(C) ==
  CASE backend \in {"etcd", "etcd3"} -> EtcdRepeats(C)
    [] backend = "consul"     -> ConsulRepeats(C)
    [] backend = "zookeeper"  -> ZooKeeperRepeats(C)
    [] backend = "raft"       -> RaftRepeats(C)
    [] backend = "kubernetes" -> KubernetesRepeats(C)

\* It is executed but the answer is lost, and the client sends it again.
Resend(c) ==
  /\ cl[c].op # "idle" /\ Repeats(cl[c]) /\ faults < MaxFaults
  /\ LET r == Call(srv, cl[c], c) IN Within(r.srv) /\ srv' = r.srv
  /\ faults' = faults + 1
  /\ UNCHANGED <<backend, cl>>

\* What a failed call leaves behind: with etcd v3 a change of the machine
\* restarts the watch.
EtcdFailed(S, C) == IF backend = "etcd3" THEN Rebuilt(S, C) ELSE C

\* The retry deadline passes: the call raises, and ha.py demotes.
Raise(c) ==
  /\ cl[c].op # "idle" /\ faults < MaxFaults
  /\ cl' = [cl EXCEPT ![c] = Return(EtcdFailed(srv, cl[c]), FALSE)]
  /\ faults' = faults + 1
  /\ UNCHANGED <<backend, srv>>

------------------------------------------------------------------------------
(* The HA cycle of a client *)

\* get_cluster: the copy or the answer, as old as it is, becomes the view of
\* this cycle.  touch_member, when it gets through, renews the session.
Viewed(C) == [C EXCEPT !.view = C.cache]

EtcdLoad(S, C)       == {Out(S, Viewed(C))}
Etcd3Load(S, C)      == {Out(S, Viewed(C)), Etcd3Touch(S, Viewed(C))}
ConsulLoad(S, C)     == {Out(S, Viewed(C)), ConsulTouch(S, Viewed(C))}
ZooKeeperLoad(S, C)  == {ZooKeeperTouch(S, Viewed(C))}
RaftLoad(S, C)       == {Out(S, Viewed(C))}
KubernetesLoad(S, C) == {Out(S, Observe(C))}

Loaded(S, C) ==
  CASE backend = "etcd"       -> EtcdLoad(S, C)
    [] backend = "etcd3"      -> Etcd3Load(S, C)
    [] backend = "consul"     -> ConsulLoad(S, C)
    [] backend = "zookeeper"  -> ZooKeeperLoad(S, C)
    [] backend = "raft"       -> RaftLoad(S, C)
    [] backend = "kubernetes" -> KubernetesLoad(S, C)

\* Cluster.leader as HA sees it.
Leader(C) == IF backend = "kubernetes" /\ C.seen >= TTL THEN None ELSE C.view.owner

\* What c can learn of the key's history.  Any etcd machine may answer, also
\* one that is further behind; a watch delivers the events in their order, and
\* a Consul server, a ZooKeeper server or the Raft node itself only moves on.
Ahead(S, C) == C.at + 1..Len(S.log)

Copied(C, i, k) == [C EXCEPT !.at = i, !.cache = k]

EtcdLearn(S, C) == {Copied(C, i, S.log[i]) : i \in 1..Len(S.log)}

Etcd3Learn(S, C) ==
  {Copied(C, i, Etcd3Event(C.cache, S.log[i])) : i \in Ahead(S, C)}

KubernetesLearn(S, C) ==
  {Copied(C, i, KubernetesEvent(C.cache, S.log[i])) : i \in Ahead(S, C)}

ConsulLearn(S, C)    == {Copied(C, i, S.log[i]) : i \in Ahead(S, C)}
ZooKeeperLearn(S, C) == {Copied(C, i, S.log[i]) : i \in Ahead(S, C)}
RaftLearn(S, C)      == {Copied(C, i, S.log[i]) : i \in Ahead(S, C)}

Learnt(S, C) ==
  {C} \cup
  CASE backend = "etcd"       -> EtcdLearn(S, C)
    [] backend = "etcd3"      -> Etcd3Learn(S, C)
    [] backend = "consul"     -> ConsulLearn(S, C)
    [] backend = "zookeeper"  -> ZooKeeperLearn(S, C)
    [] backend = "raft"       -> RaftLearn(S, C)
    [] backend = "kubernetes" -> KubernetesLearn(S, C)

\* Kubernetes: the version the call is conditional on, and a mark for the time
\* of the call, renewTime, that no write bears yet.
Start(C, op, version) ==
  IF backend # "kubernetes" THEN [C EXCEPT !.op = op]
  ELSE [C EXCEPT !.op = op, !.base = version,
                 !.mark = CHOOSE n \in 1..MaxRev[backend] + 1 :
                            \A i \in 1..Len(srv.log) : srv.log[i].stamp[2] # n]

\* A key the caller deletes has reached its cache: the cache does not outlive
\* the promotion between the two calls.
CaughtUp(C) == C.at = Len(srv.log)

\* The watch between two cycles makes the next one renew the lease; after a cycle
\* that took longer than loop_wait there is none.
Watched(C) == {C, [C EXCEPT !.last = LoopWait + 1]}

\* A client that sees the key free tries to get it; one that sees itself
\* renews or gives it up; one that sees another follows.
Cycle(c) ==
  /\ cl[c].op = "idle"
  /\ \E W \in Watched(cl[c]) : \E L \in Learnt(srv, W) : \E r \in Loaded(srv, L) : LET
         C == r.cl
         new ==
           CASE Leader(C) = None -> {Start(C, "acquire", ObservedVersion(C))}
             [] Leader(C) = c    ->
                  {Start(C, "update", C.cache.version)}
                  \cup (IF CaughtUp(C)
                        THEN {[Start(C, "delete", C.cache.version)
                                 EXCEPT !.since = TTL]} ELSE {})
             [] OTHER -> {Return(C, FALSE)}
     IN  \E D \in new : cl' = [cl EXCEPT ![c] = D] /\ srv' = r.srv
  /\ UNCHANGED <<backend, faults>>

\* The copy moves on while a call is under way that looks at it again.
Watch(c) ==
  /\ cl[c].op # "idle" /\ backend \in {"raft", "kubernetes"}
  /\ \E C \in Learnt(srv, cl[c]) : C # cl[c] /\ cl' = [cl EXCEPT ![c] = C]
  /\ UNCHANGED <<backend, srv, faults>>

\* set_ttl with another value: the lease is forgotten, the next call gets one.
NewTTL(c) ==
  /\ backend \in {"etcd3", "consul"}
  /\ faults < MaxFaults /\ cl[c].op = "idle" /\ cl[c].mine # 0
  /\ cl' = [cl EXCEPT ![c].mine = 0]
  /\ faults' = faults + 1
  /\ UNCHANGED <<backend, srv>>

------------------------------------------------------------------------------
(* Time and the server *)

\* ZooKeeper: kazoo answers the server's heartbeats as long as it can,
\* whatever the HA loop does; the other clients renew in touch_member only.
Pinging == IF backend = "zookeeper" THEN SUBSET Clients ELSE {{}}

Tick ==
  /\ \E pinging \in Pinging :
       LET renewed == {cl[c].mine : c \in pinging}
       IN  srv' = [srv EXCEPT !.lease = [s \in DOMAIN @ |->
                     IF @[s] = Dead THEN Dead
                     ELSE IF s \in renewed THEN 0 ELSE Bounded(@[s])]]
  /\ cl' = [c \in Clients |-> [cl[c] EXCEPT !.t = IF cl[c].op = "idle" THEN 0 ELSE Bounded(@),
                                            !.since = Bounded(@), !.seen = Bounded(@),
                                            !.last = IF @ > LoopWait THEN @ ELSE @ + 1]]
  /\ UNCHANGED <<backend, faults>>

\* The server ends a lease nobody renewed.
Expire ==
  /\ backend \notin {"raft", "kubernetes"}
  /\ \E s \in DOMAIN srv.lease :
       /\ srv.lease[s] = TTL
       /\ Within(End(srv, s))
       /\ srv' = End(srv, s)
  /\ UNCHANGED <<backend, cl, faults>>

\* KVStoreTTL.__expire_keys: the raft leader proposes to drop what it sees
\* expired ...
ProposeExpire ==
  /\ backend = "raft" /\ srv.doomed = 0
  /\ KeyOf(srv).owner # None /\ srv.lease[KeyOf(srv).session] = TTL
  /\ srv' = [srv EXCEPT !.doomed = KeyOf(srv).version]
  /\ UNCHANGED <<backend, cl, faults>>

\* ... and KVStoreTTL._expire drops it unless it was rewritten meanwhile.
ApplyExpire ==
  /\ backend = "raft" /\ srv.doomed # 0
  /\ LET T == [srv EXCEPT !.doomed = 0]
     IN  /\ Within(Drop(T))
         /\ srv' = IF KeyOf(srv).version = srv.doomed THEN Drop(T) ELSE T
  /\ UNCHANGED <<backend, cl, faults>>

\* Something else of the Kubernetes object changes: a label, the endpoints.
Foreign ==
  /\ backend = "kubernetes" /\ faults < MaxFaults /\ srv.rev < MaxRev[backend]
  /\ KeyOf(srv).version # 0
  /\ srv' = Put(srv, KeyOf(srv))
  /\ faults' = faults + 1
  /\ UNCHANGED <<backend, cl>>

------------------------------------------------------------------------------

\* A client with sessions opens its own before anything else (create_lease,
\* create_session, the start of kazoo).
Init ==
  /\ backend \in Backends
  /\ \E mine \in [Clients -> 0..Cardinality(Clients)] :
       /\ IF backend \in {"etcd3", "consul", "zookeeper"}
          THEN \A c, d \in Clients : mine[c] # 0 /\ (c # d => mine[c] # mine[d])
          ELSE \A c \in Clients : mine[c] = 0
       /\ srv = [log |-> <<NoKey>>, rev |-> 0, doomed |-> 0,
                 granted |-> Cardinality({mine[c] : c \in Clients} \ {0}),
                 lease |-> [s \in 1..MaxLease |->
                              IF \E c \in Clients : mine[c] = s THEN 0 ELSE Dead]]
       /\ cl = [c \in Clients |->
                  [op |-> "idle", step |-> 1, base |-> 0, mark |-> 0,
                   mine |-> mine[c], at |-> 1, cache |-> NoKey, view |-> NoKey,
                   since |-> TTL, t |-> 0, seen |-> TTL,
                   last |-> IF mine[c] # 0 THEN 0 ELSE LoopWait + 1]]
  /\ faults = 0

Next ==
  \/ Tick
  \/ Expire
  \/ ProposeExpire
  \/ ApplyExpire
  \/ Foreign
  \/ \E c \in Clients :
       \/ Answer(c)
       \/ Resend(c)
       \/ Raise(c)
       \/ Cycle(c)
       \/ Watch(c)
       \/ NewTTL(c)

Spec == Init /\ [][Next]_vars

------------------------------------------------------------------------------

Symmetry == Permutations(Clients)

\* The clients that were told they hold the leader key, within the ttl of the lease
\* that the answer rests on: counted from the start of the call, and loop_wait less
\* after an acquisition by etcd v3 or Consul.
Trusting == {c \in Clients : cl[c].since < TTL}

KeyType == [owner : Clients \cup {None}, session : 0..MaxLease, version : 0..MaxRev[backend],
            stamp : (Clients \cup {None}) \X (0..MaxRev[backend] + 1)]

\* Types of the server and of the clients.
TypeOK ==
  /\ backend \in Backends
  /\ srv.log \in Seq(KeyType) /\ srv.rev \in 0..MaxRev[backend] /\ Len(srv.log) = srv.rev + 1
  /\ srv.granted \in 0..MaxLease
  /\ srv.lease \in [1..MaxLease -> Dead..TTL]
  /\ \A c \in Clients :
       /\ cl[c].op \in {"idle", "acquire", "update", "delete"}
       /\ cl[c].mine \in 0..srv.granted
       /\ cl[c].cache \in KeyType /\ cl[c].view \in KeyType
       /\ cl[c].at \in 1..Len(srv.log)
       /\ cl[c].since \in 0..TTL /\ cl[c].t \in 0..TTL /\ cl[c].seen \in 0..TTL
       /\ cl[c].last \in 0..LoopWait + 1

\* Two nodes are never at the same time within the ttl of an answer that they hold
\* the leader key, whatever is lost, late or read from a stale copy (the docstring of
\* AbstractDCS._update_leader: "You have to use CAS").
Exclusive == Cardinality(Trusting) <= 1

\* The backend implements the abstract lease: the key changes hands only
\* when nobody trusts it, and an answer reaches the client it is true for.
Lease == INSTANCE LeaderLease WITH owner <- KeyOf(srv).owner, trust <- Trusting
LeaseSpec == Lease!Spec

===============================================================================
