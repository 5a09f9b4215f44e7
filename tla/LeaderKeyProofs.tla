---------------------------- MODULE LeaderKeyProofs ----------------------------
(***************************************************************************)
(* That the backends whose contract LeaderKey finds kept keep it for every *)
(* number of clients, every ttl and every length of the history: etcd,     *)
(* etcd v3, Raft and Kubernetes implement LeaderLease.                     *)
(***************************************************************************)
EXTENDS LeaderKey, FiniteSetTheorems, SequenceTheorems, TLAPS

Good == {"etcd", "etcd3", "raft", "kubernetes"}

-----------------------------------------------------------------------------
(* The inductive invariant: what all backends share *)

Stamps == (Clients \cup {None}) \X Nat
Keys == [owner : Clients \cup {None}, session : 0..MaxLease, version : Nat, stamp : Stamps]

Servers == [log : Seq(Keys), rev : Nat, doomed : Nat, granted : 0..MaxLease,
            lease : [1..MaxLease -> Dead..TTL]]

Callers == [op : {"idle", "acquire", "update", "delete"}, step : 1..4, base : Nat, mark : Nat,
            mine : 0..MaxLease, at : Nat \ {0}, cache : Keys, view : Keys,
            since : 0..TTL, t : 0..TTL, seen : 0..TTL, last : 0..LoopWait + 1]

\* The history is complete, and the version of the key numbers its entries.
History(S) ==
  /\ S \in Servers
  /\ Len(S.log) = S.rev + 1 /\ S.log[1] = NoKey
  /\ \A i \in 1..Len(S.log) : S.log[i].version = i - 1 /\ S.log[i].stamp[2] <= MaxRev[backend] + 1

\* Whatever a client has of the key was the key once.
Copy(S, k) == k.version <= S.rev /\ k = S.log[k.version + 1]

\* A call began after the one that the trust of its client comes from, and who deletes the key does not
\* trust it any more.
Caller(S, C) ==
  /\ C \in Callers
  /\ C.at <= Len(S.log) /\ C.mine <= S.granted /\ C.mark <= MaxRev[backend] + 1
  /\ Copy(S, C.cache) /\ Copy(S, C.view)
  /\ C.t <= C.since
  /\ C.op = "idle" => C.t = 0 /\ C.step = 1
  /\ C.op = "delete" => C.since = TTL

Sound ==
  /\ backend \in Good /\ Within(srv) /\ History(srv)
  /\ cl \in [Clients -> Callers] /\ \A c \in Clients : Caller(srv, cl[c])

\* Who trusts the key owns it, and its lease is not older than the trust.
Held(S, C, c) ==
  C.since < TTL => LET k == KeyOf(S) IN
                   /\ k.owner = c
                   /\ backend # "kubernetes" => k.session # 0 /\ S.lease[k.session] \in 0..C.since

HeldByAll == \A c \in Clients : Held(srv, cl[c], c)

\* One state of the server is an earlier one of another.
Extends(S, T) ==
  /\ S.rev <= T.rev /\ S.granted <= T.granted
  /\ \A i \in 1..Len(S.log) : T.log[i] = S.log[i]

-----------------------------------------------------------------------------
(* ... Raft *)

\* The key that is about to be dropped as expired is trusted by nobody.
Doomed ==
  srv.doomed <= srv.rev
  /\ (srv.doomed # 0 /\ KeyOf(srv).version = srv.doomed => \A c \in Clients : cl[c].since = TTL)

-----------------------------------------------------------------------------
(* ... etcd v3 *)

\* A key that hangs on the lease of c was put by c, and no two clients have one lease.
Owned ==
  /\ \A i \in 1..Len(srv.log) : srv.log[i].session <= srv.granted
  /\ \A c, d \in Clients : c # d /\ cl[c].mine = cl[d].mine => cl[c].mine = 0
  /\ \A c \in Clients : \A i \in 1..Len(srv.log) :
       cl[c].mine # 0 /\ srv.log[i].session = cl[c].mine => srv.log[i].owner = c

\* What c has seen or will see of a key on its lease.
Sees(S, C, s) ==
  C.cache.session = s \/ C.view.session = s \/ \E i \in C.at + 1..Len(S.log) : S.log[i].session = s

\* As long as the lease lives the key that c sees on it is the key; and c deletes only what it has seen.
Lasting(S, C) ==
  /\ Alive(S, C.mine) /\ Sees(S, C, C.mine) => KeyOf(S).session = C.mine
  /\ C.op = "delete" /\ C.mine # 0 => \A i \in C.at + 1..Len(S.log) : S.log[i].session # C.mine

\* What a client knows of its lease: the one that a key is about to be hung on was renewed in this
\* call, or by an acquisition not long before it.
Renewed(S, C) ==
  C.mine # 0 =>
    /\ (C.op = "acquire" /\ C.step \in {2, 4}) \/ (C.op = "update" /\ C.step # 1)
       => S.lease[C.mine] <= Age(C)
    /\ C.last <= LoopWait => S.lease[C.mine] <= C.last

Leased == Owned /\ \A c \in Clients : Lasting(srv, cl[c]) /\ Renewed(srv, cl[c])

-----------------------------------------------------------------------------
(* ... Kubernetes *)

Record(k) == <<k.owner, k.stamp>>

\* What a call is conditional on: a record that was seen to be free, or to be the caller's.
Conditional(S, C, c) ==
  /\ C.op # "idle" => C.base <= S.rev
  /\ C.op = "acquire" => /\ Record(S.log[C.base + 1]) = Record(C.view)
                         /\ C.view.owner = None \/ C.seen = TTL
  /\ C.op \in {"update", "delete"} => S.log[C.base + 1].owner = c

\* d has seen the record of c's call, and the record that c trusts, for less long than c knows of them.
SeenLater(S, C, c, D) ==
  /\ C.op # "idle" /\ D.view.stamp = Stamp(C, c) => D.seen <= C.t
  /\ C.since < TTL /\ Record(D.view) = Record(KeyOf(S)) => D.seen <= C.since

Observed ==
  /\ \A c \in Clients : Conditional(srv, cl[c], c)
  /\ \A c, d \in Clients : SeenLater(srv, cl[c], c, cl[d])

-----------------------------------------------------------------------------

Inv ==
  /\ Sound /\ HeldByAll
  /\ backend = "raft" => Doomed
  /\ backend = "etcd3" => Leased
  /\ backend = "kubernetes" => Observed

-----------------------------------------------------------------------------
(* The server *)

LEMMA Constants ==
  /\ TTL \in Nat /\ TTL > 0 /\ MaxLease \in Nat /\ MaxLease > 0 /\ None \notin Clients
  /\ LoopWait \in Nat
  /\ backend \in Good => MaxRev[backend] \in Nat
BY BoundsAssumption, NoneIsNoClient DEF Good, All

LEMMA NoKeyType == NoKey \in Keys /\ NoKey.version = 0 /\ NoKey.owner = None /\ NoKey.session = 0
                   /\ NoKey.stamp = <<None, 0>>
BY Constants DEF NoKey, Keys, Stamps, NoStamp

LEMMA KeyOfFacts ==
  ASSUME NEW S, History(S)
  PROVE  /\ KeyOf(S) \in Keys /\ KeyOf(S).version = S.rev /\ Copy(S, KeyOf(S)) /\ Copy(S, NoKey)
         /\ S.rev \in Nat /\ Len(S.log) \in 1..S.rev + 1 /\ KeyOf(S) = S.log[S.rev + 1]
         /\ \A i \in 1..Len(S.log) : S.log[i] \in Keys /\ Copy(S, S.log[i])
<1>1. S.log \in Seq(Keys) /\ S.rev \in Nat /\ Len(S.log) = S.rev + 1 /\ S.log[1] = NoKey
  BY DEF History, Servers
<1>2. \A i \in 1..Len(S.log) : S.log[i] \in Keys /\ S.log[i].version = i - 1
  BY <1>1, ElementOfSeq DEF History
<1>3. \A i \in 1..Len(S.log) : Copy(S, S.log[i])
  BY <1>1, <1>2 DEF Copy
<1>4. S.rev + 1 \in 1..Len(S.log) /\ 1 \in 1..Len(S.log) /\ KeyOf(S) = S.log[S.rev + 1]
  BY <1>1 DEF KeyOf
<1>5. KeyOf(S) \in Keys /\ KeyOf(S).version = S.rev /\ Copy(S, KeyOf(S))
  BY <1>1, <1>2, <1>3, <1>4
<1>6. Copy(S, NoKey)
  BY <1>1, <1>3, <1>4
<1>7. QED
  BY <1>1, <1>2, <1>3, <1>4, <1>5, <1>6

LEMMA PutFacts ==
  ASSUME NEW S, History(S), NEW k \in Keys, k.stamp[2] <= MaxRev[backend] + 1
  PROVE  /\ History(Put(S, k)) /\ Extends(S, Put(S, k))
         /\ KeyOf(Put(S, k)).owner = k.owner /\ KeyOf(Put(S, k)).session = k.session
         /\ KeyOf(Put(S, k)).stamp = k.stamp /\ Put(S, k).rev = S.rev + 1
         /\ Put(S, k).lease = S.lease /\ Put(S, k).granted = S.granted /\ Put(S, k).doomed = S.doomed
<1> DEFINE e == [k EXCEPT !.version = S.rev + 1]
           R == [S EXCEPT !.rev = S.rev + 1]
           T == [R EXCEPT !.log = Append(S.log, e)]
<1>1. S \in Servers /\ S.log \in Seq(Keys) /\ S.rev \in Nat /\ Len(S.log) = S.rev + 1 /\ S.log[1] = NoKey
  BY DEF History, Servers
<1>2. e \in Keys /\ e.version = S.rev + 1 /\ e.stamp = k.stamp /\ e.owner = k.owner /\ e.session = k.session
  <2>1. S.rev + 1 \in Nat
    BY <1>1
  <2>2. QED
    BY <2>1 DEF Keys
<1>3. Put(S, k) = T
  BY DEF Put
<1> HIDE DEF e
<1>4. Append(S.log, e) \in Seq(Keys) /\ Len(Append(S.log, e)) = Len(S.log) + 1
      /\ Append(S.log, e)[Len(S.log) + 1] = e /\ \A i \in 1..Len(S.log) : Append(S.log, e)[i] = S.log[i]
  BY <1>1, <1>2, AppendProperties
<1>5. T \in Servers /\ T.rev = S.rev + 1 /\ T.log = Append(S.log, e) /\ T.lease = S.lease
      /\ T.granted = S.granted /\ T.doomed = S.doomed
  <2>1. R \in Servers /\ R.rev = S.rev + 1 /\ R.lease = S.lease /\ R.granted = S.granted /\ R.doomed = S.doomed
    BY <1>1 DEF Servers
  <2> HIDE DEF R
  <2>2. QED
    BY <1>4, <2>1 DEF Servers
<1> HIDE DEF T
<1>6. \A i \in 1..Len(T.log) : T.log[i].version = i - 1 /\ T.log[i].stamp[2] <= MaxRev[backend] + 1
  <2>1. SUFFICES ASSUME NEW i \in 1..Len(T.log)
                 PROVE T.log[i].version = i - 1 /\ T.log[i].stamp[2] <= MaxRev[backend] + 1
    OBVIOUS
  <2>2. CASE i \in 1..Len(S.log)
    BY <1>4, <1>5, <2>2 DEF History
  <2>3. CASE i = Len(S.log) + 1
    <3>1. T.log[i] = e /\ i - 1 = S.rev + 1
      BY <1>1, <1>4, <1>5, <2>3
    <3>2. QED
      BY <1>2, <3>1
  <2>4. QED
    BY <1>1, <1>4, <1>5, <2>1, <2>2, <2>3
<1>7. History(T)
  BY <1>1, <1>4, <1>5, <1>6 DEF History
<1>8. Extends(S, T)
  BY <1>1, <1>4, <1>5 DEF Extends, Servers
<1>9. KeyOf(T) = e
  BY <1>1, <1>4, <1>5 DEF KeyOf
<1>10. QED
  BY <1>2, <1>3, <1>5, <1>7, <1>8, <1>9

LEMMA ExtendsItself ==
  ASSUME NEW S, History(S)
  PROVE  Extends(S, S)
BY DEF Extends, History, Servers

\* The lease of a server may change as it likes.
LEMMA LeaseFacts ==
  ASSUME NEW S, History(S), NEW l \in [1..MaxLease -> Dead..TTL]
  PROVE  /\ History([S EXCEPT !.lease = l]) /\ Extends(S, [S EXCEPT !.lease = l])
         /\ KeyOf([S EXCEPT !.lease = l]) = KeyOf(S) /\ [S EXCEPT !.lease = l].log = S.log
         /\ [S EXCEPT !.lease = l].rev = S.rev /\ [S EXCEPT !.lease = l].lease = l
         /\ [S EXCEPT !.lease = l].granted = S.granted /\ [S EXCEPT !.lease = l].doomed = S.doomed
<1> DEFINE T == [S EXCEPT !.lease = l]
<1>1. T \in Servers /\ T.log = S.log /\ T.rev = S.rev /\ T.lease = l /\ T.granted = S.granted /\ T.doomed = S.doomed
  BY DEF History, Servers
<1> HIDE DEF T
<1>2. History(T)
  BY <1>1 DEF History
<1>3. Extends(S, T)
  BY <1>1 DEF Extends, History, Servers
<1>4. KeyOf(T) = KeyOf(S)
  BY <1>1 DEF KeyOf
<1>5. QED
  BY <1>1, <1>2, <1>3, <1>4 DEF T

\* A copy of the key is an entry of the history.
LEMMA CopyIsEntry ==
  ASSUME NEW S, History(S), NEW k \in Keys, Copy(S, k)
  PROVE  k.version \in Nat /\ k.version <= S.rev /\ k.version + 1 \in 1..Len(S.log) /\ k = S.log[k.version + 1]
<1>1. k.version \in Nat
  BY DEF Keys
<1>2. k.version <= S.rev /\ k = S.log[k.version + 1]
  BY DEF Copy
<1>3. S.rev \in Nat /\ Len(S.log) = S.rev + 1
  BY DEF History, Servers
<1>4. k.version + 1 \in 1..Len(S.log)
  <2>1. \A v, r, n : v \in Nat /\ r \in Nat /\ v <= r /\ n = r + 1 => v + 1 \in 1..n
    OBVIOUS
  <2>2. QED
    BY <1>1, <1>2, <1>3, <2>1
<1>5. QED
  BY <1>1, <1>2, <1>4

LEMMA CallerKept ==
  ASSUME NEW S, NEW T, History(S), History(T), Extends(S, T), NEW C, Caller(S, C)
  PROVE  Caller(T, C)
<1>1. S.rev \in Nat /\ T.rev \in Nat /\ Len(S.log) = S.rev + 1 /\ Len(T.log) = T.rev + 1 /\ S.rev <= T.rev
      /\ S.granted \in Nat /\ T.granted \in Nat /\ S.granted <= T.granted
  BY Constants DEF History, Servers, Extends
<1>2. C \in Callers /\ C.cache \in Keys /\ C.view \in Keys
  BY DEF Caller, Callers
<1>3. ASSUME NEW k \in Keys, Copy(S, k) PROVE Copy(T, k)
  <2>1. /\ k.version \in Nat /\ k.version <= S.rev /\ k.version + 1 \in 1..Len(S.log)
        /\ k = S.log[k.version + 1]
    BY <1>3, CopyIsEntry
  <2>2. T.log[k.version + 1] = S.log[k.version + 1]
    BY <2>1 DEF Extends
  <2>3. k.version <= T.rev
    BY <1>1, <2>1
  <2>4. QED
    BY <2>1, <2>2, <2>3 DEF Copy
<1>4. C.at <= Len(T.log) /\ C.mine <= T.granted
  <2>1. C.at \in Nat /\ C.mine \in Nat /\ C.at <= Len(S.log) /\ C.mine <= S.granted
    BY <1>2, Constants DEF Caller, Callers
  <2>2. QED
    BY <1>1, <2>1
<1>5. QED
  BY <1>2, <1>3, <1>4 DEF Caller

-----------------------------------------------------------------------------
(* The caller *)

LEMMA CallerFacts ==
  ASSUME NEW S, History(S), NEW C, Caller(S, C)
  PROVE  /\ C.since \in 0..TTL /\ C.t \in 0..TTL /\ C.t <= C.since /\ C.seen \in 0..TTL
         /\ C.cache \in Keys /\ C.view \in Keys /\ C.at \in 1..Len(S.log) /\ C.mine \in 0..S.granted
         /\ C.step \in 1..4 /\ C.base \in Nat /\ C.mark \in Nat /\ C.last \in 0..LoopWait + 1
<1>1. C \in Callers /\ Len(S.log) = S.rev + 1 /\ S.rev \in Nat /\ S.granted \in Nat
  BY Constants DEF Caller, History, Servers
<1>2. QED
  BY <1>1, Constants DEF Callers, Caller

\* The age that a lease may have at the end of a call, by what its client knows.
LEMMA AgeFacts ==
  ASSUME NEW C, C \in Callers
  PROVE  /\ Age(C) \in 0..TTL /\ Age(C) \in Nat /\ C.t <= Age(C) /\ C.last \in Nat
         /\ C.op # "acquire" \/ backend \notin {"etcd3", "consul"} => Age(C) = C.t
         /\ \A a \in Dead..TTL :
              C.op = "acquire" /\ backend = "etcd3" /\ a <= LoopWait => a <= Age(C)
<1>1. C.t \in 0..TTL /\ C.last \in 0..LoopWait + 1
  BY DEF Callers
<1>2. QED
  BY <1>1, Constants DEF Age, Dead

\* The call of C has returned: what is left of it.
Returned(C, D, ok) ==
  /\ D.op = "idle" /\ D.step = 1 /\ D.t = 0
  /\ D.since = IF ok THEN Age(C) ELSE TTL
  /\ ok /\ backend # "consul" /\ backend # "etcd3" => D.since = C.t
  /\ D.mine = C.mine /\ D.at = C.at /\ D.cache = C.cache /\ D.seen = C.seen /\ D.last = C.last
  /\ IF backend = "kubernetes" THEN D.view = C.view ELSE D.view = NoKey

LEMMA ReturnFacts ==
  ASSUME NEW S, History(S), NEW C, Caller(S, C), NEW ok \in BOOLEAN
  PROVE  Caller(S, Return(C, ok)) /\ Returned(C, Return(C, ok), ok)
<1> DEFINE v == IF backend = "kubernetes" THEN C.view ELSE NoKey
           s == IF ok THEN Age(C) ELSE TTL
           D == [C EXCEPT !.op = "idle", !.step = 1, !.base = 0, !.t = 0, !.mark = 0, !.view = v, !.since = s]
<1>1. C \in Callers /\ C.view \in Keys /\ Copy(S, C.view)
  BY DEF Caller, Callers
<1>2. v \in Keys /\ Copy(S, v)
  BY <1>1, NoKeyType, KeyOfFacts
<1>3. s \in 0..TTL
  BY <1>1, Constants, AgeFacts
<1>4. Return(C, ok) = D
  BY DEF Return, Idle
<1> HIDE DEF v, s
<1>5. D.op = "idle" /\ D.step = 1 /\ D.base = 0 /\ D.t = 0 /\ D.mark = 0 /\ D.view = v /\ D.since = s
      /\ D.mine = C.mine /\ D.at = C.at /\ D.cache = C.cache /\ D.seen = C.seen /\ D.last = C.last
  BY <1>1 DEF Callers
<1>6. D \in Callers
  <2>1. [op |-> "idle", step |-> 1, base |-> 0, mark |-> 0, mine |-> C.mine, at |-> C.at, cache |-> C.cache,
         view |-> v, since |-> s, t |-> 0, seen |-> C.seen, last |-> C.last] \in Callers
    BY <1>1, <1>2, <1>3, Constants DEF Callers
  <2>2. QED
    BY <1>1, <2>1 DEF Callers
<1> HIDE DEF D
<1>7. 0 <= MaxRev[backend] + 1 /\ 0 <= s
  <2>1. S.log[1].stamp[2] <= MaxRev[backend] + 1 /\ S.log[1] = NoKey
    BY DEF History, Servers
  <2>2. QED
    BY <1>3, <2>1, NoKeyType, Constants
<1>8. Caller(S, D)
  BY <1>2, <1>5, <1>6, <1>7 DEF Caller
<1>9. Returned(C, D, ok)
  BY <1>1, <1>5, AgeFacts DEF Returned, v, s
<1>10. QED
  BY <1>4, <1>8, <1>9

LEMMA GotoFacts ==
  ASSUME NEW S, History(S), NEW C, Caller(S, C), C.op # "idle", NEW n \in 1..4
  PROVE  /\ Caller(S, Goto(C, n))
         /\ Goto(C, n).op = C.op /\ Goto(C, n).step = n /\ Goto(C, n).base = C.base /\ Goto(C, n).mark = C.mark
         /\ Goto(C, n).mine = C.mine /\ Goto(C, n).at = C.at /\ Goto(C, n).cache = C.cache /\ Goto(C, n).view = C.view
         /\ Goto(C, n).since = C.since /\ Goto(C, n).t = C.t /\ Goto(C, n).seen = C.seen
         /\ Goto(C, n).last = C.last
<1> DEFINE D == [C EXCEPT !.step = n]
<1>1. D \in Callers /\ D.op = C.op /\ D.step = n /\ D.base = C.base /\ D.mark = C.mark
      /\ D.mine = C.mine /\ D.at = C.at /\ D.cache = C.cache /\ D.view = C.view
      /\ D.since = C.since /\ D.t = C.t /\ D.seen = C.seen /\ D.last = C.last
  BY DEF Caller, Callers
<1> HIDE DEF D
<1>2. Caller(S, D)
  BY <1>1 DEF Caller
<1>3. QED
  BY <1>1, <1>2 DEF Goto, D

\* D differs from C in nothing but its copy and its lease.
Alike(C, D) ==
  /\ D.op = C.op /\ D.step = C.step /\ D.base = C.base /\ D.mark = C.mark
  /\ D.view = C.view /\ D.since = C.since /\ D.t = C.t /\ D.seen = C.seen

\* The copy that a client has, and how far it knows the history, may change.
LEMMA CopyFacts ==
  ASSUME NEW S, History(S), NEW C, Caller(S, C), NEW k \in Keys, Copy(S, k), NEW i \in 1..Len(S.log)
  PROVE  /\ Caller(S, Copied(C, i, k)) /\ Alike(C, Copied(C, i, k))
         /\ Copied(C, i, k).cache = k /\ Copied(C, i, k).at = i /\ Copied(C, i, k).mine = C.mine
         /\ Copied(C, i, k).last = C.last
<1> DEFINE D == [C EXCEPT !.at = i, !.cache = k]
<1>1. C \in Callers /\ i \in Nat \ {0} /\ i <= Len(S.log)
  BY DEF Caller, History, Servers
<1>2. D.cache = k /\ D.at = i /\ D.mine = C.mine /\ D.last = C.last /\ Alike(C, D)
  BY <1>1 DEF Callers, Alike
<1>3. D \in Callers
  BY <1>1 DEF Callers
<1> HIDE DEF D
<1>4. Caller(S, D)
  BY <1>1, <1>2, <1>3 DEF Caller, Alike
<1>5. QED
  BY <1>2, <1>4 DEF Copied, D

WithLease(C, s) == [C EXCEPT !.mine = s]

LEMMA MineFacts ==
  ASSUME NEW S, History(S), NEW C, Caller(S, C), NEW s \in 0..S.granted
  PROVE  /\ Caller(S, WithLease(C, s)) /\ Alike(C, WithLease(C, s))
         /\ WithLease(C, s).mine = s /\ WithLease(C, s).at = C.at /\ WithLease(C, s).cache = C.cache
         /\ WithLease(C, s).last = C.last
<1> DEFINE D == [C EXCEPT !.mine = s]
<1>1. C \in Callers /\ s \in 0..MaxLease /\ s <= S.granted
  BY Constants DEF Caller, History, Servers
<1>2. D.mine = s /\ D.at = C.at /\ D.cache = C.cache /\ D.last = C.last /\ Alike(C, D)
  BY <1>1 DEF Callers, Alike
<1>3. D \in Callers
  BY <1>1 DEF Callers
<1> HIDE DEF D
<1>4. Caller(S, D)
  BY <1>1, <1>2, <1>3 DEF Caller, Alike
<1>5. QED
  BY <1>2, <1>4 DEF WithLease, D

Since(C, n) == [C EXCEPT !.last = n]

LEMMA SinceFacts ==
  ASSUME NEW S, History(S), NEW C, Caller(S, C), NEW n \in 0..LoopWait + 1
  PROVE  /\ Caller(S, Since(C, n)) /\ Alike(C, Since(C, n)) /\ Since(C, n).last = n
         /\ Since(C, n).mine = C.mine /\ Since(C, n).at = C.at /\ Since(C, n).cache = C.cache
<1> DEFINE D == [C EXCEPT !.last = n]
<1>1. C \in Callers
  BY DEF Caller
<1>2. D.mine = C.mine /\ D.at = C.at /\ D.cache = C.cache /\ D.last = n /\ Alike(C, D)
  BY <1>1 DEF Callers, Alike
<1>3. D \in Callers
  BY <1>1 DEF Callers
<1> HIDE DEF D
<1>4. Caller(S, D)
  BY <1>1, <1>2, <1>3 DEF Caller, Alike
<1>5. QED
  BY <1>2, <1>4 DEF Since, D

\* After a write T of the key the caller's copy is the new key.
LEMMA RememberFacts ==
  ASSUME NEW S, NEW T, History(S), History(T), Extends(S, T), NEW C, Caller(S, C)
  PROVE  /\ Caller(T, Remember(C, KeyOf(T))) /\ Alike(C, Remember(C, KeyOf(T)))
         /\ Remember(C, KeyOf(T)).cache = KeyOf(T) /\ Remember(C, KeyOf(T)).at >= C.at
         /\ Remember(C, KeyOf(T)).mine = C.mine /\ Remember(C, KeyOf(T)).last = C.last
<1> DEFINE k == KeyOf(T)
           i == IF C.at = k.version THEN C.at + 1 ELSE C.at
<1>1. Caller(T, C)
  BY CallerKept
<1>2. C \in Callers /\ k \in Keys /\ Copy(T, k) /\ k.version = T.rev /\ T.rev \in Nat /\ Len(T.log) = T.rev + 1
  BY <1>1, KeyOfFacts DEF Caller, History
<1>3. C.cache \in Keys /\ C.cache.version <= T.rev /\ Copy(T, C.cache) /\ C.at \in 1..Len(T.log)
  BY <1>1, <1>2, CallerFacts DEF Caller, Copy
<1>4. (IF C.cache.version < k.version THEN k ELSE C.cache) = k
  <2>1. CASE C.cache.version < k.version
    BY <2>1
  <2>2. CASE ~(C.cache.version < k.version)
    <3>1. C.cache.version \in Nat
      BY <1>3 DEF Keys
    <3>2. C.cache.version = k.version
      BY <1>2, <1>3, <2>2, <3>1
    <3>3. QED
      BY <1>2, <1>3, <3>2 DEF Copy
  <2>3. QED
    BY <2>1, <2>2
<1>5. i \in 1..Len(T.log) /\ i >= C.at
  BY <1>2, <1>3
<1>6. Remember(C, k) = Copied(C, i, k)
  BY <1>2, <1>4 DEF Remember, Copied, Callers
<1> HIDE DEF i
<1>7. QED
  BY <1>1, <1>2, <1>5, <1>6, CopyFacts

-----------------------------------------------------------------------------
(* What a request may do to the server *)

\* T is S with at most one more entry in the history.
Grown(S, T) ==
  /\ History(T) /\ Extends(S, T) /\ T.rev <= S.rev + 1
  /\ \A i \in 1..Len(T.log) : i \in 1..Len(S.log) \/ T.log[i] = KeyOf(T)
  /\ T.rev = S.rev => KeyOf(T) = KeyOf(S)

LEMMA PutGrows ==
  ASSUME NEW S, History(S), NEW k \in Keys, k.stamp[2] <= MaxRev[backend] + 1
  PROVE  Grown(S, Put(S, k))
<1> DEFINE T == Put(S, k)
<1>1. History(T) /\ Extends(S, T) /\ T.rev = S.rev + 1 /\ S.rev \in Nat /\ Len(T.log) = T.rev + 1
      /\ Len(S.log) = S.rev + 1
  BY PutFacts, KeyOfFacts DEF History
<1>2. KeyOf(T) = T.log[T.rev + 1]
  BY <1>1, KeyOfFacts
<1> HIDE DEF T
<1>3. \A i \in 1..Len(T.log) : i \in 1..Len(S.log) \/ i = T.rev + 1
  BY <1>1
<1>4. T.rev # S.rev /\ T.rev <= S.rev + 1
  BY <1>1
<1>5. QED
  BY <1>1, <1>2, <1>3, <1>4 DEF Grown, T

LEMMA SameGrows == ASSUME NEW S, History(S) PROVE Grown(S, S)
BY ExtendsItself, KeyOfFacts DEF Grown

LEMMA AttachFacts ==
  ASSUME NEW S, History(S), NEW c \in Clients, NEW s \in 0..MaxLease, backend \in Good
  PROVE  /\ Grown(S, Attach(S, c, s))
         /\ KeyOf(Attach(S, c, s)).owner = c /\ KeyOf(Attach(S, c, s)).session = s
         /\ Attach(S, c, s).rev = S.rev + 1 /\ Attach(S, c, s).lease = S.lease
         /\ Attach(S, c, s).granted = S.granted /\ Attach(S, c, s).doomed = S.doomed
<1> DEFINE k == [NoKey EXCEPT !.owner = c, !.session = s]
<1>1. k \in Keys /\ k.owner = c /\ k.session = s /\ k.stamp = <<None, 0>>
  BY NoKeyType DEF Keys
<1>2. k.stamp[2] <= MaxRev[backend] + 1
  BY <1>1, Constants
<1> HIDE DEF k
<1>3. Attach(S, c, s) = Put(S, k)
  BY DEF Attach, k
<1>4. QED
  BY <1>1, <1>2, <1>3, PutFacts, PutGrows

LEMMA WriteFacts ==
  ASSUME NEW S, History(S), NEW c \in Clients, NEW t \in 0..TTL, backend \in Good
  PROVE  /\ Grown(S, Write(S, c, t))
         /\ KeyOf(Write(S, c, t)).owner = c /\ KeyOf(Write(S, c, t)).session = 1
         /\ Write(S, c, t).rev = S.rev + 1 /\ Write(S, c, t).lease[1] = t /\ Write(S, c, t).doomed = S.doomed
<1> DEFINE T == Attach(S, c, 1)
           l == [T.lease EXCEPT ![1] = t]
<1>1. 1 \in 0..MaxLease /\ 1 \in 1..MaxLease /\ t \in Dead..TTL
  BY Constants DEF Dead
<1>2. /\ Grown(S, T) /\ KeyOf(T).owner = c /\ KeyOf(T).session = 1 /\ T.rev = S.rev + 1 /\ T.doomed = S.doomed
      /\ History(T)
  BY <1>1, AttachFacts DEF Grown
<1>3. T.lease \in [1..MaxLease -> Dead..TTL]
  BY <1>2 DEF History, Servers
<1>4. Write(S, c, t) = [T EXCEPT !.lease = l]
  BY <1>2 DEF Write, History, Servers
<1> HIDE DEF T
<1>5. l \in [1..MaxLease -> Dead..TTL] /\ l[1] = t
  BY <1>1, <1>3
<1> HIDE DEF l
<1> DEFINE W == [T EXCEPT !.lease = l]
<1>6. /\ History(W) /\ KeyOf(W) = KeyOf(T) /\ W.log = T.log /\ W.rev = T.rev /\ W.lease = l
      /\ W.granted = T.granted /\ W.doomed = T.doomed
  BY <1>2, <1>5, LeaseFacts
<1> HIDE DEF W
<1>7. Grown(S, W)
  BY <1>2, <1>6 DEF Grown, Extends
<1>8. QED
  BY <1>2, <1>4, <1>5, <1>6, <1>7 DEF W

LEMMA DropFacts ==
  ASSUME NEW S, History(S), backend \in Good
  PROVE  /\ Grown(S, Drop(S))
         /\ Drop(S).lease = S.lease /\ Drop(S).granted = S.granted /\ Drop(S).doomed = S.doomed
         /\ KeyOf(Drop(S)).owner = None
         /\ KeyOf(S).owner # None => KeyOf(Drop(S)).session = 0 /\ Drop(S).rev = S.rev + 1
         /\ KeyOf(S).owner = None => Drop(S) = S
<1>1. CASE KeyOf(S).owner = None
  BY <1>1, SameGrows DEF Drop
<1>2. CASE KeyOf(S).owner # None
  <2>1. NoKey \in Keys /\ NoKey.stamp[2] <= MaxRev[backend] + 1
    BY NoKeyType, Constants
  <2>2. Drop(S) = Put(S, NoKey)
    BY <1>2 DEF Drop
  <2>3. QED
    BY <1>2, <2>1, <2>2, NoKeyType, PutFacts, PutGrows
<1>3. QED
  BY <1>1, <1>2

-----------------------------------------------------------------------------
(* What a request may do at all *)

\* The request of c leads to the server T and the caller D; c may have learnt of it or not.
Outcome(c, T, D) ==
  /\ Grown(srv, T) /\ Caller(T, D)
  /\ Held(T, D, c) /\ Held(T, cl[c], c)
  /\ \A d \in Clients \ {c} : Held(T, cl[d], d)
  /\ \/ KeyOf(T).owner \in {KeyOf(srv).owner, c}
     \/ KeyOf(T).owner = None /\ cl[c].since = TTL

\* The key stays, leases are renewed, and c learns nothing or that it has the key.
LEMMA KeyStays ==
  ASSUME Sound, HeldByAll, NEW c \in Clients, NEW T, NEW D, Grown(srv, T), Caller(T, D), KeyOf(T) = KeyOf(srv),
         \A s \in 1..MaxLease : T.lease[s] \in {srv.lease[s], 0},
         \/ D.since \in {TTL, cl[c].since}
         \/ /\ KeyOf(srv).owner = c
            /\ backend # "kubernetes" => KeyOf(srv).session # 0 /\ T.lease[KeyOf(srv).session] = 0
  PROVE  Outcome(c, T, D)
<1>1. History(srv) /\ History(T) /\ \A d \in Clients : Caller(srv, cl[d]) /\ Held(srv, cl[d], d)
  BY DEF Sound, HeldByAll, Grown
<1>2. KeyOf(srv) \in Keys /\ KeyOf(srv).session \in 0..MaxLease
  BY <1>1, KeyOfFacts DEF Keys
<1>3. \A d \in Clients : cl[d].since \in 0..TTL
  BY <1>1, CallerFacts
<1>4. \A d \in Clients : Held(T, cl[d], d)
  <2>1. SUFFICES ASSUME NEW d \in Clients, cl[d].since < TTL
                 PROVE  /\ KeyOf(T).owner = d
                        /\ backend # "kubernetes" =>
                             KeyOf(T).session # 0 /\ T.lease[KeyOf(T).session] \in 0..cl[d].since
    BY DEF Held
  <2>2. /\ KeyOf(srv).owner = d
        /\ backend # "kubernetes" => KeyOf(srv).session # 0 /\ srv.lease[KeyOf(srv).session] \in 0..cl[d].since
    BY <1>1, <2>1 DEF Held
  <2>3. 0 \in 0..cl[d].since /\ (KeyOf(srv).session # 0 => KeyOf(srv).session \in 1..MaxLease)
    BY <1>2, <1>3, Constants
  <2>4. QED
    BY <2>2, <2>3
<1>5. D.since \in 0..TTL
  BY <1>1, CallerFacts
<1>6. Held(T, D, c)
  <2>1. CASE D.since = TTL
    BY <2>1, Constants DEF Held
  <2>2. CASE D.since = cl[c].since
    BY <1>4, <2>2 DEF Held
  <2>3. CASE /\ KeyOf(srv).owner = c
             /\ backend # "kubernetes" => KeyOf(srv).session # 0 /\ T.lease[KeyOf(srv).session] = 0
    BY <1>5, <2>3, Constants DEF Held
  <2>4. QED
    BY <2>1, <2>2, <2>3
<1>7. QED
  BY <1>4, <1>6 DEF Outcome

\* When the key is free or names c, only c can trust it.
LEMMA OnlyOwner ==
  ASSUME Sound, HeldByAll, NEW c \in Clients, KeyOf(srv).owner \in {c, None}, NEW d \in Clients \ {c}
  PROVE  cl[d].since = TTL
<1>1. cl[d].since \in 0..TTL /\ Held(srv, cl[d], d)
  BY CallerFacts DEF Sound, HeldByAll
<1>2. ~(cl[d].since < TTL)
  BY <1>1, Constants DEF Held
<1>3. QED
  BY <1>1, <1>2, Constants

\* c writes the key, on a lease that is not older than its call, where nobody else trusts it.
LEMMA KeyTaken ==
  ASSUME Sound, HeldByAll, NEW c \in Clients, NEW T, NEW D, Grown(srv, T), Caller(T, D),
         \A d \in Clients \ {c} : cl[d].since = TTL,
         KeyOf(T).owner = c, D.since \in {TTL, Age(cl[c])},
         KeyOf(srv).owner = None \/ Age(cl[c]) = cl[c].t,
         backend # "kubernetes" => KeyOf(T).session # 0 /\ T.lease[KeyOf(T).session] \in 0..Age(cl[c])
  PROVE  Outcome(c, T, D)
<1>1. \A d \in Clients \ {c} : Held(T, cl[d], d)
  BY Constants DEF Held
<1>2. cl[c].t \in 0..TTL /\ cl[c].since \in 0..TTL /\ cl[c].t <= cl[c].since /\ Held(srv, cl[c], c)
  BY CallerFacts DEF Sound, HeldByAll
<1>3. \A x : x \in 0..cl[c].t => x \in 0..cl[c].since
  BY <1>2, Constants
<1>4. Held(T, cl[c], c)
  <2>1. CASE KeyOf(srv).owner = None
    BY <1>2, <2>1, Constants DEF Held
  <2>2. CASE Age(cl[c]) = cl[c].t
    BY <1>3, <2>2 DEF Held
  <2>3. QED
    BY <2>1, <2>2
<1>5. Held(T, D, c)
  BY Constants DEF Held
<1>6. QED
  BY <1>1, <1>4, <1>5 DEF Outcome

\* c deletes its key.
LEMMA KeyDropped ==
  ASSUME Sound, HeldByAll, NEW c \in Clients, NEW T, NEW D, Grown(srv, T), Caller(T, D),
         KeyOf(srv).owner \in {c, None}, KeyOf(T).owner = None, cl[c].op = "delete", D.since = TTL
  PROVE  Outcome(c, T, D)
<1>1. \A d \in Clients \ {c} : cl[d].since = TTL
  BY OnlyOwner
<1>2. cl[c].since = TTL
  BY DEF Sound, Caller
<1>3. QED
  BY <1>1, <1>2, Constants DEF Outcome, Held

-----------------------------------------------------------------------------
(* etcd and Raft: the key is written where it is free or the caller's *)

LEMMA CallFails ==
  ASSUME Sound, HeldByAll, NEW c \in Clients
  PROVE  /\ Outcome(c, srv, Return(cl[c], FALSE))
         /\ cl[c].op # "idle" => \A n \in 1..4 : Outcome(c, srv, Goto(cl[c], n))
<1>1. History(srv) /\ Caller(srv, cl[c]) /\ Grown(srv, srv)
  BY SameGrows DEF Sound
<1>2. Caller(srv, Return(cl[c], FALSE)) /\ Return(cl[c], FALSE).since = TTL
  BY ZenonT(60), <1>1, ReturnFacts DEF Returned
<1>3. Outcome(c, srv, Return(cl[c], FALSE))
  BY <1>1, <1>2, KeyStays
<1>4. ASSUME cl[c].op # "idle", NEW n \in 1..4 PROVE Outcome(c, srv, Goto(cl[c], n))
  <2>1. Caller(srv, Goto(cl[c], n)) /\ Goto(cl[c], n).since = cl[c].since
    BY <1>1, <1>4, GotoFacts
  <2>2. QED
    BY <1>1, <2>1, KeyStays
<1>5. QED
  BY <1>3, <1>4

LEMMA WriteOutcome ==
  ASSUME Sound, HeldByAll, NEW c \in Clients, KeyOf(srv).owner \in {c, None}, NEW t \in 0..cl[c].t,
         backend \in {"etcd", "raft"}
  PROVE  Outcome(c, Write(srv, c, t), Return(cl[c], TRUE))
<1> DEFINE T == Write(srv, c, t)
           D == Return(cl[c], TRUE)
<1>1. History(srv) /\ Caller(srv, cl[c]) /\ backend \in Good
  BY DEF Sound
<1>2. t \in 0..TTL
  BY <1>1, CallerFacts, Constants
<1>3. Grown(srv, T) /\ KeyOf(T).owner = c /\ KeyOf(T).session = 1 /\ T.lease[1] = t
  BY <1>1, <1>2, WriteFacts
<1>4. Caller(srv, D) /\ D.since = cl[c].t /\ Age(cl[c]) = cl[c].t
  <2>1. Age(cl[c]) = cl[c].t
    BY <1>1, AgeFacts DEF Caller
  <2>2. Caller(srv, D) /\ Returned(cl[c], D, TRUE)
    BY <1>1, ReturnFacts
  <2>3. QED
    BY <2>1, <2>2 DEF Returned
<1> HIDE DEF T, D
<1>5. Caller(T, D)
  BY <1>1, <1>3, <1>4, CallerKept DEF Grown
<1>6. \A d \in Clients \ {c} : cl[d].since = TTL
  BY OnlyOwner
<1>7. Outcome(c, T, D)
  BY <1>3, <1>4, <1>5, <1>6, KeyTaken
<1>8. QED
  BY <1>7 DEF T, D

LEMMA DropOutcome ==
  ASSUME Sound, HeldByAll, NEW c \in Clients, KeyOf(srv).owner = c, cl[c].op = "delete",
         NEW C, Caller(srv, C)
  PROVE  Outcome(c, Drop(srv), Return(C, FALSE))
<1> DEFINE T == Drop(srv)
           D == Return(C, FALSE)
<1>1. Grown(srv, T) /\ KeyOf(T).owner = None
  BY DropFacts DEF Sound
<1>2. Caller(srv, D) /\ D.since = TTL
  <2>1. History(srv)
    BY DEF Sound
  <2>2. Caller(srv, D) /\ Returned(C, D, FALSE)
    BY <2>1, ReturnFacts
  <2>3. QED
    BY <2>2 DEF Returned
<1> HIDE DEF T, D
<1>3. Caller(T, D)
  BY <1>1, <1>2, CallerKept DEF Grown, Sound
<1>4. Outcome(c, T, D)
  BY <1>1, <1>2, <1>3, KeyDropped
<1>5. QED
  BY <1>4 DEF T, D

\* What the requests of etcd and Raft come to.
Conditionally(c, t, r) ==
  \/ r = Out(Write(srv, c, t), Return(cl[c], TRUE)) /\ KeyOf(srv).owner \in {c, None}
  \/ r = Out(srv, Return(cl[c], FALSE))
  \/ r = Out(srv, Goto(cl[c], 2))
  \/ r = Out(Drop(srv), Return(cl[c], FALSE)) /\ KeyOf(srv).owner = c /\ cl[c].op = "delete"

LEMMA EtcdRequest ==
  ASSUME NEW c \in Clients, cl[c].op \in {"acquire", "update", "delete"}
  PROVE  Conditionally(c, 0, EtcdCall(srv, cl[c], c))
<1>1. Conditionally(c, 0, EtcdAcquire(srv, cl[c], c))
  BY DEF Conditionally, EtcdAcquire
<1>2. Conditionally(c, 0, EtcdUpdate(srv, cl[c], c))
  <2>1. CASE cl[c].step = 2
    BY <1>1, <2>1 DEF EtcdUpdate
  <2>2. CASE cl[c].step # 2 /\ KeyOf(srv).owner = c
    BY <2>2 DEF Conditionally, EtcdUpdate
  <2>3. CASE cl[c].step # 2 /\ ~(KeyOf(srv).owner = c) /\ KeyOf(srv).owner = None
    BY <2>3 DEF Conditionally, EtcdUpdate
  <2>4. CASE cl[c].step # 2 /\ ~(KeyOf(srv).owner = c) /\ KeyOf(srv).owner # None
    BY <2>4 DEF Conditionally, EtcdUpdate
  <2>5. QED
    BY <2>1, <2>2, <2>3, <2>4
<1>3. CASE cl[c].op = "delete"
  BY <1>3 DEF Conditionally, EtcdCall, EtcdDelete
<1>4. QED
  BY <1>1, <1>2, <1>3 DEF EtcdCall

LEMMA RaftRequest ==
  ASSUME NEW c \in Clients, cl[c].op \in {"acquire", "update", "delete"}
  PROVE  Conditionally(c, cl[c].t, RaftCall(srv, cl[c], c))
<1>1. Conditionally(c, cl[c].t, RaftAcquire(srv, cl[c], c))
  BY DEF Conditionally, RaftAcquire
<1>2. Conditionally(c, cl[c].t, RaftUpdate(srv, cl[c], c))
  <2>1. CASE cl[c].step = 2
    BY <1>1, <2>1 DEF RaftUpdate
  <2>2. CASE cl[c].step # 2 /\ cl[c].cache.owner = c /\ KeyOf(srv).owner = c
    BY <2>2 DEF Conditionally, RaftUpdate
  <2>3. CASE cl[c].step # 2 /\ ~(cl[c].cache.owner = c /\ KeyOf(srv).owner = c) /\ cl[c].cache.owner = None
    BY <2>3 DEF Conditionally, RaftUpdate
  <2>4. CASE cl[c].step # 2 /\ ~(cl[c].cache.owner = c /\ KeyOf(srv).owner = c) /\ cl[c].cache.owner # None
    BY <2>4 DEF Conditionally, RaftUpdate
  <2>5. QED
    BY <2>1, <2>2, <2>3, <2>4
<1>3. CASE cl[c].op = "delete"
  BY <1>3 DEF Conditionally, RaftCall, RaftDelete
<1>4. QED
  BY <1>1, <1>2, <1>3 DEF RaftCall

LEMMA ConditionalOutcome ==
  ASSUME Sound, HeldByAll, NEW c \in Clients, cl[c].op # "idle", NEW t \in 0..cl[c].t, NEW r, Conditionally(c, t, r),
         backend \in {"etcd", "raft"}
  PROVE  Outcome(c, r.srv, r.cl)
<1>1. CASE r = Out(Write(srv, c, t), Return(cl[c], TRUE)) /\ KeyOf(srv).owner \in {c, None}
  BY <1>1, WriteOutcome DEF Out
<1>2. CASE r = Out(srv, Return(cl[c], FALSE))
  BY <1>2, CallFails DEF Out
<1>3. CASE r = Out(srv, Goto(cl[c], 2))
  <2>1. 2 \in 1..4 /\ r.srv = srv /\ r.cl = Goto(cl[c], 2)
    BY <1>3 DEF Out
  <2>2. QED
    BY <2>1, CallFails
<1>4. CASE r = Out(Drop(srv), Return(cl[c], FALSE)) /\ KeyOf(srv).owner = c /\ cl[c].op = "delete"
  BY <1>4, DropOutcome DEF Out, Sound
<1>5. QED
  BY <1>1, <1>2, <1>3, <1>4 DEF Conditionally

-----------------------------------------------------------------------------
(* etcd v3: leases *)

\* D has a live lease, the one of C or a new one, or it has none; nobody else's lease changes.
Refreshed(S, C, T, D) ==
  /\ Grown(S, T) /\ KeyOf(T) = KeyOf(S) /\ T.rev = S.rev /\ T.log = S.log
  /\ Caller(T, D) /\ Alike(C, D) /\ D.at = C.at /\ D.cache = C.cache /\ D.last = 0
  /\ T.doomed = S.doomed
  /\ \A s \in 1..MaxLease : T.lease[s] = IF s = D.mine THEN 0 ELSE S.lease[s]
  /\ \/ D.mine = C.mine /\ Alive(S, C.mine) /\ T.granted = S.granted
     \/ D.mine = 0 /\ T = S
     \/ D.mine = S.granted + 1 /\ T.granted = S.granted + 1 /\ D.mine \in 1..MaxLease

LEMMA RefreshFacts ==
  ASSUME NEW S, History(S), NEW C, Caller(S, C)
  PROVE  Refreshed(S, C, Refresh(S, C).srv, Refresh(S, C).cl)
<1> DEFINE E == Since(C, 0)
<1>0. /\ Caller(S, E) /\ Alike(C, E) /\ E.mine = C.mine /\ E.at = C.at /\ E.cache = C.cache /\ E.last = 0
      /\ E = [C EXCEPT !.last = 0]
  BY SinceFacts, Constants DEF Since
<1> HIDE DEF E
<1>1. /\ S \in Servers /\ S.granted \in 0..MaxLease /\ S.lease \in [1..MaxLease -> Dead..TTL]
      /\ C.mine \in 0..S.granted /\ C \in Callers /\ 0 \in Dead..TTL
  <2>1. S \in Servers /\ C \in Callers
    BY DEF History, Caller
  <2>2. C.mine \in 0..S.granted
    BY CallerFacts
  <2>3. 0 \in Dead..TTL
    BY Constants DEF Dead
  <2>4. S.granted \in 0..MaxLease /\ S.lease \in [1..MaxLease -> Dead..TTL]
    BY <2>1 DEF Servers
  <2>5. QED
    BY <2>1, <2>2, <2>3, <2>4
<1>2. CASE Alive(S, C.mine)
  <2> DEFINE l == [S.lease EXCEPT ![C.mine] = 0]
             T == [S EXCEPT !.lease = l]
  <2>1. C.mine \in 1..MaxLease
    BY <1>1, <1>2, Constants DEF Alive
  <2>2. l \in [1..MaxLease -> Dead..TTL] /\ \A s \in 1..MaxLease : l[s] = IF s = C.mine THEN 0 ELSE S.lease[s]
    BY <1>1, <2>1
  <2>3. Refresh(S, C) = Out(T, E)
    BY <1>0, <1>1, <1>2 DEF Refresh, Servers
  <2> HIDE DEF l
  <2>4. /\ History(T) /\ Extends(S, T) /\ KeyOf(T) = KeyOf(S) /\ T.log = S.log /\ T.rev = S.rev
        /\ T.lease = l /\ T.granted = S.granted /\ T.doomed = S.doomed
    BY <2>2, LeaseFacts
  <2> HIDE DEF T
  <2>5. Grown(S, T)
    BY <2>4, SameGrows DEF Grown
  <2>6. Caller(T, E)
    BY <1>0, <2>4, CallerKept
  <2>7. Refreshed(S, C, T, E)
    BY <1>0, <1>2, <2>2, <2>4, <2>5, <2>6 DEF Refreshed
  <2>8. QED
    BY <2>3, <2>7 DEF Out
<1>3. CASE ~Alive(S, C.mine) /\ S.granted = MaxLease
  <2> DEFINE D == WithLease(E, 0)
  <2>1. Refresh(S, C) = Out(S, D)
    BY <1>0, <1>3 DEF Refresh, WithLease
  <2>2. Caller(S, D) /\ Alike(C, D) /\ D.mine = 0 /\ D.at = C.at /\ D.cache = C.cache /\ D.last = 0
    <3>3. 0 \in 0..S.granted /\ Caller(S, E)
      BY <1>0, <1>1, Constants
    <3>1. Caller(S, D) /\ Alike(E, D) /\ D.mine = 0 /\ D.at = E.at /\ D.cache = E.cache /\ D.last = E.last
      BY <3>3, MineFacts
    <3>2. QED
      BY <1>0, <3>1 DEF Alike
  <2> HIDE DEF D
  <2>3. Grown(S, S) /\ \A s \in 1..MaxLease : s # D.mine
    BY <2>2, SameGrows
  <2>4. Refreshed(S, C, S, D)
    BY <2>2, <2>3 DEF Refreshed
  <2>5. QED
    BY <2>1, <2>4 DEF Out
<1>4. CASE ~Alive(S, C.mine) /\ S.granted # MaxLease
  <2> DEFINE g == S.granted + 1
             R == [S EXCEPT !.granted = g]
             l == [S.lease EXCEPT ![g] = 0]
             T == [R EXCEPT !.lease = l]
             D == WithLease(E, g)
  <2>1. g \in 1..MaxLease /\ S.granted <= g
    BY <1>1, <1>4, Constants
  <2>2. Refresh(S, C) = Out(T, D)
    BY <1>0, <1>1, <1>4 DEF Refresh, Servers, WithLease
  <2> HIDE DEF g
  <2>3. l \in [1..MaxLease -> Dead..TTL] /\ \A s \in 1..MaxLease : l[s] = IF s = g THEN 0 ELSE S.lease[s]
    BY <1>1, <2>1
  <2> HIDE DEF l
  <2>4. /\ R \in Servers /\ R.log = S.log /\ R.rev = S.rev /\ R.granted = g /\ R.doomed = S.doomed
    BY SMTT(60), <1>1, <2>1, Constants DEF Servers
  <2> HIDE DEF R
  <2>5. History(R)
    BY <2>4 DEF History
  <2>6. /\ History(T) /\ KeyOf(T) = KeyOf(R) /\ T.log = S.log /\ T.rev = S.rev
        /\ T.lease = l /\ T.granted = g /\ T.doomed = S.doomed
    BY <2>3, <2>4, <2>5, LeaseFacts
  <2> HIDE DEF T
  <2>7. KeyOf(T) = KeyOf(S)
    BY <2>6 DEF KeyOf
  <2>8. Extends(S, T) /\ Grown(S, T)
    <3>1. Grown(S, S)
      BY SameGrows
    <3>2. Extends(S, T)
      BY <2>1, <2>6, <3>1 DEF Extends, Grown
    <3>3. QED
      BY <2>6, <2>7, <3>1, <3>2 DEF Grown
  <2>9. Caller(T, E) /\ g \in 0..T.granted
    BY <1>0, <2>1, <2>6, <2>8, CallerKept, Constants
  <2>10. Caller(T, D) /\ Alike(C, D) /\ D.mine = g /\ D.at = C.at /\ D.cache = C.cache /\ D.last = 0
    <3>1. Caller(T, D) /\ Alike(E, D) /\ D.mine = g /\ D.at = E.at /\ D.cache = E.cache /\ D.last = E.last
      BY <2>6, <2>9, MineFacts
    <3>2. QED
      BY <1>0, <3>1 DEF Alike
  <2> HIDE DEF D
  <2>11. Refreshed(S, C, T, D)
    BY <2>1, <2>3, <2>6, <2>7, <2>8, <2>10 DEF Refreshed, g
  <2>12. QED
    BY <2>2, <2>11 DEF Out
<1>5. QED
  BY <1>2, <1>3, <1>4

\* What of Leased a request of c to the server T with the caller D has to keep.
OwnsSeen(T, d, s) == s # 0 => \A i \in 1..Len(T.log) : T.log[i].session = s => T.log[i].owner = d
LeasedAfter(c, T, D) ==
  /\ \A i \in 1..Len(T.log) : T.log[i].session <= T.granted
  /\ \A d \in Clients \ {c} : D.mine = cl[d].mine => D.mine = 0
  /\ OwnsSeen(T, c, D.mine) /\ Lasting(T, D) /\ Renewed(T, D)
  /\ \A d \in Clients \ {c} : OwnsSeen(T, d, cl[d].mine) /\ Lasting(T, cl[d]) /\ Renewed(T, cl[d])
  /\ cl[c].op # "delete" => OwnsSeen(T, c, cl[c].mine) /\ Lasting(T, cl[c]) /\ Renewed(T, cl[c])

LEMMA LeasedFacts ==
  ASSUME Sound, Leased
  PROVE  /\ \A i \in 1..Len(srv.log) : srv.log[i].session <= srv.granted
         /\ \A d \in Clients : /\ OwnsSeen(srv, d, cl[d].mine) /\ Lasting(srv, cl[d]) /\ Renewed(srv, cl[d])
                               /\ cl[d].mine # 0 /\ KeyOf(srv).session = cl[d].mine => KeyOf(srv).owner = d
<1>1. \A i \in 1..Len(srv.log) : srv.log[i].session <= srv.granted
  BY DEF Leased, Owned
<1>2. \A d \in Clients : OwnsSeen(srv, d, cl[d].mine) /\ Lasting(srv, cl[d]) /\ Renewed(srv, cl[d])
  BY DEF Leased, Owned, OwnsSeen
<1>3. KeyOf(srv) = srv.log[srv.rev + 1] /\ srv.rev + 1 \in 1..Len(srv.log)
  <2>1. History(srv)
    BY DEF Sound
  <2>2. srv.rev \in Nat /\ Len(srv.log) = srv.rev + 1
    BY <2>1, KeyOfFacts DEF History
  <2>3. QED
    BY <2>1, <2>2, KeyOfFacts
<1>4. QED
  BY <1>1, <1>2, <1>3 DEF OwnsSeen

\* A copy and a place in the history that see less of the lease
LEMMA LastingFewer ==
  ASSUME NEW T, NEW C, NEW D, Lasting(T, C), D.mine = C.mine, D.at = C.at,
         D.cache \in {C.cache, NoKey}, D.view \in {C.view, NoKey}, D.op \in {C.op, "idle"}
  PROVE  Lasting(T, D)
BY NoKeyType DEF Lasting, Sees, Alive

LEMMA LeasedRefresh ==
  ASSUME Sound, Leased, NEW c \in Clients, NEW T, NEW D, Refreshed(srv, cl[c], T, D)
  PROVE  LeasedAfter(c, T, D) /\ (D.mine # 0 => T.lease[D.mine] = 0)
<1> DEFINE C == cl[c]
<1>1. /\ History(srv) /\ \A d \in Clients : Caller(srv, cl[d])
      /\ KeyOf(T) = KeyOf(srv) /\ T.log = srv.log /\ Alike(C, D) /\ D.at = C.at /\ D.cache = C.cache
      /\ Caller(T, D) /\ D.last = 0
      /\ \A s \in 1..MaxLease : T.lease[s] = IF s = D.mine THEN 0 ELSE srv.lease[s]
      /\ \/ D.mine = C.mine /\ Alive(srv, C.mine) /\ T.granted = srv.granted
         \/ D.mine = 0 /\ T = srv
         \/ D.mine = srv.granted + 1 /\ T.granted = srv.granted + 1 /\ D.mine \in 1..MaxLease
  BY DEF Sound, Refreshed
<1>2. \A d \in Clients : cl[d].mine \in 0..srv.granted /\ cl[d].mine \in 0..MaxLease
                         /\ Age(cl[d]) \in Nat /\ cl[d].last \in Nat
  <2>1. \A d \in Clients : cl[d].mine \in 0..srv.granted /\ cl[d].mine \in 0..MaxLease
    BY <1>1, CallerFacts, Constants DEF Caller, Callers
  <2>2. \A d \in Clients : Age(cl[d]) \in Nat /\ cl[d].last \in Nat
    BY <1>1, AgeFacts DEF Caller
  <2>3. QED
    BY <2>1, <2>2
<1>3. srv.granted \in Nat /\ T.granted \in Nat /\ srv.granted <= T.granted
  BY <1>1, Constants DEF History, Servers
<1>4. \A i \in 1..Len(T.log) : T.log[i].session <= T.granted
  <2>1. \A i \in 1..Len(srv.log) : srv.log[i].session \in Nat /\ srv.log[i].session <= srv.granted
    BY <1>1, KeyOfFacts, LeasedFacts, Constants DEF Keys
  <2>2. QED
    BY <1>1, <1>3, <2>1
<1>5. \A d \in Clients \ {c} : D.mine = cl[d].mine => D.mine = 0
  BY <1>1, <1>2, <1>3 DEF Leased, Owned
<1>6. \A d \in Clients : OwnsSeen(T, d, cl[d].mine)
  BY <1>1, LeasedFacts DEF OwnsSeen
<1>7. \A d \in Clients : /\ Alive(T, cl[d].mine) <=> Alive(srv, cl[d].mine)
                         /\ cl[d].mine # 0 => T.lease[cl[d].mine] \in {srv.lease[cl[d].mine], 0}
  <2>1. SUFFICES ASSUME NEW d \in Clients, cl[d].mine # 0
                 PROVE  /\ Alive(T, cl[d].mine) <=> Alive(srv, cl[d].mine)
                        /\ T.lease[cl[d].mine] \in {srv.lease[cl[d].mine], 0}
    BY DEF Alive
  <2>2. cl[d].mine \in 1..MaxLease
    BY <1>2, <2>1, Constants
  <2>3. CASE cl[d].mine # D.mine
    BY <1>1, <2>2, <2>3 DEF Alive
  <2>4. CASE cl[d].mine = D.mine
    <3>1. d = c /\ Alive(srv, C.mine)
      BY <1>1, <1>2, <1>3, <1>5, <2>1, <2>4
    <3>2. T.lease[cl[d].mine] = 0
      BY <1>1, <2>2, <2>4
    <3>3. QED
      BY <2>1, <3>1, <3>2 DEF Alive, Dead
  <2>5. QED
    BY <2>3, <2>4
<1>8. \A d \in Clients : Lasting(T, cl[d])
  BY <1>1, <1>7, LeasedFacts DEF Lasting, Sees
<1>9. \A d \in Clients : Renewed(T, cl[d])
  BY <1>2, <1>7, LeasedFacts DEF Renewed
<1>10. (D.mine # 0 => T.lease[D.mine] = 0) /\ Age(D) \in Nat
  <2>1. Age(D) \in Nat
    BY <1>1, AgeFacts DEF Caller
  <2>2. QED
    BY <1>1, <1>2, <2>1, Constants
<1>11. Renewed(T, D)
  BY <1>1, <1>10 DEF Renewed
<1>12. OwnsSeen(T, c, D.mine) /\ Lasting(T, D)
  <2>1. CASE D.mine = C.mine
    <3>1. D.view = C.view /\ D.op = C.op
      BY <1>1 DEF Alike
    <3>2. QED
      BY <1>1, <1>6, <1>8, <2>1, <3>1, LastingFewer
  <2>2. CASE D.mine = 0
    BY <2>2 DEF OwnsSeen, Lasting, Alive
  <2>3. CASE D.mine = srv.granted + 1
    <3>1. \A i \in 1..Len(T.log) : T.log[i].session # D.mine
      BY <1>1, <1>3, <2>3, KeyOfFacts, LeasedFacts, Constants DEF Keys
    <3>2. ASSUME NEW k \in Keys, Copy(srv, k) PROVE k.session # D.mine
      <4>1. k.version + 1 \in 1..Len(srv.log)
        <5>1. k.version \in Nat /\ k.version <= srv.rev
          BY <3>2 DEF Copy, Keys
        <5>2. srv.rev \in Nat /\ Len(srv.log) = srv.rev + 1
          BY <1>1, KeyOfFacts DEF History
        <5>3. QED
          BY <5>1, <5>2
      <4>2. QED
        BY <1>1, <3>1, <3>2, <4>1 DEF Copy
    <3>3. D.cache.session # D.mine /\ D.view.session # D.mine
      BY <1>1, <3>2, CallerFacts DEF Caller, Alike
    <3>4. \A i \in D.at + 1..Len(T.log) : T.log[i].session # D.mine
      BY <1>1, <3>1, CallerFacts
    <3>5. QED
      BY <3>1, <3>3, <3>4 DEF OwnsSeen, Lasting, Sees
  <2>4. QED
    BY <1>1, <2>1, <2>2, <2>3
<1>13. QED
  BY <1>4, <1>5, <1>6, <1>8, <1>9, <1>10, <1>11, <1>12 DEF LeasedAfter

\* A call of etcd v3 ends without a write.
LEMMA LeasedReturn ==
  ASSUME Sound, Leased, NEW c \in Clients, NEW T, NEW D, LeasedAfter(c, T, D), NEW ok \in BOOLEAN,
         Caller(T, D), History(T)
  PROVE  LeasedAfter(c, T, Return(D, ok))
<1> DEFINE E == Return(D, ok)
<1>1. Returned(D, E, ok)
  BY ReturnFacts
<1> HIDE DEF E
<1>2. E.mine = D.mine /\ E.at = D.at /\ E.cache = D.cache /\ E.op = "idle" /\ E.view \in {D.view, NoKey}
      /\ E.last = D.last
  BY <1>1 DEF Returned
<1>3. Lasting(T, E) /\ Renewed(T, E)
  BY <1>2, LastingFewer DEF LeasedAfter, Renewed
<1>4. LeasedAfter(c, T, E)
  BY <1>2, <1>3 DEF LeasedAfter
<1>5. QED
  BY <1>4 DEF E

LEMMA LeasedGoto ==
  ASSUME Sound, Leased, NEW c \in Clients, NEW T, NEW D, LeasedAfter(c, T, D), NEW n \in 1..4,
         Caller(T, D), History(T), D.op # "idle", D.mine # 0 => T.lease[D.mine] <= Age(D)
  PROVE  LeasedAfter(c, T, Goto(D, n))
<1> DEFINE E == Goto(D, n)
<1>1. E.mine = D.mine /\ E.at = D.at /\ E.cache = D.cache /\ E.op = D.op /\ E.view = D.view /\ E.t = D.t
      /\ E.last = D.last
  BY GotoFacts
<1> HIDE DEF E
<1>2. Age(E) = Age(D)
  BY <1>1 DEF Age
<1>3. Lasting(T, E) /\ Renewed(T, E)
  BY <1>1, <1>2, LastingFewer DEF LeasedAfter, Renewed
<1>4. LeasedAfter(c, T, E)
  BY <1>1, <1>3 DEF LeasedAfter
<1>5. QED
  BY <1>4 DEF E

\* When the server does not change, and c sees no more of its lease than before
LEMMA LeasedSame ==
  ASSUME Sound, Leased, NEW c \in Clients, NEW D, D.mine \in {cl[c].mine, 0}, Lasting(srv, D), Renewed(srv, D)
  PROVE  LeasedAfter(c, srv, D)
<1>1. \A d \in Clients \ {c} : D.mine = cl[d].mine => D.mine = 0
  BY DEF Leased, Owned
<1>2. OwnsSeen(srv, c, D.mine)
  BY LeasedFacts DEF OwnsSeen
<1>3. QED
  BY <1>1, <1>2, LeasedFacts DEF LeasedAfter

LEMMA RebuiltFacts ==
  ASSUME NEW S, History(S), NEW C, Caller(S, C)
  PROVE  /\ Caller(S, Rebuilt(S, C)) /\ Alike(C, Rebuilt(S, C)) /\ Rebuilt(S, C).mine = C.mine
         /\ Rebuilt(S, C).cache \in {NoKey, KeyOf(S)} /\ Rebuilt(S, C).at = Len(S.log)
         /\ Rebuilt(S, C).last = C.last
<1> DEFINE k == Etcd3Event(NoKey, KeyOf(S))
<1>1. KeyOf(S) \in Keys /\ Copy(S, KeyOf(S)) /\ Copy(S, NoKey) /\ NoKey \in Keys
  BY KeyOfFacts, NoKeyType
<1>2. k \in {NoKey, KeyOf(S)}
  BY DEF Etcd3Event
<1> HIDE DEF k
<1>3. Len(S.log) \in 1..Len(S.log)
  BY KeyOfFacts DEF History
<1>4. Rebuilt(S, C) = Copied(C, Len(S.log), k)
  <2>1. C \in Callers
    BY DEF Caller
  <2>2. QED
    BY <2>1 DEF Rebuilt, Copied, Callers, k
<1>5. k \in Keys /\ Copy(S, k)
  BY <1>1, <1>2
<1>6. QED
  BY <1>2, <1>3, <1>4, <1>5, CopyFacts

\* A copy that is built anew sees what is there.
LEMMA LeasedRebuilt ==
  ASSUME Sound, Leased, backend = "etcd3", NEW c \in Clients
  PROVE  LeasedAfter(c, srv, Return(Rebuilt(srv, cl[c]), FALSE))
<1> DEFINE R == Rebuilt(srv, cl[c])
           E == Return(R, FALSE)
<1>1. History(srv) /\ Caller(srv, cl[c])
  BY DEF Sound
<1>2. Caller(srv, R) /\ R.mine = cl[c].mine /\ R.last = cl[c].last /\ R.cache \in {NoKey, KeyOf(srv)} /\ R.at = Len(srv.log)
  BY <1>1, RebuiltFacts
<1> HIDE DEF R
<1>3. Returned(R, E, FALSE)
  BY <1>1, <1>2, ReturnFacts
<1> HIDE DEF E
<1>4. E.mine = cl[c].mine /\ E.at = Len(srv.log) /\ E.cache \in {NoKey, KeyOf(srv)} /\ E.view = NoKey /\ E.op = "idle"
      /\ E.last = cl[c].last
  BY <1>2, <1>3 DEF Returned
<1>5. \A i \in E.at + 1..Len(srv.log) : FALSE
  BY <1>1, <1>4, KeyOfFacts DEF History
<1>6. Lasting(srv, E) /\ Renewed(srv, E)
  BY <1>4, <1>5, NoKeyType, LeasedFacts DEF Lasting, Sees, Alive, Renewed
<1>7. LeasedAfter(c, srv, E)
  BY <1>4, <1>6, LeasedSame
<1>8. QED
  BY <1>7 DEF E, R

\* After a write of c, or a deletion by c, another client d sees on its lease what it saw before.
LEMMA LeasedOthers ==
  ASSUME Sound, Leased, NEW c \in Clients, NEW d \in Clients \ {c}, KeyOf(srv).owner \in {c, None},
         NEW T, Grown(srv, T), KeyOf(T).session # cl[d].mine, T.lease = srv.lease
  PROVE  OwnsSeen(T, d, cl[d].mine) /\ Lasting(T, cl[d]) /\ Renewed(T, cl[d])
<1>1. /\ History(srv) /\ History(T) /\ Extends(srv, T) /\ Caller(srv, cl[d])
      /\ \A i \in 1..Len(T.log) : i \in 1..Len(srv.log) \/ T.log[i] = KeyOf(T)
  BY DEF Sound, Grown
<1>2. \A i \in 1..Len(T.log) :
        T.log[i].session = cl[d].mine => i \in 1..Len(srv.log) /\ T.log[i] = srv.log[i]
  BY <1>1 DEF Extends
<1>3. OwnsSeen(T, d, cl[d].mine)
  BY <1>2, LeasedFacts DEF OwnsSeen
<1>4. cl[d].mine # 0 => KeyOf(srv).session # cl[d].mine
  BY LeasedFacts, Constants
<1>5. \A i \in cl[d].at + 1..Len(T.log) : i \in 1..Len(T.log)
  <2>1. cl[d].at \in Nat /\ Len(T.log) \in Nat
    BY <1>1, KeyOfFacts DEF Caller, Callers, History
  <2>2. QED
    BY <2>1
<1>6. \A i \in cl[d].at + 1..Len(T.log) :
        T.log[i].session = cl[d].mine => i \in cl[d].at + 1..Len(srv.log) /\ T.log[i] = srv.log[i]
  BY <1>1, <1>2, <1>5, CallerFacts, KeyOfFacts DEF History
<1>7. Lasting(T, cl[d])
  <2>1. Lasting(srv, cl[d]) /\ (Alive(srv, cl[d].mine) => ~Sees(srv, cl[d], cl[d].mine))
    BY <1>4, LeasedFacts DEF Lasting, Alive
  <2>2. Alive(T, cl[d].mine) => ~Sees(T, cl[d], cl[d].mine)
    BY <1>6, <2>1 DEF Sees, Alive
  <2>3. cl[d].op = "delete" /\ cl[d].mine # 0 =>
          \A i \in cl[d].at + 1..Len(T.log) : T.log[i].session # cl[d].mine
    BY <1>6, <2>1 DEF Lasting
  <2>4. QED
    BY <2>2, <2>3 DEF Lasting
<1>8. Renewed(T, cl[d])
  BY LeasedFacts DEF Renewed
<1>9. QED
  BY <1>3, <1>7, <1>8

\* c puts the key on its own lease.
LEMMA LeasedPut ==
  ASSUME Sound, Leased, NEW c \in Clients, KeyOf(srv).owner \in {c, None}, cl[c].op # "delete",
         cl[c].mine \in 1..MaxLease, NEW T, T = Attach(srv, c, cl[c].mine),
         NEW D, D.mine = cl[c].mine, D.op = "idle", D.last = cl[c].last
  PROVE  LeasedAfter(c, T, D)
<1> DEFINE C == cl[c]
<1>1. /\ Grown(srv, T) /\ KeyOf(T).owner = c /\ KeyOf(T).session = C.mine /\ T.lease = srv.lease
      /\ T.granted = srv.granted
  <2>1. C.mine \in 0..MaxLease
    BY Constants
  <2>2. QED
    BY <2>1, AttachFacts DEF Sound
<1>2. /\ History(srv) /\ History(T) /\ Extends(srv, T) /\ Caller(srv, C)
      /\ \A i \in 1..Len(T.log) : i \in 1..Len(srv.log) \/ T.log[i] = KeyOf(T)
  BY <1>1 DEF Sound, Grown
<1>3. C.mine <= T.granted
  BY <1>1, <1>2 DEF Caller
<1>4. \A i \in 1..Len(T.log) : T.log[i] \in {srv.log[i], KeyOf(T)} /\ (T.log[i] = KeyOf(T) \/ i \in 1..Len(srv.log))
  BY <1>2 DEF Extends
<1>5. \A i \in 1..Len(T.log) : T.log[i].session <= T.granted
  BY <1>1, <1>3, <1>4, LeasedFacts
<1>6. \A d \in Clients \ {c} : D.mine # cl[d].mine
  BY DEF Leased, Owned
<1>7. \A d \in Clients \ {c} : OwnsSeen(T, d, cl[d].mine) /\ Lasting(T, cl[d]) /\ Renewed(T, cl[d])
  BY <1>1, <1>6, LeasedOthers
<1>8. OwnsSeen(T, c, C.mine)
  BY <1>1, <1>4, LeasedFacts DEF OwnsSeen
<1>9. Lasting(T, C) /\ Lasting(T, D)
  BY <1>1 DEF Lasting
<1>10. Renewed(T, C) /\ Renewed(T, D)
  BY <1>1, LeasedFacts DEF Renewed
<1>11. QED
  BY <1>5, <1>6, <1>7, <1>8, <1>9, <1>10 DEF LeasedAfter

\* c deletes the key, and forgets its copy.
LEMMA LeasedDrop ==
  ASSUME Sound, Leased, NEW c \in Clients, KeyOf(srv).owner = c, cl[c].op = "delete",
         NEW T, T = Drop(srv), NEW D, D.mine = cl[c].mine, D.at = cl[c].at, D.op = "idle",
         D.cache = NoKey, D.view = NoKey, D.last = cl[c].last
  PROVE  LeasedAfter(c, T, D)
<1> DEFINE C == cl[c]
<1>1. /\ Grown(srv, T) /\ KeyOf(T).session = 0 /\ T.lease = srv.lease /\ T.granted = srv.granted
  BY DropFacts, Constants DEF Sound
<1>2. /\ History(srv) /\ History(T) /\ Extends(srv, T) /\ Caller(srv, C) /\ srv.granted \in Nat
      /\ \A i \in 1..Len(T.log) : i \in 1..Len(srv.log) \/ T.log[i] = KeyOf(T)
  <2>1. History(srv) /\ Caller(srv, C)
    BY DEF Sound
  <2>2. srv.granted \in Nat
    BY <2>1, Constants DEF History, Servers
  <2>3. QED
    BY <1>1, <2>1, <2>2 DEF Grown
<1>3. \A i \in 1..Len(T.log) : T.log[i].session = 0 \/ (i \in 1..Len(srv.log) /\ T.log[i] = srv.log[i])
  BY <1>1, <1>2 DEF Extends
<1>4. \A i \in 1..Len(T.log) : T.log[i].session <= T.granted
  BY <1>1, <1>2, <1>3, LeasedFacts
<1>5. \A d \in Clients \ {c} : D.mine = cl[d].mine => D.mine = 0
  BY DEF Leased, Owned
<1>6. ASSUME NEW d \in Clients \ {c} PROVE OwnsSeen(T, d, cl[d].mine) /\ Lasting(T, cl[d]) /\ Renewed(T, cl[d])
  <2>1. CASE cl[d].mine # 0
    BY <1>1, <2>1, LeasedOthers
  <2>2. CASE cl[d].mine = 0
    BY <2>2 DEF OwnsSeen, Lasting, Renewed, Alive
  <2>3. QED
    BY <2>1, <2>2
<1>7. OwnsSeen(T, c, D.mine)
  BY <1>3, LeasedFacts DEF OwnsSeen
<1>8. \A i \in D.at + 1..Len(T.log) : D.mine # 0 => T.log[i].session # D.mine
  <2>1. \A i \in C.at + 1..Len(srv.log) : C.mine # 0 => srv.log[i].session # C.mine
    BY LeasedFacts DEF Lasting
  <2>2. \A i \in C.at + 1..Len(T.log) : i \in 1..Len(T.log)
    <3>1. C.at \in Nat /\ Len(T.log) \in Nat
      BY <1>2, KeyOfFacts DEF Caller, Callers, History
    <3>2. QED
      BY <3>1
  <2>3. \A i \in C.at + 1..Len(T.log) : i \in 1..Len(srv.log) => i \in C.at + 1..Len(srv.log)
    BY <1>2, CallerFacts, KeyOfFacts DEF History
  <2>4. QED
    BY <1>3, <2>1, <2>2, <2>3
<1>9. Lasting(T, D) /\ Renewed(T, D)
  BY <1>1, <1>8, NoKeyType, LeasedFacts DEF Lasting, Sees, Alive, Renewed
<1>10. QED
  BY <1>4, <1>5, <1>6, <1>7, <1>9 DEF LeasedAfter

\* Any request of etcd v3.
LEMMA Etcd3Request ==
  ASSUME Sound, HeldByAll, Leased, backend = "etcd3", NEW c \in Clients,
         cl[c].op \in {"acquire", "update", "delete"}, NEW r, r = Etcd3Call(srv, cl[c], c)
  PROVE  Outcome(c, r.srv, r.cl) /\ LeasedAfter(c, r.srv, r.cl)
<1> DEFINE C == cl[c]
           R == Refresh(srv, C)
           M == WithLease(C, 0)
           B == Rebuilt(srv, C)
           A == Attach(srv, c, C.mine)
<1>1. History(srv) /\ Caller(srv, C) /\ backend \in Good /\ C.op # "idle" /\ 2 \in 1..4 /\ 3 \in 1..4 /\ 4 \in 1..4
  BY DEF Sound
<1> HIDE DEF R, M, B, A
<1>0. Refreshed(srv, C, R.srv, R.cl) /\ LeasedAfter(c, R.srv, R.cl) /\ (R.cl.mine # 0 => R.srv.lease[R.cl.mine] = 0)
  <2>1. Refreshed(srv, C, R.srv, R.cl)
    BY <1>1, RefreshFacts DEF R
  <2>2. QED
    BY <2>1, LeasedRefresh
<1>renewed. /\ Grown(srv, R.srv) /\ KeyOf(R.srv) = KeyOf(srv) /\ History(R.srv) /\ Caller(R.srv, R.cl) /\ Alike(C, R.cl)
            /\ \A s \in 1..MaxLease : R.srv.lease[s] \in {srv.lease[s], 0}
            /\ Age(R.cl) \in Nat
  <2>1. /\ Grown(srv, R.srv) /\ KeyOf(R.srv) = KeyOf(srv) /\ Caller(R.srv, R.cl) /\ Alike(C, R.cl)
        /\ \A s \in 1..MaxLease : R.srv.lease[s] = IF s = R.cl.mine THEN 0 ELSE srv.lease[s]
    BY <1>0 DEF Refreshed
  <2>2. Age(R.cl) \in Nat
    BY <2>1, AgeFacts DEF Caller
  <2>3. QED
    BY <2>1, <2>2 DEF Grown
\* The lease has been renewed, and the call goes on or ends.
<1>2. ASSUME NEW n \in 1..4, r = Out(R.srv, Goto(R.cl, n))
      PROVE  Outcome(c, r.srv, r.cl) /\ LeasedAfter(c, r.srv, r.cl)
  <2>1. R.cl.op # "idle" /\ R.cl.since = C.since
    BY <1>1, <1>renewed DEF Alike
  <2>2. Caller(R.srv, Goto(R.cl, n)) /\ Goto(R.cl, n).since = C.since
    BY <1>renewed, <2>1, GotoFacts
  <2>3. Outcome(c, R.srv, Goto(R.cl, n))
    BY <1>renewed, <2>2, KeyStays
  <2>4. R.cl.mine # 0 => R.srv.lease[R.cl.mine] <= Age(R.cl)
    BY <1>0, <1>renewed
  <2>5. LeasedAfter(c, R.srv, Goto(R.cl, n))
    BY <1>0, <1>renewed, <2>1, <2>4, LeasedGoto
  <2>6. QED
    BY <1>2, <2>3, <2>5 DEF Out
<1>3. ASSUME NEW ok \in BOOLEAN, r = Out(R.srv, Return(R.cl, ok)), ok => R.cl.mine # 0 /\ C.view.session = R.cl.mine
      PROVE  Outcome(c, r.srv, r.cl) /\ LeasedAfter(c, r.srv, r.cl)
  <2> DEFINE D == Return(R.cl, ok)
  <2>1. Caller(R.srv, D) /\ Returned(R.cl, D, ok)
    BY <1>renewed, ReturnFacts
  <2>2. LeasedAfter(c, R.srv, D)
    BY <1>0, <1>renewed, LeasedReturn
  <2> HIDE DEF D
  <2>3. CASE ok
    <3>1. R.cl.mine # 0 /\ R.srv.lease[R.cl.mine] = 0 /\ R.cl.view.session = R.cl.mine
      BY <1>0, <1>3, <1>renewed, <2>3 DEF Alike
    <3>2. KeyOf(R.srv).session = R.cl.mine
      BY <1>0, <3>1 DEF LeasedAfter, Lasting, Sees, Alive, Dead
    <3>3. KeyOf(R.srv).owner = c
      <4>1. KeyOf(R.srv) = R.srv.log[R.srv.rev + 1] /\ R.srv.rev + 1 \in 1..Len(R.srv.log)
        <5>1. R.srv.rev \in Nat /\ Len(R.srv.log) = R.srv.rev + 1
          BY <1>renewed, KeyOfFacts DEF History
        <5>2. QED
          BY <1>renewed, <5>1, KeyOfFacts
      <4>2. QED
        BY <1>0, <3>1, <3>2, <4>1 DEF LeasedAfter, OwnsSeen
    <3>4. Outcome(c, R.srv, D)
      BY <1>renewed, <2>1, <3>1, <3>2, <3>3, KeyStays
    <3>5. QED
      BY <1>3, <2>2, <3>4 DEF Out, D
  <2>4. CASE ~ok
    <3>1. D.since = TTL
      BY <2>1, <2>4 DEF Returned
    <3>2. Outcome(c, R.srv, D)
      BY <1>renewed, <2>1, <3>1, KeyStays
    <3>3. QED
      BY <1>3, <2>2, <3>2 DEF Out, D
  <2>5. QED
    BY <2>3, <2>4
<1>4. CASE r = Out(srv, Goto(M, 3))
  <2> DEFINE D == Goto(M, 3)
  <2>1. Caller(srv, M) /\ Alike(C, M) /\ M.mine = 0
    <3>1. 0 \in 0..srv.granted
      BY <1>1, CallerFacts, Constants DEF History, Servers
    <3>2. QED
      BY <1>1, <3>1, MineFacts DEF M
  <2>2. M.op # "idle"
    BY <1>1, <2>1 DEF Alike
  <2>3. Caller(srv, D) /\ D.since = C.since /\ D.mine = 0
    BY <1>1, <2>1, <2>2, GotoFacts DEF Alike
  <2> HIDE DEF D
  <2>4. Outcome(c, srv, D)
    BY <1>1, <2>3, SameGrows, KeyStays
  <2>5. Lasting(srv, D) /\ Renewed(srv, D)
    BY <2>3 DEF Lasting, Renewed, Alive
  <2>6. LeasedAfter(c, srv, D)
    BY <2>3, <2>5, LeasedSame
  <2>7. QED
    BY <1>4, <2>4, <2>6 DEF Out, D
<1>5. CASE r = Out(srv, Return(C, FALSE))
  <2>1. LeasedAfter(c, srv, C)
    BY LeasedFacts, LeasedSame
  <2>2. LeasedAfter(c, srv, Return(C, FALSE))
    BY <1>1, <2>1, LeasedReturn
  <2>3. r.srv = srv /\ r.cl = Return(C, FALSE)
    BY <1>5 DEF Out
  <2>4. QED
    BY <2>2, <2>3, CallFails
<1>6. CASE r = Out(srv, Return(B, FALSE))
  <2>1. Caller(srv, B)
    BY <1>1, RebuiltFacts DEF B
  <2>2. Caller(srv, Return(B, FALSE)) /\ Returned(B, Return(B, FALSE), FALSE)
    BY <1>1, <2>1, ReturnFacts
  <2>3. Return(B, FALSE).since = TTL
    BY <2>2 DEF Returned
  <2>4. Outcome(c, srv, Return(B, FALSE))
    BY <1>1, <2>2, <2>3, SameGrows, KeyStays
  <2>5. LeasedAfter(c, srv, Return(B, FALSE))
    BY LeasedRebuilt DEF B
  <2>6. r.srv = srv /\ r.cl = Return(B, FALSE)
    BY <1>6 DEF Out
  <2>7. QED
    BY <2>4, <2>5, <2>6
<1>7. CASE /\ Alive(srv, C.mine) /\ KeyOf(srv).owner \in {c, None} /\ r = Etcd3Put(srv, C, c)
           /\ \/ C.op = "acquire" /\ C.step \in {2, 4} /\ KeyOf(srv).owner = None
              \/ C.op = "update" /\ C.step # 1
  <2> DEFINE K == Remember(C, KeyOf(A))
             D == Return(K, TRUE)
  <2>1. r = Out(A, D)
    BY <1>7 DEF Etcd3Put, A
  <2>2. C.mine \in 1..MaxLease /\ srv.lease[C.mine] # Dead /\ srv.lease[C.mine] \in Dead..TTL /\ C.t \in Nat
        /\ C.op # "delete"
    <3>1. C.mine \in 0..MaxLease /\ C.mine # 0 /\ C.t \in Nat
      BY <1>1, <1>7, Constants DEF Caller, Callers, Alive
    <3>2. srv.lease \in [1..MaxLease -> Dead..TTL]
      BY <1>1 DEF History, Servers
    <3>3. QED
      BY <1>7, <3>1, <3>2, Constants DEF Alive
  <2>3. srv.lease[C.mine] \in 0..Age(C)
    <3>1. srv.lease[C.mine] <= Age(C)
      BY <1>7, <2>2, LeasedFacts DEF Renewed
    <3>2. Age(C) \in Nat
      BY <1>1, AgeFacts DEF Caller
    <3>3. QED
      BY <2>2, <3>1, <3>2, Constants DEF Dead
  <2>4. /\ Grown(srv, A) /\ KeyOf(A).owner = c /\ KeyOf(A).session = C.mine /\ A.lease = srv.lease
    BY <1>1, <2>2, AttachFacts DEF A
  <2>5. Caller(A, K) /\ Alike(C, K) /\ K.mine = C.mine /\ K.last = C.last
    BY <1>1, <2>4, RememberFacts DEF Grown
  <2> HIDE DEF K
  <2>6. Caller(A, D) /\ D.since = Age(C) /\ D.op = "idle" /\ D.mine = C.mine /\ D.last = C.last
    <3>1. Caller(A, D) /\ Returned(K, D, TRUE)
      BY <2>4, <2>5, ReturnFacts DEF Grown
    <3>2. Age(K) = Age(C)
      BY <2>5 DEF Age, Alike
    <3>3. QED
      BY <2>5, <3>1, <3>2 DEF Returned
  <2> HIDE DEF D
  <2>7. \A d \in Clients \ {c} : cl[d].since = TTL
    BY <1>7, OnlyOwner
  <2>8. KeyOf(A).session # 0 /\ A.lease[KeyOf(A).session] \in 0..Age(C)
    BY <2>2, <2>3, <2>4
  <2>12. KeyOf(srv).owner = None \/ Age(C) = C.t
    BY <1>1, <1>7, AgeFacts DEF Caller
  <2>9. Outcome(c, A, D)
    BY <2>4, <2>6, <2>7, <2>8, <2>12, KeyTaken
  <2>10. LeasedAfter(c, A, D)
    BY <1>7, <2>2, <2>6, LeasedPut DEF A
  <2>11. QED
    BY <2>1, <2>9, <2>10 DEF Out
<1>8. CASE C.op = "delete" /\ KeyOf(srv).owner = c /\ r = Out(Drop(srv), Return([C EXCEPT !.cache = NoKey], FALSE))
  <2> DEFINE K == Copied(C, C.at, NoKey)
             D == Return(K, FALSE)
  <2>1. [C EXCEPT !.cache = NoKey] = K
    BY <1>1 DEF Copied, Caller, Callers
  <2>2. Caller(srv, K) /\ K.cache = NoKey /\ K.at = C.at /\ K.mine = C.mine /\ K.last = C.last
    BY <1>1, NoKeyType, KeyOfFacts, CallerFacts, CopyFacts
  <2> HIDE DEF K
  <2>3. Outcome(c, Drop(srv), D)
    BY <1>8, <2>2, DropOutcome
  <2>4. Returned(K, D, FALSE)
    BY <1>1, <2>2, ReturnFacts
  <2> HIDE DEF D
  <2>5. D.mine = C.mine /\ D.at = C.at /\ D.op = "idle" /\ D.cache = NoKey /\ D.view = NoKey
        /\ D.last = C.last
    BY <2>2, <2>4 DEF Returned
  <2>6. LeasedAfter(c, Drop(srv), D)
    BY <1>8, <2>5, LeasedDrop
  <2>7. r.srv = Drop(srv) /\ r.cl = D
    <3>1. Return([C EXCEPT !.cache = NoKey], FALSE) = D
      BY <2>1 DEF D
    <3>2. r = Out(Drop(srv), D)
      BY <1>8, <3>1
    <3>3. QED
      BY <3>2 DEF Out
  <2>8. QED
    BY <2>3, <2>6, <2>7
\* The lease is young, and the acquisition goes on without renewing it.
<1>13. ASSUME NEW n \in 1..4, r = Out(srv, Goto(C, n)), C.op = "acquire", C.mine # 0, C.last <= LoopWait
       PROVE  Outcome(c, r.srv, r.cl) /\ LeasedAfter(c, r.srv, r.cl)
  <2>1. LeasedAfter(c, srv, C)
    BY LeasedFacts, LeasedSame
  <2>2. srv.lease[C.mine] <= Age(C)
    <3>1. srv.lease[C.mine] <= C.last
      BY <1>13, LeasedFacts DEF Renewed
    <3>2. srv.lease[C.mine] \in Dead..TTL
      <4>1. C.mine \in 1..MaxLease
        BY <1>1, <1>13, Constants DEF Caller, Callers
      <4>2. QED
        BY <1>1, <4>1 DEF History, Servers
    <3>3. srv.lease[C.mine] <= LoopWait /\ C \in Callers
      BY <1>1, <1>13, <3>1, <3>2, CallerFacts, Constants DEF Dead, Caller
    <3>4. QED
      BY <1>13, <3>2, <3>3, AgeFacts
  <2>3. LeasedAfter(c, srv, Goto(C, n))
    BY <1>1, <2>1, <2>2, LeasedGoto
  <2>4. r.srv = srv /\ r.cl = Goto(C, n)
    BY <1>13 DEF Out
  <2>5. QED
    BY <1>1, <2>3, <2>4, CallFails
<1>9. CASE C.op = "acquire"
  <2>1. r = Etcd3Acquire(srv, C, c)
    BY <1>9 DEF Etcd3Call
  <2>2. CASE C.step \in {1, 3}
    <3>1. C.step + 1 \in 1..4
      BY <2>2
    <3>2. CASE C.mine # 0 /\ C.last <= LoopWait
      BY <1>9, <1>13, <2>1, <2>2, <3>1, <3>2 DEF Etcd3Acquire, RefreshIfOld, Out
    <3>3. CASE ~(C.mine # 0 /\ C.last <= LoopWait)
      BY <1>2, <2>1, <2>2, <3>1, <3>3 DEF Etcd3Acquire, RefreshIfOld, R
    <3>4. QED
      BY <3>2, <3>3
  <2>3. CASE C.step \notin {1, 3} /\ ~Alive(srv, C.mine)
    BY <1>4, <1>5, <2>1, <2>3 DEF Etcd3Acquire, WithLease, M
  <2>4. CASE C.step \notin {1, 3} /\ Alive(srv, C.mine) /\ KeyOf(srv).owner = None
    <3>1. C.step \in {2, 4}
      BY <1>1, <2>4, CallerFacts
    <3>2. r = Etcd3Put(srv, C, c)
      BY <2>1, <2>4 DEF Etcd3Acquire
    <3>3. QED
      BY <1>7, <1>9, <2>4, <3>1, <3>2
  <2>5. CASE C.step \notin {1, 3} /\ Alive(srv, C.mine) /\ KeyOf(srv).owner # None
    BY ZenonT(60), <1>6, <2>1, <2>5 DEF Etcd3Acquire, B
  <2>6. QED
    BY <2>2, <2>3, <2>4, <2>5
<1>10. CASE C.op = "update"
  <2>1. r = Etcd3Update(srv, C, c)
    BY <1>10 DEF Etcd3Call
  <2>2. CASE C.step = 1 /\ R.cl.mine # 0 /\ C.view.session # R.cl.mine
    BY ZenonT(60), <1>1, <1>2, <2>1, <2>2 DEF Etcd3Update, R
  <2>3. CASE C.step = 1 /\ ~(R.cl.mine # 0 /\ C.view.session # R.cl.mine)
    <3>1. r = Out(R.srv, Return(R.cl, R.cl.mine # 0))
      BY <2>1, <2>3 DEF Etcd3Update, R
    <3>2. QED
      BY <1>3, <2>3, <3>1
  <2>4. CASE C.step # 1 /\ Alive(srv, C.mine) /\ KeyOf(srv).owner \in {c, None}
    <3>1. r = Etcd3Put(srv, C, c)
      BY <2>1, <2>4 DEF Etcd3Update
    <3>2. QED
      BY <1>7, <1>10, <2>4, <3>1
  <2>5. CASE C.step # 1 /\ ~(Alive(srv, C.mine) /\ KeyOf(srv).owner \in {c, None})
    BY <1>5, <2>1, <2>5 DEF Etcd3Update
  <2>6. QED
    BY <2>2, <2>3, <2>4, <2>5
<1>11. CASE C.op = "delete"
  BY <1>6, <1>8, <1>11 DEF Etcd3Call, Etcd3Delete, B
<1>12. QED
  BY <1>9, <1>10, <1>11

-----------------------------------------------------------------------------
(* Kubernetes: resource versions and observed records *)

\* What of Observed a request of c to the server T with the caller D has to keep.
ObservedAfter(c, T, D) ==
  /\ Conditional(T, D, c) /\ D.view = cl[c].view /\ D.seen = cl[c].seen
  /\ \A d \in Clients : Conditional(T, cl[d], d) /\ SeenLater(T, D, c, cl[d])
  /\ \A d, e \in Clients : SeenLater(T, cl[d], d, cl[e])

LEMMA ConditionalKept ==
  ASSUME Sound, NEW d \in Clients, Conditional(srv, cl[d], d), NEW T, Grown(srv, T)
  PROVE  Conditional(T, cl[d], d)
<1>1. History(srv) /\ Caller(srv, cl[d]) /\ Extends(srv, T) /\ History(T)
  BY DEF Sound, Grown
<1>2. srv.rev \in Nat /\ T.rev \in Nat /\ srv.rev <= T.rev /\ cl[d].base \in Nat /\ Len(srv.log) = srv.rev + 1
  BY <1>1, KeyOfFacts, CallerFacts DEF Extends, History
<1>3. cl[d].op # "idle" => cl[d].base <= T.rev /\ T.log[cl[d].base + 1] = srv.log[cl[d].base + 1]
  <2>1. SUFFICES ASSUME cl[d].op # "idle"
                 PROVE  cl[d].base <= T.rev /\ T.log[cl[d].base + 1] = srv.log[cl[d].base + 1]
    OBVIOUS
  <2>2. cl[d].base <= srv.rev
    BY <2>1 DEF Conditional
  <2>3. cl[d].base <= T.rev /\ cl[d].base + 1 \in 1..Len(srv.log)
    BY <1>2, <2>2
  <2>4. QED
    BY <1>1, <2>3 DEF Extends
<1>4. QED
  BY <1>3 DEF Conditional

\* The key is as it was; c learns nothing, or that it has written the key in this call.
LEMMA ObservedSame ==
  ASSUME Sound, Observed, NEW c \in Clients, NEW D, D.view = cl[c].view, D.seen = cl[c].seen, Conditional(srv, D, c),
         D.op # "idle" => D.t = cl[c].t /\ D.mark = cl[c].mark /\ cl[c].op # "idle",
         \/ D.since \in {TTL, cl[c].since}
         \/ cl[c].op # "idle" /\ D.since = cl[c].t /\ KeyOf(srv).stamp = Stamp(cl[c], c)
  PROVE  ObservedAfter(c, srv, D)
<1>1. ASSUME NEW d \in Clients PROVE SeenLater(srv, D, c, cl[d])
  <2>1. SeenLater(srv, cl[c], c, cl[d])
    BY DEF Observed
  <2>2. D.op # "idle" /\ cl[d].view.stamp = Stamp(D, c) => cl[d].seen <= D.t
    BY <2>1 DEF SeenLater, Stamp
  <2>3. D.since < TTL /\ Record(cl[d].view) = Record(KeyOf(srv)) => cl[d].seen <= D.since
    <3>1. CASE D.since = TTL
      BY <3>1, Constants
    <3>2. CASE D.since = cl[c].since
      BY <2>1, <3>2 DEF SeenLater
    <3>3. CASE cl[c].op # "idle" /\ D.since = cl[c].t /\ KeyOf(srv).stamp = Stamp(cl[c], c)
      BY <2>1, <3>3 DEF SeenLater, Record
    <3>4. QED
      BY <3>1, <3>2, <3>3
  <2>4. QED
    BY <2>2, <2>3 DEF SeenLater
<1>2. QED
  BY <1>1 DEF ObservedAfter, Observed

\* The key changes in the call of c, which nobody else trusts.
LEMMA ObservedChange ==
  ASSUME Sound, Observed, NEW c \in Clients, NEW T, Grown(srv, T), NEW D, D.view = cl[c].view, D.seen = cl[c].seen,
         D.op = "idle", \A d \in Clients \ {c} : cl[d].since = TTL, cl[c].op # "idle",
         \/ D.since = TTL /\ cl[c].since = TTL
         \/ D.since = cl[c].t /\ KeyOf(T).stamp = Stamp(cl[c], c)
  PROVE  ObservedAfter(c, T, D)
<1>1. \A d \in Clients : Conditional(T, cl[d], d)
  BY ConditionalKept DEF Observed
<1>2. ASSUME NEW d \in Clients
      PROVE  SeenLater(T, D, c, cl[d]) /\ SeenLater(T, cl[c], c, cl[d])
  <2>1. SeenLater(srv, cl[c], c, cl[d])
    BY DEF Observed
  <2>2. CASE D.since = TTL /\ cl[c].since = TTL
    BY <2>1, <2>2, Constants DEF SeenLater
  <2>3. CASE D.since = cl[c].t /\ KeyOf(T).stamp = Stamp(cl[c], c)
    <3>1. Record(cl[d].view) = Record(KeyOf(T)) => cl[d].seen <= cl[c].t
      BY <2>1, <2>3 DEF SeenLater, Record
    <3>2. cl[c].t \in Int /\ cl[c].since \in Int /\ cl[d].seen \in Int /\ cl[c].t <= cl[c].since
      BY CallerFacts, Constants DEF Sound
    <3>3. Record(cl[d].view) = Record(KeyOf(T)) => cl[d].seen <= cl[c].since
      BY <3>1, <3>2
    <3>4. QED
      BY <2>1, <2>3, <3>1, <3>3 DEF SeenLater
  <2>4. QED
    BY <2>2, <2>3
<1>3. ASSUME NEW d \in Clients \ {c}, NEW e \in Clients PROVE SeenLater(T, cl[d], d, cl[e])
  <2>1. SeenLater(srv, cl[d], d, cl[e])
    BY DEF Observed
  <2>2. QED
    BY <2>1, Constants DEF SeenLater
<1>4. Conditional(T, D, c)
  BY DEF Conditional
<1>5. QED
  BY <1>1, <1>2, <1>3, <1>4 DEF ObservedAfter

\* The version that a call is conditional on may change.
LEMMA BaseFacts ==
  ASSUME NEW S, History(S), NEW C, Caller(S, C), NEW n \in Nat
  PROVE  LET D == [C EXCEPT !.base = n]
         IN  /\ Caller(S, D) /\ D.base = n /\ D.op = C.op /\ D.mark = C.mark /\ D.view = C.view
             /\ D.since = C.since /\ D.t = C.t /\ D.seen = C.seen
<1> DEFINE D == [C EXCEPT !.base = n]
<1>1. C \in Callers
  BY DEF Caller
<1>2. /\ D.base = n /\ D.op = C.op /\ D.step = C.step /\ D.mark = C.mark /\ D.view = C.view /\ D.since = C.since
      /\ D.t = C.t /\ D.seen = C.seen /\ D.at = C.at /\ D.mine = C.mine /\ D.cache = C.cache /\ D \in Callers
  BY <1>1 DEF Callers
<1> HIDE DEF D
<1>3. Caller(S, D)
  BY <1>2 DEF Caller
<1>4. QED
  BY <1>2, <1>3 DEF D

\* The object is written or conditionally deleted by c: a client that does not agree does not trust it.
LEMMA NobodyElse ==
  ASSUME Sound, HeldByAll, Observed, NEW c \in Clients, cl[c].op # "idle", KeyOf(srv).version = cl[c].base,
         cl[c].op \in {"acquire", "update", "delete"}
  PROVE  /\ \A d \in Clients \ {c} : cl[d].since = TTL
         /\ cl[c].op \in {"update", "delete"} => KeyOf(srv).owner = c
<1> DEFINE K == KeyOf(srv)
<1>1. History(srv) /\ Conditional(srv, cl[c], c)
  BY DEF Sound, Observed
<1>2. srv.log[cl[c].base + 1] = K
  <2>1. cl[c].base = srv.rev
    BY <1>1, KeyOfFacts
  <2>2. QED
    BY <1>1, <2>1, KeyOfFacts
<1>3. CASE cl[c].op \in {"update", "delete"}
  <2>1. K.owner = c
    BY <1>1, <1>2, <1>3 DEF Conditional
  <2>2. QED
    BY <2>1, OnlyOwner
<1>4. CASE cl[c].op = "acquire"
  <2>1. Record(K) = Record(cl[c].view) /\ (cl[c].view.owner = None \/ cl[c].seen = TTL)
    BY <1>1, <1>2, <1>4 DEF Conditional
  <2>2. CASE cl[c].view.owner = None
    <3>1. K.owner = None
      BY <2>1, <2>2 DEF Record
    <3>2. QED
      BY <1>4, <3>1, OnlyOwner
  <2>3. CASE cl[c].seen = TTL
    <3>1. ASSUME NEW d \in Clients \ {c} PROVE cl[d].since = TTL
      <4>1. cl[d].since \in 0..TTL
        BY <1>1, CallerFacts DEF Sound
      <4>2. SeenLater(srv, cl[d], d, cl[c])
        BY DEF Observed
      <4>3. ~(cl[d].since < TTL)
        BY <2>1, <2>3, <4>1, <4>2, Constants DEF SeenLater
      <4>4. QED
        BY <4>1, <4>3, Constants
    <3>2. QED
      BY <1>4, <3>1
  <2>4. QED
    BY <2>1, <2>2, <2>3
<1>5. QED
  BY <1>3, <1>4

\* c writes the object k, which names c in this call or, when c deletes it, nobody.
LEMMA ObjectWritten ==
  ASSUME Sound, HeldByAll, Observed, backend = "kubernetes", NEW c \in Clients,
         cl[c].op \in {"acquire", "update", "delete"}, KeyOf(srv).version = cl[c].base,
         NEW k \in Keys, k.stamp[2] <= MaxRev[backend] + 1, NEW ok \in BOOLEAN,
         \/ ok /\ k.owner = c /\ k.stamp = Stamp(cl[c], c)
         \/ ~ok /\ k.owner = None /\ cl[c].op = "delete",
         NEW T, T = Put(srv, k), NEW D, D = Return(Remember(cl[c], KeyOf(T)), ok)
  PROVE  Outcome(c, T, D) /\ ObservedAfter(c, T, D)
<1> DEFINE C == cl[c]
           R == Remember(C, KeyOf(T))
<1>1. History(srv) /\ Caller(srv, C)
  BY DEF Sound
<1>2. Grown(srv, T) /\ KeyOf(T).owner = k.owner /\ KeyOf(T).stamp = k.stamp
  BY <1>1, PutFacts, PutGrows
<1>3. Caller(T, R) /\ Alike(C, R)
  BY <1>1, <1>2, RememberFacts DEF Grown
<1> HIDE DEF R
<1>4. Caller(T, D) /\ Returned(R, D, ok)
  BY <1>2, <1>3, ReturnFacts DEF Grown, R
<1>5. D.op = "idle" /\ D.since = (IF ok THEN C.t ELSE TTL) /\ D.view = C.view /\ D.seen = C.seen
  BY <1>3, <1>4 DEF Alike, Returned
<1>10. Age(C) = C.t
  BY <1>1, AgeFacts DEF Caller
<1>6. \A d \in Clients \ {c} : cl[d].since = TTL
  BY NobodyElse
<1>7. CASE ok
  <2>1. KeyOf(T).owner = c /\ KeyOf(T).stamp = Stamp(C, c) /\ D.since = C.t
    BY <1>2, <1>5, <1>7
  <2>2. Outcome(c, T, D)
    BY <1>2, <1>4, <1>6, <1>10, <2>1, KeyTaken
  <2>3. QED
    BY <1>2, <1>5, <1>6, <2>1, <2>2, ObservedChange
<1>8. CASE ~ok
  <2>1. KeyOf(T).owner = None /\ D.since = TTL /\ C.op = "delete" /\ C.since = TTL /\ KeyOf(srv).owner = c
    BY <1>1, <1>2, <1>5, <1>8, NobodyElse DEF Caller
  <2>2. Outcome(c, T, D)
    BY <1>2, <1>4, <2>1, KeyDropped
  <2>3. QED
    BY <1>2, <1>5, <1>6, <2>1, <2>2, ObservedChange
<1>9. QED
  BY <1>7, <1>8

\* The key stays, and c has learnt of it or not.
LEMMA ObjectStays ==
  ASSUME Sound, HeldByAll, Observed, backend = "kubernetes", NEW c \in Clients, cl[c].op # "idle",
         NEW D, Caller(srv, D), D.view = cl[c].view, D.seen = cl[c].seen, Conditional(srv, D, c),
         D.op # "idle" => D.t = cl[c].t /\ D.mark = cl[c].mark,
         \/ D.since \in {TTL, cl[c].since}
         \/ D.since = cl[c].t /\ KeyOf(srv).stamp = Stamp(cl[c], c) /\ KeyOf(srv).owner = c
  PROVE  Outcome(c, srv, D) /\ ObservedAfter(c, srv, D)
<1>1. Grown(srv, srv)
  BY SameGrows DEF Sound
<1>2. Outcome(c, srv, D)
  BY <1>1, KeyStays
<1>3. ObservedAfter(c, srv, D)
  BY ObservedSame
<1>4. QED
  BY <1>2, <1>3

LEMMA StampFacts ==
  ASSUME Sound, NEW c \in Clients
  PROVE  LET k == [NoKey EXCEPT !.owner = c, !.stamp = Stamp(cl[c], c)]
         IN  k \in Keys /\ k.owner = c /\ k.stamp = Stamp(cl[c], c) /\ k.stamp[2] <= MaxRev[backend] + 1
<1>1. cl[c].mark \in Nat /\ cl[c].mark <= MaxRev[backend] + 1
  BY CallerFacts DEF Sound, Caller
<1>2. Stamp(cl[c], c) \in Stamps /\ Stamp(cl[c], c)[2] = cl[c].mark
  BY <1>1 DEF Stamp, Stamps
<1>3. QED
  BY <1>1, <1>2, NoKeyType DEF Keys

\* Any request of Kubernetes.
LEMMA KubernetesRequest ==
  ASSUME Sound, HeldByAll, Observed, backend = "kubernetes", NEW c \in Clients,
         cl[c].op \in {"acquire", "update", "delete"}, NEW r, r = KubernetesCall(srv, cl[c], c)
  PROVE  Outcome(c, r.srv, r.cl) /\ ObservedAfter(c, r.srv, r.cl)
<1> DEFINE C == cl[c]
           K == KeyOf(srv)
           R == Remember(C, K)
           Fine == Outcome(c, r.srv, r.cl) /\ ObservedAfter(c, r.srv, r.cl)
<1>1. History(srv) /\ Caller(srv, C) /\ Extends(srv, srv) /\ C.op # "idle" /\ Conditional(srv, C, c)
      /\ K \in Keys /\ K.version \in Nat /\ C.base \in Nat
  BY ExtendsItself, KeyOfFacts, CallerFacts DEF Sound, Observed
<1>2. Caller(srv, R) /\ Alike(C, R)
  BY <1>1, RememberFacts
<1>3. C.step \in 1..4
  BY <1>1, CallerFacts
<1> HIDE DEF R
\* The call ends: it failed, or the object carries what it wrote.
<1>4. ASSUME NEW X \in {C, R}, NEW ok \in BOOLEAN, r = Out(srv, Return(X, ok)),
             ok => K.owner = c /\ K.stamp = Stamp(C, c)
      PROVE  Fine
  <2> DEFINE D == Return(X, ok)
  <2>1. Caller(srv, X) /\ X.t = C.t /\ X.view = C.view /\ X.seen = C.seen
    BY <1>1, <1>2, <1>4 DEF Alike
  <2>2. Caller(srv, D) /\ Returned(X, D, ok)
    BY <1>1, <2>1, ReturnFacts
  <2> HIDE DEF D
  <2>3. /\ D.op = "idle" /\ D.view = C.view /\ D.seen = C.seen /\ D.since \in {TTL, C.t}
        /\ ~ok => D.since = TTL
    BY <2>1, <2>2 DEF Returned
  <2>4. Outcome(c, srv, D) /\ ObservedAfter(c, srv, D)
    BY <1>1, <1>4, <2>2, <2>3, ObjectStays DEF Conditional
  <2>5. QED
    BY <1>4, <2>4 DEF Out, D
<1>5. CASE r = Out(srv, Goto(C, 2))
  <2> DEFINE D == Goto(C, 2)
  <2>1. /\ Caller(srv, D) /\ D.op = C.op /\ D.base = C.base /\ D.view = C.view /\ D.seen = C.seen
        /\ D.since = C.since /\ D.t = C.t /\ D.mark = C.mark
    BY <1>1, GotoFacts
  <2> HIDE DEF D
  <2>2. Conditional(srv, D, c)
    BY <1>1, <2>1 DEF Conditional
  <2>3. Outcome(c, srv, D) /\ ObservedAfter(c, srv, D)
    BY <1>1, <2>1, <2>2, ObjectStays
  <2>4. QED
    BY <1>5, <2>3 DEF Out, D
<1>6. CASE r = Patch(srv, C, c, TRUE) /\ K.version = C.base
  <2> DEFINE k == [NoKey EXCEPT !.owner = c, !.stamp = Stamp(C, c)]
             T == Put(srv, k)
             D == Return(Remember(C, KeyOf(T)), TRUE)
  <2>1. k \in Keys /\ k.owner = c /\ k.stamp = Stamp(C, c) /\ k.stamp[2] <= MaxRev[backend] + 1
    BY StampFacts
  <2>2. r = Out(T, D)
    BY <1>6 DEF Patch
  <2> HIDE DEF k
  <2>3. Outcome(c, T, D) /\ ObservedAfter(c, T, D)
    BY <1>6, <2>1, ObjectWritten
  <2> HIDE DEF T, D
  <2>4. QED
    BY <2>2, <2>3 DEF Out
<1>7. CASE r = Out(srv, [Goto(R, 3) EXCEPT !.base = K.version]) /\ K.owner = c /\ C.op = "update"
  <2> DEFINE G == Goto(R, 3)
             D == [G EXCEPT !.base = K.version]
  <2>1. R.op # "idle"
    BY <1>1, <1>2 DEF Alike
  <2>2. Caller(srv, G) /\ G.op = C.op /\ G.view = C.view /\ G.seen = C.seen
        /\ G.since = C.since /\ G.t = C.t /\ G.mark = C.mark
    BY <1>1, <1>2, <2>1, GotoFacts DEF Alike
  <2> HIDE DEF G
  <2>3. Caller(srv, D) /\ D.op = C.op /\ D.view = C.view /\ D.seen = C.seen
        /\ D.since = C.since /\ D.t = C.t /\ D.mark = C.mark /\ D.base = K.version
    BY <1>1, <2>2, BaseFacts
  <2> HIDE DEF D
  <2>4. Conditional(srv, D, c)
    <3>1. K.version = srv.rev /\ srv.rev \in Nat /\ K = srv.log[srv.rev + 1]
      BY <1>1, KeyOfFacts
    <3>2. QED
      BY <1>7, <2>3, <3>1 DEF Conditional
  <2>5. Outcome(c, srv, D) /\ ObservedAfter(c, srv, D)
    BY <1>1, <2>3, <2>4, ObjectStays
  <2>6. QED
    BY <1>7, <2>5 DEF Out, D, G
<1>8. CASE C.op = "acquire"
  <2>1. r = KubernetesAcquire(srv, C, c)
    BY <1>8 DEF KubernetesCall
  <2>2. CASE C.step = 2
    <3> DEFINE ok == K.version # C.base /\ K.owner = c /\ K.stamp = Stamp(C, c)
    <3>1. r = Out(srv, Return(C, ok)) /\ ok \in BOOLEAN
      BY <2>1, <2>2 DEF KubernetesAcquire
    <3>2. QED
      BY <1>4, <3>1
  <2>3. CASE C.step # 2 /\ K.version = C.base
    BY <1>6, <2>1, <2>3 DEF KubernetesAcquire
  <2>4. CASE C.step # 2 /\ K.version # C.base
    BY <1>4, <1>5, <2>1, <2>4 DEF KubernetesAcquire
  <2>5. QED
    BY <2>2, <2>3, <2>4
<1>9. CASE C.op = "update"
  <2>1. r = KubernetesUpdate(srv, C, c)
    BY <1>9 DEF KubernetesCall
  <2>2. CASE C.step = 1 /\ C.base # 0 /\ C.cache.owner # c
    BY <1>4, <2>1, <2>2 DEF KubernetesUpdate
  <2>3. CASE ~(C.step = 1 /\ C.base # 0 /\ C.cache.owner # c) /\ C.step \in {1, 3}
    BY <1>4, <1>5, <1>6, <2>1, <2>3 DEF KubernetesUpdate
  <2>4. CASE C.step \notin {1, 3}
    <3>1. r = IF K.owner # c \/ K.version = C.base THEN Out(srv, Return(R, FALSE))
              ELSE IF K.stamp = Stamp(C, c) THEN Out(srv, Return(R, TRUE))
              ELSE Out(srv, [Goto(R, 3) EXCEPT !.base = K.version])
      BY <2>1, <2>4 DEF KubernetesUpdate, R
    <3>2. QED
      BY <1>4, <1>7, <1>9, <3>1
  <2>5. QED
    BY <2>2, <2>3, <2>4
<1>10. CASE C.op = "delete"
  <2> DEFINE k == [K EXCEPT !.owner = None]
             T == Put(srv, k)
             D == Return(Remember(C, KeyOf(T)), FALSE)
  <2>1. r = KubernetesDelete(srv, C, c)
    BY <1>10 DEF KubernetesCall
  <2>2. CASE C.cache.owner = c /\ K.version = C.base
    <3>1. r = Out(T, D)
      BY <2>1, <2>2 DEF KubernetesDelete
    <3>2. k \in Keys /\ k.owner = None /\ k.stamp = K.stamp
      BY <1>1 DEF Keys
    <3>3. K.stamp[2] <= MaxRev[backend] + 1
      <4>1. srv.rev + 1 \in 1..Len(srv.log) /\ K = srv.log[srv.rev + 1]
        BY <1>1, KeyOfFacts DEF History
      <4>2. QED
        BY <1>1, <4>1 DEF History
    <3> HIDE DEF k
    <3>4. Outcome(c, T, D) /\ ObservedAfter(c, T, D)
      BY <1>10, <2>2, <3>2, <3>3, ObjectWritten
    <3> HIDE DEF T, D
    <3>5. QED
      BY <3>1, <3>4 DEF Out
  <2>3. CASE ~(C.cache.owner = c /\ K.version = C.base)
    BY <1>4, <2>1, <2>3 DEF KubernetesDelete
  <2>4. QED
    BY <2>2, <2>3
<1>11. QED
  BY <1>8, <1>9, <1>10

-----------------------------------------------------------------------------
(* From requests to steps *)

\* The backend does not change, so what depends on it means the same after a step.
LEMMA SameBackend ==
  ASSUME backend' = backend, NEW S, NEW C, NEW c
  PROVE  /\ Within(S)' <=> Within(S)
         /\ History(S)' <=> History(S)
         /\ Caller(S, C)' <=> Caller(S, C)
         /\ Held(S, C, c)' <=> Held(S, C, c)
<1>1. Within(S)' <=> Within(S)
  BY DEF Within
<1>2. History(S)' <=> History(S)
  BY DEF History
<1>3. Caller(S, C)' <=> Caller(S, C)
  BY DEF Caller
<1>4. Held(S, C, c)' <=> Held(S, C, c)
  BY DEF Held
<1>5. QED
  BY <1>1, <1>2, <1>3, <1>4

LEMMA StepSound ==
  ASSUME Sound, backend' = backend, NEW T, srv' = T, Within(T), History(T),
         NEW f, cl' = f, f \in [Clients -> Callers],
         \A d \in Clients : Caller(T, f[d]) /\ Held(T, f[d], d)
  PROVE  Sound' /\ HeldByAll'
<1>1. Within(T)' /\ History(T)' /\ \A d \in Clients : Caller(T, f[d])' /\ Held(T, f[d], d)'
  BY SameBackend
<1>2. Within(srv)' /\ History(srv)' /\ backend' \in Good
  BY <1>1 DEF Sound
<1>3. \A d \in Clients : Caller(srv, cl[d])' /\ Held(srv, cl[d], d)'
  BY <1>1
<1>4. QED
  BY <1>2, <1>3 DEF Sound, HeldByAll

\* The contract, step by step.
Contract == [Lease!Next]_(Lease!vars)

LEMMA ContractKept ==
  ASSUME HeldByAll, HeldByAll', NEW c \in Clients,
         \A d \in Clients \ {c} : cl'[d].since < TTL <=> cl[d].since < TTL,
         KeyOf(srv').owner \in {KeyOf(srv).owner, c, None},
         KeyOf(srv').owner = None /\ KeyOf(srv).owner # None => ~(cl[c].since < TTL)
  PROVE  Contract
<1> DEFINE o == KeyOf(srv).owner
           p == KeyOf(srv').owner
<1>0. o' = p
  BY DEF KeyOf
<1>1. Trusting \subseteq {o} /\ Trusting \subseteq Clients
  BY DEF HeldByAll, Held, Trusting
<1>2. Trusting' \subseteq {p} /\ Trusting' \subseteq Clients
  <2>1. \A d \in Clients : cl'[d].since < TTL => p = d
    BY <1>0 DEF HeldByAll, Held
  <2>2. QED
    BY <2>1 DEF Trusting
<1>3. \A d \in Clients : d # c => (d \in Trusting' <=> d \in Trusting)
  BY DEF Trusting
<1>4. p \in {o, c, None} /\ (p = None /\ o # None => c \notin Trusting)
  BY DEF Trusting
<1> HIDE DEF o, p
<1>5. CASE p = o /\ c \notin Trusting'
  <2>1. Trusting' = Trusting \ {c}
    BY <1>1, <1>2, <1>3, <1>5
  <2>2. Lease!Lapse(c)
    BY <1>0, <1>5, <2>1 DEF Lease!Lapse, o
  <2>3. QED
    BY <2>2 DEF Contract, Lease!Next
<1>6. CASE p = o /\ c \in Trusting'
  <2>1. Trusting' = {c} /\ o = c
    BY <1>2, <1>6
  <2>2. Lease!Confirm(c)
    BY <1>0, <1>6, <2>1 DEF Lease!Confirm, o
  <2>3. QED
    BY <2>2 DEF Contract, Lease!Next
<1>7. CASE p # o /\ p = c
  <2>1. Trusting = {} /\ Trusting' \subseteq {c}
    BY <1>1, <1>2, <1>3, <1>7
  <2>2. CASE Trusting' = {}
    <3>1. Lease!Take(c)
      BY <1>0, <1>7, <2>1, <2>2 DEF Lease!Take, o
    <3>2. QED
      BY <3>1 DEF Contract, Lease!Next
  <2>3. CASE Trusting' = {c}
    <3>1. Lease!Hold(c)
      BY <1>0, <1>7, <2>1, <2>3 DEF Lease!Hold, o
    <3>2. QED
      BY <3>1 DEF Contract, Lease!Next
  <2>4. QED
    BY <2>1, <2>2, <2>3
<1>8. CASE p # o /\ p = None
  <2>1. Trusting' = {} /\ Trusting = {}
    BY <1>1, <1>2, <1>3, <1>4, <1>8, Constants
  <2>2. Lease!Free
    BY <1>0, <1>8, <2>1 DEF Lease!Free, o
  <2>3. QED
    BY <2>2 DEF Contract, Lease!Next
<1>9. QED
  BY <1>4, <1>5, <1>6, <1>7, <1>8

\* The clients do not change, and the key at most becomes free.
LEMMA ContractOfServer ==
  ASSUME HeldByAll, HeldByAll', cl' = cl, KeyOf(srv').owner \in {KeyOf(srv).owner, None}
  PROVE  Contract
<1> DEFINE o == KeyOf(srv).owner
<1>1. o' = KeyOf(srv').owner /\ Trusting' = Trusting
  BY DEF KeyOf, Trusting
<1>2. Trusting' \subseteq {o'} /\ Trusting \subseteq Clients
  BY <1>1 DEF HeldByAll, Held, Trusting
<1> HIDE DEF o
<1>3. CASE o' = o
  BY <1>1, <1>3 DEF Contract, Lease!vars, o
<1>4. CASE o' = None
  <2>1. Trusting = {} /\ Trusting' = {}
    BY <1>1, <1>2, <1>4, Constants
  <2>2. Lease!Free
    BY <1>1, <1>4, <2>1 DEF Lease!Free, o
  <2>3. QED
    BY <2>2 DEF Contract, Lease!Next
<1>5. QED
  BY <1>1, <1>3, <1>4 DEF o

\* The clients after a step of c that made its caller D, or that c did not notice.
LEMMA OneCaller ==
  ASSUME Sound, NEW c \in Clients, NEW D \in Callers, NEW f, f \in {[cl EXCEPT ![c] = D], cl}
  PROVE  /\ f \in [Clients -> Callers] /\ \A d \in Clients \ {c} : f[d] = cl[d]
         /\ (f = cl /\ f[c] = cl[c]) \/ f[c] = D
BY DEF Sound

LEMMA OutcomeStep ==
  ASSUME Sound, HeldByAll, NEW c \in Clients, NEW T, NEW D, Outcome(c, T, D), Within(T), backend' = backend,
         srv' = T, cl' \in {[cl EXCEPT ![c] = D], cl}
  PROVE  Sound' /\ HeldByAll' /\ Contract
<1> DEFINE f == cl'
<1>1. D \in Callers
  BY DEF Outcome, Caller
<1>2. /\ f \in [Clients -> Callers] /\ \A d \in Clients \ {c} : f[d] = cl[d]
      /\ f[c] \in {D, cl[c]}
  BY <1>1, OneCaller
<1>3. History(srv) /\ History(T) /\ Extends(srv, T) /\ \A d \in Clients : Caller(srv, cl[d])
  BY DEF Sound, Outcome, Grown
<1>4. \A d \in Clients : Caller(T, cl[d])
  BY <1>3, CallerKept
<1>5. \A d \in Clients : Caller(T, f[d]) /\ Held(T, f[d], d)
  BY <1>2, <1>4 DEF Outcome
<1>6. Sound' /\ HeldByAll'
  BY <1>2, <1>3, <1>5, StepSound
<1>7. KeyOf(srv').owner \in {KeyOf(srv).owner, c, None}
      /\ (KeyOf(srv').owner = None /\ KeyOf(srv).owner # None => cl[c].since = TTL)
  BY Constants DEF Outcome
<1>8. \A d \in Clients \ {c} : cl'[d].since < TTL <=> cl[d].since < TTL
  BY <1>2
<1>9. ~(TTL < TTL)
  BY Constants
<1>10. Contract
  BY <1>6, <1>7, <1>8, <1>9, ContractKept
<1>11. QED
  BY <1>6, <1>10

\* What of Doomed a step of c has to keep.
DoomedAfter(T, D, c) ==
  T.doomed = srv.doomed /\ (T.rev = srv.rev => D.since \in {TTL, cl[c].since})

LEMMA DoomedStep ==
  ASSUME Sound, Doomed, NEW c \in Clients, NEW T, NEW D, Grown(srv, T), D \in Callers, DoomedAfter(T, D, c),
         srv' = T, cl' \in {[cl EXCEPT ![c] = D], cl}
  PROVE  Doomed'
<1> DEFINE f == cl'
<1>1. /\ \A d \in Clients \ {c} : f[d] = cl[d]
      /\ f[c] \in {D, cl[c]}
  BY OneCaller
<1>2. T.rev \in Nat /\ srv.rev \in Nat /\ srv.rev <= T.rev /\ KeyOf(T).version = T.rev /\ KeyOf(srv).version = srv.rev
      /\ srv.doomed \in Nat
  <2>1. History(T) /\ History(srv) /\ srv.rev <= T.rev
    BY DEF Grown, Extends, Sound
  <2>2. QED
    BY <2>1, KeyOfFacts DEF History, Servers
<1>3. T.doomed = srv.doomed /\ srv.doomed <= srv.rev
  BY DEF DoomedAfter, Doomed
<1>4. ASSUME T.doomed # 0, KeyOf(T).version = T.doomed, NEW d \in Clients PROVE f[d].since = TTL
  <2>1. T.rev = srv.rev /\ KeyOf(srv).version = srv.doomed /\ srv.doomed # 0
    BY <1>2, <1>3, <1>4
  <2>2. \A e \in Clients : cl[e].since = TTL
    BY <2>1 DEF Doomed
  <2>3. QED
    BY <1>1, <2>1, <2>2 DEF DoomedAfter
<1>5. T.doomed <= T.rev
  BY <1>2, <1>3
<1>6. KeyOf(srv)' = KeyOf(T)
  BY DEF KeyOf
<1>7. QED
  BY <1>4, <1>5, <1>6 DEF Doomed

LEMMA LeasedStep ==
  ASSUME Sound, Leased, NEW c \in Clients, NEW T, NEW D, LeasedAfter(c, T, D), D \in Callers,
         srv' = T, cl' = [cl EXCEPT ![c] = D] \/ (cl' = cl /\ cl[c].op # "delete"), backend' = backend
  PROVE  Leased'
<1> DEFINE f == cl'
<1>1. \A d \in Clients \ {c} : f[d] = cl[d]
  BY DEF Sound
<1>2. f[c] = D \/ (f = cl /\ cl[c].op # "delete")
  BY DEF Sound
<1>3. \A i \in 1..Len(T.log) : T.log[i].session <= T.granted
  BY DEF LeasedAfter
<1>4. \A d, e \in Clients : d # e /\ f[d].mine = f[e].mine => f[d].mine = 0
  <2>1. \A d, e \in Clients : d # e /\ cl[d].mine = cl[e].mine => cl[d].mine = 0
    BY DEF Leased, Owned
  <2>2. \A d \in Clients \ {c} : D.mine = cl[d].mine => D.mine = 0
    BY DEF LeasedAfter
  <2>3. QED
    BY <1>1, <1>2, <2>1, <2>2
<1>5. \A d \in Clients : OwnsSeen(T, d, f[d].mine) /\ Lasting(T, f[d]) /\ Renewed(T, f[d])
  BY <1>1, <1>2 DEF LeasedAfter
<1>6. Owned'
  BY <1>3, <1>4, <1>5 DEF Owned, OwnsSeen
<1>7. QED
  BY <1>5, <1>6 DEF Leased, Renewed, Age

LEMMA ObservedStep ==
  ASSUME Sound, Observed, NEW c \in Clients, NEW T, NEW D, ObservedAfter(c, T, D), D \in Callers,
         srv' = T, cl' \in {[cl EXCEPT ![c] = D], cl}
  PROVE  Observed'
<1> DEFINE f == cl'
<1>1. /\ \A d \in Clients \ {c} : f[d] = cl[d]
      /\ f[c] \in {D, cl[c]}
  BY OneCaller
<1>2. \A d \in Clients : Conditional(T, f[d], d)
  BY <1>1 DEF ObservedAfter
<1>3. \A d \in Clients : f[d].view = cl[d].view /\ f[d].seen = cl[d].seen
  BY <1>1 DEF ObservedAfter
<1>4. \A d, e \in Clients : SeenLater(T, f[d], d, cl[e])
  BY <1>1 DEF ObservedAfter
<1>5. \A d, e \in Clients : SeenLater(T, f[d], d, f[e])
  BY <1>3, <1>4 DEF SeenLater
<1>6. QED
  BY <1>2, <1>5 DEF Observed

-----------------------------------------------------------------------------
(* The requests of all backends *)

After(c, T, D) ==
  /\ Outcome(c, T, D)
  /\ backend = "raft" => DoomedAfter(T, D, c)
  /\ backend = "etcd3" => LeasedAfter(c, T, D)
  /\ backend = "kubernetes" => ObservedAfter(c, T, D)

LEMMA AfterStep ==
  ASSUME Inv, NEW c \in Clients, NEW T, NEW D, After(c, T, D), Within(T), backend' = backend,
         srv' = T, cl' = [cl EXCEPT ![c] = D] \/ (cl' = cl /\ (backend = "etcd3" => cl[c].op # "delete"))
  PROVE  Inv' /\ Contract
<1>1. D \in Callers /\ Grown(srv, T)
  BY DEF After, Outcome, Caller
<1>2. Sound' /\ HeldByAll' /\ Contract
  BY OutcomeStep DEF Inv, After
<1>3. backend = "raft" => Doomed'
  BY <1>1, DoomedStep DEF Inv, After
<1>4. backend = "etcd3" => Leased'
  BY <1>1, LeasedStep DEF Inv, After
<1>5. backend = "kubernetes" => Observed'
  BY <1>1, ObservedStep DEF Inv, After
<1>6. QED
  BY <1>2, <1>3, <1>4, <1>5 DEF Inv

\* A raft client reads what it has written.
LEMMA ReadsOwnFacts ==
  ASSUME Sound, NEW c \in Clients, NEW T, NEW D, Outcome(c, T, D)
  PROVE  LET E == ReadsOwn(T, D)
         IN  /\ Outcome(c, T, E) /\ E.since = D.since
             /\ backend # "raft" => E = D
<1> DEFINE E == ReadsOwn(T, D)
<1>1. backend \in Good /\ History(T) /\ Caller(T, D)
  BY DEF Outcome, Grown, Sound
<1>2. CASE E = D
  BY <1>2
<1>3. CASE E = Copied(D, Len(T.log), KeyOf(T)) /\ backend = "raft"
  <2>1. Len(T.log) \in 1..Len(T.log) /\ KeyOf(T) \in Keys /\ Copy(T, KeyOf(T))
    BY <1>1, KeyOfFacts
  <2>2. Caller(T, E) /\ Alike(D, E)
    BY <1>1, <1>3, <2>1, CopyFacts
  <2> HIDE DEF E
  <2>3. E.since = D.since
    BY <2>2 DEF Alike
  <2>4. Outcome(c, T, E)
    BY <2>2, <2>3 DEF Outcome, Held
  <2>5. QED
    BY <1>3, <2>3, <2>4 DEF E
<1>4. QED
  BY <1>1, <1>2, <1>3 DEF ReadsOwn, Copied, Good

LEMMA RaftOutcome ==
  ASSUME Sound, HeldByAll, Doomed, backend = "raft", NEW c \in Clients, cl[c].op \in {"acquire", "update", "delete"},
         NEW r, r = RaftCall(srv, cl[c], c)
  PROVE  Outcome(c, r.srv, r.cl) /\ DoomedAfter(r.srv, r.cl, c)
<1> DEFINE C == cl[c]
           W == Write(srv, c, C.t)
           A == Return(C, TRUE)
           R == Return(C, FALSE)
           G == Goto(C, 2)
           D == Drop(srv)
<1>1. History(srv) /\ Caller(srv, C) /\ backend \in Good
  BY DEF Sound
<1>2. C.t \in 0..C.t /\ C.t \in 0..TTL /\ C.op # "idle" /\ srv.rev \in Nat
  BY <1>1, CallerFacts, KeyOfFacts, Constants
<1>3. Conditionally(c, C.t, r)
  BY RaftRequest
<1>4. Outcome(c, r.srv, r.cl)
  BY <1>2, <1>3, ConditionalOutcome
<1>5. W.doomed = srv.doomed /\ W.rev # srv.rev
  BY <1>1, <1>2, WriteFacts
<1>6. D.doomed = srv.doomed
  BY <1>1, DropFacts
<1>7. R.since = TTL
  <2>1. Returned(C, R, FALSE)
    BY <1>1, ReturnFacts
  <2>2. QED
    BY <2>1 DEF Returned
<1>8. G.since = C.since
  BY <1>1, <1>2, GotoFacts
<1> HIDE DEF W, A, R, G, D
<1>9. r \in {Out(W, A), Out(srv, R), Out(srv, G), Out(D, R)}
  BY <1>3 DEF Conditionally, W, A, R, G, D
<1>10. DoomedAfter(r.srv, r.cl, c)
  BY <1>5, <1>6, <1>7, <1>8, <1>9 DEF Out, DoomedAfter
<1>11. QED
  BY <1>4, <1>10

LEMMA EtcdOutcome ==
  ASSUME Sound, HeldByAll, backend = "etcd", NEW c \in Clients, cl[c].op \in {"acquire", "update", "delete"},
         NEW r, r = EtcdCall(srv, cl[c], c)
  PROVE  Outcome(c, r.srv, r.cl)
<1>1. 0 \in 0..cl[c].t
  BY CallerFacts, Constants DEF Sound
<1>2. QED
  BY <1>1, EtcdRequest, ConditionalOutcome

\* A request of any of the four backends.
LEMMA Request ==
  ASSUME Inv, NEW c \in Clients, cl[c].op # "idle", NEW r, r = Call(srv, cl[c], c)
  PROVE  After(c, r.srv, ReadsOwn(r.srv, r.cl))
<1>1. Sound /\ HeldByAll /\ cl[c].op \in {"acquire", "update", "delete"} /\ backend \in Good
  BY DEF Inv, Sound, Callers
<1>2. CASE backend = "etcd"
  <2>1. r = EtcdCall(srv, cl[c], c)
    BY <1>2 DEF Call
  <2>2. Outcome(c, r.srv, r.cl)
    BY <1>1, <1>2, <2>1, EtcdOutcome
  <2>3. QED
    BY <1>1, <1>2, <2>2, ReadsOwnFacts DEF After
<1>3. CASE backend = "etcd3"
  <2>1. r = Etcd3Call(srv, cl[c], c)
    BY <1>3 DEF Call
  <2>2. Outcome(c, r.srv, r.cl) /\ LeasedAfter(c, r.srv, r.cl)
    BY <1>1, <1>3, <2>1, Etcd3Request DEF Inv
  <2>3. QED
    BY <1>1, <1>3, <2>2, ReadsOwnFacts DEF After
<1>4. CASE backend = "raft"
  <2>1. r = RaftCall(srv, cl[c], c)
    BY <1>4 DEF Call
  <2>2. Outcome(c, r.srv, r.cl) /\ DoomedAfter(r.srv, r.cl, c)
    BY <1>1, <1>4, <2>1, RaftOutcome DEF Inv
  <2>3. QED
    BY <1>1, <1>4, <2>2, ReadsOwnFacts DEF After, DoomedAfter
<1>5. CASE backend = "kubernetes"
  <2>1. r = KubernetesCall(srv, cl[c], c)
    BY <1>5 DEF Call
  <2>2. Outcome(c, r.srv, r.cl) /\ ObservedAfter(c, r.srv, r.cl)
    BY <1>1, <1>5, <2>1, KubernetesRequest DEF Inv
  <2>3. QED
    BY <1>1, <1>5, <2>2, ReadsOwnFacts DEF After
<1>6. QED
  BY <1>1, <1>2, <1>3, <1>4, <1>5 DEF Good

LEMMA AnswerStep ==
  ASSUME Inv, NEW c \in Clients, Answer(c)
  PROVE  Inv' /\ Contract
<1> DEFINE r == Call(srv, cl[c], c)
           T == r.srv
           D == ReadsOwn(r.srv, r.cl)
<1>1. cl[c].op # "idle" /\ Within(T) /\ srv' = T /\ cl' = [cl EXCEPT ![c] = D] /\ backend' = backend
  BY DEF Answer
<1>2. After(c, T, D)
  BY <1>1, Request
<1> HIDE DEF T, D
<1>3. cl' = [cl EXCEPT ![c] = D] \/ (cl' = cl /\ (backend = "etcd3" => cl[c].op # "delete"))
  BY <1>1
<1>4. Within(T) /\ srv' = T /\ backend' = backend
  BY <1>1
<1>5. QED
  BY <1>2, <1>3, <1>4, AfterStep

LEMMA ResendStep ==
  ASSUME Inv, NEW c \in Clients, Resend(c)
  PROVE  Inv' /\ Contract
<1> DEFINE r == Call(srv, cl[c], c)
           T == r.srv
           D == ReadsOwn(r.srv, r.cl)
<1>1. /\ cl[c].op # "idle" /\ Repeats(cl[c]) /\ Within(T) /\ srv' = T /\ cl' = cl /\ backend' = backend
  BY DEF Resend
<1>2. backend = "etcd3" => cl[c].op # "delete"
  BY <1>1 DEF Repeats, EtcdRepeats
<1>3. After(c, T, D)
  BY <1>1, Request
<1> HIDE DEF T, D
<1>4. QED
  BY <1>1, <1>2, <1>3, AfterStep

-----------------------------------------------------------------------------
(* Steps of a client that leave the server alone *)

LEMMA RaiseStep ==
  ASSUME Inv, NEW c \in Clients, Raise(c)
  PROVE  Inv' /\ Contract
<1> DEFINE C == cl[c]
           F == EtcdFailed(srv, C)
           D == Return(F, FALSE)
<1>1. /\ C.op # "idle" /\ srv' = srv /\ cl' = [cl EXCEPT ![c] = D] /\ backend' = backend
  BY DEF Raise
<1>2. Sound /\ HeldByAll /\ History(srv) /\ Caller(srv, C) /\ Within(srv) /\ Grown(srv, srv)
  BY SameGrows DEF Inv, Sound
<1>3. Caller(srv, F) /\ Alike(C, F) /\ (backend # "etcd3" => F = C)
  BY <1>2, RebuiltFacts DEF EtcdFailed, Alike
<1>4. (backend = "etcd3" => F = Rebuilt(srv, C))
  BY DEF EtcdFailed
<1> HIDE DEF F
<1>5. Caller(srv, D) /\ Returned(F, D, FALSE)
  BY <1>2, <1>3, ReturnFacts
<1>6. backend = "etcd3" => LeasedAfter(c, srv, D)
  BY <1>2, <1>4, LeasedRebuilt DEF Inv
<1> HIDE DEF D
<1>7. D.since = TTL /\ D.op = "idle"
  BY <1>5 DEF Returned
<1>8. Outcome(c, srv, D)
  BY <1>2, <1>5, <1>7, KeyStays
<1>9. DoomedAfter(srv, D, c)
  BY <1>7 DEF DoomedAfter
<1>10. backend = "kubernetes" => ObservedAfter(c, srv, D)
  <2>1. SUFFICES ASSUME backend = "kubernetes" PROVE ObservedAfter(c, srv, D)
    OBVIOUS
  <2>2. D.view = C.view /\ D.seen = C.seen
    BY <1>3, <1>5, <2>1 DEF Returned
  <2>3. Conditional(srv, D, c)
    BY <1>7 DEF Conditional
  <2>4. QED
    BY <1>2, <1>7, <2>1, <2>2, <2>3, ObservedSame DEF Inv
<1>11. After(c, srv, D)
  BY <1>6, <1>8, <1>9, <1>10 DEF After
<1>12. QED
  BY <1>1, <1>2, <1>11, AfterStep

\* What a client may have learnt.
LEMMA LearntFacts ==
  ASSUME Sound, NEW C, Caller(srv, C), NEW L \in Learnt(srv, C)
  PROVE  /\ Caller(srv, L) /\ Alike(C, L) /\ L.mine = C.mine /\ L.last = C.last
         /\ \/ L = C
            \/ L.at \in 1..Len(srv.log) /\ L.cache = srv.log[L.at] /\ backend \in {"etcd", "raft"}
            \/ /\ L.at \in C.at + 1..Len(srv.log) /\ backend \in {"etcd3", "kubernetes"}
               /\ L.cache \in {C.cache, srv.log[L.at], NoKey}
<1>1. History(srv) /\ Caller(srv, C) /\ backend \in Good /\ Copy(srv, NoKey) /\ Copy(srv, C.cache)
      /\ C.cache \in Keys /\ C.at \in 1..Len(srv.log)
      /\ \A i \in 1..Len(srv.log) : srv.log[i] \in Keys /\ Copy(srv, srv.log[i])
  BY KeyOfFacts, CallerFacts DEF Sound, Caller
<1>2. CASE L = C
  BY <1>1, <1>2 DEF Alike
<1>3. ASSUME NEW i \in 1..Len(srv.log), NEW k \in {C.cache, srv.log[i], NoKey}, L = Copied(C, i, k)
      PROVE  Caller(srv, L) /\ Alike(C, L) /\ L.mine = C.mine /\ L.last = C.last /\ L.at = i /\ L.cache = k
  <2>1. k \in Keys /\ Copy(srv, k)
    BY <1>1, <1>3, NoKeyType
  <2>2. QED
    BY <1>1, <1>3, <2>1, CopyFacts
<1>4. Ahead(srv, C) \subseteq 1..Len(srv.log)
  BY <1>1 DEF Ahead
<1>5. CASE L # C /\ backend = "etcd"
  <2>1. PICK i \in 1..Len(srv.log) : L = Copied(C, i, srv.log[i])
    BY <1>5 DEF Learnt, EtcdLearn
  <2>2. QED
    BY <1>3, <1>5, <2>1
<1>6. CASE L # C /\ backend = "raft"
  <2>1. PICK i \in Ahead(srv, C) : L = Copied(C, i, srv.log[i])
    BY <1>6 DEF Learnt, RaftLearn
  <2>2. QED
    BY <1>3, <1>4, <1>6, <2>1
<1>7. CASE L # C /\ backend = "etcd3"
  <2>1. PICK i \in Ahead(srv, C) : L = Copied(C, i, Etcd3Event(C.cache, srv.log[i]))
    BY <1>7 DEF Learnt, Etcd3Learn
  <2>2. Etcd3Event(C.cache, srv.log[i]) \in {C.cache, srv.log[i], NoKey}
    BY DEF Etcd3Event
  <2>3. QED
    BY <1>3, <1>4, <1>7, <2>1, <2>2 DEF Ahead
<1>8. CASE L # C /\ backend = "kubernetes"
  <2>1. PICK i \in Ahead(srv, C) : L = Copied(C, i, KubernetesEvent(C.cache, srv.log[i]))
    BY <1>8 DEF Learnt, KubernetesLearn
  <2>2. KubernetesEvent(C.cache, srv.log[i]) \in {C.cache, srv.log[i], NoKey}
    BY DEF KubernetesEvent
  <2>3. QED
    BY <1>3, <1>4, <1>8, <2>1, <2>2 DEF Ahead
<1>9. QED
  BY <1>1, <1>2, <1>5, <1>6, <1>7, <1>8 DEF Good

\* The client that begins a cycle, after the watch or without it.
LEMMA WatchedFacts ==
  ASSUME Sound, NEW c \in Clients, NEW W \in Watched(cl[c])
  PROVE  /\ Caller(srv, W) /\ Alike(cl[c], W) /\ W.mine = cl[c].mine /\ W.at = cl[c].at /\ W.cache = cl[c].cache
         /\ W.last \in {cl[c].last, LoopWait + 1}
<1>1. History(srv) /\ Caller(srv, cl[c]) /\ LoopWait + 1 \in 0..LoopWait + 1
  BY Constants DEF Sound
<1>2. W = cl[c] \/ W = Since(cl[c], LoopWait + 1)
  BY DEF Watched, Since
<1>3. CASE W = cl[c]
  BY <1>1, <1>3 DEF Alike
<1>4. CASE W = Since(cl[c], LoopWait + 1)
  BY <1>1, <1>4, SinceFacts
<1>5. QED
  BY <1>2, <1>3, <1>4

LEMMA WatchStep ==
  ASSUME Inv, NEW c \in Clients, Watch(c)
  PROVE  Inv' /\ Contract
<1> DEFINE C == cl[c]
<1>1. PICK D \in Learnt(srv, C) : cl' = [cl EXCEPT ![c] = D]
  BY DEF Watch
<1>2. /\ C.op # "idle" /\ srv' = srv /\ backend' = backend /\ backend \in {"raft", "kubernetes"}
  BY DEF Watch
<1>3. Sound /\ HeldByAll /\ Within(srv) /\ Grown(srv, srv)
  BY SameGrows DEF Inv, Sound
<1>4. Caller(srv, D) /\ Alike(C, D)
  BY <1>1, <1>3, LearntFacts DEF Sound
<1>5. Outcome(c, srv, D)
  BY <1>3, <1>4, KeyStays DEF Alike
<1>6. DoomedAfter(srv, D, c)
  BY <1>4 DEF DoomedAfter, Alike
<1>7. backend = "kubernetes" => ObservedAfter(c, srv, D)
  <2>1. SUFFICES ASSUME backend = "kubernetes" PROVE ObservedAfter(c, srv, D)
    OBVIOUS
  <2>2. Conditional(srv, C, c) /\ Observed
    BY <2>1 DEF Inv, Observed
  <2>3. Conditional(srv, D, c)
    BY <1>4, <2>2 DEF Conditional, Alike
  <2>4. D.view = C.view /\ D.seen = C.seen /\ D.t = C.t /\ D.mark = C.mark /\ D.since = C.since
    BY <1>4 DEF Alike
  <2>5. QED
    BY <1>2, <1>3, <2>1, <2>2, <2>3, <2>4, ObservedSame
<1>8. After(c, srv, D)
  BY <1>2, <1>5, <1>6, <1>7 DEF After
<1>9. QED
  BY <1>1, <1>2, <1>3, <1>8, AfterStep

LEMMA NewTTLStep ==
  ASSUME Inv, NEW c \in Clients, NewTTL(c)
  PROVE  Inv' /\ Contract
<1> DEFINE C == cl[c]
           D == WithLease(C, 0)
<1>1. /\ C.op = "idle" /\ srv' = srv /\ backend' = backend /\ backend \in {"etcd3", "consul"}
      /\ cl' = [cl EXCEPT ![c] = D]
  BY DEF NewTTL, WithLease
<1>2. Sound /\ HeldByAll /\ Within(srv) /\ Grown(srv, srv) /\ History(srv) /\ Caller(srv, C) /\ backend \in Good
  BY SameGrows DEF Inv, Sound
<1>3. backend = "etcd3" /\ Leased
  BY <1>1, <1>2 DEF Good, Inv
<1>4. 0 \in 0..srv.granted
  BY <1>2, CallerFacts, Constants DEF History, Servers
<1>5. Caller(srv, D) /\ Alike(C, D) /\ D.mine = 0
  BY <1>2, <1>4, MineFacts
<1> HIDE DEF D
<1>6. Outcome(c, srv, D)
  BY <1>2, <1>5, KeyStays DEF Alike
<1>7. Lasting(srv, D) /\ Renewed(srv, D)
  BY <1>5 DEF Lasting, Renewed, Alive
<1>8. LeasedAfter(c, srv, D)
  BY <1>2, <1>3, <1>5, <1>7, LeasedSame
<1>9. After(c, srv, D)
  BY <1>3, <1>6, <1>8 DEF After
<1>10. QED
  BY <1>1, <1>2, <1>9, AfterStep

-----------------------------------------------------------------------------
(* Steps of the server *)

LEMMA ServerStep ==
  ASSUME Sound, HeldByAll, NEW T, History(T), Extends(srv, T), Within(T), srv' = T, cl' = cl, backend' = backend,
         \A d \in Clients : Held(T, cl[d], d), KeyOf(T).owner \in {KeyOf(srv).owner, None}
  PROVE  Sound' /\ HeldByAll' /\ Contract
<1>1. History(srv) /\ cl \in [Clients -> Callers] /\ \A d \in Clients : Caller(srv, cl[d])
  BY DEF Sound
<1>2. \A d \in Clients : Caller(T, cl[d]) /\ Held(T, cl[d], d)
  BY <1>1, CallerKept
<1>3. Sound' /\ HeldByAll'
  BY <1>1, <1>2, StepSound
<1>4. KeyOf(srv').owner \in {KeyOf(srv).owner, None}
  OBVIOUS
<1>5. Contract
  BY <1>3, <1>4, ContractOfServer
<1>6. QED
  BY <1>3, <1>5

LEMMA ForeignStep ==
  ASSUME Inv, Foreign
  PROVE  Inv' /\ Contract
<1> DEFINE K == KeyOf(srv)
           T == Put(srv, K)
<1>1. backend = "kubernetes" /\ srv.rev < MaxRev[backend] /\ srv' = T /\ cl' = cl /\ backend' = backend
  BY DEF Foreign
<1>2. Sound /\ HeldByAll /\ Observed /\ History(srv) /\ backend \in Good /\ srv.rev \in Nat /\ MaxRev[backend] \in Nat
      /\ srv.rev + 1 \in 1..Len(srv.log) /\ K = srv.log[srv.rev + 1]
  BY <1>1, KeyOfFacts, Constants DEF Inv, Sound, History
<1>3. K \in Keys /\ K.stamp[2] <= MaxRev[backend] + 1
  BY <1>2, KeyOfFacts DEF History
<1>4. /\ History(T) /\ Extends(srv, T) /\ KeyOf(T).owner = K.owner /\ KeyOf(T).stamp = K.stamp /\ T.rev = srv.rev + 1
      /\ Grown(srv, T)
  BY <1>2, <1>3, PutFacts, PutGrows
<1>5. Within(T)
  BY <1>1, <1>2, <1>4 DEF Within
<1> HIDE DEF T
<1>6. \A d \in Clients : Held(T, cl[d], d)
  BY <1>1, <1>2, <1>4 DEF HeldByAll, Held
<1>7. Sound' /\ HeldByAll' /\ Contract
  BY <1>1, <1>2, <1>4, <1>5, <1>6, ServerStep
<1>8. \A d \in Clients : Conditional(T, cl[d], d)
  BY <1>2, <1>4, ConditionalKept DEF Observed
<1>9. \A d, e \in Clients : SeenLater(T, cl[d], d, cl[e])
  BY <1>2, <1>4 DEF Observed, SeenLater, Record
<1>10. Observed'
  BY <1>1, <1>8, <1>9 DEF Observed
<1>11. QED
  BY <1>1, <1>7, <1>10 DEF Inv

LEMMA ProposeStep ==
  ASSUME Inv, ProposeExpire
  PROVE  Inv' /\ Contract
<1> DEFINE K == KeyOf(srv)
           T == [srv EXCEPT !.doomed = K.version]
<1>1. backend = "raft" /\ srv.lease[K.session] = TTL /\ srv' = T /\ cl' = cl /\ backend' = backend
  BY DEF ProposeExpire
<1>2. Sound /\ HeldByAll /\ History(srv) /\ srv \in Servers /\ Within(srv) /\ K.version = srv.rev /\ srv.rev \in Nat
  BY KeyOfFacts DEF Inv, Sound, History
<1>3. T \in Servers /\ T.log = srv.log /\ T.rev = srv.rev /\ T.lease = srv.lease /\ T.granted = srv.granted
      /\ T.doomed = K.version
  BY <1>2 DEF Servers
<1> HIDE DEF T
<1>4. History(T) /\ Extends(srv, T) /\ KeyOf(T) = K /\ Within(T)
  <2>1. Extends(srv, srv)
    BY <1>2, ExtendsItself
  <2>2. QED
    BY <1>2, <1>3, <2>1 DEF History, Extends, KeyOf, Within
<1>5. \A d \in Clients : Held(T, cl[d], d)
  BY <1>2, <1>3, <1>4 DEF HeldByAll, Held
<1>6. Sound' /\ HeldByAll' /\ Contract
  BY <1>1, <1>2, <1>4, <1>5, ServerStep
<1>7. ASSUME NEW d \in Clients PROVE cl[d].since = TTL
  <2>1. cl[d].since \in 0..TTL /\ Held(srv, cl[d], d)
    BY <1>2, CallerFacts DEF Sound, HeldByAll
  <2>2. ~(cl[d].since < TTL)
    BY <1>1, <2>1, Constants DEF Held
  <2>3. QED
    BY <2>1, <2>2, Constants
<1>8. Doomed'
  BY <1>1, <1>2, <1>3, <1>7 DEF Doomed
<1>9. QED
  BY <1>1, <1>6, <1>8 DEF Inv

LEMMA ApplyStep ==
  ASSUME Inv, ApplyExpire
  PROVE  Inv' /\ Contract
<1> DEFINE T == [srv EXCEPT !.doomed = 0]
<1>1. /\ backend = "raft" /\ srv.doomed # 0 /\ Within(Drop(T)) /\ cl' = cl /\ backend' = backend
      /\ srv' = IF KeyOf(srv).version = srv.doomed THEN Drop(T) ELSE T
  BY DEF ApplyExpire
<1>2. Sound /\ HeldByAll /\ Doomed /\ History(srv) /\ srv \in Servers /\ Within(srv) /\ backend \in Good
  BY <1>1 DEF Inv, Sound, History
<1>3. T \in Servers /\ T.log = srv.log /\ T.rev = srv.rev /\ T.lease = srv.lease /\ T.granted = srv.granted
      /\ T.doomed = 0
  BY <1>2 DEF Servers
<1> HIDE DEF T
<1>4. History(T) /\ Extends(srv, T) /\ KeyOf(T) = KeyOf(srv) /\ Within(T)
  <2>1. Extends(srv, srv)
    BY <1>2, ExtendsItself
  <2>2. QED
    BY <1>2, <1>3, <2>1 DEF History, Extends, KeyOf, Within
<1>5. CASE KeyOf(srv).version # srv.doomed
  <2>1. \A d \in Clients : Held(T, cl[d], d)
    BY <1>2, <1>3, <1>4 DEF HeldByAll, Held
  <2>2. Sound' /\ HeldByAll' /\ Contract
    BY <1>1, <1>2, <1>4, <1>5, <2>1, ServerStep
  <2>3. Doomed'
    BY <1>1, <1>2, <1>3, <1>5 DEF Doomed, Servers
  <2>4. QED
    BY <1>1, <2>2, <2>3 DEF Inv
<1>6. CASE KeyOf(srv).version = srv.doomed
  <2> DEFINE U == Drop(T)
  <2>1. Grown(T, U) /\ KeyOf(U).owner = None /\ U.doomed = 0
    BY <1>2, <1>3, <1>4, DropFacts
  <2>2. srv' = U /\ Within(U)
    BY <1>1, <1>6
  <2> HIDE DEF U
  <2>3. \A d \in Clients : cl[d].since = TTL
    BY <1>1, <1>2, <1>6 DEF Doomed
  <2>4. \A d \in Clients : Held(U, cl[d], d)
    BY <2>3, Constants DEF Held
  <2>5. History(U) /\ Extends(srv, U)
    BY <1>3, <2>1 DEF Grown, Extends
  <2>6. Sound' /\ HeldByAll' /\ Contract
    BY <1>1, <1>2, <2>1, <2>2, <2>4, <2>5, ServerStep
  <2>7. U.rev \in Nat
    BY <2>5, KeyOfFacts
  <2>8. Doomed'
    BY <2>1, <2>2, <2>7 DEF Doomed
  <2>9. QED
    BY <1>1, <2>6, <2>8 DEF Inv
<1>7. QED
  BY <1>5, <1>6

\* A lease ends, and takes the key on it along.
LEMMA EndFacts ==
  ASSUME NEW S, History(S), backend \in Good, NEW s \in 1..MaxLease
  PROVE  /\ Grown(S, End(S, s)) /\ End(S, s).doomed = S.doomed /\ End(S, s).granted = S.granted
         /\ End(S, s).lease = [S.lease EXCEPT ![s] = Dead]
         /\ KeyOf(S).session = s /\ KeyOf(S).owner # None => KeyOf(End(S, s)).owner = None /\ KeyOf(End(S, s)).session = 0
         /\ KeyOf(S).session # s \/ KeyOf(S).owner = None => End(S, s).rev = S.rev /\ End(S, s).log = S.log
<1> DEFINE l == [S.lease EXCEPT ![s] = Dead]
           T == [S EXCEPT !.lease = l]
<1>1. S.lease \in [1..MaxLease -> Dead..TTL] /\ Dead \in Dead..TTL
  BY Constants DEF History, Servers, Dead
<1>2. l \in [1..MaxLease -> Dead..TTL]
  BY <1>1
<1>3. End(S, s) = IF KeyOf(S).session = s THEN Drop(T) ELSE T
  BY DEF End
<1> HIDE DEF l
<1>4. /\ History(T) /\ Extends(S, T) /\ KeyOf(T) = KeyOf(S) /\ T.log = S.log /\ T.rev = S.rev /\ T.lease = l
      /\ T.granted = S.granted /\ T.doomed = S.doomed
  BY <1>2, LeaseFacts
<1> HIDE DEF T
<1>5. Grown(S, T)
  <2>1. Grown(S, S)
    BY SameGrows
  <2>2. QED
    BY <1>4, <2>1 DEF Grown
<1>6. /\ Grown(T, Drop(T)) /\ Drop(T).lease = l /\ Drop(T).granted = S.granted /\ Drop(T).doomed = S.doomed
      /\ KeyOf(Drop(T)).owner = None
      /\ KeyOf(S).owner # None => KeyOf(Drop(T)).session = 0
      /\ KeyOf(S).owner = None => Drop(T) = T
  BY <1>4, DropFacts
<1>7. Grown(S, Drop(T))
  BY <1>4, <1>6 DEF Grown, Extends
<1>8. QED
  BY <1>3, <1>4, <1>5, <1>6, <1>7 DEF l

LEMMA ExpireStep ==
  ASSUME Inv, Expire
  PROVE  Inv' /\ Contract
<1>1. PICK s \in DOMAIN srv.lease : srv.lease[s] = TTL /\ Within(End(srv, s)) /\ srv' = End(srv, s)
  BY DEF Expire
<1> DEFINE T == End(srv, s)
           K == KeyOf(srv)
<1>2. backend \notin {"raft", "kubernetes"} /\ cl' = cl /\ backend' = backend
  BY DEF Expire
<1>3. Sound /\ HeldByAll /\ History(srv) /\ backend \in Good /\ srv.lease \in [1..MaxLease -> Dead..TTL] /\ s \in 1..MaxLease
  BY <1>1 DEF Inv, Sound, History, Servers
<1>4. /\ Grown(srv, T) /\ T.granted = srv.granted /\ T.lease = [srv.lease EXCEPT ![s] = Dead]
      /\ K.session = s /\ K.owner # None => KeyOf(T).owner = None /\ KeyOf(T).session = 0
      /\ K.session # s \/ K.owner = None => T.rev = srv.rev /\ T.log = srv.log
  BY <1>3, EndFacts
<1>5. Within(T) /\ srv' = T
  BY <1>1
<1> HIDE DEF T
<1>6. History(T) /\ Extends(srv, T)
  BY <1>4 DEF Grown
<1>7. K.session # s \/ K.owner = None => KeyOf(T) = K
  BY <1>4 DEF Grown
<1>8. KeyOf(T).owner \in {K.owner, None}
  BY <1>4, <1>7
<1>9. ASSUME NEW d \in Clients PROVE Held(T, cl[d], d)
  <2>1. SUFFICES ASSUME cl[d].since < TTL PROVE Held(T, cl[d], d)
    BY DEF Held
  <2>2. backend # "kubernetes"
    BY <1>2
  <2>3. K.owner = d /\ K.session # 0 /\ srv.lease[K.session] \in 0..cl[d].since /\ cl[d].since \in 0..TTL
    BY <1>3, <2>1, <2>2, CallerFacts DEF HeldByAll, Held, Sound
  <2>4. K.session # s
    BY <1>1, <2>1, <2>3, Constants
  <2>5. T.lease[K.session] = srv.lease[K.session]
    BY <1>3, <1>4, <2>3, <2>4, KeyOfFacts DEF Keys
  <2>6. QED
    BY <1>7, <2>3, <2>4, <2>5 DEF Held
<1>10. Sound' /\ HeldByAll' /\ Contract
  BY <1>2, <1>3, <1>5, <1>6, <1>8, <1>9, ServerStep
<1>11. backend = "etcd3" => Leased'
  <2>1. SUFFICES ASSUME backend = "etcd3" PROVE Leased'
    OBVIOUS
  <2>2. Leased
    BY <2>1 DEF Inv
\* An entry of the new history is an old one or hangs on no lease.
  <2>3. \A i \in 1..Len(T.log) : (i \in 1..Len(srv.log) /\ T.log[i] = srv.log[i]) \/ T.log[i].session = 0
    <3>1. CASE K.session = s /\ K.owner # None
      BY <1>4, <3>1 DEF Grown, Extends
    <3>2. CASE K.session # s \/ K.owner = None
      BY <1>4, <3>2
    <3>3. QED
      BY <3>1, <3>2
  <2>4. Owned'
    <3>1. \A i \in 1..Len(srv.log) : srv.log[i].session <= srv.granted
      BY <2>2 DEF Leased, Owned
    <3>2. srv.granted \in Nat
      BY <1>3, Constants DEF History, Servers
    <3>3. \A i \in 1..Len(T.log) : T.log[i].session <= T.granted
      BY <1>4, <2>3, <3>1, <3>2
    <3>4. \A d \in Clients : \A i \in 1..Len(T.log) :
            cl[d].mine # 0 /\ T.log[i].session = cl[d].mine => T.log[i].owner = d
      BY <2>2, <2>3 DEF Leased, Owned
    <3>5. QED
      BY <1>2, <1>5, <2>2, <3>3, <3>4 DEF Leased, Owned
  <2>5. ASSUME NEW d \in Clients PROVE Lasting(T, cl[d]) /\ Renewed(T, cl[d])
    <3> DEFINE C == cl[d]
    <3>1. Lasting(srv, C) /\ Renewed(srv, C) /\ C.mine \in 0..MaxLease /\ C.at \in Nat /\ C \in Callers
      BY <1>3, <2>2, CallerFacts DEF Leased, Sound, Caller, Callers
    <3> HIDE DEF C
    <3>2. \A x \in 1..MaxLease : T.lease[x] = IF x = s THEN Dead ELSE srv.lease[x]
      BY <1>3, <1>4
    <3>3. C.mine # 0 /\ Sees(T, C, C.mine) => Sees(srv, C, C.mine)
      <4>1. \A i \in C.at + 1..Len(T.log) : i \in 1..Len(T.log) /\ (i \in 1..Len(srv.log) => i \in C.at + 1..Len(srv.log))
        BY <3>1
      <4>2. QED
        BY <2>3, <4>1 DEF Sees
    <3>4. Alive(T, C.mine) => Alive(srv, C.mine) /\ C.mine # s
      BY <3>1, <3>2, Constants DEF Alive
    <3>5. Alive(T, C.mine) /\ Sees(T, C, C.mine) => KeyOf(T).session = C.mine
      <4>1. SUFFICES ASSUME Alive(T, C.mine), Sees(T, C, C.mine) PROVE KeyOf(T).session = C.mine
        OBVIOUS
      <4>2. K.session = C.mine /\ C.mine # s
        BY <3>1, <3>3, <3>4, <4>1 DEF Lasting, Alive
      <4>3. QED
        BY <1>7, <4>2
    <3>6. C.op = "delete" /\ C.mine # 0 => \A i \in C.at + 1..Len(T.log) : T.log[i].session # C.mine
      <4>1. \A i \in C.at + 1..Len(T.log) : i \in 1..Len(T.log) /\ (i \in 1..Len(srv.log) => i \in C.at + 1..Len(srv.log))
        BY <3>1
      <4>2. QED
        BY <2>3, <3>1, <4>1 DEF Lasting
    <3>7. Renewed(T, C)
      <4>1. C.mine # 0 => T.lease[C.mine] = Dead \/ T.lease[C.mine] = srv.lease[C.mine]
        BY <3>1, <3>2, Constants
      <4>2. Dead <= Age(C) /\ Dead <= C.last
        BY <3>1, AgeFacts, Constants DEF Dead
      <4>3. QED
        BY <3>1, <4>1, <4>2 DEF Renewed
    <3>8. QED
      BY <3>5, <3>6, <3>7 DEF Lasting, C
  <2>6. QED
    BY <1>2, <1>5, <2>4, <2>5 DEF Leased, Renewed, Age
<1>12. QED
  BY <1>2, <1>10, <1>11 DEF Inv

-----------------------------------------------------------------------------
(* Time *)

LEMMA BoundedFacts ==
  /\ \A x \in 0..TTL : /\ Bounded(x) \in 0..TTL /\ x <= Bounded(x)
                       /\ Bounded(x) < TTL => x < TTL
  /\ \A x, y \in 0..TTL : x <= y => Bounded(x) <= Bounded(y)
  /\ Bounded(TTL) = TTL
BY Constants DEF Bounded

\* A tick later.
Older(C) == [C EXCEPT !.t = IF C.op = "idle" THEN 0 ELSE Bounded(@), !.since = Bounded(@), !.seen = Bounded(@),
                      !.last = IF @ > LoopWait THEN @ ELSE @ + 1]

LEMMA OlderFacts ==
  ASSUME NEW S, History(S), NEW C, Caller(S, C)
  PROVE  LET D == Older(C)
         IN  /\ Caller(S, D) /\ D.op = C.op /\ D.step = C.step /\ D.base = C.base /\ D.mark = C.mark /\ D.mine = C.mine
             /\ D.at = C.at /\ D.cache = C.cache /\ D.view = C.view
             /\ D.since = Bounded(C.since) /\ D.seen = Bounded(C.seen)
             /\ C.op # "idle" => D.t = Bounded(C.t) /\ Age(D) = Bounded(Age(C))
             /\ D.last = IF C.last > LoopWait THEN C.last ELSE C.last + 1
<1> DEFINE t == IF C.op = "idle" THEN 0 ELSE Bounded(C.t)
           n == IF C.last > LoopWait THEN C.last ELSE C.last + 1
           D == Older(C)
<1>1. C \in Callers /\ C.t \in 0..TTL /\ C.since \in 0..TTL /\ C.seen \in 0..TTL /\ C.t <= C.since
  BY CallerFacts DEF Caller
<1>2. t \in 0..TTL /\ Bounded(C.since) \in 0..TTL /\ Bounded(C.seen) \in 0..TTL /\ t <= Bounded(C.since)
  <2>1. 0 \in 0..TTL
    BY Constants
  <2>2. Bounded(C.t) \in 0..TTL /\ Bounded(C.since) \in 0..TTL /\ Bounded(C.seen) \in 0..TTL
        /\ Bounded(C.t) <= Bounded(C.since)
    BY <1>1, BoundedFacts
  <2>3. 0 <= Bounded(C.since)
    BY <2>2, Constants
  <2>4. QED
    BY <2>1, <2>2, <2>3
<1>3. D = [C EXCEPT !.t = t, !.since = Bounded(C.since), !.seen = Bounded(C.seen), !.last = n]
  BY DEF Older
<1>8. n \in 0..LoopWait + 1
  BY CallerFacts, Constants
<1> HIDE DEF t, D, n
<1>4. /\ D.op = C.op /\ D.step = C.step /\ D.base = C.base /\ D.mark = C.mark /\ D.mine = C.mine
      /\ D.at = C.at /\ D.cache = C.cache /\ D.view = C.view
      /\ D.since = Bounded(C.since) /\ D.seen = Bounded(C.seen) /\ D.t = t /\ D.last = n /\ D \in Callers
  BY <1>1, <1>2, <1>3, <1>8 DEF Callers
<1>5. Caller(S, D)
  <2>1. D.op = "idle" => D.t = 0 /\ D.step = 1
    BY <1>4 DEF Caller, t
  <2>2. D.op = "delete" => D.since = TTL
    BY <1>4, BoundedFacts DEF Caller
  <2>3. QED
    BY <1>2, <1>4, <2>1, <2>2 DEF Caller
<1>6. C.op # "idle" => D.t = Bounded(C.t)
  BY <1>4 DEF t
<1>9. C.op # "idle" => Age(D) = Bounded(Age(C))
  <2>1. \A x \in 0..TTL : LET y == IF x + LoopWait > TTL THEN TTL ELSE x + LoopWait
                              z == IF Bounded(x) + LoopWait > TTL THEN TTL ELSE Bounded(x) + LoopWait
                          IN  z = Bounded(y)
    BY Constants DEF Bounded
  <2>2. QED
    BY <1>1, <1>4, <1>6, <2>1 DEF Age
<1>7. QED
  BY <1>4, <1>5, <1>6, <1>9 DEF D, n

LEMMA TickFacts ==
  ASSUME Sound, Tick
  PROVE  /\ backend' = backend /\ cl' = [c \in Clients |-> Older(cl[c])]
         /\ srv' = [srv EXCEPT !.lease = [s \in 1..MaxLease |->
                                            IF srv.lease[s] = Dead THEN Dead ELSE Bounded(srv.lease[s])]]
<1>1. PICK pinging \in Pinging :
        srv' = [srv EXCEPT !.lease = [s \in DOMAIN @ |->
                     IF @[s] = Dead THEN Dead
                     ELSE IF s \in {cl[c].mine : c \in pinging} THEN 0 ELSE Bounded(@[s])]]
  BY DEF Tick
<1>2. pinging = {}
  BY DEF Pinging, Sound, Good
<1>3. DOMAIN srv.lease = 1..MaxLease
  BY DEF Sound, History, Servers
<1>4. QED
  BY <1>1, <1>2, <1>3 DEF Tick, Older

LEMMA TickStep ==
  ASSUME Inv, Tick
  PROVE  Inv' /\ Contract
<1> DEFINE l == [s \in 1..MaxLease |-> IF srv.lease[s] = Dead THEN Dead ELSE Bounded(srv.lease[s])]
           T == [srv EXCEPT !.lease = l]
           f == [c \in Clients |-> Older(cl[c])]
<1>1. Sound /\ HeldByAll /\ History(srv) /\ srv.lease \in [1..MaxLease -> Dead..TTL] /\ Within(srv)
      /\ \A d \in Clients : Caller(srv, cl[d])
  BY DEF Inv, Sound, History, Servers
<1>2. srv' = T /\ cl' = f /\ backend' = backend
  BY <1>1, TickFacts
<1>3. /\ l \in [1..MaxLease -> Dead..TTL]
      /\ \A s \in 1..MaxLease : /\ srv.lease[s] = Dead => l[s] = Dead
                                /\ srv.lease[s] \in 0..TTL => l[s] = Bounded(srv.lease[s])
  <2>1. ASSUME NEW s \in 1..MaxLease
        PROVE  /\ srv.lease[s] = Dead \/ srv.lease[s] \in 0..TTL
               /\ srv.lease[s] \in 0..TTL => srv.lease[s] # Dead
    BY <1>1, Constants DEF Dead
  <2>2. \A x \in 0..TTL : Bounded(x) \in Dead..TTL
    BY BoundedFacts, Constants DEF Dead
  <2>3. Dead \in Dead..TTL
    BY Constants DEF Dead
  <2>4. QED
    BY <2>1, <2>2, <2>3
<1> HIDE DEF l
<1>4. History(T) /\ Extends(srv, T) /\ KeyOf(T) = KeyOf(srv) /\ T.log = srv.log /\ T.rev = srv.rev /\ T.lease = l
      /\ T.granted = srv.granted /\ T.doomed = srv.doomed
  BY <1>1, <1>3, LeaseFacts
<1> HIDE DEF T
<1>5. \A d \in Clients : Caller(T, cl[d])
  BY <1>1, <1>4, CallerKept
<1>6. \A d \in Clients : f[d] = Older(cl[d])
  OBVIOUS
<1>7. \A d \in Clients : /\ Caller(T, f[d]) /\ f[d].op = cl[d].op /\ f[d].step = cl[d].step /\ f[d].base = cl[d].base
                         /\ f[d].mark = cl[d].mark /\ f[d].mine = cl[d].mine
                         /\ f[d].at = cl[d].at /\ f[d].cache = cl[d].cache /\ f[d].view = cl[d].view
                         /\ f[d].since = Bounded(cl[d].since) /\ f[d].seen = Bounded(cl[d].seen)
                         /\ cl[d].op # "idle" => f[d].t = Bounded(cl[d].t)
  BY <1>4, <1>5, <1>6, OlderFacts
<1>ages. \A d \in Clients : /\ cl[d].op # "idle" => Age(f[d]) = Bounded(Age(cl[d]))
                          /\ f[d].last = IF cl[d].last > LoopWait THEN cl[d].last ELSE cl[d].last + 1
  BY <1>4, <1>5, <1>6, OlderFacts
<1>8. f \in [Clients -> Callers]
  BY <1>6, <1>7 DEF Caller
<1> HIDE DEF f
<1>9. \A d \in Clients : cl[d].since \in 0..TTL /\ cl[d].seen \in 0..TTL /\ cl[d].t \in 0..TTL
                         /\ cl[d].mine \in 0..MaxLease
  BY <1>1 DEF Caller, Callers
<1>10. \A d \in Clients : f[d].since < TTL => cl[d].since < TTL
  BY <1>7, <1>9, BoundedFacts
<1>11. ASSUME NEW d \in Clients PROVE Held(T, f[d], d)
  <2>1. SUFFICES ASSUME f[d].since < TTL PROVE Held(T, f[d], d)
    BY DEF Held
  <2>2. cl[d].since < TTL /\ f[d].since = Bounded(cl[d].since)
    BY <1>7, <1>10, <2>1
  <2>3. KeyOf(T).owner = d
    BY <1>1, <1>4, <2>2 DEF HeldByAll, Held
  <2>4. ASSUME backend # "kubernetes"
        PROVE  KeyOf(T).session # 0 /\ T.lease[KeyOf(T).session] \in 0..f[d].since
    <3> DEFINE s == KeyOf(srv).session
               x == srv.lease[s]
               y == cl[d].since
    <3>1. s # 0 /\ x \in 0..y
      BY <1>1, <2>2, <2>4 DEF HeldByAll, Held
    <3>2. s \in 1..MaxLease
      <4>1. s \in 0..MaxLease
        BY <1>1, KeyOfFacts DEF Keys
      <4>2. QED
        BY <3>1, <4>1, Constants
    <3> HIDE DEF x, y, s
    <3>3. y \in 0..TTL
      BY <1>9 DEF y
    <3>4. x \in 0..TTL /\ x <= y
      BY <3>1, <3>3, Constants
    <3>5. Bounded(x) \in 0..TTL /\ Bounded(y) \in 0..TTL /\ Bounded(x) <= Bounded(y)
      BY <3>3, <3>4, BoundedFacts
    <3>6. Bounded(x) \in 0..Bounded(y)
      BY <3>5, Constants
    <3>7. l[s] = Bounded(x) /\ f[d].since = Bounded(y) /\ KeyOf(T).session = s /\ T.lease = l
      BY <1>3, <1>4, <2>2, <3>2, <3>4 DEF x, y, s
    <3>8. QED
      BY <3>1, <3>6, <3>7
  <2>5. QED
    BY <2>3, <2>4 DEF Held
<1>12. Sound' /\ HeldByAll'
  <2>1. Within(T)
    BY <1>1, <1>4 DEF Within
  <2>2. QED
    BY <1>1, <1>2, <1>4, <1>7, <1>8, <1>11, <2>1, StepSound
\* At most one client trusts the key, so at most one stops trusting it.
<1>13. Contract
  <2> DEFINE o == KeyOf(srv).owner
  <2>1. o' = o
    BY <1>2, <1>4 DEF KeyOf
  <2>2. Trusting \subseteq {o} /\ Trusting \subseteq Clients
    BY <1>1 DEF HeldByAll, Held, Trusting
  <2>3. Trusting' \subseteq Trusting
    BY <1>2, <1>10 DEF Trusting
  <2> HIDE DEF o
  <2>4. CASE Trusting' = Trusting
    BY <2>1, <2>4 DEF Contract, Lease!vars, o
  <2>5. CASE Trusting' # Trusting
    <3>1. o \in Clients /\ Trusting' = Trusting \ {o}
      BY <2>2, <2>3, <2>5
    <3>2. Lease!Lapse(o)
      BY <2>1, <3>1 DEF Lease!Lapse, o
    <3>3. QED
      BY <3>1, <3>2 DEF Contract, Lease!Next
  <2>6. QED
    BY <2>4, <2>5
<1>14. backend = "raft" => Doomed'
  <2>1. SUFFICES ASSUME backend = "raft" PROVE Doomed'
    OBVIOUS
  <2>2. Doomed
    BY <2>1 DEF Inv
  <2>3. \A d \in Clients : cl[d].since = TTL => f[d].since = TTL
    BY <1>7, BoundedFacts
  <2>4. KeyOf(srv)' = KeyOf(srv)
    BY <1>2, <1>4 DEF KeyOf
  <2>5. QED
    BY <1>2, <1>4, <2>2, <2>3, <2>4 DEF Doomed
<1>15. backend = "etcd3" => Leased'
  <2>1. SUFFICES ASSUME backend = "etcd3" PROVE Leased'
    OBVIOUS
  <2>2. Leased
    BY <2>1 DEF Inv
  <2>3. Owned'
    BY <1>2, <1>4, <1>7, <2>2 DEF Leased, Owned
  <2>4. ASSUME NEW d \in Clients PROVE Lasting(T, f[d]) /\ Renewed(T, f[d])
    <3> DEFINE C == cl[d]
    <3>1. Lasting(srv, C) /\ Renewed(srv, C)
      BY <2>2 DEF Leased
    <3>2. C.mine # 0 => C.mine \in 1..MaxLease /\ (T.lease[C.mine] # Dead => srv.lease[C.mine] # Dead)
      BY <1>3, <1>4, <1>9, Constants
    <3>3. Lasting(T, f[d])
      BY <1>4, <1>7, <3>1, <3>2 DEF Lasting, Sees, Alive
    <3>4. Renewed(T, f[d])
      <4>1. SUFFICES ASSUME C.mine # 0 PROVE Renewed(T, f[d])
        BY <1>7 DEF Renewed
      <4>2. C.mine \in 1..MaxLease /\ srv.lease[C.mine] \in Dead..TTL /\ Age(C) \in 0..TTL /\ C.last \in Nat
        BY <1>1, <3>2, <4>1, AgeFacts DEF Caller
      <4>3. \A x \in 0..TTL : srv.lease[C.mine] <= x => T.lease[C.mine] <= Bounded(x)
        <5>1. CASE srv.lease[C.mine] = Dead
          <6>1. T.lease[C.mine] = Dead
            BY <1>3, <1>4, <4>2, <5>1
          <6>2. \A x \in 0..TTL : Dead <= Bounded(x)
            BY Constants DEF Bounded, Dead
          <6>3. QED
            BY <6>1, <6>2
        <5>2. CASE srv.lease[C.mine] # Dead
          <6>1. srv.lease[C.mine] \in 0..TTL
            BY <4>2, <5>2, Constants DEF Dead
          <6>2. QED
            BY <1>3, <1>4, <4>2, <6>1, BoundedFacts
        <5>3. QED
          BY <5>1, <5>2
      <4>4. srv.lease[C.mine] <= C.last => T.lease[C.mine] <= C.last + 1
        <5>1. CASE srv.lease[C.mine] = Dead
          BY <1>3, <1>4, <4>2, <5>1, Constants DEF Dead
        <5>2. CASE srv.lease[C.mine] # Dead
          <6>1. srv.lease[C.mine] \in 0..TTL
            BY <4>2, <5>2, Constants DEF Dead
          <6>2. T.lease[C.mine] = Bounded(srv.lease[C.mine]) /\ Bounded(srv.lease[C.mine]) <= srv.lease[C.mine] + 1
            BY <1>3, <1>4, <4>2, <6>1, Constants DEF Bounded
          <6>3. QED
            BY <4>2, <6>1, <6>2, BoundedFacts
        <5>3. QED
          BY <5>1, <5>2
      <4>5. f[d].last <= LoopWait => C.last <= LoopWait /\ f[d].last = C.last + 1
        BY <1>ages, <4>2, Constants
      <4>6. QED
        BY <1>7, <1>ages, <3>1, <4>1, <4>2, <4>3, <4>4, <4>5 DEF Renewed
    <3>5. QED
      BY <3>3, <3>4
  <2>5. QED
    BY <1>2, <2>3, <2>4 DEF Leased, Renewed, Age
<1>16. backend = "kubernetes" => Observed'
  <2>1. SUFFICES ASSUME backend = "kubernetes" PROVE Observed'
    OBVIOUS
  <2>2. Observed
    BY <2>1 DEF Inv
  <2>3. ASSUME NEW d \in Clients PROVE Conditional(T, f[d], d)
    <3>1. Conditional(srv, cl[d], d) /\ (cl[d].seen = TTL => f[d].seen = TTL)
      BY <1>7, <2>2, BoundedFacts DEF Observed
    <3>2. QED
      BY <1>4, <1>7, <3>1 DEF Conditional
  <2>4. ASSUME NEW d \in Clients, NEW e \in Clients PROVE SeenLater(T, f[d], d, f[e])
    <3>1. SeenLater(srv, cl[d], d, cl[e])
      BY <2>2 DEF Observed
    <3>2. Stamp(f[d], d) = Stamp(cl[d], d)
      BY <1>7 DEF Stamp
    <3>3. f[d].op # "idle" /\ f[e].view.stamp = Stamp(f[d], d) => f[e].seen <= f[d].t
      <4>1. SUFFICES ASSUME cl[d].op # "idle", cl[e].seen <= cl[d].t PROVE f[e].seen <= f[d].t
        BY <1>7, <3>1, <3>2 DEF SeenLater
      <4>2. Bounded(cl[e].seen) <= Bounded(cl[d].t)
        BY <1>9, <4>1, BoundedFacts
      <4>3. QED
        BY <1>7, <4>1, <4>2
    <3>4. f[d].since < TTL /\ Record(f[e].view) = Record(KeyOf(T)) => f[e].seen <= f[d].since
      <4>1. SUFFICES ASSUME cl[e].seen <= cl[d].since PROVE f[e].seen <= f[d].since
        BY <1>4, <1>7, <1>10, <3>1 DEF SeenLater
      <4>2. Bounded(cl[e].seen) <= Bounded(cl[d].since)
        BY <1>9, <4>1, BoundedFacts
      <4>3. QED
        BY <1>7, <4>2
    <3>5. QED
      BY <3>3, <3>4 DEF SeenLater
  <2>5. QED
    BY <1>2, <2>3, <2>4 DEF Observed
<1>17. QED
  BY <1>2, <1>12, <1>13, <1>14, <1>15, <1>16 DEF Inv

-----------------------------------------------------------------------------
(* The cycle of a client *)

\* There is a mark that no write bears yet: fewer writes than marks are possible.
LEMMA FreshMark ==
  ASSUME Sound
  PROVE  \E n \in 1..MaxRev[backend] + 1 : \A i \in 1..Len(srv.log) : srv.log[i].stamp[2] # n
<1> DEFINE M == MaxRev[backend]
           L == srv.log
           f == [n \in 1..M + 1 |-> CHOOSE i \in 2..Len(L) : L[i].stamp[2] = n]
<1>1. M \in Nat /\ Len(L) = srv.rev + 1 /\ srv.rev \in Nat /\ srv.rev <= M /\ L[1].stamp[2] = 0
  BY Constants, KeyOfFacts, NoKeyType DEF Sound, History, Within
<1>2. SUFFICES ASSUME \A n \in 1..M + 1 : \E i \in 1..Len(L) : L[i].stamp[2] = n PROVE FALSE
  OBVIOUS
<1> HIDE DEF M, L
<1>3. \A n \in 1..M + 1 : \E i \in 2..Len(L) : L[i].stamp[2] = n
  <2>1. ASSUME NEW n \in 1..M + 1 PROVE \E i \in 2..Len(L) : L[i].stamp[2] = n
    <3>1. PICK i \in 1..Len(L) : L[i].stamp[2] = n
      BY <1>2
    <3>2. i # 1
      BY <1>1, <3>1
    <3>3. i \in 2..Len(L)
      BY <1>1, <3>2
    <3>4. QED
      BY <3>1, <3>3
  <2>2. QED
    BY <2>1
<1>4. \A n \in 1..M + 1 : f[n] \in 2..Len(L) /\ L[f[n]].stamp[2] = n
  BY <1>3
<1>5. f \in [1..M + 1 -> 2..Len(L)]
  BY <1>4
<1> HIDE DEF f
<1>6. /\ IsFiniteSet(1..M + 1) /\ Cardinality(1..M + 1) = M + 1
      /\ IsFiniteSet(2..Len(L)) /\ Cardinality(2..Len(L)) <= M
  <2>1. \A a, b \in Int : IsFiniteSet(a..b) /\ Cardinality(a..b) = IF a > b THEN 0 ELSE b - a + 1
    BY FS_Interval
  <2>2. \A n \in Nat : IsFiniteSet(1..n) /\ Cardinality(1..n) = n /\ IsFiniteSet(2..n + 1) /\ Cardinality(2..n + 1) = n
    BY <2>1
  <2>3. Len(L) = srv.rev + 1 /\ M + 1 \in Nat
    BY <1>1
  <2>4. QED
    BY <1>1, <2>2, <2>3
<1>7. Cardinality(2..Len(L)) \in Nat
  BY <1>6, FS_CardinalityType
<1>8. Cardinality(2..Len(L)) < Cardinality(1..M + 1)
  BY <1>1, <1>6, <1>7
<1>9. \E x, y \in 1..M + 1 : x # y /\ f[x] = f[y]
  BY <1>5, <1>6, <1>8, FS_PigeonHole
<1>10. QED
  BY <1>4, <1>9

Distrusting(C) == [C EXCEPT !.since = TTL]

\* C begins the call op, of which it is sure that its own trust has ended when it deletes the key.
LEMMA StartFacts ==
  ASSUME Sound, NEW T, History(T), NEW C, Caller(T, C), C.op = "idle", NEW v \in Nat,
         NEW op \in {"acquire", "update", "delete"}, NEW D,
         (D = Start(C, op, v) /\ op # "delete") \/ D = Distrusting(Start(C, op, v))
  PROVE  /\ Caller(T, D) /\ D.op = op /\ D.step = 1 /\ D.since \in {C.since, TTL} /\ D.mine = C.mine /\ D.at = C.at
         /\ D.cache = C.cache /\ D.view = C.view /\ D.seen = C.seen /\ D.t = 0 /\ D.last = C.last
         /\ backend = "kubernetes" => D.base = v /\ \A i \in 1..Len(srv.log) : srv.log[i].stamp[2] # D.mark
<1> DEFINE m == CHOOSE n \in 1..MaxRev[backend] + 1 : \A i \in 1..Len(srv.log) : srv.log[i].stamp[2] # n
           s == IF D = Start(C, op, v) /\ op # "delete" THEN C.since ELSE TTL
           b == IF backend = "kubernetes" THEN v ELSE C.base
           k == IF backend = "kubernetes" THEN m ELSE C.mark
           E == [op |-> op, step |-> 1, base |-> b, mark |-> k, mine |-> C.mine, at |-> C.at, cache |-> C.cache,
                 view |-> C.view, since |-> s, t |-> 0, seen |-> C.seen, last |-> C.last]
<1>1. C \in Callers /\ C.step = 1 /\ C.t = 0 /\ C.since \in 0..TTL /\ 0 \in 0..TTL /\ TTL \in 0..TTL
  BY Constants, CallerFacts DEF Caller
<1>2. m \in 1..MaxRev[backend] + 1 /\ \A i \in 1..Len(srv.log) : srv.log[i].stamp[2] # m
  BY FreshMark
<1> HIDE DEF m
<1>3. b \in Nat /\ k \in Nat /\ k <= MaxRev[backend] + 1
  <2>1. MaxRev[backend] \in Nat
    BY Constants DEF Sound
  <2>2. m \in Nat /\ m <= MaxRev[backend] + 1
    BY <1>2, <2>1
  <2>3. C.base \in Nat /\ C.mark \in Nat /\ C.mark <= MaxRev[backend] + 1
    BY <1>1 DEF Caller, Callers
  <2>4. QED
    BY <2>2, <2>3
<1>4. Start(C, op, v) = [op |-> op, step |-> 1, base |-> b, mark |-> k, mine |-> C.mine, at |-> C.at,
                         cache |-> C.cache, view |-> C.view, since |-> C.since, t |-> 0, seen |-> C.seen,
                         last |-> C.last]
  <2>1. CASE backend # "kubernetes"
    BY <1>1, <2>1 DEF Start, Callers
  <2>2. CASE backend = "kubernetes"
    <3>1. Start(C, op, v) = [C EXCEPT !.op = op, !.base = v, !.mark = m]
      BY <2>2 DEF Start, m
    <3>2. QED
      BY <1>1, <2>2, <3>1 DEF Callers
  <2>3. QED
    BY <2>1, <2>2
<1> HIDE DEF b, k
<1>5. s \in {C.since, TTL} /\ s \in 0..TTL /\ (op = "delete" => s = TTL) /\ 0 <= s
  BY <1>1
<1>6. D = E
  BY <1>4 DEF Distrusting
<1> HIDE DEF s
<1>7. E \in Callers
  BY <1>1, <1>3, <1>5 DEF Callers
<1>8. /\ E.op = op /\ E.step = 1 /\ E.since = s /\ E.mine = C.mine /\ E.at = C.at /\ E.base = b /\ E.mark = k
      /\ E.cache = C.cache /\ E.view = C.view /\ E.seen = C.seen /\ E.t = 0
      /\ E.last = C.last
  OBVIOUS
<1> HIDE DEF E
<1>9. Caller(T, E)
  BY <1>3, <1>5, <1>7, <1>8 DEF Caller
<1>10. backend = "kubernetes" => b = v /\ k = m
  BY DEF b, k
<1>11. QED
  BY <1>2, <1>5, <1>6, <1>8, <1>9, <1>10

\* C looks at its copy.
Seeing(C, n) == [C EXCEPT !.view = C.cache, !.seen = n]

LEMMA ViewFacts ==
  ASSUME NEW S, History(S), NEW C, Caller(S, C), NEW n \in 0..TTL,
         NEW D, D = Seeing(C, n)
  PROVE  /\ Caller(S, D) /\ D.view = C.cache /\ D.seen = n /\ D.op = C.op /\ D.step = C.step
         /\ D.base = C.base /\ D.mark = C.mark /\ D.since = C.since /\ D.t = C.t
         /\ D.mine = C.mine /\ D.at = C.at /\ D.cache = C.cache /\ D.last = C.last
<1>1. C \in Callers /\ C.cache \in Keys /\ Copy(S, C.cache)
  BY DEF Caller, Callers
<1>2. /\ D \in Callers /\ D.view = C.cache /\ D.seen = n /\ D.op = C.op /\ D.step = C.step
      /\ D.base = C.base /\ D.mark = C.mark /\ D.since = C.since /\ D.t = C.t
      /\ D.mine = C.mine /\ D.at = C.at /\ D.cache = C.cache /\ D.last = C.last
  BY <1>1 DEF Callers, Seeing
<1>3. Caller(S, D)
  <2>1. /\ C.at <= Len(S.log) /\ C.mine <= S.granted /\ C.mark <= MaxRev[backend] + 1 /\ C.t <= C.since
        /\ C.op = "idle" => C.t = 0 /\ C.step = 1
        /\ C.op = "delete" => C.since = TTL
    BY DEF Caller
  <2>2. QED
    BY <1>1, <1>2, <2>1 DEF Caller
<1>4. QED
  BY <1>2, <1>3

\* Since when the record that C looks at is the one it saw before.
SeenFor(L) == IF Record(L.cache) # Record(L.view) THEN 0 ELSE L.seen

\* What a load of the cluster comes to.
LoadedAs(L, T, C) ==
  /\ Grown(srv, T) /\ KeyOf(T) = KeyOf(srv) /\ T.log = srv.log /\ T.rev = srv.rev /\ T.doomed = srv.doomed
  /\ \A s \in 1..MaxLease : T.lease[s] \in {srv.lease[s], 0}
  /\ Caller(T, C) /\ C.op = L.op /\ C.since = L.since /\ C.t = L.t
  /\ C.at = L.at /\ C.cache = L.cache /\ C.view = L.cache
  /\ C.seen = IF backend = "kubernetes" THEN SeenFor(L) ELSE L.seen
  /\ (T = srv /\ C.mine = L.mine /\ C.last = L.last) \/ (backend = "etcd3" /\ \E V : V.mine = L.mine /\ Refreshed(srv, V, T, C))

LEMMA LoadFacts ==
  ASSUME Sound, NEW c \in Clients, NEW L, Caller(srv, L), NEW r \in Loaded(srv, L)
  PROVE  LoadedAs(L, r.srv, r.cl)
<1> DEFINE n == IF backend = "kubernetes" THEN SeenFor(L) ELSE L.seen
           V == Seeing(L, n)
<1>1. History(srv) /\ backend \in Good /\ L \in Callers /\ L.seen \in 0..TTL /\ Grown(srv, srv)
  BY SameGrows DEF Sound, Caller, Callers
<1>2. n \in 0..TTL
  BY <1>1, Constants DEF SeenFor
<1>3. backend # "kubernetes" => V = Viewed(L)
  BY <1>1 DEF Viewed, Callers, Seeing
<1>4. backend = "kubernetes" => V = Observe(L)
  BY <1>1 DEF Observe, SeenFor, Record, Callers, Seeing
<1> HIDE DEF n
<1>5. /\ Caller(srv, V) /\ V.view = L.cache /\ V.seen = n /\ V.op = L.op /\ V.since = L.since /\ V.t = L.t
      /\ V.mine = L.mine /\ V.at = L.at /\ V.cache = L.cache /\ V.last = L.last
  BY <1>1, <1>2, ViewFacts
<1> HIDE DEF V
<1>6. r = Out(srv, V) \/ (backend = "etcd3" /\ r = Refresh(srv, V))
  BY <1>1, <1>3, <1>4 DEF Good, Loaded, EtcdLoad, Etcd3Load, Etcd3Touch, RefreshIfOld, RaftLoad,
      KubernetesLoad
<1>7. CASE r = Out(srv, V)
  <2>1. LoadedAs(L, srv, V)
    BY <1>1, <1>5 DEF LoadedAs, n
  <2>2. QED
    BY <1>7, <2>1 DEF Out
<1>8. CASE backend = "etcd3" /\ r = Refresh(srv, V)
  <2>1. Refreshed(srv, V, r.srv, r.cl)
    BY <1>1, <1>5, <1>8, RefreshFacts
  <2>2. /\ r.cl.op = L.op /\ r.cl.since = L.since /\ r.cl.t = L.t /\ r.cl.view = L.cache /\ r.cl.seen = L.seen
    BY <1>5, <1>8, <2>1 DEF Refreshed, Alike, n
  <2>3. /\ Grown(srv, r.srv) /\ KeyOf(r.srv) = KeyOf(srv) /\ r.srv.log = srv.log /\ r.srv.rev = srv.rev
        /\ r.srv.doomed = srv.doomed /\ Caller(r.srv, r.cl) /\ r.cl.at = L.at /\ r.cl.cache = L.cache
        /\ \A s \in 1..MaxLease : r.srv.lease[s] \in {srv.lease[s], 0}
    BY <1>5, <2>1 DEF Refreshed
  <2>4. QED
    BY <1>5, <1>8, <2>1, <2>2, <2>3 DEF LoadedAs
<1>9. QED
  BY <1>6, <1>7, <1>8

\* A client that sees less on its lease, and starts or ends a call.
LEMMA LeasedLearnt ==
  ASSUME NEW c \in Clients, NEW T, NEW E, NEW D, LeasedAfter(c, T, E), D.mine = E.mine,
         D.mine # 0 /\ Sees(T, D, D.mine) => Sees(T, E, E.mine), Renewed(T, D),
         D.op = "delete" => \A i \in D.at + 1..Len(T.log) : FALSE
  PROVE  LeasedAfter(c, T, D)
<1>1. Lasting(T, E)
  BY DEF LeasedAfter
<1>2. Lasting(T, D)
  BY <1>1 DEF Lasting, Alive
<1>3. QED
  BY <1>2 DEF LeasedAfter

\* What a cycle comes to: c saw the server as T and itself as C after it had learnt L, and began or ended a call as D.
Cycled(c, L, T, C, D) ==
  /\ \E W \in Watched(cl[c]) : L \in Learnt(srv, W)
  /\ LoadedAs(L, T, C)
  /\ Caller(T, D) /\ D.since \in {TTL, C.since} /\ D.mine = C.mine /\ D.at = C.at /\ D.cache = C.cache /\ D.seen = C.seen
  /\ D.step = 1 /\ D.t = 0 /\ D.last = C.last
  /\ D.view = C.view \/ (backend # "kubernetes" /\ D.view = NoKey)
  /\ D.op = "delete" => D.at = Len(srv.log)
  /\ backend = "kubernetes" /\ D.op # "idle" =>
       /\ D.base = C.cache.version
       /\ \A i \in 1..Len(srv.log) : srv.log[i].stamp[2] # D.mark
       /\ D.op = "acquire" => C.view.owner = None \/ C.seen = TTL
       /\ D.op \in {"update", "delete"} => C.view.owner = c

LEMMA SeenFacts ==
  ASSUME Sound, NEW c \in Clients, NEW L, \E W \in Watched(cl[c]) : L \in Learnt(srv, W)
  PROVE  /\ Caller(srv, L) /\ Alike(cl[c], L) /\ L.mine = cl[c].mine /\ L.last \in {cl[c].last, LoopWait + 1}
         /\ \/ L.at = cl[c].at /\ L.cache = cl[c].cache
            \/ L.at \in 1..Len(srv.log) /\ L.cache = srv.log[L.at] /\ backend \in {"etcd", "raft"}
            \/ /\ L.at \in cl[c].at + 1..Len(srv.log) /\ backend \in {"etcd3", "kubernetes"}
               /\ L.cache \in {cl[c].cache, srv.log[L.at], NoKey}
<1>1. PICK W \in Watched(cl[c]) : L \in Learnt(srv, W)
  OBVIOUS
<1>2. /\ Caller(srv, W) /\ Alike(cl[c], W) /\ W.mine = cl[c].mine /\ W.at = cl[c].at /\ W.cache = cl[c].cache
      /\ W.last \in {cl[c].last, LoopWait + 1}
  BY <1>1, WatchedFacts
<1>3. /\ Caller(srv, L) /\ Alike(W, L) /\ L.mine = W.mine /\ L.last = W.last
      /\ \/ L = W
         \/ L.at \in 1..Len(srv.log) /\ L.cache = srv.log[L.at] /\ backend \in {"etcd", "raft"}
         \/ /\ L.at \in W.at + 1..Len(srv.log) /\ backend \in {"etcd3", "kubernetes"}
            /\ L.cache \in {W.cache, srv.log[L.at], NoKey}
  BY <1>1, <1>2, LearntFacts
<1>4. Alike(cl[c], L)
  BY <1>2, <1>3 DEF Alike
<1>5. QED
  BY <1>2, <1>3, <1>4

LEMMA CycleFacts ==
  ASSUME Sound, NEW c \in Clients, Cycle(c)
  PROVE  \E L, T, C, D : Cycled(c, L, T, C, D) /\ srv' = T /\ cl' = [cl EXCEPT ![c] = D] /\ backend' = backend
<1>1. cl[c].op = "idle" /\ backend' = backend
  BY DEF Cycle
<1> DEFINE new(C) ==
           CASE Leader(C) = None -> {Start(C, "acquire", ObservedVersion(C))}
             [] Leader(C) = c    ->
                  {Start(C, "update", C.cache.version)}
                  \cup (IF CaughtUp(C)
                        THEN {[Start(C, "delete", C.cache.version)
                                 EXCEPT !.since = TTL]} ELSE {})
             [] OTHER -> {Return(C, FALSE)}
<1>15. PICK W \in Watched(cl[c]) : \E L \in Learnt(srv, W) : \E r \in Loaded(srv, L) :
         \E D \in new(r.cl) : cl' = [cl EXCEPT ![c] = D] /\ srv' = r.srv
  BY DEF Cycle
<1>2. PICK L \in Learnt(srv, W) : \E r \in Loaded(srv, L) :
        \E D \in new(r.cl) : cl' = [cl EXCEPT ![c] = D] /\ srv' = r.srv
  BY <1>15
<1>16. \E X \in Watched(cl[c]) : L \in Learnt(srv, X)
  BY <1>2
<1>0. PICK r \in Loaded(srv, L) : \E D \in new(r.cl) : cl' = [cl EXCEPT ![c] = D] /\ srv' = r.srv
  BY <1>2
<1>3. PICK D \in new(r.cl) : cl' = [cl EXCEPT ![c] = D] /\ srv' = r.srv
  BY <1>0
<1> DEFINE C == r.cl
           T == r.srv
<1>4. Caller(srv, L) /\ Alike(cl[c], L)
  BY <1>16, SeenFacts
<1>5. LoadedAs(L, T, C)
  BY <1>0, <1>4, LoadFacts
<1>6. D \in new(C)
  BY <1>3
<1> HIDE DEF C, T
<1>7. /\ History(T) /\ Caller(T, C) /\ C.op = "idle" /\ C.view = C.cache /\ C.cache \in Keys /\ C.cache.version \in Nat
      /\ C.seen \in 0..TTL
  BY <1>1, <1>4, <1>5 DEF LoadedAs, Grown, Alike, Caller, Callers, Keys
<1>8. ObservedVersion(C) = C.cache.version
  BY <1>7 DEF ObservedVersion
<1>9. /\ Leader(C) = None => backend # "kubernetes" \/ C.view.owner = None \/ C.seen = TTL
      /\ Leader(C) = c => C.view.owner = c
  BY <1>7, Constants DEF Leader
<1>10. c # None
  BY Constants
<1>11. CASE D = Start(C, "acquire", C.cache.version) /\ Leader(C) = None
  <2>1. /\ Caller(T, D) /\ D.op = "acquire" /\ D.step = 1 /\ D.since \in {C.since, TTL} /\ D.mine = C.mine /\ D.at = C.at
        /\ D.cache = C.cache /\ D.view = C.view /\ D.seen = C.seen /\ D.t = 0 /\ D.last = C.last
        /\ backend = "kubernetes" => D.base = C.cache.version /\ \A i \in 1..Len(srv.log) : srv.log[i].stamp[2] # D.mark
    BY <1>7, <1>11, StartFacts
  <2>2. Cycled(c, L, T, C, D)
    BY <1>16, <1>5, <1>9, <1>11, <2>1 DEF Cycled
  <2>3. QED
    BY <1>1, <1>3, <2>2 DEF T
<1>12. CASE /\ D = Start(C, "update", C.cache.version) \/ (D = [Start(C, "delete", C.cache.version) EXCEPT !.since = TTL]
                                                          /\ CaughtUp(C))
            /\ Leader(C) = c
  <2>1. \E op \in {"update", "delete"} :
        /\ Caller(T, D) /\ D.op = op /\ D.step = 1 /\ D.since \in {C.since, TTL} /\ D.mine = C.mine /\ D.at = C.at
        /\ D.cache = C.cache /\ D.view = C.view /\ D.seen = C.seen /\ D.t = 0 /\ D.last = C.last
        /\ backend = "kubernetes" => D.base = C.cache.version /\ \A i \in 1..Len(srv.log) : srv.log[i].stamp[2] # D.mark
        /\ op = "delete" => C.at = Len(srv.log)
    <3>1. CASE D = Start(C, "update", C.cache.version)
      BY <1>7, <3>1, StartFacts
    <3>2. CASE D = [Start(C, "delete", C.cache.version) EXCEPT !.since = TTL] /\ CaughtUp(C)
      <4>1. D = Distrusting(Start(C, "delete", C.cache.version))
        BY <3>2 DEF Distrusting
      <4>2. C.at = Len(srv.log)
        BY <3>2 DEF CaughtUp
      <4>3. /\ Caller(T, D) /\ D.op = "delete" /\ D.step = 1 /\ D.since \in {C.since, TTL} /\ D.mine = C.mine
            /\ D.at = C.at /\ D.cache = C.cache /\ D.view = C.view /\ D.seen = C.seen /\ D.t = 0 /\ D.last = C.last
            /\ backend = "kubernetes" => D.base = C.cache.version /\ \A i \in 1..Len(srv.log) : srv.log[i].stamp[2] # D.mark
        BY <1>7, <4>1, StartFacts
      <4>4. QED
        BY <4>2, <4>3
    <3>3. QED
      BY <1>12, <3>1, <3>2
  <2>2. Cycled(c, L, T, C, D)
    BY <1>16, <1>5, <1>9, <1>12, <2>1 DEF Cycled
  <2>3. QED
    BY <1>1, <1>3, <2>2 DEF T
<1>13. CASE D = Return(C, FALSE)
  <2>1. Caller(T, D) /\ Returned(C, D, FALSE)
    BY <1>7, <1>13, ReturnFacts
  <2>2. Cycled(c, L, T, C, D)
    BY <1>16, <1>5, <2>1 DEF Cycled, Returned
  <2>3. QED
    BY <1>1, <1>3, <2>2 DEF T
<1>14. QED
  BY <1>6, <1>8, <1>10, <1>11, <1>12, <1>13

LEMMA CycleLeased ==
  ASSUME Sound, Leased, backend = "etcd3", NEW c \in Clients, NEW L, NEW T, NEW C, NEW D, Cycled(c, L, T, C, D)
  PROVE  LeasedAfter(c, T, D)
<1>1. /\ Alike(cl[c], L) /\ L.mine = cl[c].mine
      /\ \/ L.at = cl[c].at /\ L.cache = cl[c].cache
         \/ L.at \in cl[c].at + 1..Len(srv.log) /\ L.cache \in {cl[c].cache, srv.log[L.at], NoKey}
      /\ L.last \in {cl[c].last, LoopWait + 1}
  BY SeenFacts DEF Cycled
<1>2. /\ History(srv) /\ Caller(srv, cl[c]) /\ T.log = srv.log /\ Caller(T, C) /\ History(T) /\ Extends(srv, T)
      /\ C.at = L.at /\ C.cache = L.cache /\ C.view = L.cache
  BY DEF Sound, Cycled, LoadedAs, Grown
<1>3. D.mine = C.mine /\ D.at = L.at /\ D.cache = L.cache /\ D.view \in {L.cache, NoKey} /\ D.step = 1
      /\ D.last = C.last /\ (D.op = "delete" => D.at = Len(srv.log))
  BY <1>2 DEF Cycled
<1>4. cl[c].at \in Nat /\ Len(srv.log) \in Nat
  <2>1. cl[c].at \in 1..Len(srv.log)
    BY <1>2, CallerFacts
  <2>2. Len(srv.log) \in Nat
    BY <1>2, KeyOfFacts DEF History
  <2>3. QED
    BY <2>1, <2>2
<1>5. \E E : LeasedAfter(c, T, E) /\ E.mine = C.mine /\ E.at = cl[c].at /\ E.cache = cl[c].cache /\ E.view = cl[c].view
            /\ (C.mine # 0 /\ C.last <= LoopWait => T.lease[C.mine] <= C.last)
  <2>1. CASE T = srv /\ C.mine = L.mine /\ C.last = L.last
    <3>1. Lasting(srv, cl[c]) /\ Renewed(srv, cl[c])
      BY DEF Leased
    <3>2. LeasedAfter(c, srv, cl[c])
      BY <3>1, LeasedSame
    <3>3. C.mine # 0 /\ C.last <= LoopWait => T.lease[C.mine] <= C.last
      BY <1>1, <2>1, <3>1, Constants DEF Renewed
    <3>4. QED
      BY <1>1, <2>1, <3>2, <3>3
  <2>2. CASE \E V : V.mine = L.mine /\ Refreshed(srv, V, T, C)
    <3> DEFINE M == WithLease(cl[c], C.mine)
               E == Since(M, 0)
    <3>1. PICK V : V.mine = cl[c].mine /\ Refreshed(srv, V, T, C)
      BY <1>1, <2>2
    <3>2. Caller(T, cl[c])
      BY <1>2, CallerKept
    <3>3. C.mine \in 0..T.granted
      BY <1>2, CallerFacts
    <3>8. Caller(T, M) /\ Alike(cl[c], M) /\ M.mine = C.mine /\ M.at = cl[c].at /\ M.cache = cl[c].cache
      BY <1>2, <3>2, <3>3, MineFacts
    <3> HIDE DEF M
    <3>9. Caller(T, E) /\ Alike(M, E) /\ E.mine = C.mine /\ E.at = cl[c].at /\ E.cache = cl[c].cache /\ E.last = 0
      BY <1>2, <3>8, SinceFacts, Constants
    <3> HIDE DEF E
    <3>4. /\ Caller(T, E) /\ Alike(cl[c], E) /\ E.mine = C.mine /\ E.at = cl[c].at /\ E.cache = cl[c].cache
          /\ E.last = 0
      BY <3>8, <3>9 DEF Alike
    <3>5. Refreshed(srv, cl[c], T, E)
      BY <3>1, <3>4 DEF Refreshed
    <3>6. LeasedAfter(c, T, E)
      BY <3>5, LeasedRefresh
    <3>7. C.mine # 0 => T.lease[C.mine] = 0 /\ C.last = 0
      <4>1. C.mine \in 0..MaxLease
        BY <1>2 DEF Caller, Callers
      <4>2. QED
        BY <3>1, <4>1, Constants DEF Refreshed
    <3>10. C.mine # 0 /\ C.last <= LoopWait => T.lease[C.mine] <= C.last
      BY <3>7
    <3>11. QED
      BY <3>4, <3>6, <3>10 DEF Alike
  <2>3. QED
    BY <2>1, <2>2 DEF Cycled, LoadedAs
<1>6. PICK E : LeasedAfter(c, T, E) /\ E.mine = C.mine /\ E.at = cl[c].at /\ E.cache = cl[c].cache /\ E.view = cl[c].view
            /\ (C.mine # 0 /\ C.last <= LoopWait => T.lease[C.mine] <= C.last)
  BY <1>5
<1>7. L.at \in Nat /\ cl[c].at <= L.at
  BY <1>1, <1>4
<1>8. D.mine # 0 /\ Sees(T, D, D.mine) => Sees(T, E, E.mine)
  <2>1. SUFFICES ASSUME D.mine # 0, Sees(T, D, D.mine) PROVE Sees(T, E, E.mine)
    OBVIOUS
  <2>2. L.cache.session = D.mine => Sees(T, E, E.mine)
    BY <1>1, <1>2, <1>3, <1>6, <2>1, NoKeyType DEF Sees
  <2>3. ASSUME NEW i \in D.at + 1..Len(T.log), T.log[i].session = D.mine PROVE Sees(T, E, E.mine)
    <3>1. i \in E.at + 1..Len(T.log)
      BY <1>2, <1>3, <1>4, <1>6, <1>7
    <3>2. QED
      BY <1>3, <1>6, <2>3, <3>1 DEF Sees
  <2>4. D.cache.session = D.mine \/ D.view.session = D.mine \/ \E i \in D.at + 1..Len(T.log) : T.log[i].session = D.mine
    BY <2>1 DEF Sees
  <2>5. QED
    BY <1>3, <2>1, <2>2, <2>3, <2>4, NoKeyType
<1>9. Renewed(T, D)
  BY <1>3, <1>6 DEF Renewed
<1>10. D.op = "delete" => \A i \in D.at + 1..Len(T.log) : FALSE
  BY <1>2, <1>3, <1>4
<1>11. QED
  BY <1>3, <1>6, <1>8, <1>9, <1>10, LeasedLearnt

LEMMA CycleObserved ==
  ASSUME Sound, Observed, backend = "kubernetes", NEW c \in Clients, NEW L, NEW T, NEW C, NEW D, Cycled(c, L, T, C, D),
         srv' = T, cl' = [cl EXCEPT ![c] = D]
  PROVE  Observed'
<1>1. Alike(cl[c], L) /\ History(srv) /\ \A d \in Clients : Caller(srv, cl[d])
  BY SeenFacts DEF Cycled, Sound
<1>2. T = srv /\ Caller(srv, D) /\ D.cache = L.cache /\ D.view = L.cache /\ C.cache = L.cache /\ C.view = L.cache
      /\ D.seen = SeenFor(L) /\ D.since \in {TTL, L.since} /\ D.seen = C.seen
  BY DEF Cycled, LoadedAs
<1>3. L.since = cl[c].since /\ L.seen = cl[c].seen /\ L.view = cl[c].view
  BY <1>1 DEF Alike
<1>4. D.seen = 0 \/ (D.seen = cl[c].seen /\ Record(D.view) = Record(cl[c].view))
  BY <1>2, <1>3 DEF SeenFor
<1>5. \A d \in Clients : cl[d].t \in 0..TTL /\ cl[d].since \in 0..TTL
  BY <1>1, CallerFacts
<1>6. Copy(srv, D.cache) /\ Copy(srv, D.view) /\ D.cache \in Keys /\ D.view \in Keys /\ srv.rev \in Nat
      /\ Len(srv.log) = srv.rev + 1
  BY <1>1, <1>2, KeyOfFacts DEF Caller, Callers, History
<1>7. ASSUME NEW k \in Keys, Copy(srv, k) PROVE \E i \in 1..Len(srv.log) : k = srv.log[i]
  BY <1>1, <1>7, CopyIsEntry
<1>8. Conditional(srv, D, c)
  <2>1. CASE D.op = "idle"
    BY <2>1 DEF Conditional
  <2>2. CASE D.op # "idle"
    <3>1. /\ D.base = D.cache.version
          /\ D.op = "acquire" => D.view.owner = None \/ D.seen = TTL
          /\ D.op \in {"update", "delete"} => D.view.owner = c
      BY <1>2, <2>2 DEF Cycled
    <3>2. D.base <= srv.rev /\ srv.log[D.base + 1] = D.view
      BY <1>2, <1>6, <3>1 DEF Copy
    <3>3. QED
      BY <3>1, <3>2 DEF Conditional
  <2>3. QED
    BY <2>1, <2>2
\* The mark of the new call is on no copy.
<1>9. ASSUME D.op # "idle", NEW k \in Keys, Copy(srv, k) PROVE k.stamp # Stamp(D, c)
  <2>1. PICK i \in 1..Len(srv.log) : k = srv.log[i]
    BY <1>7, <1>9
  <2>2. srv.log[i].stamp[2] # D.mark
    BY <1>9 DEF Cycled
  <2>3. Stamp(D, c)[2] = D.mark
    BY DEF Stamp
  <2>4. QED
    BY <2>1, <2>2, <2>3
<1>10. \A d, e \in Clients : SeenLater(srv, cl[d], d, cl[e])
  BY DEF Observed
<1>11. ASSUME NEW d \in Clients PROVE SeenLater(srv, cl[d], d, D)
  <2>1. SeenLater(srv, cl[d], d, cl[c]) /\ 0 <= cl[d].t /\ 0 <= cl[d].since
    BY <1>5, <1>10
  <2>2. CASE D.seen = 0
    BY <2>1, <2>2 DEF SeenLater
  <2>3. CASE D.seen = cl[c].seen /\ Record(D.view) = Record(cl[c].view)
    BY <2>1, <2>3 DEF SeenLater, Record
  <2>4. QED
    BY <1>4, <2>2, <2>3
<1>12. ASSUME NEW X, X.view \in Keys, Copy(srv, X.view), SeenLater(srv, cl[c], c, X)
       PROVE  SeenLater(srv, D, c, X)
  <2>1. D.op # "idle" => X.view.stamp # Stamp(D, c)
    BY <1>9, <1>12
  <2>2. D.since < TTL => D.since = cl[c].since
    BY <1>2, <1>3, Constants
  <2>3. QED
    BY <1>12, <2>1, <2>2 DEF SeenLater
<1>13. \A e \in Clients : SeenLater(srv, D, c, cl[e])
  BY <1>1, <1>10, <1>12 DEF Caller, Callers
<1>14. SeenLater(srv, D, c, D)
  BY <1>6, <1>11, <1>12
<1> DEFINE f == cl'
<1>15. f[c] = D /\ \A d \in Clients \ {c} : f[d] = cl[d]
  BY DEF Sound
<1> HIDE DEF f
<1>16. \A d \in Clients : Conditional(srv, f[d], d)
  BY <1>8, <1>15 DEF Observed
<1>17. \A d, e \in Clients : SeenLater(srv, f[d], d, f[e])
  BY <1>10, <1>11, <1>13, <1>14, <1>15
<1>18. QED
  BY <1>2, <1>16, <1>17 DEF Observed, f

LEMMA CycleStep ==
  ASSUME Inv, NEW c \in Clients, Cycle(c)
  PROVE  Inv' /\ Contract
<1>1. Sound /\ HeldByAll /\ Within(srv)
  BY DEF Inv, Sound
<1>2. PICK L, T, C, D : Cycled(c, L, T, C, D) /\ srv' = T /\ cl' = [cl EXCEPT ![c] = D] /\ backend' = backend
  BY <1>1, CycleFacts
<1>3. Alike(cl[c], L)
  BY <1>1, <1>2, SeenFacts DEF Cycled
<1>4. /\ Grown(srv, T) /\ KeyOf(T) = KeyOf(srv) /\ T.rev = srv.rev /\ T.doomed = srv.doomed /\ Caller(T, D)
      /\ \A s \in 1..MaxLease : T.lease[s] \in {srv.lease[s], 0}
      /\ D.since \in {TTL, cl[c].since}
  BY <1>2, <1>3 DEF Cycled, LoadedAs, Alike
<1>5. Outcome(c, T, D)
  BY <1>1, <1>4, KeyStays
<1>6. Within(T) /\ D \in Callers /\ DoomedAfter(T, D, c)
  BY <1>1, <1>4 DEF Within, Caller, DoomedAfter
<1>7. Sound' /\ HeldByAll' /\ Contract
  BY <1>1, <1>2, <1>5, <1>6, OutcomeStep
<1>8. backend = "raft" => Doomed'
  BY <1>1, <1>2, <1>4, <1>6, DoomedStep DEF Inv
<1>9. backend = "etcd3" => Leased'
  <2>1. SUFFICES ASSUME backend = "etcd3" PROVE Leased'
    OBVIOUS
  <2>2. LeasedAfter(c, T, D)
    BY <1>1, <1>2, <2>1, CycleLeased DEF Inv
  <2>3. QED
    BY <1>1, <1>2, <1>6, <2>1, <2>2, LeasedStep DEF Inv
<1>10. backend = "kubernetes" => Observed'
  BY <1>1, <1>2, CycleObserved DEF Inv
<1>11. QED
  BY <1>2, <1>7, <1>8, <1>9, <1>10 DEF Inv

-----------------------------------------------------------------------------
(* The beginning *)

\* Clients with sessions have one each.
LEMMA GrantedFacts ==
  ASSUME NEW mine \in [Clients -> 0..Cardinality(Clients)],
         \/ \A c, d \in Clients : mine[c] # 0 /\ (c # d => mine[c] # mine[d])
         \/ \A c \in Clients : mine[c] = 0
  PROVE  LET g == Cardinality({mine[c] : c \in Clients} \ {0})
         IN  g \in 0..MaxLease /\ \A c \in Clients : mine[c] \in 0..g
<1> DEFINE N == Cardinality(Clients)
           G == {mine[c] : c \in Clients} \ {0}
<1>1. IsFiniteSet(Clients) /\ N \in Nat /\ N <= MaxLease /\ MaxLease \in Nat
  BY BoundsAssumption, FS_CardinalityType
<1>2. CASE \A c \in Clients : mine[c] = 0
  <2>1. G = {}
    BY <1>2
  <2>2. Cardinality(G) = 0
    BY <2>1, FS_EmptySet
  <2>3. QED
    BY <1>1, <1>2, <2>2
<1>3. CASE \A c, d \in Clients : mine[c] # 0 /\ (c # d => mine[c] # mine[d])
  <2>1. G = {mine[c] : c \in Clients}
    BY <1>3
  <2>2. mine \in Surjection(Clients, G)
    <3>1. mine \in [Clients -> G]
      BY <2>1
    <3>2. \A g \in G : \E c \in Clients : mine[c] = g
      BY <2>1
    <3>3. QED
      BY <3>1, <3>2 DEF Surjection
  <2>3. mine \in Injection(Clients, G)
    <3>1. mine \in [Clients -> G] /\ \A c, d \in Clients : mine[c] = mine[d] => c = d
      BY <1>3, <2>1
    <3>2. QED
      BY <3>1 DEF Injection, IsInjective
  <2>4. Cardinality(G) = N
    BY <1>1, <2>2, <2>3, FS_Surjection
  <2>5. QED
    BY <1>1, <2>4
<1>4. QED
  BY <1>2, <1>3

LEMMA InitInv ==
  ASSUME Backends \subseteq Good, Init
  PROVE  Inv /\ Lease!Init
<1>1. PICK mine \in [Clients -> 0..Cardinality(Clients)] :
       /\ IF backend \in {"etcd3", "consul", "zookeeper"}
          THEN \A c, d \in Clients : mine[c] # 0 /\ (c # d => mine[c] # mine[d])
          ELSE \A c \in Clients : mine[c] = 0
       /\ srv = [log |-> <<NoKey>>, rev |-> 0, doomed |-> 0,
                 granted |-> Cardinality({mine[c] : c \in Clients} \ {0}),
                 lease |-> [s \in 1..MaxLease |->
                              IF \E c \in Clients : mine[c] = s THEN 0 ELSE Dead]]
       /\ cl = [c \in Clients |->
                  [op |-> "idle", step |-> 1, base |-> 0, mark |-> 0,
                   mine |-> mine[c], at |-> 1, cache |-> NoKey, view |-> NoKey,
                   since |-> TTL, t |-> 0, seen |-> TTL,
                   last |-> IF mine[c] # 0 THEN 0 ELSE LoopWait + 1]]
  BY DEF Init
<1> DEFINE g == Cardinality({mine[c] : c \in Clients} \ {0})
           l == [s \in 1..MaxLease |-> IF \E c \in Clients : mine[c] = s THEN 0 ELSE Dead]
<1>2. backend \in Good
  BY DEF Init
<1>3. \/ \A c, d \in Clients : mine[c] # 0 /\ (c # d => mine[c] # mine[d])
      \/ \A c \in Clients : mine[c] = 0
  BY <1>1
<1>4. g \in 0..MaxLease /\ \A c \in Clients : mine[c] \in 0..g
  BY <1>3, GrantedFacts
<1>5. l \in [1..MaxLease -> Dead..TTL]
  BY Constants DEF Dead
<1>6. srv = [log |-> <<NoKey>>, rev |-> 0, doomed |-> 0, granted |-> g, lease |-> l]
  BY <1>1
<1>fresh. \A c \in Clients : mine[c] # 0 => l[mine[c]] = 0
  BY <1>4, Constants
<1> HIDE DEF g, l
<1>7. /\ srv.log = <<NoKey>> /\ srv.rev = 0 /\ srv.doomed = 0 /\ srv.granted = g
      /\ Len(srv.log) = 1 /\ srv.log[1] = NoKey /\ KeyOf(srv) = NoKey
  BY <1>6 DEF KeyOf
<1>8. <<NoKey>> \in Seq(Keys)
  BY NoKeyType
<1>9. History(srv)
  <2>1. srv \in Servers
    BY <1>4, <1>5, <1>6, <1>8 DEF Servers
  <2>2. 0 <= MaxRev[backend] + 1
    BY <1>2, Constants
  <2>3. \A i \in 1..Len(srv.log) : i = 1
    BY <1>7
  <2>4. QED
    BY <1>7, <2>1, <2>2, <2>3, NoKeyType DEF History
<1>10. \A c \in Clients : /\ cl[c].op = "idle" /\ cl[c].step = 1 /\ cl[c].base = 0 /\ cl[c].mark = 0 /\ cl[c].mine = mine[c]
                          /\ cl[c].at = 1 /\ cl[c].cache = NoKey /\ cl[c].view = NoKey /\ cl[c].since = TTL
                          /\ cl[c].t = 0 /\ cl[c].seen = TTL /\ cl[c] \in Callers
                          /\ (cl[c].last <= LoopWait => cl[c].mine # 0 /\ cl[c].last = 0)
  <2>1. ASSUME NEW c \in Clients PROVE /\ mine[c] \in 0..MaxLease /\ TTL \in 0..TTL /\ 0 \in 0..TTL
                                     /\ 0 \in 0..LoopWait + 1 /\ LoopWait + 1 \in 0..LoopWait + 1
                                     /\ ~(LoopWait + 1 <= LoopWait)
    BY <1>4, Constants
  <2>2. QED
    BY <1>1, <2>1, NoKeyType DEF Callers
<1>11. cl \in [Clients -> Callers]
  BY <1>1, <1>10
<1>12. ASSUME NEW c \in Clients PROVE Caller(srv, cl[c])
  <2>1. mine[c] <= g /\ 0 <= MaxRev[backend] + 1 /\ 0 <= TTL
    BY <1>2, <1>4, Constants
  <2>2. Copy(srv, NoKey)
    BY <1>9, KeyOfFacts
  <2>3. QED
    BY <1>7, <1>10, <2>1, <2>2 DEF Caller
<1>13. Within(srv)
  BY <1>2, <1>7, Constants DEF Within
<1>14. Sound
  BY <1>2, <1>9, <1>11, <1>12, <1>13 DEF Sound
<1>15. HeldByAll
  BY <1>10, Constants DEF HeldByAll, Held
<1>16. Doomed
  BY <1>7 DEF Doomed
<1>17. backend = "etcd3" => Leased
  <2>1. SUFFICES ASSUME backend = "etcd3" PROVE Leased
    OBVIOUS
  <2>2. \A c, d \in Clients : c # d => mine[c] # mine[d]
    BY <1>1, <2>1
  <2>3. \A i \in 1..Len(srv.log) : srv.log[i] = NoKey /\ i = 1
    BY <1>7
  <2>4. Owned
    BY <1>4, <1>7, <1>10, <2>2, <2>3, NoKeyType DEF Owned
  <2>5. ASSUME NEW c \in Clients PROVE Lasting(srv, cl[c]) /\ Renewed(srv, cl[c])
    <3>1. Renewed(srv, cl[c])
      <4>1. cl[c].mine # 0 => srv.lease[cl[c].mine] = 0
        BY <1>6, <1>10, <1>fresh
      <4>2. QED
        BY <1>10, <4>1 DEF Renewed
    <3>2. Lasting(srv, cl[c])
      BY <1>7, <1>10, <2>3 DEF Lasting, Sees
    <3>3. QED
      BY <3>1, <3>2
  <2>6. QED
    BY <2>4, <2>5 DEF Leased
<1>18. backend = "kubernetes" => Observed
  <2>1. \A c \in Clients : Conditional(srv, cl[c], c)
    BY <1>10 DEF Conditional
  <2>2. ~(TTL < TTL)
    BY Constants
  <2>3. \A c, d \in Clients : SeenLater(srv, cl[c], c, cl[d])
    BY <1>10, <2>2 DEF SeenLater
  <2>4. QED
    BY <2>1, <2>3 DEF Observed
<1>19. Lease!Init
  <2>1. Trusting = {}
    BY <1>10, Constants DEF Trusting
  <2>2. QED
    BY <1>7, <2>1, NoKeyType DEF Lease!Init
<1>20. QED
  BY <1>14, <1>15, <1>16, <1>17, <1>18, <1>19 DEF Inv

-----------------------------------------------------------------------------
(* Every step *)

LEMMA NextInv ==
  ASSUME Inv, [Next]_vars
  PROVE  Inv' /\ Contract
<1>1. CASE UNCHANGED vars
  <2>1. UNCHANGED <<backend, srv, cl>>
    BY <1>1 DEF vars
  <2>2. Inv'
    <3>1. Sound' /\ HeldByAll'
      BY <2>1 DEF Inv, Sound, HeldByAll, History, Caller, Held, Within
    <3>2. (backend = "raft" => Doomed)' /\ (backend = "etcd3" => Leased)' /\ (backend = "kubernetes" => Observed)'
      BY <2>1 DEF Inv, Doomed, Leased, Owned, Renewed, Age, Observed, KeyOf
    <3>3. QED
      BY <3>1, <3>2 DEF Inv
  <2>3. Contract
    BY <2>1 DEF Contract, Lease!vars, Trusting, KeyOf
  <2>4. QED
    BY <2>2, <2>3
<1>2. CASE Tick
  BY <1>2, TickStep
<1>3. CASE Expire
  BY <1>3, ExpireStep
<1>4. CASE ProposeExpire
  BY <1>4, ProposeStep
<1>5. CASE ApplyExpire
  BY <1>5, ApplyStep
<1>6. CASE Foreign
  BY <1>6, ForeignStep
<1>7. ASSUME NEW c \in Clients, Answer(c) PROVE Inv' /\ Contract
  BY <1>7, AnswerStep
<1>8. ASSUME NEW c \in Clients, Resend(c) PROVE Inv' /\ Contract
  BY <1>8, ResendStep
<1>9. ASSUME NEW c \in Clients, Raise(c) PROVE Inv' /\ Contract
  BY <1>9, RaiseStep
<1>10. ASSUME NEW c \in Clients, Cycle(c) PROVE Inv' /\ Contract
  BY <1>10, CycleStep
<1>11. ASSUME NEW c \in Clients, Watch(c) PROVE Inv' /\ Contract
  BY <1>11, WatchStep
<1>12. ASSUME NEW c \in Clients, NewTTL(c) PROVE Inv' /\ Contract
  BY <1>12, NewTTLStep
<1>13. QED
  BY <1>1, <1>2, <1>3, <1>4, <1>5, <1>6, <1>7, <1>8, <1>9, <1>10, <1>11, <1>12 DEF Next

LEMMA AlwaysInv ==
  ASSUME Backends \subseteq Good
  PROVE  Spec => []Inv
<1>1. Init => Inv
  BY InitInv
<1>2. Inv /\ [Next]_vars => Inv'
  BY NextInv
<1>3. QED
  BY <1>1, <1>2, PTL DEF Spec

\* The history of the key, its leases, and what each client has seen and holds stay within their types.
THEOREM TypeCorrect ==
  ASSUME Backends \subseteq Good
  PROVE  Spec => []TypeOK
<1>1. Inv /\ backend \in Backends => TypeOK
  <2>1. SUFFICES ASSUME Inv, backend \in Backends PROVE TypeOK
    OBVIOUS
  <2> DEFINE M == MaxRev[backend]
  <2>2. /\ Sound /\ History(srv) /\ M \in Nat /\ srv.rev \in Nat /\ srv.rev <= M /\ Len(srv.log) = srv.rev + 1
        /\ srv.granted \in 0..MaxLease /\ srv.lease \in [1..MaxLease -> Dead..TTL] /\ srv.log \in Seq(Keys)
    BY <2>1, KeyOfFacts, Constants DEF Inv, Sound, Within, History, Servers
  <2> HIDE DEF M
  <2>3. ASSUME NEW k \in Keys, k.version <= M, k.stamp[2] <= M + 1 PROVE k \in KeyType
    <3>1. k.stamp \in (Clients \cup {None}) \X (0..M + 1)
      BY <2>2, <2>3 DEF Keys, Stamps
    <3>2. k.version \in 0..M
      BY <2>2, <2>3 DEF Keys
    <3>3. QED
      BY <3>1, <3>2 DEF Keys, KeyType, M
  <2>4. \A i \in 1..Len(srv.log) : srv.log[i] \in KeyType
    <3>1. ASSUME NEW i \in 1..Len(srv.log) PROVE srv.log[i] \in KeyType
      <4>1. srv.log[i] \in Keys /\ srv.log[i].version = i - 1 /\ srv.log[i].stamp[2] <= M + 1
        BY <2>2, KeyOfFacts DEF History, M
      <4>2. srv.log[i].version <= M
        BY <2>2, <4>1
      <4>3. QED
        BY <2>3, <4>1, <4>2
    <3>2. QED
      BY <3>1
  <2>5. srv.log \in Seq(KeyType)
    <3>1. PICK n \in Nat : srv.log \in [1..n -> Keys]
      BY <2>2, SeqDef
    <3>2. 1..n = 1..Len(srv.log)
      BY <2>2, <3>1
    <3>3. srv.log \in [1..n -> KeyType]
      BY <2>4, <3>1, <3>2
    <3>4. QED
      BY <3>1, <3>3, SeqDef
  <2>6. ASSUME NEW c \in Clients
        PROVE  /\ cl[c].op \in {"idle", "acquire", "update", "delete"}
               /\ cl[c].mine \in 0..srv.granted
               /\ cl[c].cache \in KeyType /\ cl[c].view \in KeyType
               /\ cl[c].at \in 1..Len(srv.log)
               /\ cl[c].since \in 0..TTL /\ cl[c].t \in 0..TTL /\ cl[c].seen \in 0..TTL
               /\ cl[c].last \in 0..LoopWait + 1
    <3>1. Caller(srv, cl[c])
      BY <2>2 DEF Sound
    <3>2. ASSUME NEW k \in Keys, Copy(srv, k) PROVE k \in KeyType
      <4>1. k.version + 1 \in 1..Len(srv.log) /\ k = srv.log[k.version + 1]
        BY <2>2, <3>2, CopyIsEntry
      <4>2. QED
        BY <2>4, <4>1
    <3>3. cl[c].cache \in KeyType /\ cl[c].view \in KeyType
      BY <3>1, <3>2 DEF Caller, Callers
    <3>4. QED
      BY <2>2, <3>1, <3>3, CallerFacts DEF Caller, Callers
  <2>7. srv.rev \in 0..M
    BY <2>2
  <2>8. QED
    BY <2>1, <2>2, <2>5, <2>6, <2>7 DEF TypeOK, M
<1>2. Init => backend \in Backends
  BY Zenon DEF Init
<1>3. backend \in Backends /\ [Next]_vars => (backend \in Backends)'
  BY Zenon DEF Next, vars, Tick, Expire, ProposeExpire, ApplyExpire, Foreign, Answer, Resend, Raise, Cycle, Watch, NewTTL
<1>4. QED
  BY <1>1, <1>2, <1>3, AlwaysInv, PTL DEF Spec

\* With etcd, etcd v3, Raft or Kubernetes two nodes are never at the same time within the ttl of an answer
\* that they hold the leader key, whatever replies are lost or late, whatever copies are stale, whenever
\* leases run out, and also when the lease of an acquisition was used up in part (etcd v3).
THEOREM AtMostOneTrusts ==
  ASSUME Backends \subseteq Good
  PROVE  Spec => []Exclusive
<1>1. Inv => Exclusive
  <2>1. SUFFICES ASSUME Inv PROVE Exclusive
    OBVIOUS
  <2>2. Trusting \subseteq {KeyOf(srv).owner}
    BY <2>1 DEF Inv, HeldByAll, Held, Trusting
  <2>3. CASE Trusting = {}
    BY <2>3, FS_EmptySet DEF Exclusive
  <2>4. CASE Trusting = {KeyOf(srv).owner}
    <3>1. Cardinality(Trusting) = 1
      BY <2>4, FS_Singleton
    <3>2. QED
      BY <3>1 DEF Exclusive
  <2>5. QED
    BY <2>2, <2>3, <2>4
<1>2. QED
  BY <1>1, AlwaysInv, PTL

\* Each of the four backends implements the contract of AbstractDCS: the key changes hands only when nobody
\* is within the ttl of an answer that it is held (as Age counts it), and that answer reaches only the
\* client it is true for.
THEOREM TheLeaseIsKept ==
  ASSUME Backends \subseteq Good
  PROVE  Spec => LeaseSpec
<1>1. Init => Lease!Init
  BY InitInv
<1>2. Inv /\ [Next]_vars => [Lease!Next]_(Lease!vars)
  BY NextInv DEF Contract
<1>3. QED
  BY <1>1, <1>2, AlwaysInv, PTL DEF Spec, LeaseSpec, Lease!Spec
=============================================================================
