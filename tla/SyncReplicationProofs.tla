------------------------ MODULE SyncReplicationProofs ------------------------
(***************************************************************************)
(* What holds of SyncReplication for any number of nodes, any numbers of   *)
(* synchronous nodes, and any faults.                                      *)
(***************************************************************************)
EXTENDS SyncReplication, TLAPS, FiniteSetTheorems, SequenceTheorems, WellFoundedInduction

\* A set of nodes has at most N members.
LEMMA NodesAreFinite ==
  ASSUME NEW S, S \subseteq Nodes
  PROVE  IsFiniteSet(S) /\ Cardinality(S) \in Nat /\ Cardinality(S) <= N
<1>1. IsFiniteSet(Nodes) /\ Cardinality(Nodes) = N
  <2>1. N \in Nat /\ 1 \in Int /\ N \in Int
    BY SyncAssumption
  <2>2. QED
    BY <2>1, FS_Interval, SyncAssumption DEF Nodes
<1>2. IsFiniteSet(S) /\ Cardinality(S) <= N
  BY <1>1, FS_Subset
<1>3. QED
  BY <1>2, FS_CardinalityType

\* A subset of a set of nodes is smaller, or is that set.
LEMMA SmallerSet ==
  ASSUME NEW S, NEW T, S \subseteq T, T \subseteq Nodes
  PROVE  Cardinality(S) <= Cardinality(T) /\ (Cardinality(S) = Cardinality(T) => S = T)
BY NodesAreFinite, FS_Subset

\* A node more.
LEMMA WithNode ==
  ASSUME NEW S, S \subseteq Nodes, NEW n \in Nodes, n \notin S
  PROVE  Cardinality(S \cup {n}) = Cardinality(S) + 1
BY NodesAreFinite, FS_AddElement

\* No members, no nodes.
LEMMA NoNodes == Cardinality({}) = 0 /\ \A S : S \subseteq Nodes /\ Cardinality(S) = 0 => S = {}
BY NodesAreFinite, FS_EmptySet

-----------------------------------------------------------------------------
(* The list of changes the resolver makes *)

\* What is in force before the i-th change of out, if it is start before the first: changes of
\* the two kinds alternate.
Before(out, i, start) == IF i = 1 THEN start ELSE out[i - 1]

\* Voters of which any num + 1 with the leader ... overlap with any num nodes that acknowledge.
Meets(e, f, L) == e.names = {} \/ Cardinality(e.names \cup f.names \cup {L}) <= e.num + f.num + 1

\* A change e of /sync fits f, what is asked of the standbys when it is made.
KeyFits(e, f, L) ==
  /\ e.leader = L /\ L \notin e.names
  /\ Meets(e, f, L)
  /\ f.num = 0 => e.names = {}
  /\ e.names = {} => e.num = 0

\* A change f of synchronous_standby_names fits e, the /sync of that time, the leader's or the one
\* that it takes over.
SsnFits(f, e, L) ==
  /\ f.num <= Cardinality(f.names) /\ L \notin f.names
  /\ e.leader = L => Meets(e, f, L) /\ (f.names = {} => e.names = {})
  /\ e.leader # L => Cardinality(e.names \cup {e.leader} \cup f.names \cup {L}) <= e.num + f.num + 1

Trace(out, k, s, L) ==
  \A i \in 1 .. Len(out) :
    /\ out[i].type = "restart" => i = Len(out)
    /\ i > 1 => out[i - 1].type # out[i].type
    /\ out[i].type = "quorum" => KeyFits(out[i], Before(out, i, s), L)
    /\ out[i].type = "sync" => SsnFits(out[i], Before(out, i, k), L)

IsKey(e, r) == e.num = r.quorum /\ e.names = r.voters /\ e.leader = r.leader
IsSsn(f, r) == f.num = r.numsync /\ f.names = r.sync

\* The attributes of the resolver are what the list leads to.
LatestKey(r, k) ==
  LET n == Len(r.out)
  IN IF r.out = <<>> THEN IsKey(k, r)
     ELSE /\ r.out[n].type = "quorum" => IsKey(r.out[n], r)
          /\ r.out[n].type = "sync" => IsKey(Before(r.out, n, k), r)
LatestSsn(r, s) ==
  LET n == Len(r.out)
  IN IF r.out = <<>> THEN IsSsn(s, r)
     ELSE /\ r.out[n].type = "quorum" => IsSsn(Before(r.out, n, s), r)
          /\ r.out[n].type = "sync" => IsSsn(r.out[n], r)

Changes == [type : {"sync", "quorum", "restart"}, num : Nat, names : SUBSET Nodes, leader : Nodes]

\* __iter__ yields a list of changes, and it is not empty.
LEMMA MergedIsTyped ==
  ASSUME NEW out \in Seq(Changes), NEW t \in Changes
  PROVE  Merged(out, t) \in Seq(Changes) /\ Merged(out, t) # <<>>
<1>1. CASE out = <<>>
  BY <1>1 DEF Merged
<1>2. CASE out # <<>>
  <2>1. Len(out) \in 1 .. Len(out)
    BY <1>2
  <2>2. Append(out, t) \in Seq(Changes) /\ Append(out, t) # <<>>
    <3>1. Append(out, t) \in Seq(Changes) /\ Len(Append(out, t)) = Len(out) + 1 /\ Len(out) \in Nat
      OBVIOUS
    <3>2. Len(<<>>) = 0 /\ Len(out) + 1 # 0
      BY <3>1
    <3>3. QED
      BY <3>1, <3>2
  <2>3. [out EXCEPT ![Len(out)] = t] \in Seq(Changes) /\ [out EXCEPT ![Len(out)] = t] # <<>>
    BY <2>1, <1>2
  <2>4. QED
    BY <1>2, <2>2, <2>3 DEF Merged
<1>3. QED
  BY <1>1, <1>2

\* A change that fits what is in force after the others goes on the list.
LEMMA Extended ==
  ASSUME NEW L \in Nodes, NEW k, NEW s, NEW out \in Seq(Changes), Trace(out, k, s, L),
         NEW t \in Changes,
         LET n == Len(out)
             m == IF out # <<>> /\ out[n].type = t.type THEN n ELSE n + 1
         IN out = <<>> \/ out[n].type # "restart" =>
              /\ t.type = "quorum" => KeyFits(t, Before(out, m, s), L)
              /\ t.type = "sync" => SsnFits(t, Before(out, m, k), L)
  PROVE  Trace(Merged(out, t), k, s, L)
<1> DEFINE n == Len(out)
           new == Merged(out, t)
<1>1. CASE out = <<>>
  <2>1. new = <<t>> /\ Len(new) = 1 /\ new[1] = t
    BY <1>1 DEF Merged
  <2>2. /\ t.type = "quorum" => KeyFits(t, s, L)
        /\ t.type = "sync" => SsnFits(t, k, L)
    BY <1>1 DEF Before
  <2>3. \A i \in 1 .. Len(new) : i = 1 /\ Before(new, i, s) = s /\ Before(new, i, k) = k
    BY <2>1 DEF Before
  <2>4. SUFFICES ASSUME NEW i \in 1 .. Len(new)
        PROVE  /\ new[i].type = "restart" => i = Len(new)
               /\ i > 1 => new[i - 1].type # new[i].type
               /\ new[i].type = "quorum" => KeyFits(new[i], Before(new, i, s), L)
               /\ new[i].type = "sync" => SsnFits(new[i], Before(new, i, k), L)
    BY DEF Trace
  <2>5. i = 1 /\ new[i] = t /\ Before(new, i, s) = s /\ Before(new, i, k) = k
    BY <2>1, <2>3
  <2> HIDE DEF new
  <2>6. QED
    BY <2>1, <2>2, <2>5
<1>2. CASE out # <<>> /\ out[n].type = "restart"
  BY <1>2 DEF Merged
<1>3. CASE out # <<>> /\ out[n].type # "restart" /\ out[n].type = t.type
  <2>1. n \in 1 .. n /\ new = [out EXCEPT ![n] = t]
    BY <1>3 DEF Merged
  <2>2. Len(new) = n /\ new[n] = t /\ \A i \in 1 .. n : i # n => new[i] = out[i]
    BY <2>1
  <2>3. SUFFICES ASSUME NEW i \in 1 .. n
        PROVE  /\ new[i].type = "restart" => i = n
               /\ i > 1 => new[i - 1].type # new[i].type
               /\ new[i].type = "quorum" => KeyFits(new[i], Before(new, i, s), L)
               /\ new[i].type = "sync" => SsnFits(new[i], Before(new, i, k), L)
    BY <2>2 DEF Trace
  <2>4. Before(new, i, s) = Before(out, i, s) /\ Before(new, i, k) = Before(out, i, k)
    BY <2>2 DEF Before
  <2>5. new[i].type = out[i].type /\ (i > 1 => new[i - 1].type = out[i - 1].type)
    BY <2>2, <1>3
  <2>6. CASE i = n
    BY <2>2, <2>4, <2>5, <2>6, <1>3 DEF Trace
  <2>7. CASE i # n
    BY <2>2, <2>4, <2>5, <2>7 DEF Trace
  <2>8. QED
    BY <2>6, <2>7
<1>4. CASE out # <<>> /\ out[n].type # "restart" /\ out[n].type # t.type
  <2>1. new = Append(out, t)
    BY <1>4 DEF Merged
  <2>2. Len(new) = n + 1 /\ new[n + 1] = t /\ \A i \in 1 .. n : new[i] = out[i]
    BY <2>1
  <2>3. SUFFICES ASSUME NEW i \in 1 .. n + 1
        PROVE  /\ new[i].type = "restart" => i = n + 1
               /\ i > 1 => new[i - 1].type # new[i].type
               /\ new[i].type = "quorum" => KeyFits(new[i], Before(new, i, s), L)
               /\ new[i].type = "sync" => SsnFits(new[i], Before(new, i, k), L)
    BY <2>2 DEF Trace
  <2>4. n \in 1 .. n /\ \A j \in 1 .. n : out[j].type = "restart" => j = n
    BY <1>4 DEF Trace
  <2>5. Before(new, i, s) = Before(out, i, s) /\ Before(new, i, k) = Before(out, i, k)
    BY <2>2 DEF Before
  <2>6. CASE i = n + 1
    BY <2>2, <2>4, <2>5, <2>6, <1>4
  <2>7. CASE i # n + 1
    BY <2>2, <2>4, <2>5, <2>7, <1>4, SMTT(60) DEF Trace
  <2>8. QED
    BY <2>6, <2>7
<1>5. QED
  BY <1>1, <1>2, <1>3, <1>4
-----------------------------------------------------------------------------
(* The two updates *)

Resolvers(L) ==
  [leader : Nodes, quorum : Nat, voters : SUBSET Nodes, numsync : Nat, sync : SUBSET (Nodes \ {L}),
   confirmed : Int, active : SUBSET (Nodes \ {L}), wanted : Nat \ {0}, leaderWanted : {L},
   out : Seq(Changes), failed : BOOLEAN]

\* A resolver for leader L that began with k in /sync and s in synchronous_standby_names.
Known(r, k, s, L) ==
  /\ r \in Resolvers(L) /\ ~r.failed
  /\ r.leader \notin r.voters /\ r.numsync <= Cardinality(r.sync)
  /\ Trace(r.out, k, s, L) /\ LatestSsn(r, s)
Base(r, k, s, L) == Known(r, k, s, L) /\ LatestKey(r, k)

\* Once /sync is the leader's.
Good(r, k, s, L) ==
  /\ Base(r, k, s, L) /\ r.leader = L
  /\ r.numsync = 0 => r.voters = {}
  /\ r.voters = {} => r.quorum = 0

\* What no update changes.
Fixed(u, r) ==
  /\ u.confirmed = r.confirmed /\ u.active = r.active /\ u.wanted = r.wanted
  /\ u.leaderWanted = r.leaderWanted

\* Overlap, with the leader counted once.
LEMMA OverlapMeets ==
  ASSUME NEW L \in Nodes, NEW r \in Resolvers(L), r.leader = L, Overlap(r), NEW e, NEW f,
         e.names = r.voters, e.num = r.quorum, f.names = r.sync, f.num = r.numsync
  PROVE  Meets(e, f, L)
<1>1. (r.voters \cup {r.leader}) \cup (r.sync \cup {r.leaderWanted}) = r.voters \cup r.sync \cup {L}
  BY DEF Resolvers
<1>2. QED
  BY <1>1 DEF Overlap, Meets

\* sync_update adds one change of synchronous_standby_names to the list, and the list still fits:
\* check_invariants, which the update ends with, says that the change meets the voters of that time.
LEMMA SyncStep ==
  ASSUME NEW L \in Nodes, NEW k, NEW s, NEW r, Base(r, k, s, L),
         NEW num \in Int, NEW names \in SUBSET (Nodes \ {L}),
         r.leader = L /\ names = {} => r.voters = {},
         r.leader = L \/ r.voters # {} \/ (names = {r.leader} /\ num = 1),
         NEW u, u = SyncUpdate(r, num, names), ~u.failed
  PROVE  /\ Base(u, k, s, L) /\ Overlap(u) /\ u.out # <<>>
         /\ u.numsync = num /\ u.sync = names /\ u.quorum = r.quorum /\ u.voters = r.voters
         /\ u.leader = r.leader /\ Fixed(u, r)
         /\ num \in 0 .. Cardinality(names)
<1> USE DEF Base, Known
<1> DEFINE c == [r EXCEPT !.numsync = num, !.sync = names]
           t == Transition("sync", num, names, r.leader)
<1>1. Cardinality(names) \in Nat /\ num >= 0 /\ num <= Cardinality(names) /\ u = Yield(c, t)
  <2>1. Cardinality(names) \in Nat
    BY NodesAreFinite
  <2>2. QED
    BY <2>1 DEF SyncUpdate, Fail, Resolvers
<1>2. c \in Resolvers(L) /\ t \in Changes /\ c.out = r.out /\ c.leader = r.leader
      /\ c.quorum = r.quorum /\ c.voters = r.voters /\ c.numsync = num /\ c.sync = names
      /\ c.leader \notin c.voters
  <2>1. num \in Nat
    BY <1>1
  <2>2. r.leader \in Nodes /\ names \in SUBSET Nodes
    BY DEF Resolvers
  <2>3. t \in Changes
    BY <2>1, <2>2 DEF Changes, Transition
  <2>4. c \in Resolvers(L)
    BY <2>1 DEF Resolvers
  <2>5. QED
    BY <2>3, <2>4 DEF Resolvers
<1>3. Overlap(c) /\ u = [c EXCEPT !.out = Merged(r.out, t)]
  <2>1. CASE Overlap(c)
    BY <1>1, <1>2, <2>1 DEF Yield
  <2>2. CASE ~Overlap(c)
    BY <1>1, <1>2, <2>2 DEF Yield, Fail, Resolvers
  <2>3. QED
    BY <2>1, <2>2
<1>4. r.out \in Seq(Changes) /\ Merged(r.out, t) \in Seq(Changes) /\ Merged(r.out, t) # <<>>
  BY <1>2, MergedIsTyped DEF Resolvers
<1>5. /\ u \in Resolvers(L) /\ ~u.failed /\ u.out = Merged(r.out, t)
      /\ u.leader = r.leader /\ u.voters = r.voters /\ u.quorum = r.quorum
      /\ u.numsync = num /\ u.sync = names /\ u.leaderWanted = c.leaderWanted /\ Fixed(u, r)
  BY <1>2, <1>3, <1>4, ZenonT(60) DEF Resolvers, Fixed
<1>6. Overlap(u)
  BY <1>2, <1>3, <1>5 DEF Overlap
<1> DEFINE n == Len(r.out)
           m == IF r.out # <<>> /\ r.out[n].type = "sync" THEN n ELSE n + 1
<1>7. t.type = "sync" /\ t.num = num /\ t.names = names
  BY DEF Transition
<1>8. ASSUME r.out = <<>> \/ r.out[n].type # "restart"
      PROVE  IsKey(Before(r.out, m, k), u)
  <2>1. r.out # <<>> => n \in 1 .. n /\ r.out[n] \in Changes
    BY <1>4
  <2>2. CASE r.out = <<>>
    BY <2>2, <1>5 DEF LatestKey, IsKey, Before
  <2>3. CASE r.out # <<>> /\ r.out[n].type = "sync"
    BY <2>3, <1>5 DEF LatestKey, IsKey
  <2>4. CASE r.out # <<>> /\ r.out[n].type = "quorum"
    <3>1. m = n + 1 /\ m # 1 /\ Before(r.out, m, k) = r.out[n]
      BY <2>1, <2>4, <1>4 DEF Before
    <3>2. QED
      BY <3>1, <2>4, <1>5 DEF LatestKey, IsKey
  <2>5. QED
    BY <2>1, <2>2, <2>3, <2>4, <1>8 DEF Changes
<1>9. ASSUME r.out = <<>> \/ r.out[n].type # "restart"
      PROVE  SsnFits(t, Before(r.out, m, k), L)
  <2>1. IsKey(Before(r.out, m, k), u)
    BY <1>8, <1>9
  <2>2. ASSUME r.leader = L
        PROVE  Meets(Before(r.out, m, k), t, L)
    BY <2>1, <2>2, <1>5, <1>6, <1>7, OverlapMeets DEF IsKey
  <2>3. ASSUME r.leader # L
        PROVE  Cardinality(r.voters \cup {r.leader} \cup names \cup {L}) <= r.quorum + num + 1
    <3>1. CASE r.voters # {}
      <4>1. (u.voters \cup {u.leader}) \cup (u.sync \cup {u.leaderWanted}) = r.voters \cup {r.leader} \cup names \cup {L}
        BY <1>5 DEF Resolvers
      <4>2. Cardinality((u.voters \cup {u.leader}) \cup (u.sync \cup {u.leaderWanted})) <= u.quorum + u.numsync + 1
        BY <1>5, <1>6, <3>1 DEF Overlap
      <4>3. QED
        BY <1>5, <4>1, <4>2
    <3>2. CASE r.voters = {}
      <4>1. names = {r.leader} /\ num = 1 /\ r.quorum \in Nat /\ r.leader \in Nodes
        BY <2>3, <3>2 DEF Resolvers
      <4>2. Cardinality({r.leader}) = 1 /\ Cardinality({r.leader} \cup {L}) = 2
        <5>1. Cardinality({} \cup {r.leader}) = Cardinality({}) + 1
          BY <4>1, WithNode
        <5>2. Cardinality({r.leader} \cup {L}) = Cardinality({r.leader}) + 1
          BY <2>3, <4>1, WithNode
        <5>3. {} \cup {r.leader} = {r.leader} /\ Cardinality({}) = 0
          BY NoNodes
        <5>4. QED
          BY <5>1, <5>2, <5>3
      <4>3. r.voters \cup {r.leader} \cup names \cup {L} = {r.leader} \cup {L}
        BY <3>2, <4>1
      <4>4. Cardinality(r.voters \cup {r.leader} \cup names \cup {L}) = 2
        BY ONLY <4>2, <4>3
      <4>5. 2 <= r.quorum + num + 1
        BY ONLY <4>1
      <4>6. QED
        BY ONLY <4>4, <4>5
    <3>3. QED
      BY <3>1, <3>2
  <2>4. QED
    BY <2>1, <2>2, <2>3, <1>1, <1>5, <1>7 DEF SsnFits, IsKey
<1>10. Trace(u.out, k, s, L)
  BY <1>2, <1>4, <1>5, <1>7, <1>9, Extended
<1>11. LatestKey(u, k) /\ LatestSsn(u, s)
  <2>1. CASE r.out = <<>>
    <3>1. u.out = <<t>> /\ Len(u.out) = 1
      BY <2>1, <1>5 DEF Merged
    <3>2. QED
      BY <3>1, <1>7, <1>5, <1>8, <2>1 DEF LatestKey, LatestSsn, IsSsn, IsKey, Before
  <2>2. CASE r.out # <<>> /\ r.out[n].type = "restart"
    BY <2>2, <1>5 DEF Merged, LatestKey, LatestSsn
  <2>3. CASE r.out # <<>> /\ r.out[n].type # "restart" /\ r.out[n].type = "sync"
    <3>1. u.out = [r.out EXCEPT ![n] = t] /\ n \in 1 .. n
      BY <2>3, <1>4, <1>5, <1>7 DEF Merged
    <3>2. Len(u.out) = n /\ u.out[n] = t /\ Before(u.out, n, k) = Before(r.out, n, k)
      BY <3>1, <1>4 DEF Before
    <3>3. QED
      BY <3>2, <1>4, <1>5, <1>7, <1>8, <2>3 DEF LatestKey, LatestSsn, IsSsn
  <2>4. CASE r.out # <<>> /\ r.out[n].type # "restart" /\ r.out[n].type # "sync"
    <3>1. u.out = Append(r.out, t) /\ n \in 1 .. n
      BY <2>4, <1>4, <1>5, <1>7 DEF Merged
    <3>2. Len(u.out) = n + 1 /\ u.out[n + 1] = t /\ Before(u.out, n + 1, k) = Before(r.out, n + 1, k)
      BY <3>1, <1>4 DEF Before
    <3>3. QED
      BY <3>2, <1>4, <1>5, <1>7, <1>8, <2>4 DEF LatestKey, LatestSsn, IsSsn
  <2>5. QED
    BY <2>1, <2>2, <2>3, <2>4
<1>12. QED
  BY <1>1, <1>2, <1>4, <1>5, <1>6, <1>10, <1>11

\* The quorum that quorum_update sets.
Adjusted(r, quorum, lead, adjust) ==
  IF lead = NoLeader /\ adjust THEN quorum + Higher(r.numsync - r.confirmed, 0) ELSE quorum

\* What a change of /sync that succeeds leaves.
QuorumMade(u, r, quorum, voters, lead, adjust, k, s, L) ==
  /\ \/ /\ u = r /\ r.leader = L /\ r.voters = voters /\ voters # {}
        /\ r.quorum = Adjusted(r, quorum, lead, adjust)
     \/ /\ Good(u, k, s, L) /\ Overlap(u) /\ u.out # <<>>
        /\ u.voters = voters => u.quorum = Adjusted(r, quorum, lead, adjust)
  /\ u.voters = voters \/ (lead = NoLeader /\ r.confirmed = 0 /\ r.voters = {} /\ u.voters = {})
  /\ u.sync = r.sync /\ u.numsync = r.numsync /\ Fixed(u, r)
  /\ quorum >= 0 /\ (quorum = 0 \/ quorum < Cardinality(voters))

\* When the quorum may be adjusted.
Adjustable(r, quorum, voters) ==
  quorum >= 0 => (r.numsync = 0 => r.confirmed >= 0) /\ (voters = {} => r.numsync = 0)

\* quorum_update leaves the resolver as it was, when the wanted /sync is the one that is there, or
\* adds a change of /sync that fits, the larger quorum of numsync_confirmed included.
LEMMA QuorumStep ==
  ASSUME NEW L \in Nodes, NEW k, NEW s, NEW r, Known(r, k, s, L),
         NEW quorum \in Int, NEW voters \in SUBSET (Nodes \ {L}), NEW lead, NEW adjust \in BOOLEAN,
         lead = L \/ (lead = NoLeader /\ r.leader = L),
         lead = NoLeader /\ adjust => Adjustable(r, quorum, voters),
         NEW u, u = QuorumUpdate(r, quorum, voters, lead, adjust), ~u.failed
  PROVE  QuorumMade(u, r, quorum, voters, lead, adjust, k, s, L)
<1> USE DEF Known, QuorumMade, Adjustable
<1> DEFINE none == lead = NoLeader /\ r.confirmed = 0 /\ r.voters = {}
           v == IF none THEN {} ELSE voters
           q == IF none THEN 0 ELSE Adjusted(r, quorum, lead, adjust)
           same == <<L, q, v>> = <<r.leader, r.quorum, r.voters>>
           t == Transition("quorum", q, v, L)
           again == Transition("restart", q, v, L)
           out == IF same THEN Merged(r.out, again) ELSE r.out
           c == [r EXCEPT !.leader = L, !.quorum = q, !.voters = v, !.out = out]
<1>1. L # NoLeader /\ (IF lead # NoLeader THEN lead ELSE r.leader) = L
  <2>1. L # NoLeader
    BY SyncAssumption DEF Nodes, NoLeader
  <2>2. QED
    BY <2>1
<1>2. u = IF quorum < 0 \/ (quorum > 0 /\ quorum >= Cardinality(voters)) THEN Fail(r)
          ELSE IF same /\ v # {} THEN r
          ELSE Yield(c, t)
  <2> DEFINE
        l == IF lead # NoLeader THEN lead ELSE r.leader
        Update(x) ==
          IF quorum < 0 \/ (quorum > 0 /\ quorum >= Cardinality(voters)) THEN Fail(r)
          ELSE YieldKey(r, q, v, x)
  <2>1. ~r.failed
    OBVIOUS
  <2>2. u = Update(l)
    BY <2>1, ZenonT(60) DEF QuorumUpdate, Adjusted
  <2>3. l = L
    BY <1>1
  <2>4. u = Update(L)
    <3> HIDE DEF l, Update
    <3>1. QED
      BY <2>2, <2>3
  <2>5. YieldKey(r, q, v, L) = IF same /\ v # {} THEN r ELSE Yield(c, t)
    <3> HIDE DEF q, v
    <3>1. QED
      BY Zenon DEF YieldKey
  <2>6. QED
    <3> HIDE DEF same, c, t, q, v
    <3>1. QED
      BY <2>4, <2>5
<1>3. Cardinality(voters) \in Nat /\ quorum >= 0 /\ (quorum = 0 \/ quorum < Cardinality(voters))
  <2>1. Cardinality(voters) \in Nat
    BY NodesAreFinite
  <2>2. Fail(r).failed
    BY DEF Fail, Resolvers
  <2>3. QED
    BY <1>2, <2>1, <2>2
<1>4. CASE same /\ v # {}
  <2>1. u = r /\ L = r.leader /\ q = r.quorum /\ v = r.voters
    BY <1>2, <1>3, <1>4
  <2>2. v = voters /\ ~none
    BY <1>4
  <2>3. q = Adjusted(r, quorum, lead, adjust)
    BY <2>2
  <2>4. Fixed(u, r)
    BY <2>1 DEF Fixed
  <2>5. QED
    BY <1>3, <2>1, <2>2, <2>3, <2>4, <1>4
<1>5. CASE ~(same /\ v # {})
  <2>1. u = Yield(c, t)
    BY <1>2, <1>3, <1>5
  <2>2. q \in Nat /\ v \in SUBSET Nodes /\ L \notin v
    <3>1. r.numsync \in Nat /\ r.confirmed \in Int
      BY DEF Resolvers
    <3>2. Higher(r.numsync - r.confirmed, 0) \in Nat
      BY <3>1 DEF Higher
    <3>3. QED
      BY <1>3, <3>2 DEF Adjusted
  <2> HIDE DEF q, v
  <2>3. t \in Changes /\ again \in Changes /\ t.type = "quorum" /\ again.type = "restart"
        /\ t.num = q /\ t.names = v /\ t.leader = L
    BY <2>2 DEF Changes, Transition
  <2> HIDE DEF t, again
  <2>4. r.out \in Seq(Changes) /\ out \in Seq(Changes)
    BY <2>3, MergedIsTyped DEF Resolvers
  <2>5. Merged(out, t) \in Seq(Changes) /\ Merged(out, t) # <<>>
    BY <2>3, <2>4, MergedIsTyped
  <2> HIDE DEF out
  <2>6. c \in Resolvers(L) /\ c.out = out /\ c.leader = L /\ c.quorum = q /\ c.voters = v
        /\ c.sync = r.sync /\ c.numsync = r.numsync /\ ~c.failed /\ c.leaderWanted = L
    BY <2>2, <2>4 DEF Resolvers
  <2>7. Overlap(c) /\ u = [c EXCEPT !.out = Merged(out, t)]
    <3>1. CASE Overlap(c)
      BY <2>1, <2>6, <3>1 DEF Yield
    <3>2. CASE ~Overlap(c)
      BY <2>1, <2>6, <3>2 DEF Yield, Fail, Resolvers
    <3>3. QED
      BY <3>1, <3>2
  <2>8. /\ u \in Resolvers(L) /\ ~u.failed /\ u.out = Merged(out, t) /\ u.leader = L
        /\ u.quorum = q /\ u.voters = v /\ u.sync = r.sync /\ u.numsync = r.numsync
        /\ u.leaderWanted = L
        /\ Fixed(u, r)
    BY <2>5, <2>6, <2>7, <2>2, ZenonT(60) DEF Resolvers, Fixed
  <2>9. Overlap(u)
    BY <2>6, <2>7, <2>8 DEF Overlap
  <2>10. v = voters \/ (lead = NoLeader /\ r.confirmed = 0 /\ r.voters = {} /\ v = {})
    BY DEF v, q
  <2> DEFINE n == Len(r.out)
             m == IF r.out # <<>> /\ r.out[n].type = "quorum" THEN n ELSE n + 1
  <2>11. ASSUME r.out = <<>> \/ r.out[n].type # "restart"
         PROVE  IsSsn(Before(r.out, m, s), u)
    <3>1. r.out # <<>> => n \in 1 .. n /\ r.out[n] \in Changes
      BY <2>4
    <3>2. CASE r.out = <<>>
      BY <3>2, <2>8 DEF LatestSsn, IsSsn, Before
    <3>3. CASE r.out # <<>> /\ r.out[n].type = "quorum"
      BY <3>3, <2>8 DEF LatestSsn, IsSsn
    <3>4. CASE r.out # <<>> /\ r.out[n].type = "sync"
      <4>1. m = n + 1 /\ m # 1 /\ Before(r.out, m, s) = r.out[n]
        BY <3>1, <3>4, <2>4 DEF Before
      <4>2. QED
        BY <4>1, <3>4, <2>8 DEF LatestSsn, IsSsn
    <3>5. QED
      BY <3>1, <3>2, <3>3, <3>4, <2>11 DEF Changes
  \* Nobody is a voter when nobody has to acknowledge.
  <2>12. r.numsync = 0 => v = {}
    <3>1. SUFFICES ASSUME r.numsync = 0, v # {}
          PROVE  FALSE
      OBVIOUS
    <3>2. v = voters /\ ~none /\ q = Adjusted(r, quorum, lead, adjust)
      BY <3>1 DEF v, q
    <3>3. q = quorum
      <4>1. r.confirmed \in Int
        BY DEF Resolvers
      <4>2. CASE lead = NoLeader /\ adjust
        BY <3>1, <3>2, <4>1, <4>2, <1>3 DEF Adjusted, Higher
      <4>3. CASE ~(lead = NoLeader /\ adjust)
        BY <3>2, <4>3 DEF Adjusted
      <4>4. QED
        BY <4>2, <4>3
    <3>4. Meets(t, [num |-> 0, names |-> r.sync], L)
      BY <2>3, <2>8, <2>9, <3>1, OverlapMeets
    <3>5. Cardinality(v \cup r.sync \cup {L}) <= q + 1
      BY <2>2, <2>3, <3>1, <3>4 DEF Meets
    <3>6. v \cup {L} \subseteq v \cup r.sync \cup {L} /\ v \cup r.sync \cup {L} \subseteq Nodes
      BY <2>2 DEF Resolvers
    <3>7. Cardinality(v \cup {L}) <= q + 1
      BY <3>5, <3>6, SmallerSet, NodesAreFinite, <2>2
    <3>8. Cardinality(v) <= q /\ Cardinality(v) \in Nat
      BY <3>7, <2>2, WithNode, NodesAreFinite
    <3>9. Cardinality(v) = 0
      BY <3>8, <3>2, <3>3, <1>3
    <3>10. QED
      BY <3>9, <3>1, <2>2, NoNodes
  \* With no voters there is no quorum.
  <2>13. Adjusted(r, quorum, lead, adjust) = 0 \/ voters # {}
    <3>1. SUFFICES ASSUME voters = {}
          PROVE  Adjusted(r, quorum, lead, adjust) = 0
      OBVIOUS
    <3>2. quorum = 0
      BY <1>3, <3>1, NoNodes
    <3>3. lead = NoLeader /\ adjust => r.numsync = 0 /\ r.confirmed >= 0 /\ r.confirmed \in Int
      BY <3>1, <3>2 DEF Resolvers
    <3>4. QED
      BY <3>2, <3>3 DEF Adjusted, Higher
  <2>14. (v = {} => q = 0) /\ (v = voters => q = Adjusted(r, quorum, lead, adjust))
    BY <2>13 DEF v, q
  <2>15. ASSUME r.out = <<>> \/ r.out[n].type # "restart"
         PROVE  KeyFits(t, Before(r.out, m, s), L)
    <3>1. IsSsn(Before(r.out, m, s), u)
      BY <2>11, <2>15
    <3>2. Meets(t, Before(r.out, m, s), L)
      BY <3>1, <2>3, <2>8, <2>9, OverlapMeets DEF IsSsn
    <3>3. QED
      BY <3>1, <3>2, <2>2, <2>3, <2>8, <2>12, <2>14 DEF KeyFits, IsSsn
  <2>16. Trace(out, k, s, L)
    <3>1. CASE same
      BY <3>1, <2>3, <2>4, Extended DEF out
    <3>2. CASE ~same
      BY <3>2 DEF out
    <3>3. QED
      BY <3>1, <3>2
  <2>17. same => out # <<>> /\ out[Len(out)].type = "restart"
    <3>1. SUFFICES ASSUME same
          PROVE  out # <<>> /\ out[Len(out)].type = "restart"
      OBVIOUS
    <3>2. out = Merged(r.out, again)
      BY <3>1 DEF out
    <3>3. CASE r.out = <<>>
      BY <3>2, <3>3, <2>3 DEF Merged
    <3>4. CASE r.out # <<>> /\ r.out[n].type = "restart"
      BY <3>2, <3>4 DEF Merged
    <3>5. CASE r.out # <<>> /\ r.out[n].type # "restart"
      <4>1. out = Append(r.out, again)
        BY <3>2, <3>5, <2>3 DEF Merged
      <4>2. Len(out) = n + 1 /\ out[n + 1] = again /\ n + 1 # 0
        BY <4>1, <2>4
      <4>3. QED
        BY <4>1, <4>2, <2>3, <2>4
    <3>6. QED
      BY <3>3, <3>4, <3>5
  <2>18. CASE same
    <3>1. u.out = out
      BY <2>8, <2>17, <2>18 DEF Merged
    <3>2. LatestKey(u, k) /\ LatestSsn(u, s)
      BY <3>1, <2>17, <2>18 DEF LatestKey, LatestSsn
    <3>3. Known(u, k, s, L)
      BY <3>1, <3>2, <2>2, <2>8, <2>16
    <3>4. Good(u, k, s, L)
      BY <3>2, <3>3, <2>8, <2>12, <2>14 DEF Good, Base
    <3>5. QED
      BY <1>3, <2>5, <2>8, <2>9, <2>10, <2>14, <3>4
  <2>19. CASE ~same
    <3>1. out = r.out
      BY <2>19 DEF out
    <3>2. Trace(u.out, k, s, L)
      BY <2>3, <2>4, <2>8, <2>15, <3>1, Extended
    <3>3. LatestKey(u, k) /\ LatestSsn(u, s)
      <4>1. CASE r.out = <<>>
        <5>1. u.out = <<t>> /\ Len(u.out) = 1
          BY <4>1, <3>1, <2>8 DEF Merged
        <5>2. QED
          BY <5>1, <2>3, <2>8, <2>11, <4>1 DEF LatestKey, LatestSsn, IsKey, Before
      <4>2. CASE r.out # <<>> /\ r.out[n].type = "restart"
        BY <4>2, <3>1, <2>8 DEF Merged, LatestKey, LatestSsn
      <4>3. CASE r.out # <<>> /\ r.out[n].type # "restart" /\ r.out[n].type = "quorum"
        <5>1. u.out = [r.out EXCEPT ![n] = t] /\ n \in 1 .. n
          BY <4>3, <2>4, <3>1, <2>8, <2>3 DEF Merged
        <5>2. Len(u.out) = n /\ u.out[n] = t /\ Before(u.out, n, s) = Before(r.out, n, s)
          BY <5>1, <2>4 DEF Before
        <5>3. QED
          BY <5>2, <2>4, <2>8, <2>3, <2>11, <4>3 DEF LatestKey, LatestSsn, IsKey
      <4>4. CASE r.out # <<>> /\ r.out[n].type # "restart" /\ r.out[n].type # "quorum"
        <5>1. u.out = Append(r.out, t) /\ n \in 1 .. n
          BY <4>4, <2>4, <3>1, <2>8, <2>3 DEF Merged
        <5>2. Len(u.out) = n + 1 /\ u.out[n + 1] = t /\ Before(u.out, n + 1, s) = Before(r.out, n + 1, s)
          BY <5>1, <2>4 DEF Before
        <5>3. QED
          BY <5>2, <2>4, <2>8, <2>3, <2>11, <4>4 DEF LatestKey, LatestSsn, IsKey
      <4>5. QED
        BY <4>1, <4>2, <4>3, <4>4
    <3>4. Known(u, k, s, L)
      BY <3>2, <3>3, <2>2, <2>8
    <3>5. Good(u, k, s, L)
      BY <3>3, <3>4, <2>8, <2>12, <2>14 DEF Good, Base
    <3>6. QED
      BY <1>3, <2>5, <2>8, <2>9, <2>10, <2>14, <3>5
  <2>20. QED
    BY <2>18, <2>19
<1>6. QED
  BY <1>4, <1>5
-----------------------------------------------------------------------------
(* The stages of _generate_transitions *)

\* What an update that succeeds leaves.
SyncDone(u, r, num, names, k, s, L) ==
  /\ Good(u, k, s, L) /\ Overlap(u) /\ u.out # <<>> /\ Fixed(u, r)
  /\ u.numsync = num /\ u.sync = names /\ u.quorum = r.quorum /\ u.voters = r.voters
  /\ num \in 0 .. Cardinality(names)

QuorumDone(u, r, quorum, voters, adjust, k, s, L) ==
  Good(u, k, s, L) /\ QuorumMade(u, r, quorum, voters, NoLeader, adjust, k, s, L)

\* sync_update, once /sync is the leader's.
LEMMA GoodSync ==
  ASSUME NEW L \in Nodes, NEW k, NEW s, NEW r, Good(r, k, s, L),
         NEW num \in Int, NEW names \in SUBSET (Nodes \ {L}),
         num = 0 \/ names = {} => r.voters = {},
         NEW u, u = SyncUpdate(r, num, names), ~u.failed
  PROVE  SyncDone(u, r, num, names, k, s, L)
<1>1. Base(r, k, s, L) /\ (r.leader = L /\ names = {} => r.voters = {}) /\ r.leader = L
  BY DEF Good
<1>2. /\ Base(u, k, s, L) /\ Overlap(u) /\ u.out # <<>>
      /\ u.numsync = num /\ u.sync = names /\ u.quorum = r.quorum /\ u.voters = r.voters
      /\ u.leader = r.leader /\ Fixed(u, r)
      /\ num \in 0 .. Cardinality(names)
  BY <1>1, SyncStep
<1>3. QED
  BY <1>2 DEF Good, SyncDone

\* /sync is the leader's, though not what the list leads to.
Own(r, k, s, L) == Known(r, k, s, L) /\ r.leader = L

\* quorum_update, once /sync is the leader's.
LEMMA KnownQuorum ==
  ASSUME NEW L \in Nodes, NEW k, NEW s, NEW r, Own(r, k, s, L),
         NEW quorum \in Int, NEW voters \in SUBSET (Nodes \ {L}), NEW adjust \in BOOLEAN,
         adjust => Adjustable(r, quorum, voters),
         NEW u, u = QuorumUpdate(r, quorum, voters, NoLeader, adjust), ~u.failed
  PROVE  QuorumMade(u, r, quorum, voters, NoLeader, adjust, k, s, L)
<1> DEFINE lead == NoLeader
<1>1. /\ L \in Nodes /\ Known(r, k, s, L) /\ (lead = L \/ (lead = NoLeader /\ r.leader = L))
      /\ quorum \in Int /\ voters \in SUBSET (Nodes \ {L}) /\ adjust \in BOOLEAN
      /\ u = QuorumUpdate(r, quorum, voters, lead, adjust) /\ ~u.failed
      /\ lead = NoLeader /\ adjust => Adjustable(r, quorum, voters)
  BY DEF Own
<1> HIDE DEF lead
<1>2. QuorumMade(u, r, quorum, voters, lead, adjust, k, s, L)
  BY ONLY <1>1, QuorumStep, ZenonT(60)
<1>3. QED
  BY <1>2 DEF lead

\* quorum_update, when the list says as much.
LEMMA GoodQuorum ==
  ASSUME NEW L \in Nodes, NEW k, NEW s, NEW r, Good(r, k, s, L),
         NEW quorum \in Int, NEW voters \in SUBSET (Nodes \ {L}), NEW adjust \in BOOLEAN,
         adjust => Adjustable(r, quorum, voters),
         NEW u, u = QuorumUpdate(r, quorum, voters, NoLeader, adjust), ~u.failed
  PROVE  QuorumDone(u, r, quorum, voters, adjust, k, s, L)
<1>1. Own(r, k, s, L)
  BY DEF Good, Base, Own
<1>2. QuorumMade(u, r, quorum, voters, NoLeader, adjust, k, s, L)
  BY <1>1, KnownQuorum, Zenon
<1>3. QED
  BY <1>2 DEF QuorumDone, QuorumMade

\* After an error nothing changes any more.
LEMMA FailedQuorum ==
  ASSUME NEW r, r.failed, NEW quorum, NEW voters, NEW lead, NEW adjust
  PROVE  QuorumUpdate(r, quorum, voters, lead, adjust) = r
<1> DEFINE
      l == IF lead # NoLeader THEN lead ELSE r.leader
      none == lead = NoLeader /\ r.confirmed = 0 /\ r.voters = {}
      v == IF none THEN {} ELSE voters
      q == IF none THEN 0
           ELSE IF lead = NoLeader /\ adjust THEN quorum + Higher(r.numsync - r.confirmed, 0)
           ELSE quorum
      otherwise ==
        IF quorum < 0 \/ (quorum > 0 /\ quorum >= Cardinality(voters)) THEN Fail(r)
        ELSE YieldKey(r, q, v, l)
<1>1. QuorumUpdate(r, quorum, voters, lead, adjust) = IF r.failed THEN r ELSE otherwise
  BY ZenonT(60) DEF QuorumUpdate
<1> HIDE DEF otherwise
<1>2. QED
  BY <1>1

\* An exception ends the generator: no update changes a resolver after it.
LEMMA FailedStays ==
  ASSUME NEW r, r.failed
  PROVE  /\ \A num, names : SyncUpdate(r, num, names) = r
         /\ \A quorum, voters, lead, adjust : QuorumUpdate(r, quorum, voters, lead, adjust) = r
         /\ \A quorum, voters, lead : QuorumUpdate(r, quorum, voters, lead, TRUE) = r
         /\ \A quorum, voters, lead : QuorumUpdate(r, quorum, voters, lead, FALSE) = r
<1>1. \A num, names : SyncUpdate(r, num, names) = r
  BY DEF SyncUpdate
<1>2. ASSUME NEW quorum, NEW voters, NEW lead, NEW adjust
      PROVE  QuorumUpdate(r, quorum, voters, lead, adjust) = r
  BY FailedQuorum
<1>3. ASSUME NEW quorum, NEW voters, NEW lead
      PROVE  /\ QuorumUpdate(r, quorum, voters, lead, TRUE) = r
             /\ QuorumUpdate(r, quorum, voters, lead, FALSE) = r
  <2> DEFINE yes == TRUE
             no == FALSE
  <2> HIDE DEF yes, no
  <2>1. QuorumUpdate(r, quorum, voters, lead, yes) = r /\ QuorumUpdate(r, quorum, voters, lead, no) = r
    BY <1>2
  <2>2. QED
    BY <2>1 DEF yes, no
<1>4. QED
  BY <1>1, <1>2, <1>3

\* A sync_update that succeeds began without an error.
LEMMA BeforeSync ==
  ASSUME NEW r, NEW num, NEW names, NEW u, u = SyncUpdate(r, num, names), ~u.failed
  PROVE  ~r.failed
BY FailedStays

\* So did a quorum_update.
LEMMA BeforeQuorum ==
  ASSUME NEW r, NEW quorum, NEW voters, NEW lead, NEW adjust,
         NEW u, u = QuorumUpdate(r, quorum, voters, lead, adjust), ~u.failed
  PROVE  ~r.failed
<1>1. r.failed => QuorumUpdate(r, quorum, voters, lead, adjust) = r
  BY FailedQuorum
<1>2. QED
  BY <1>1

\* The numbers and sets of a good resolver.
LEMMA GoodTypes ==
  ASSUME NEW L \in Nodes, NEW k, NEW s, NEW r, Good(r, k, s, L)
  PROVE  /\ ~r.failed /\ r.failed \in BOOLEAN /\ r.leader = L /\ r.leaderWanted = L
         /\ r.numsync \in Nat /\ r.quorum \in Nat /\ r.confirmed \in Int /\ r.wanted \in Nat \ {0}
         /\ r.voters \subseteq Nodes \ {L} /\ r.sync \subseteq Nodes \ {L} /\ r.active \subseteq Nodes \ {L}
         /\ r.numsync <= Cardinality(r.sync)
         /\ r.numsync = 0 => r.voters = {}
BY DEF Good, Base, Known, Resolvers

\* A resolver whose list says, for a moment, that no standby is waited for while /sync has
\* voters: a leader that is its own successor begins so when the quorum is as large as the
\* number of voters.
Almost(r, k, s, L) ==
  /\ Base(r, k, s, L) /\ r.leader = L
  /\ r.numsync = 0 => r.voters = {} \/ (r.voters = r.sync /\ r.sync \subseteq r.active /\ r.out # <<>>)
  /\ r.voters = {} => r.quorum = 0

\* The numbers and sets of such a resolver.
LEMMA AlmostTypes ==
  ASSUME NEW L \in Nodes, NEW k, NEW s, NEW r, Almost(r, k, s, L)
  PROVE  /\ ~r.failed /\ r.leader = L /\ r.leaderWanted = L
         /\ r.numsync \in Nat /\ r.quorum \in Nat /\ r.confirmed \in Int /\ r.wanted \in Nat \ {0}
         /\ r.voters \in SUBSET (Nodes \ {L}) /\ r.sync \in SUBSET (Nodes \ {L}) /\ r.active \in SUBSET (Nodes \ {L})
         /\ r.numsync <= Cardinality(r.sync)
         /\ r.numsync # 0 \/ r.voters = {} => Good(r, k, s, L)
         /\ r.numsync = 0 => r.voters = {} \/ r.sync # {}
         /\ ~Good(r, k, s, L) =>
              r.numsync = 0 /\ r.voters # {} /\ r.voters = r.sync /\ r.sync \subseteq r.active /\ r.out # <<>>
BY DEF Almost, Good, Base, Known, Resolvers

\* A good resolver is one of them.
LEMMA GoodIsAlmost ==
  ASSUME NEW L \in Nodes, NEW k, NEW s, NEW r, Good(r, k, s, L)
  PROVE  Almost(r, k, s, L)
BY DEF Almost, Good

\* A change that waits for somebody makes it good.
LEMMA AlmostSync ==
  ASSUME NEW L \in Nodes, NEW k, NEW s, NEW r, Almost(r, k, s, L),
         NEW num \in Int, NEW names \in SUBSET (Nodes \ {L}),
         num = 0 \/ names = {} => r.voters = {},
         NEW u, u = SyncUpdate(r, num, names), ~u.failed
  PROVE  SyncDone(u, r, num, names, k, s, L)
<1>1. Base(r, k, s, L) /\ (r.leader = L /\ names = {} => r.voters = {}) /\ r.leader = L
  BY DEF Almost
<1>2. /\ Base(u, k, s, L) /\ Overlap(u) /\ u.out # <<>>
      /\ u.numsync = num /\ u.sync = names /\ u.quorum = r.quorum /\ u.voters = r.voters
      /\ u.leader = r.leader /\ Fixed(u, r)
      /\ num \in 0 .. Cardinality(names)
  BY <1>1, SyncStep
<1>3. QED
  BY <1>2 DEF Almost, Good, SyncDone

Below == {e \in Nat \X Nat : e[1] < e[2]}

\* Some nodes are always the first of the others.
LEMMA SomeAreFirst ==
  ASSUME NEW S \in SUBSET Nodes, S # {}, NEW n \in Nat \ {0}
  PROVE  Least(S, n) # {}
<1>1. S \in SUBSET Nat
  BY SyncAssumption DEF Nodes
<1>2. IsWellFoundedOn(Below, Nat)
  BY NatLessThanWellFounded DEF OpToRel, Below
<1>3. PICK x \in S : \A y \in S : <<y, x>> \notin Below
  BY <1>1, <1>2, WFMin
<1>4. \A y \in S : y < x => <<y, x>> \in Below
  BY <1>1 DEF Below
<1>5. {y \in S : y < x} = {}
  BY <1>3, <1>4
<1>6. Cardinality({y \in S : y < x}) < n
  BY <1>5, NoNodes
<1>7. QED
  BY <1>6 DEF Least

\* More voters than standbys that are waited for: those in neither set leave /sync, the others are
\* waited for as well.
LEMMA VotersShrunk ==
  ASSUME NEW L \in Nodes, NEW k, NEW s, NEW r, Good(r, k, s, L), r.sync \subseteq r.voters, r.sync # r.voters
  PROVE  LET u == ShrinkVoters(r) IN u.failed \/ (Good(u, k, s, L) /\ Fixed(u, r) /\ u.out # <<>>)
<1> DEFINE gone == r.voters \ (r.sync \cup r.active)
           quorum == Cardinality(r.voters) - Cardinality(gone) - r.numsync
           r1 == IF gone = {} THEN r
                 ELSE QuorumUpdate(r, quorum, r.voters \ gone, NoLeader, r.sync \subseteq r.active)
           add == (r1.voters \cap r1.active) \ r1.sync
           u == IF add = {} THEN r1 ELSE SyncUpdate(r1, r1.numsync, r1.sync \cup add)
<1>1. u = ShrinkVoters(r)
  BY DEF ShrinkVoters
<1>2. /\ r.numsync \in Nat \ {0} /\ r.voters \subseteq Nodes \ {L} /\ r.voters # {}
      /\ Cardinality(r.voters) \in Nat /\ Cardinality(gone) \in Nat /\ quorum \in Int
  BY GoodTypes, NodesAreFinite, SMTT(60)
<1>3. SUFFICES ASSUME ~u.failed
      PROVE  Good(u, k, s, L) /\ Fixed(u, r) /\ u.out # <<>>
  BY <1>1, ZenonT(60)
<1>4. ~r1.failed
  <2> HIDE DEF r1, add
  <2>1. ASSUME r1.failed
        PROVE  SyncUpdate(r1, r1.numsync, r1.sync \cup add) = r1
    BY <2>1, FailedStays
  <2>2. QED
    BY <1>3, <2>1
<1>5. ASSUME gone # {}
      PROVE  Good(r1, k, s, L) /\ Fixed(r1, r) /\ r1.out # <<>> /\ r1.sync = r.sync
  <2> DEFINE v == r.voters \ gone
             adjust == r.sync \subseteq r.active
  <2>1. v = {} => quorum < 0
    <3>1. SUFFICES ASSUME v = {}
          PROVE  quorum < 0
      OBVIOUS
    <3>2. r.voters = gone
      BY <3>1
    <3> HIDE DEF gone
    <3>3. QED
      BY <1>2, <3>2
  <2>2. /\ r1 = QuorumUpdate(r, quorum, v, NoLeader, adjust) /\ ~r1.failed
        /\ quorum \in Int /\ v \in SUBSET (Nodes \ {L}) /\ adjust \in BOOLEAN
        /\ adjust => Adjustable(r, quorum, v)
    BY <1>2, <1>4, <1>5, <2>1 DEF Adjustable
  <2>3. r.voters # v
    BY <1>5
  <2> HIDE DEF quorum, v, adjust, r1
  <2>4. QuorumDone(r1, r, quorum, v, adjust, k, s, L)
    BY <2>2, GoodQuorum, Zenon
  <2>5. Good(r1, k, s, L) /\ Fixed(r1, r) /\ r1.out # <<>> /\ r1.sync = r.sync
    BY <2>3, <2>4 DEF QuorumDone, QuorumMade
  <2>6. QED
    BY <2>5
<1>6. /\ Good(r1, k, s, L) /\ Fixed(r1, r) /\ r1.sync = r.sync
      /\ gone # {} => r1.out # <<>>
      /\ gone = {} => r1 = r
  BY <1>5 DEF Fixed
<1> HIDE DEF r1
<1>7. CASE add = {}
  <2>1. gone # {}
    <3>1. SUFFICES ASSUME gone = {}
          PROVE  FALSE
      OBVIOUS
    <3>2. (r.voters \cap r.active) \ r.sync = {}
      BY <1>6, <1>7, <3>1
    <3>3. QED
      BY <3>1, <3>2
  <2>2. QED
    BY <1>6, <1>7, <2>1
<1>8. CASE add # {}
  <2> DEFINE names == r1.sync \cup add
  <2>1. /\ u = SyncUpdate(r1, r1.numsync, names) /\ ~u.failed
        /\ r1.numsync \in Int /\ names \in SUBSET (Nodes \ {L})
        /\ r1.numsync = 0 \/ names = {} => r1.voters = {}
    BY <1>3, <1>6, <1>8, GoodTypes
  <2> HIDE DEF names, u
  <2>2. SyncDone(u, r1, r1.numsync, names, k, s, L)
    BY <1>6, <2>1, GoodSync, Zenon
  <2>3. QED
    BY <1>6, <2>2 DEF SyncDone, Fixed
<1>9. QED
  BY <1>7, <1>8, SMTT(60)

\* When the two sets overlap as they must, one of them contains the other.
LEMMA Nested ==
  ASSUME NEW L \in Nodes, NEW k, NEW s, NEW r, Good(r, k, s, L), Overlap(r)
  PROVE  r.voters \subseteq r.sync \/ r.sync \subseteq r.voters
<1>1. r.leader = L /\ r.leaderWanted = L /\ L \notin r.voters /\ L \notin r.sync
  BY GoodTypes
<1>2. r.voters \cup {L} \subseteq r.sync \cup {L} \/ r.sync \cup {L} \subseteq r.voters \cup {L}
  BY <1>1 DEF Overlap
<1>3. QED
  BY <1>1, <1>2

\* More standbys that are waited for than voters: the active ones become voters, and the others are
\* no longer waited for.
LEMMA SyncShrunk ==
  ASSUME NEW L \in Nodes, NEW k, NEW s, NEW r, Good(r, k, s, L), r.voters \subseteq r.sync, r.sync # r.voters,
         r.voters = {} => r.confirmed >= 0
  PROVE  LET u == ShrinkSync(r) IN u.failed \/ (Good(u, k, s, L) /\ Fixed(u, r) /\ u.out # <<>>)
<1> DEFINE gone == r.sync \ r.active
           sync == r.sync \ gone
           first == gone # {} /\ sync # {} /\ (r.voters = {} \/ sync \cap r.voters # {})
           num1 == Lower(r.numsync, Cardinality(sync))
           r1 == IF first THEN SyncUpdate(r, num1, sync) ELSE r
           add == (r1.sync \ r1.voters) \cap r1.active
           v2 == r1.voters \cup add
           quorum == Cardinality(v2) - r1.numsync
           r2 == IF add = {} THEN r1 ELSE QuorumUpdate(r1, quorum, v2, NoLeader, TRUE)
           rest == r2.sync \ r2.voters
           left == r2.sync \ rest
           num == Lower(r2.numsync, Cardinality(left))
           u == IF rest = {} THEN r2 ELSE SyncUpdate(r2, num, left)
<1>1. u = ShrinkSync(r)
  BY ZenonT(60) DEF ShrinkSync
<1> HIDE DEF r1, r2, u, first, num1, add, v2, quorum, rest, left, num
<1>2. SUFFICES ASSUME ~u.failed
      PROVE  Good(u, k, s, L) /\ Fixed(u, r) /\ u.out # <<>>
  BY <1>1
<1>3. ~r2.failed
  BY <1>2, FailedStays DEF u
<1>4. ~r1.failed
  <2>1. ASSUME r1.failed
        PROVE  QuorumUpdate(r1, quorum, v2, NoLeader, TRUE) = r1
    BY <2>1, FailedStays
  <2>2. QED
    BY <1>3, <2>1 DEF r2
<1>5. ASSUME first
      PROVE  Good(r1, k, s, L) /\ Fixed(r1, r) /\ r1.voters = r.voters /\ Overlap(r1) /\ r1.out # <<>>
  <2>1. Cardinality(sync) \in Nat \ {0} /\ r.numsync \in Nat
    BY <1>5, GoodTypes, NodesAreFinite, NoNodes DEF first
  <2>2. sync \in SUBSET (Nodes \ {L}) /\ (sync = {} => r.voters = {})
    BY <1>5, GoodTypes DEF first
  <2>3. num1 \in Int /\ (num1 = 0 => r.numsync = 0)
    BY <2>1 DEF Lower, num1
  <2>4. r1 = SyncUpdate(r, num1, sync) /\ ~r1.failed
    BY <1>4, <1>5 DEF r1
  <2>5. num1 = 0 \/ sync = {} => r.voters = {}
    BY <2>2, <2>3, GoodTypes
  <2> HIDE DEF sync
  <2>6. SyncDone(r1, r, num1, sync, k, s, L)
    BY <2>2, <2>3, <2>4, <2>5, GoodSync, Zenon
  <2>7. QED
    BY <2>6 DEF SyncDone
<1>6. /\ Good(r1, k, s, L) /\ Fixed(r1, r) /\ r1.voters = r.voters
      /\ (r1 = r \/ (Overlap(r1) /\ r1.out # <<>>))
  BY <1>5 DEF Fixed, r1
<1>7. ASSUME add # {}
      PROVE  Good(r2, k, s, L) /\ Fixed(r2, r) /\ Overlap(r2) /\ r2.out # <<>>
  <2>1. /\ Cardinality(v2) \in Nat /\ r1.numsync \in Nat /\ v2 \in SUBSET (Nodes \ {L})
        /\ v2 # r1.voters /\ v2 # {}
    BY <1>6, <1>7, GoodTypes, NodesAreFinite DEF v2, add
  <2>2. Adjustable(r1, quorum, v2)
    BY <1>6, <2>1, GoodTypes DEF Adjustable, Fixed
  <2>3. r2 = QuorumUpdate(r1, quorum, v2, NoLeader, TRUE) /\ ~r2.failed
    BY <1>3, <1>7, Zenon DEF r2
  <2>4. quorum \in Int /\ TRUE \in BOOLEAN
    BY <2>1 DEF quorum
  <2>5. QuorumDone(r2, r1, quorum, v2, TRUE, k, s, L)
    BY <1>6, <2>1, <2>2, <2>3, <2>4, GoodQuorum, Zenon
  <2>6. QED
    BY <1>6, <2>1, <2>5 DEF QuorumDone, QuorumMade, Fixed
<1>8. /\ Good(r2, k, s, L) /\ Fixed(r2, r) /\ (r2 = r \/ (Overlap(r2) /\ r2.out # <<>>))
  BY <1>6, <1>7 DEF r2
<1>9. CASE rest = {}
  BY <1>8, <1>9 DEF rest, u
<1>10. CASE rest # {}
  <2>1. /\ Cardinality(left) \in Nat /\ r2.numsync \in Nat /\ left \in SUBSET (Nodes \ {L})
        /\ Cardinality(left) = 0 => left = {}
    <3>1. left \subseteq Nodes \ {L} /\ left \subseteq Nodes /\ r2.numsync \in Nat
      BY <1>8, GoodTypes DEF left
    <3>2. QED
      BY <3>1, NodesAreFinite, NoNodes
  <2>2. left = {} => r2.voters = {}
    <3>1. r2.voters \subseteq r2.sync \/ r2.sync \subseteq r2.voters
      BY <1>8, Nested
    <3>2. QED
      BY <1>10, <3>1 DEF left, rest
  <2>3. /\ u = SyncUpdate(r2, num, left) /\ ~u.failed /\ num \in Int /\ left \in SUBSET (Nodes \ {L})
        /\ num = 0 \/ left = {} => r2.voters = {}
    BY <1>2, <1>8, <1>10, <2>1, <2>2, GoodTypes DEF Lower, num, u
  <2>4. SyncDone(u, r2, num, left, k, s, L)
    BY <1>8, <2>3, GoodSync, Zenon
  <2>5. QED
    BY <1>8, <2>4 DEF SyncDone, Fixed
<1>11. QED
  BY <1>9, <1>10, SMTT(60)

\* An exception is remembered.
LEMMA FailFails ==
  ASSUME NEW L \in Nodes, NEW r \in Resolvers(L)
  PROVE  Fail(r).failed
BY DEF Fail, Resolvers

\* Between equal sets, a quorum that is larger than what the confirmed standbys need is brought down.
LEMMA FactorRestored ==
  ASSUME NEW L \in Nodes, NEW k, NEW s, NEW r, Good(r, k, s, L)
  PROVE  LET u == RestoreFactor(r)
         IN u.failed \/
              /\ Good(u, k, s, L) /\ Fixed(u, r)
              /\ \/ u.out # <<>>
                 \/ /\ u = r /\ r.voters = r.sync
                    /\ r.quorum + Lower(r.numsync, r.confirmed) <= Cardinality(r.sync)
<1> DEFINE all == Cardinality(r.voters \cup r.sync)
           margin == r.quorum + Lower(r.numsync, r.confirmed) - all
           num == Higher(r.wanted, Cardinality(r.voters) - r.quorum)
           quorum == Cardinality(r.sync) - r.numsync
           less == SyncUpdate(r, num, r.sync)
           more == QuorumUpdate(r, quorum, r.voters, NoLeader, TRUE)
           u == RestoreFactor(r)
           fewer == margin > 0 /\ r.numsync > r.wanted
           again == \/ margin > 0 /\ ~(r.numsync > r.wanted)
                    \/ ~(margin > 0) /\ r.numsync = r.wanted /\ r.quorum + r.numsync > all /\ r.numsync > r.confirmed
<1>1. /\ r.voters # r.sync => u = Fail(r)
      /\ r.voters = r.sync /\ fewer => u = less
      /\ r.voters = r.sync /\ again => u = more
      /\ r.voters = r.sync /\ ~fewer /\ ~again => u = r
  <2>1. ~r.failed
    BY GoodTypes
  <2>2. u = IF r.failed THEN r
            ELSE IF r.voters # r.sync THEN Fail(r)
            ELSE IF margin > 0
              THEN IF r.numsync > r.wanted THEN less ELSE more
            ELSE IF r.numsync = r.wanted /\ r.quorum + r.numsync > all /\ r.numsync > r.confirmed
              THEN more
            ELSE r
    BY Zenon DEF RestoreFactor
  <2> HIDE DEF margin, all, less, more, u
  <2>3. QED
    BY <2>1, <2>2
<1>2. /\ r.numsync \in Nat /\ r.quorum \in Nat /\ r.confirmed \in Int /\ r.wanted \in Nat \ {0}
      /\ r.voters \in SUBSET (Nodes \ {L}) /\ r.sync \in SUBSET (Nodes \ {L})
      /\ r.numsync <= Cardinality(r.sync) /\ Cardinality(r.sync) \in Nat /\ Cardinality(r.voters) \in Nat
  BY GoodTypes, NodesAreFinite
<1> HIDE DEF less, more, u, num, quorum, margin, all
<1>3. CASE r.voters # r.sync
  BY <1>1, <1>3, FailFails DEF Good, Base, Known, u
<1>4. SUFFICES ASSUME ~u.failed, r.voters = r.sync
      PROVE  /\ Good(u, k, s, L) /\ Fixed(u, r)
             /\ u.out # <<>> \/ (u = r /\ r.quorum + Lower(r.numsync, r.confirmed) <= Cardinality(r.sync))
  BY <1>3 DEF u
<1>5. /\ all = Cardinality(r.sync) /\ margin \in Int /\ Lower(r.numsync, r.confirmed) \in Int
      /\ margin = r.quorum + Lower(r.numsync, r.confirmed) - all
  <2>1. all = Cardinality(r.sync)
    <3>1. r.voters \cup r.sync = r.sync
      BY <1>4
    <3>2. QED
      BY <3>1 DEF all
  <2>2. Lower(r.numsync, r.confirmed) \in Int
    BY <1>2 DEF Lower
  <2>3. margin = r.quorum + Lower(r.numsync, r.confirmed) - all
    BY DEF margin
  <2>4. QED
    BY <1>2, <2>1, <2>2, <2>3
<1>6. r.sync = {} => r.numsync = 0 /\ r.quorum = 0 /\ margin <= 0
  BY <1>2, <1>4, <1>5, NoNodes DEF Good, Lower
<1>7. CASE fewer
  <2>1. num \in Int /\ num # 0
    BY <1>2 DEF num, Higher
  <2>2. u = SyncUpdate(r, num, r.sync) /\ (num = 0 \/ r.sync = {} => r.voters = {})
    BY <1>1, <1>4, <1>7, <2>1 DEF less
  <2>3. SyncDone(u, r, num, r.sync, k, s, L)
    BY <1>2, <1>4, <2>1, <2>2, GoodSync, Zenon
  <2>4. QED
    BY <2>3 DEF SyncDone
<1>8. CASE again
  <2>1. quorum \in Int /\ TRUE \in BOOLEAN /\ quorum = Cardinality(r.sync) - r.numsync
    BY <1>2 DEF quorum
  <2>2. r.numsync # 0
    <3>1. SUFFICES ASSUME r.numsync = 0
          PROVE  FALSE
      OBVIOUS
    <3>2. r.sync = {}
      BY <1>4, <3>1, GoodTypes
    <3>3. r.numsync = r.wanted
      BY <1>5, <1>6, <1>8, <3>2
    <3>4. QED
      BY <1>2, <3>1, <3>3
  <2>3. Adjustable(r, quorum, r.voters)
    BY <1>4, <1>6, <2>2 DEF Adjustable
  <2>4. u = QuorumUpdate(r, quorum, r.voters, NoLeader, TRUE)
    BY <1>1, <1>4, <1>8 DEF more
  <2>5. QuorumDone(u, r, quorum, r.voters, TRUE, k, s, L)
    BY <1>2, <1>4, <2>1, <2>3, <2>4, GoodQuorum, Zenon
  <2>6. Good(u, k, s, L) /\ Fixed(u, r)
        /\ (u.out # <<>> \/ (u = r /\ r.quorum = Adjusted(r, quorum, NoLeader, TRUE)))
    BY <2>5 DEF QuorumDone, QuorumMade
  <2>7. r.quorum = Adjusted(r, quorum, NoLeader, TRUE) => margin = 0
    BY <1>2, <1>5, <2>1 DEF Adjusted, Higher, Lower
  <2>8. margin = 0 => r.quorum + Lower(r.numsync, r.confirmed) <= Cardinality(r.sync)
    BY <1>2, <1>5
  <2>9. QED
    BY <2>6, <2>7, <2>8, Zenon
<1>9. CASE ~fewer /\ ~again
  <2>1. u = r /\ ~(margin > 0)
    BY <1>1, <1>4, <1>9
  <2>2. QED
    BY <1>2, <1>5, <2>1 DEF Fixed, Lower
<1>10. QED
  BY <1>7, <1>8, <1>9

\* __handle_non_steady_cases: afterwards there is a change on the list, or the voters are the standbys
\* that are waited for and the quorum is no larger than it has to be.
LEMMA Steadied ==
  ASSUME NEW L \in Nodes, NEW k, NEW s, NEW r, Good(r, k, s, L), r.voters = {} => r.confirmed >= 0
  PROVE  LET u == NonSteady(r)
         IN u.failed \/
              /\ Good(u, k, s, L) /\ Fixed(u, r)
              /\ \/ u.out # <<>>
                 \/ /\ u = r /\ r.voters = r.sync
                    /\ r.quorum + Lower(r.numsync, r.confirmed) <= Cardinality(r.sync)
<1> DEFINE m == CASE r.sync \subseteq r.voters /\ r.sync # r.voters -> ShrinkVoters(r)
                  [] r.voters \subseteq r.sync /\ r.sync # r.voters -> ShrinkSync(r)
                  [] OTHER -> r
           u == NonSteady(r)
<1>1. u = RestoreFactor(m)
  BY DEF NonSteady
<1>2. m.failed \/ (Good(m, k, s, L) /\ Fixed(m, r) /\ (m = r \/ m.out # <<>>))
  <2>1. CASE r.sync \subseteq r.voters /\ r.sync # r.voters
    <3>1. m = ShrinkVoters(r)
      BY <2>1
    <3>2. QED
      BY <2>1, <3>1, VotersShrunk
  <2>2. CASE r.voters \subseteq r.sync /\ r.sync # r.voters
    <3>1. m = ShrinkSync(r)
      BY <2>2
    <3>2. QED
      BY <2>2, <3>1, SyncShrunk
  <2>3. CASE ~(r.sync \subseteq r.voters /\ r.sync # r.voters) /\ ~(r.voters \subseteq r.sync /\ r.sync # r.voters)
    <3>1. m = r
      BY <2>3
    <3>2. QED
      BY <3>1 DEF Fixed
  <2>4. QED
    BY <2>1, <2>2, <2>3
<1> HIDE DEF m
<1>3. CASE m.failed
  BY <1>1, <1>3 DEF RestoreFactor
<1>4. CASE ~m.failed
  <2>1. u.failed \/
              /\ Good(u, k, s, L) /\ Fixed(u, m)
              /\ \/ u.out # <<>>
                 \/ /\ u = m /\ m.voters = m.sync
                    /\ m.quorum + Lower(m.numsync, m.confirmed) <= Cardinality(m.sync)
    BY <1>1, <1>2, <1>4, FactorRestored
  <2> HIDE DEF u
  <2>2. u.failed \/
              /\ Good(u, k, s, L) /\ Fixed(u, r)
              /\ \/ u.out # <<>>
                 \/ /\ u = r /\ r.voters = r.sync
                    /\ r.quorum + Lower(r.numsync, r.confirmed) <= Cardinality(r.sync)
    BY <1>2, <1>4, <2>1 DEF Fixed
  <2>3. QED
    BY <2>2 DEF u
<1>5. QED
  BY <1>3, <1>4

\* The leader's own /sync has voters, and nobody is waited for.
Lone(r, k, s, L) ==
  /\ Base(r, k, s, L) /\ r.leader = L /\ r.numsync = 0 /\ r.sync = {} /\ r.voters # {} /\ r.confirmed \in Nat

\* The first thing done about it is to wait for the voters of /sync.
LEMMA LoneShrunk ==
  ASSUME NEW L \in Nodes, NEW k, NEW s, NEW r, Lone(r, k, s, L)
  PROVE  LET u == ShrinkVoters(r)
         IN u.failed \/ (Almost(u, k, s, L) /\ Fixed(u, r) /\ u.out # <<>>)
<1> DEFINE gone == r.voters \ (r.sync \cup r.active)
           quorum == Cardinality(r.voters) - Cardinality(gone) - r.numsync
           v == r.voters \ gone
           adjust == r.sync \subseteq r.active
           r1 == IF gone = {} THEN r ELSE QuorumUpdate(r, quorum, v, NoLeader, adjust)
           add == (r1.voters \cap r1.active) \ r1.sync
           names == r1.sync \cup add
           u == IF add = {} THEN r1 ELSE SyncUpdate(r1, r1.numsync, names)
<1>1. u = ShrinkVoters(r)
  BY DEF ShrinkVoters
<1>2. /\ Own(r, k, s, L) /\ r.numsync = 0 /\ r.sync = {} /\ r.confirmed \in Nat
      /\ r.voters \in SUBSET (Nodes \ {L}) /\ r.active \in SUBSET (Nodes \ {L})
      /\ Cardinality(r.voters) \in Nat /\ Cardinality(gone) \in Nat /\ quorum \in Int
      /\ v \in SUBSET (Nodes \ {L}) /\ adjust \in BOOLEAN
  <2>1. /\ Own(r, k, s, L) /\ r.numsync = 0 /\ r.sync = {} /\ r.confirmed \in Nat
        /\ r.voters \subseteq Nodes /\ L \notin r.voters /\ r.active \in SUBSET (Nodes \ {L})
    BY DEF Lone, Base, Known, Own, Resolvers
  <2>2. QED
    BY <2>1, NodesAreFinite
<1>3. Adjustable(r, quorum, v)
  BY <1>2 DEF Adjustable
<1> HIDE DEF r1, add, names, u, quorum, adjust
<1>4. SUFFICES ASSUME ~u.failed
      PROVE  Almost(u, k, s, L) /\ Fixed(u, r) /\ u.out # <<>>
  BY <1>1
<1>5. ~r1.failed
  <2>1. u = r1 \/ u = SyncUpdate(r1, r1.numsync, names)
    BY DEF u
  <2>2. r1.failed => SyncUpdate(r1, r1.numsync, names) = r1
    BY FailedStays
  <2>3. QED
    BY <1>4, <2>1, <2>2
<1>6. CASE gone # {}
  <2>1. r1 = QuorumUpdate(r, quorum, v, NoLeader, adjust)
    BY <1>6 DEF r1
  <2>2. v # r.voters
    BY <1>6
  <2> HIDE DEF v
  <2>3. QuorumMade(r1, r, quorum, v, NoLeader, adjust, k, s, L)
    <3>1. /\ L \in Nodes /\ Own(r, k, s, L) /\ quorum \in Int /\ v \in SUBSET (Nodes \ {L}) /\ adjust \in BOOLEAN
          /\ adjust => Adjustable(r, quorum, v)
          /\ r1 = QuorumUpdate(r, quorum, v, NoLeader, adjust) /\ ~r1.failed
      BY <1>2, <1>3, <1>5, <2>1 DEF v
    <3>2. QED
      BY ONLY <3>1, KnownQuorum, Zenon
  <2>4. Good(r1, k, s, L) /\ Fixed(r1, r) /\ r1.out # <<>>
    BY <2>2, <2>3 DEF QuorumMade
  <2>5. CASE add = {}
    BY <2>4, <2>5, GoodIsAlmost DEF u
  <2>6. CASE add # {}
    <3>1. /\ u = SyncUpdate(r1, r1.numsync, names) /\ r1.numsync \in Int /\ names \in SUBSET (Nodes \ {L})
          /\ r1.numsync = 0 \/ names = {} => r1.voters = {}
      BY <2>4, <2>6, GoodTypes DEF u, names, add
    <3>2. SyncDone(u, r1, r1.numsync, names, k, s, L)
      BY <1>4, <2>4, <3>1, GoodSync, Zenon
    <3>3. Good(u, k, s, L) /\ Fixed(u, r) /\ u.out # <<>>
      BY <2>4, <3>2 DEF SyncDone, Fixed
    <3>4. QED
      BY <3>3, GoodIsAlmost
  <2>7. QED
    BY <2>5, <2>6
<1>7. CASE gone = {}
  <2>1. r1 = r /\ r.voters \subseteq r.active /\ r.voters # {}
    BY <1>2, <1>7 DEF r1, Lone
  <2>2. names = r.voters /\ add # {}
    BY <1>2, <2>1 DEF names, add
  <2>3. u = SyncUpdate(r, 0, r.voters)
    BY <1>2, <2>1, <2>2 DEF u
  <2>4. Base(r, k, s, L) /\ (r.leader = L /\ r.voters = {} => r.voters = {}) /\ r.leader = L /\ 0 \in Int
    BY DEF Lone
  <2>5. /\ Base(u, k, s, L) /\ u.out # <<>> /\ u.sync = r.voters /\ u.voters = r.voters
        /\ u.leader = r.leader /\ Fixed(u, r)
    BY <1>2, <1>4, <2>3, <2>4, SyncStep
  <2>6. QED
    BY <2>1, <2>5 DEF Almost, Lone, Fixed
<1>8. QED
  BY <1>6, <1>7

\* The replication factor is not restored while nobody is waited for.
LEMMA NoFactor ==
  ASSUME NEW L \in Nodes, NEW k, NEW s, NEW r, Almost(r, k, s, L), ~Good(r, k, s, L), r.confirmed \in Nat
  PROVE  LET u == RestoreFactor(r) IN u.failed \/ u = r
<1> DEFINE all == Cardinality(r.voters \cup r.sync)
           margin == r.quorum + Lower(r.numsync, r.confirmed) - all
           quorum == Cardinality(r.sync) - r.numsync
           yes == TRUE
           less == SyncUpdate(r, Higher(r.wanted, Cardinality(r.voters) - r.quorum), r.sync)
           more == QuorumUpdate(r, quorum, r.voters, NoLeader, yes)
           u == RestoreFactor(r)
<1>1. /\ ~r.failed /\ r.numsync = 0 /\ r.wanted \in Nat \ {0} /\ r.voters # {} /\ r.voters = r.sync
      /\ r.voters \in SUBSET (Nodes \ {L}) /\ Own(r, k, s, L)
  BY AlmostTypes DEF Almost, Base, Own
<1>2. Cardinality(r.voters) \in Nat \ {0} /\ quorum = Cardinality(r.voters)
  BY <1>1, NodesAreFinite, NoNodes
<1>3. Adjustable(r, quorum, r.voters)
  BY <1>1 DEF Adjustable
<1>4. u = IF r.failed THEN r
          ELSE IF r.voters # r.sync THEN Fail(r)
          ELSE IF margin > 0
            THEN IF r.numsync > r.wanted THEN less ELSE more
          ELSE IF r.numsync = r.wanted /\ r.quorum + r.numsync > all /\ r.numsync > r.confirmed
            THEN more
          ELSE r
  BY Zenon DEF RestoreFactor
<1> HIDE DEF all, margin, less, u
<1>5. u = r \/ u = more
  <2>1. ~(r.numsync > r.wanted)
    BY <1>1
  <2> HIDE DEF more
  <2>2. QED
    BY <1>1, <1>4, <2>1, Zenon
<1>6. ASSUME ~more.failed
      PROVE  FALSE
  <2> DEFINE voters == r.voters
  <2>1. /\ quorum \in Int /\ voters \in SUBSET (Nodes \ {L}) /\ yes \in BOOLEAN
        /\ Adjustable(r, quorum, voters) /\ more = QuorumUpdate(r, quorum, voters, NoLeader, yes)
    BY <1>1, <1>2, <1>3
  <2> HIDE DEF more, quorum, voters, yes
  <2>2. QuorumMade(more, r, quorum, voters, NoLeader, yes, k, s, L)
    <3>1. L \in Nodes /\ Own(r, k, s, L) /\ ~more.failed /\ (yes => Adjustable(r, quorum, voters))
      BY <1>1, <1>6, <2>1
    <3>2. QED
      BY ONLY <2>1, <3>1, KnownQuorum, Zenon
  <2>3. quorum = 0 \/ quorum < Cardinality(r.voters)
    BY <2>2 DEF QuorumMade, voters
  <2>4. QED
    BY <1>2, <2>3
<1> HIDE DEF more
<1>7. u.failed \/ u = r
  BY <1>5, <1>6
<1>8. QED
  BY <1>7 DEF u

\* __handle_non_steady_cases when nobody is waited for.
LEMMA LoneSteadied ==
  ASSUME NEW L \in Nodes, NEW k, NEW s, NEW r, Lone(r, k, s, L)
  PROVE  LET u == NonSteady(r)
         IN u.failed \/ (Almost(u, k, s, L) /\ Fixed(u, r) /\ u.out # <<>>)
<1> DEFINE m == ShrinkVoters(r)
           u == NonSteady(r)
<1>1. r.sync \subseteq r.voters /\ r.sync # r.voters /\ r.confirmed \in Nat
  BY DEF Lone
<1>2. u = RestoreFactor(m)
  <2> HIDE DEF m, u
  <2>1. QED
    BY <1>1 DEF NonSteady, m, u
<1>3. m.failed \/ (Almost(m, k, s, L) /\ Fixed(m, r) /\ m.out # <<>>)
  BY LoneShrunk
<1> HIDE DEF m, u
<1>4. CASE m.failed
  BY <1>2, <1>4 DEF RestoreFactor, u
<1>5. CASE ~m.failed /\ Good(m, k, s, L)
  <2>1. u.failed \/
          /\ Good(u, k, s, L) /\ Fixed(u, m)
          /\ \/ u.out # <<>>
             \/ /\ u = m /\ m.voters = m.sync
                /\ m.quorum + Lower(m.numsync, m.confirmed) <= Cardinality(m.sync)
    BY <1>2, <1>5, FactorRestored
  <2>2. u.failed \/ (Almost(u, k, s, L) /\ Fixed(u, r) /\ u.out # <<>>)
    BY <1>3, <1>5, <2>1, GoodIsAlmost DEF Fixed
  <2>3. QED
    BY <2>2 DEF u
<1>6. CASE ~m.failed /\ ~Good(m, k, s, L)
  <2>1. Almost(m, k, s, L) /\ m.confirmed \in Nat
    BY <1>1, <1>3, <1>6 DEF Fixed
  <2>2. u.failed \/ u = m
    BY <1>2, <1>6, <2>1, NoFactor
  <2>3. QED
    BY <1>3, <1>6, <2>2 DEF u
<1>7. QED
  BY <1>4, <1>5, <1>6

\* __remove_gone_nodes: who does not stream any more leaves both sets.
LEMMA GoneRemoved ==
  ASSUME NEW L \in Nodes, NEW k, NEW s, NEW r, Good(r, k, s, L)
  PROVE  LET u == RemoveGone(r)
         IN u.failed \/
              (Good(u, k, s, L) /\ Fixed(u, r) /\ (u.out # <<>> \/ (u = r /\ r.sync \subseteq r.active)))
<1> DEFINE gone == r.sync \ r.active
           remove == Largest(gone, r.quorum)
           sync == r.sync \ remove
           num1 == Lower(IF r.wanted > r.numsync THEN r.wanted ELSE r.numsync, Cardinality(sync))
           r1 == SyncUpdate(r, num1, sync)
           left == gone \cap r1.sync
           v1 == r1.voters \ remove
           q1 == Cardinality(v1) - r1.numsync
           nobody == left = {}
           r2 == IF r.quorum = 0 THEN r ELSE QuorumUpdate(r1, q1, v1, NoLeader, nobody)
           rest == IF r.quorum = 0 THEN gone ELSE left
           numsync == r2.numsync - Cardinality(rest)
           sync2 == r2.sync \ rest
           voters2 == r2.voters \ rest
           less == numsync - Lower(r.wanted, Cardinality(sync2))
           q2 == IF less # 0 THEN Lower(less, Cardinality(voters2) - 1) ELSE 0
           all == QuorumUpdate(r, 0, {}, NoLeader, FALSE)
           fewer == QuorumUpdate(r2, q2, voters2, NoLeader, FALSE)
           u == IF gone = {} THEN r
                ELSE IF gone = r.sync THEN SyncUpdate(all, 0, {})
                ELSE IF rest = {} \/ r2.failed THEN r2
                ELSE IF r2.quorum # 0 THEN Fail(r2)
                ELSE SyncUpdate(fewer, numsync, sync2)
<1>1. u = RemoveGone(r)
  <2>1. ~r.failed
    BY GoodTypes
  <2>2. RemoveGone(r) = IF r.failed \/ gone = {} THEN r
                        ELSE IF gone = r.sync THEN SyncUpdate(all, 0, {})
                        ELSE IF rest = {} \/ r2.failed THEN r2
                        ELSE IF r2.quorum # 0 THEN Fail(r2)
                        ELSE SyncUpdate(fewer, numsync, sync2)
    BY Zenon DEF RemoveGone
  <2> HIDE DEF gone, all, rest, r2, fewer, numsync, sync2
  <2>3. QED
    BY <2>1, <2>2, SMTT(60)
<1> HIDE DEF remove, sync, num1, r1, left, v1, q1, nobody, r2, rest, numsync, sync2, voters2, less, q2, all, fewer, u
<1>2. SUFFICES ASSUME ~u.failed
      PROVE  Good(u, k, s, L) /\ Fixed(u, r) /\ (u.out # <<>> \/ (u = r /\ r.sync \subseteq r.active))
  BY <1>1
<1>3. /\ r.numsync \in Nat /\ r.quorum \in Nat /\ r.confirmed \in Int /\ r.wanted \in Nat \ {0}
      /\ r.voters \in SUBSET (Nodes \ {L}) /\ r.sync \in SUBSET (Nodes \ {L})
      /\ r.numsync <= Cardinality(r.sync)
  BY GoodTypes
<1>4. CASE gone = {}
  BY <1>4 DEF u, Fixed
<1>5. CASE gone # {} /\ gone = r.sync
  <2>1. u = SyncUpdate(all, 0, {}) /\ all = QuorumUpdate(r, 0, {}, NoLeader, FALSE)
    BY <1>5 DEF u, all
  <2>2. ~all.failed
    BY <1>2, <2>1, BeforeSync, Zenon
  <2>3. 0 \in Int /\ {} \in SUBSET (Nodes \ {L}) /\ FALSE \in BOOLEAN
    OBVIOUS
  <2>4. QuorumDone(all, r, 0, {}, FALSE, k, s, L)
    BY <2>1, <2>2, <2>3, GoodQuorum, Zenon
  <2>5. Good(all, k, s, L) /\ Fixed(all, r) /\ all.voters = {}
    BY <2>4 DEF QuorumDone, QuorumMade
  <2>6. SyncDone(u, all, 0, {}, k, s, L)
    BY <1>2, <2>1, <2>3, <2>5, GoodSync, Zenon
  <2>7. QED
    BY <2>5, <2>6 DEF SyncDone, Fixed
<1>6. CASE gone # {} /\ gone # r.sync
  <2>1. remove \subseteq gone /\ r.sync \ gone # {}
    BY <1>6 DEF remove, Largest
  <2>2. ASSUME r.quorum # 0, ~r1.failed
        PROVE  Good(r1, k, s, L) /\ Fixed(r1, r) /\ r1.out # <<>> /\ r1.sync = sync /\ r1.numsync # 0
    <3>1. sync # {} /\ sync \in SUBSET (Nodes \ {L})
      BY <1>3, <2>1 DEF sync
    <3>2. Cardinality(sync) \in Nat \ {0}
      BY <3>1, NodesAreFinite, NoNodes
    <3>3. num1 \in Int /\ num1 # 0
      BY <1>3, <3>2 DEF num1, Lower
    <3>4. r1 = SyncUpdate(r, num1, sync) /\ (num1 = 0 \/ sync = {} => r.voters = {})
      BY <3>1, <3>3 DEF r1
    <3>5. SyncDone(r1, r, num1, sync, k, s, L)
      BY <2>2, <3>1, <3>3, <3>4, GoodSync, Zenon
    <3>6. QED
      BY <3>3, <3>5 DEF SyncDone
  <2>3. ASSUME ~r2.failed
        PROVE  /\ Good(r2, k, s, L) /\ Fixed(r2, r) /\ r.sync \ gone \subseteq r2.sync
               /\ r.quorum # 0 => r2.out # <<>>
    <3>1. CASE r.quorum = 0
      BY <3>1 DEF r2, Fixed
    <3>2. CASE r.quorum # 0
      <4>1. r2 = QuorumUpdate(r1, q1, v1, NoLeader, nobody)
        BY <3>2 DEF r2
      <4>2. ~r1.failed
        BY <2>3, <4>1, BeforeQuorum, Zenon
      <4>3. Good(r1, k, s, L) /\ Fixed(r1, r) /\ r1.out # <<>> /\ r1.sync = sync /\ r1.numsync # 0
        BY <2>2, <3>2, <4>2
      <4>4. v1 \in SUBSET (Nodes \ {L}) /\ r1.numsync \in Nat \ {0}
        BY <4>3, GoodTypes DEF v1
      <4>5. Cardinality(v1) \in Nat /\ (v1 = {} => Cardinality(v1) = 0)
        BY <4>4, NodesAreFinite, NoNodes
      <4>6. q1 \in Int /\ (v1 = {} => q1 < 0)
        BY <4>4, <4>5 DEF q1
      <4>7. Adjustable(r1, q1, v1) /\ nobody \in BOOLEAN
        BY <4>4, <4>6 DEF Adjustable, nobody
      <4>8. QuorumDone(r2, r1, q1, v1, nobody, k, s, L)
        BY <2>3, <4>1, <4>3, <4>4, <4>6, <4>7, GoodQuorum, Zenon
      <4>9. QED
        BY <2>1, <4>3, <4>8 DEF QuorumDone, QuorumMade, Fixed, sync
    <3>3. QED
      BY <3>1, <3>2
  <2>4. CASE rest = {} \/ r2.failed
    <3>1. u = r2 /\ ~r2.failed
      BY <1>2, <1>6, <2>4 DEF u
    <3>2. r.quorum # 0
      BY <1>6, <2>4, <3>1 DEF rest
    <3>3. QED
      BY <2>3, <3>1, <3>2
  <2>5. CASE rest # {} /\ ~r2.failed
    <3>1. Good(r2, k, s, L) /\ Fixed(r2, r) /\ r.sync \ gone \subseteq r2.sync
      BY <2>3, <2>5
    <3>2. r2.quorum = 0
      <4>1. ASSUME r2.quorum # 0
            PROVE  u = Fail(r2)
        BY <1>6, <2>5, <4>1 DEF u
      <4>2. Fail(r2).failed
        BY <3>1, FailFails DEF Good, Base, Known
      <4>3. QED
        BY <1>2, <4>1, <4>2
    <3>3. u = SyncUpdate(fewer, numsync, sync2) /\ fewer = QuorumUpdate(r2, q2, voters2, NoLeader, FALSE)
      BY <1>6, <2>5, <3>2 DEF u, fewer
    <3>4. ~fewer.failed
      BY <1>2, <3>3, BeforeSync, Zenon
    <3>5. rest \subseteq gone
      BY DEF rest, left
    <3>6. /\ voters2 \in SUBSET (Nodes \ {L}) /\ sync2 \in SUBSET (Nodes \ {L}) /\ sync2 # {}
          /\ r2.numsync \in Nat /\ rest \subseteq Nodes
      BY <1>3, <2>1, <3>1, <3>5, GoodTypes DEF voters2, sync2
    <3>7. /\ Cardinality(voters2) \in Nat /\ Cardinality(sync2) \in Nat \ {0} /\ Cardinality(rest) \in Nat
      BY <3>6, NodesAreFinite, NoNodes
    <3>8. numsync \in Int /\ less \in Int /\ q2 \in Int /\ FALSE \in BOOLEAN
          /\ (q2 >= 0 => numsync > 0)
      BY <1>3, <3>6, <3>7 DEF numsync, less, q2, Lower
    <3>9. QuorumDone(fewer, r2, q2, voters2, FALSE, k, s, L)
      BY <3>1, <3>3, <3>4, <3>6, <3>8, GoodQuorum, Zenon
    <3>10. Good(fewer, k, s, L) /\ Fixed(fewer, r2) /\ q2 >= 0
      BY <3>9 DEF QuorumDone, QuorumMade
    <3>11. numsync = 0 \/ sync2 = {} => fewer.voters = {}
      BY <3>6, <3>8, <3>10
    <3>12. SyncDone(u, fewer, numsync, sync2, k, s, L)
      BY <1>2, <3>3, <3>6, <3>8, <3>10, <3>11, GoodSync, Zenon
    <3>13. QED
      BY <3>1, <3>10, <3>12 DEF SyncDone, Fixed
  <2>6. QED
    BY <2>4, <2>5
<1>7. QED
  BY <1>4, <1>5, <1>6

\* Nothing is removed while everybody is there.
LEMMA NobodyGone ==
  ASSUME NEW r, r.sync \subseteq r.active
  PROVE  RemoveGone(r) = r
<1> DEFINE gone == r.sync \ r.active
           remove == Largest(gone, r.quorum)
           sync == r.sync \ remove
           num1 == Lower(IF r.wanted > r.numsync THEN r.wanted ELSE r.numsync, Cardinality(sync))
           r1 == SyncUpdate(r, num1, sync)
           left == gone \cap r1.sync
           v1 == r1.voters \ remove
           q1 == Cardinality(v1) - r1.numsync
           nobody == left = {}
           r2 == IF r.quorum = 0 THEN r ELSE QuorumUpdate(r1, q1, v1, NoLeader, nobody)
           rest == IF r.quorum = 0 THEN gone ELSE left
           numsync == r2.numsync - Cardinality(rest)
           sync2 == r2.sync \ rest
           voters2 == r2.voters \ rest
           less == numsync - Lower(r.wanted, Cardinality(sync2))
           q2 == IF less # 0 THEN Lower(less, Cardinality(voters2) - 1) ELSE 0
           all == QuorumUpdate(r, 0, {}, NoLeader, FALSE)
           fewer == QuorumUpdate(r2, q2, voters2, NoLeader, FALSE)
           late == IF gone = r.sync THEN SyncUpdate(all, 0, {})
                   ELSE IF rest = {} \/ r2.failed THEN r2
                   ELSE IF r2.quorum # 0 THEN Fail(r2)
                   ELSE SyncUpdate(fewer, numsync, sync2)
<1>1. RemoveGone(r) = IF r.failed \/ gone = {} THEN r ELSE late
  BY ZenonT(60) DEF RemoveGone
<1>2. gone = {}
  OBVIOUS
<1> HIDE DEF gone, late
<1>3. QED
  BY <1>1, <1>2, SMTT(60)

\* The same when nobody is waited for yet.
LEMMA AlmostGone ==
  ASSUME NEW L \in Nodes, NEW k, NEW s, NEW r, Almost(r, k, s, L)
  PROVE  LET u == RemoveGone(r)
         IN u.failed \/
              (Almost(u, k, s, L) /\ Fixed(u, r) /\ (u.out # <<>> \/ (u = r /\ r.sync \subseteq r.active)))
<1>1. CASE Good(r, k, s, L)
  BY <1>1, GoneRemoved, GoodIsAlmost
<1>2. CASE ~Good(r, k, s, L)
  <2>1. r.sync \subseteq r.active /\ r.out # <<>>
    BY <1>2, AlmostTypes
  <2>2. RemoveGone(r) = r
    BY <2>1, NobodyGone
  <2>3. QED
    BY <2>1, <2>2 DEF Fixed
<1>3. QED
  BY <1>1, <1>2

\* After an error __add_new_nodes changes nothing.
LEMMA FailedAdd ==
  ASSUME NEW r, r.failed
  PROVE  AddNew(r) = r
<1> DEFINE new == r.active \ r.sync
           want == Lower(r.wanted, Cardinality(r.sync \cup new))
           more == want - r.numsync
           add == IF r.sync # {} THEN Least(new, more) ELSE new
           up == IF r.sync # {} THEN Cardinality(add) ELSE more
           num1 == r.numsync + up
           sync1 == r.sync \cup add
           t == SyncUpdate(r, num1, sync1)
           v1 == t.voters \cup add
           q1 == Cardinality(v1) - want
           r1 == IF more <= 0 THEN r ELSE QuorumUpdate(t, q1, v1, NoLeader, TRUE)
           rest == IF more <= 0 THEN new ELSE new \ r1.sync
           v2 == r1.voters \cup rest
           q2 == Cardinality(v2) - want
           adjust == want > r1.confirmed
           q == QuorumUpdate(r1, q2, v2, NoLeader, adjust)
           sync2 == q.sync \cup rest
           late == IF rest = {} THEN r1 ELSE SyncUpdate(q, want, sync2)
<1>1. AddNew(r) = IF r.failed \/ new = {} THEN r ELSE late
  BY Zenon DEF AddNew
<1> HIDE DEF new, late
<1>2. QED
  BY <1>1, SMTT(60)

\* __add_new_nodes: who streams is in both sets, with the number of standbys that is wanted.
LEMMA NewAdded ==
  ASSUME NEW L \in Nodes, NEW k, NEW s, NEW r, Almost(r, k, s, L)
  PROVE  LET u == AddNew(r)
         IN u.failed \/
              \/ u = r /\ r.active \subseteq r.sync
              \/ Good(u, k, s, L) /\ Fixed(u, r) /\ u.out # <<>>
<1> DEFINE new == r.active \ r.sync
           want == Lower(r.wanted, Cardinality(r.sync \cup new))
           more == want - r.numsync
           add == IF r.sync # {} THEN Least(new, more) ELSE new
           up == IF r.sync # {} THEN Cardinality(add) ELSE more
           num1 == r.numsync + up
           sync1 == r.sync \cup add
           t == SyncUpdate(r, num1, sync1)
           v1 == t.voters \cup add
           q1 == Cardinality(v1) - want
           r1 == IF more <= 0 THEN r ELSE QuorumUpdate(t, q1, v1, NoLeader, TRUE)
           rest == IF more <= 0 THEN new ELSE new \ r1.sync
           v2 == r1.voters \cup rest
           q2 == Cardinality(v2) - want
           adjust == want > r1.confirmed
           q == QuorumUpdate(r1, q2, v2, NoLeader, adjust)
           sync2 == q.sync \cup rest
           u == IF new = {} THEN r
                ELSE IF rest = {} THEN r1
                ELSE SyncUpdate(q, want, sync2)
<1>1. u = AddNew(r)
  <2>1. ~r.failed
    BY AlmostTypes, SMTT(60)
  <2>2. AddNew(r) = IF r.failed \/ new = {} THEN r
                    ELSE IF rest = {} THEN r1
                    ELSE SyncUpdate(q, want, sync2)
    BY Zenon DEF AddNew
  <2> HIDE DEF new, rest, r1, q, want, sync2
  <2>3. QED
    BY <2>1, <2>2
<1> HIDE DEF want, more, add, up, num1, sync1, t, v1, q1, r1, rest, v2, q2, adjust, q, sync2, u
<1>2. SUFFICES ASSUME ~u.failed
      PROVE  (u = r /\ r.active \subseteq r.sync) \/ (Good(u, k, s, L) /\ Fixed(u, r) /\ u.out # <<>>)
  BY <1>1
<1>3. /\ r.numsync \in Nat /\ r.confirmed \in Int /\ r.wanted \in Nat \ {0}
      /\ r.voters \in SUBSET (Nodes \ {L}) /\ r.sync \in SUBSET (Nodes \ {L})
      /\ r.active \in SUBSET (Nodes \ {L})
      /\ r.numsync # 0 => Good(r, k, s, L)
      /\ r.numsync = 0 => r.voters = {} \/ r.sync # {}
  BY AlmostTypes
<1>4. CASE new = {}
  BY <1>4 DEF u, Fixed
<1>5. CASE new # {}
  <2>1. want \in Nat \ {0} /\ more \in Int /\ more = want - r.numsync
    <3>1. r.sync \cup new # {} /\ r.sync \cup new \subseteq Nodes
      BY <1>3, <1>5
    <3>2. Cardinality(r.sync \cup new) \in Nat \ {0}
      BY <3>1, NodesAreFinite, NoNodes
    <3>3. want \in Nat \ {0}
      BY <1>3, <3>2 DEF want, Lower
    <3>4. QED
      BY <1>3, <3>3 DEF more
  <2>2. add \subseteq new /\ add \in SUBSET (Nodes \ {L}) /\ Cardinality(add) \in Nat
        /\ (Cardinality(add) = 0 => add = {}) /\ (r.sync = {} => add = new)
    <3>1. add \subseteq new /\ (r.sync = {} => add = new)
      BY DEF add, Least
    <3>2. add \in SUBSET (Nodes \ {L})
      BY <1>3, <3>1
    <3>3. QED
      BY <3>1, <3>2, NodesAreFinite, NoNodes
  <2>3. r.sync # {} /\ more > 0 => add # {}
    BY <1>3, <1>5, <2>1, SomeAreFirst DEF add
  <2>4. ASSUME ~(more <= 0), ~r1.failed
        PROVE  /\ Good(r1, k, s, L) /\ Fixed(r1, r) /\ r1.out # <<>> /\ r1.numsync # 0
    <3>1. r1 = QuorumUpdate(t, q1, v1, NoLeader, TRUE)
      BY <2>4 DEF r1
    <3>2. ~t.failed
      BY <2>4, <3>1, BeforeQuorum, Zenon
    <3>3. up \in Nat /\ (up = 0 => add = {})
      BY <2>1, <2>2, <2>4 DEF up
    <3>4. num1 \in Int /\ sync1 \in SUBSET (Nodes \ {L}) /\ sync1 # {}
          /\ (num1 = 0 => r.numsync = 0 /\ add = {})
      BY <1>3, <1>5, <2>2, <3>3 DEF num1, sync1
    <3>5. num1 = 0 => r.voters = {}
      BY <1>3, <2>1, <2>3, <2>4, <3>4
    <3>6. t = SyncUpdate(r, num1, sync1) /\ (num1 = 0 \/ sync1 = {} => r.voters = {})
      BY <3>4, <3>5 DEF t
    <3>7. SyncDone(t, r, num1, sync1, k, s, L)
      BY <3>2, <3>4, <3>6, AlmostSync, Zenon
    <3>8. Good(t, k, s, L) /\ Fixed(t, r) /\ t.out # <<>> /\ t.numsync = num1 /\ t.voters = r.voters
      BY <3>7 DEF SyncDone
    <3>9. v1 \in SUBSET (Nodes \ {L})
      BY <1>3, <2>2, <3>8 DEF v1
    <3>10. Cardinality(v1) \in Nat /\ (v1 = {} => Cardinality(v1) = 0)
      BY <3>9, NodesAreFinite, NoNodes
    <3>11. q1 \in Int /\ (v1 = {} => q1 < 0) /\ TRUE \in BOOLEAN
      BY <2>1, <3>10 DEF q1
    <3>12. num1 = 0 => v1 = {}
      BY <3>4, <3>8, <3>5 DEF v1
    <3>13. Adjustable(t, q1, v1)
      BY <3>8, <3>11, <3>12 DEF Adjustable
    <3>14. QuorumDone(r1, t, q1, v1, TRUE, k, s, L)
      BY <2>4, <3>1, <3>8, <3>9, <3>11, <3>13, GoodQuorum, Zenon
    <3>15. Good(r1, k, s, L) /\ Fixed(r1, t) /\ r1.numsync = num1 /\ q1 >= 0 /\ (r1 = t \/ r1.out # <<>>)
      BY <3>8, <3>14 DEF QuorumDone, QuorumMade
    <3>16. num1 # 0
      BY <3>11, <3>12, <3>15
    <3>17. QED
      BY <3>8, <3>15, <3>16 DEF Fixed
  <2>5. CASE rest = {}
    <3>1. u = r1 /\ ~r1.failed
      BY <1>2, <1>5, <2>5 DEF u
    <3>2. ~(more <= 0)
      BY <1>5, <2>5 DEF rest
    <3>3. QED
      BY <2>4, <3>1, <3>2
  <2>6. CASE rest # {}
    <3>1. u = SyncUpdate(q, want, sync2) /\ q = QuorumUpdate(r1, q2, v2, NoLeader, adjust)
      BY <1>5, <2>6 DEF u, q
    <3>2. ~q.failed
      BY <1>2, <3>1, BeforeSync, Zenon
    <3>3. ~r1.failed
      BY <3>1, <3>2, BeforeQuorum, Zenon
    <3>4. Good(r1, k, s, L) /\ Fixed(r1, r) /\ r1.numsync # 0
      <4>1. CASE more <= 0
        BY <1>3, <2>1, <4>1 DEF r1, Fixed
      <4>2. QED
        BY <2>4, <3>3, <4>1
    <3>5. rest \subseteq new
      BY DEF rest
    <3>6. v2 \in SUBSET (Nodes \ {L}) /\ v2 # {} /\ rest \in SUBSET (Nodes \ {L})
      BY <1>3, <2>6, <3>4, <3>5, GoodTypes DEF v2
    <3>7. q2 \in Int /\ adjust \in BOOLEAN /\ Adjustable(r1, q2, v2)
      <4>1. Cardinality(v2) \in Nat
        BY <3>6, NodesAreFinite
      <4>2. QED
        BY <2>1, <3>4, <3>6, <4>1 DEF q2, adjust, Adjustable
    <3>8. QuorumDone(q, r1, q2, v2, adjust, k, s, L)
      <4>1. q = QuorumUpdate(r1, q2, v2, NoLeader, adjust) /\ ~q.failed /\ Good(r1, k, s, L)
        BY <3>1, <3>2, <3>4
      <4>2. q2 \in Int /\ v2 \in SUBSET (Nodes \ {L}) /\ adjust \in BOOLEAN
        BY <3>6, <3>7
      <4>3. adjust => Adjustable(r1, q2, v2)
        BY <3>7
      <4>4. QED
        BY <4>1, <4>2, <4>3, GoodQuorum, Zenon
    <3>9. Good(q, k, s, L) /\ Fixed(q, r1)
      BY <3>8 DEF QuorumDone, QuorumMade
    <3>10. sync2 \in SUBSET (Nodes \ {L}) /\ sync2 # {} /\ want \in Int /\ want # 0
      BY <2>1, <2>6, <3>6, <3>9, GoodTypes DEF sync2
    <3>11. want = 0 \/ sync2 = {} => q.voters = {}
      BY <3>10
    <3>12. SyncDone(u, q, want, sync2, k, s, L)
      BY <1>2, <3>1, <3>9, <3>10, <3>11, GoodSync, Zenon
    <3>13. QED
      BY <3>4, <3>9, <3>12 DEF SyncDone, Fixed
  <2>7. QED
    BY <2>5, <2>6
<1>6. QED
  BY <1>4, <1>5

\* __handle_replication_factor_change: the number of standbys waited for is the one that is wanted.
LEMMA FactorChanged ==
  ASSUME NEW L \in Nodes, NEW k, NEW s, NEW r, Almost(r, k, s, L)
  PROVE  LET u == ChangeFactor(r)
         IN u.failed \/
              /\ Good(u, k, s, L) /\ Fixed(u, r)
              /\ u.out # <<>> \/ (u = r /\ r.numsync = Lower(r.wanted, Cardinality(r.sync)))
<1> DEFINE target == Lower(r.wanted, Cardinality(r.sync))
           increase == target - r.numsync
           num1 == r.numsync + increase
           up == SyncUpdate(r, num1, r.sync)
           q1 == Cardinality(up.voters) - up.numsync
           q2 == Cardinality(r.voters) - r.numsync - increase
           adjust == r.wanted > r.confirmed
           voting == r.quorum - increase < Cardinality(r.voters)
           down == IF voting THEN QuorumUpdate(r, q2, r.voters, NoLeader, adjust) ELSE r
           num2 == down.numsync + increase
           u == IF increase = 0 THEN r
                ELSE IF increase > 0 THEN QuorumUpdate(up, q1, up.voters, NoLeader, TRUE)
                ELSE SyncUpdate(down, num2, down.sync)
<1>1. u = ChangeFactor(r)
  <2>1. ~r.failed
    BY AlmostTypes
  <2>2. ChangeFactor(r) = IF r.failed \/ increase = 0 THEN r
                ELSE IF increase > 0 THEN QuorumUpdate(up, q1, up.voters, NoLeader, TRUE)
                ELSE SyncUpdate(down, num2, down.sync)
    BY Zenon DEF ChangeFactor
  <2> HIDE DEF increase, up, q1, down, num2
  <2>3. QED
    BY <2>1, <2>2
<1> HIDE DEF target, increase, num1, up, q1, q2, adjust, voting, down, num2, u
<1>2. SUFFICES ASSUME ~u.failed
      PROVE  Good(u, k, s, L) /\ Fixed(u, r) /\ (u.out # <<>> \/ (u = r /\ r.numsync = target))
  BY <1>1 DEF target
<1>3. /\ r.numsync \in Nat /\ r.quorum \in Nat /\ r.confirmed \in Int /\ r.wanted \in Nat \ {0}
      /\ r.voters \in SUBSET (Nodes \ {L}) /\ r.sync \in SUBSET (Nodes \ {L})
      /\ r.numsync <= Cardinality(r.sync) /\ Cardinality(r.sync) \in Nat /\ Cardinality(r.voters) \in Nat
  BY AlmostTypes, NodesAreFinite
<1>4. r.numsync # 0 \/ r.sync = {} => Good(r, k, s, L)
  BY AlmostTypes
<1>5. /\ target \in Nat /\ increase \in Int /\ increase = target - r.numsync /\ num1 = target
      /\ increase # 0 => target # 0 /\ r.sync # {}
  <2>1. r.sync = {} => Cardinality(r.sync) = 0
    BY NoNodes
  <2>2. QED
    BY <1>3, <2>1 DEF target, increase, num1, Lower
<1>6. /\ increase = 0 => u = r
      /\ increase # 0 /\ increase > 0 => u = QuorumUpdate(up, q1, up.voters, NoLeader, TRUE)
      /\ increase # 0 /\ ~(increase > 0) => u = SyncUpdate(down, num2, down.sync)
  BY Zenon DEF u
<1>7. CASE increase = 0
  <2>1. r.numsync # 0 \/ r.sync = {}
    <3>1. r.sync # {} => Cardinality(r.sync) # 0
      BY <1>3, NoNodes
    <3>2. QED
      BY <1>3, <1>5, <1>7, <3>1 DEF target, Lower
  <2>2. QED
    BY <1>6, <1>3, <1>5, <1>7, <1>4, <2>1 DEF Fixed
<1>8. CASE increase > 0
  <2>1. u = QuorumUpdate(up, q1, up.voters, NoLeader, TRUE)
    <3>1. increase # 0
      BY <1>5, <1>8
    <3>2. QED
      BY <1>6, <1>8, <3>1, Zenon
  <2>2. ~up.failed
    <3>1. up.failed => QuorumUpdate(up, q1, up.voters, NoLeader, TRUE) = up
      BY FailedStays, ZenonT(60)
    <3>2. QED
      BY <1>2, <2>1, <3>1
  <2>3. up = SyncUpdate(r, num1, r.sync) /\ num1 \in Int /\ (num1 = 0 \/ r.sync = {} => r.voters = {})
    BY <1>5, <1>8 DEF up
  <2>4. SyncDone(up, r, num1, r.sync, k, s, L)
    BY <1>3, <2>2, <2>3, AlmostSync, Zenon
  <2>5. /\ Good(up, k, s, L) /\ Fixed(up, r) /\ up.out # <<>> /\ up.numsync = target /\ up.voters = r.voters
    BY <1>5, <2>4 DEF SyncDone
  <2>6. q1 \in Int /\ (up.voters = {} => q1 < 0) /\ up.voters \in SUBSET (Nodes \ {L})
    <3>1. q1 = Cardinality(r.voters) - target
      BY <2>5 DEF q1
    <3>2. r.voters = {} => Cardinality(r.voters) = 0
      BY NoNodes
    <3>3. q1 \in Int /\ (r.voters = {} => q1 < 0)
      BY <1>3, <1>5, <1>8, <3>1, <3>2
    <3>4. QED
      BY <1>3, <2>5, <3>3
  <2>7. TRUE \in BOOLEAN
    OBVIOUS
  <2>8. Adjustable(up, q1, up.voters)
    BY <1>5, <1>8, <2>5, <2>6 DEF Adjustable
  <2>9. QuorumDone(u, up, q1, up.voters, TRUE, k, s, L)
    BY <1>2, <2>7, <2>1, <2>5, <2>6, <2>8, GoodQuorum, Zenon
  <2>10. QED
    BY <2>5, <2>9 DEF QuorumDone, QuorumMade, Fixed
<1>9. CASE increase < 0
  <2>1. Good(r, k, s, L)
    BY <1>3, <1>5, <1>9, <1>4
  <2>2. u = SyncUpdate(down, num2, down.sync)
    BY <1>6, <1>5, <1>9
  <2>3. ~down.failed
    <3>1. down.failed => SyncUpdate(down, num2, down.sync) = down
      BY FailedStays
    <3>2. QED
      BY <1>2, <2>2, <3>1
  <2>4. Good(down, k, s, L) /\ Fixed(down, r) /\ down.numsync = r.numsync /\ down.sync = r.sync
    <3>1. CASE voting
      <4>1. down = QuorumUpdate(r, q2, r.voters, NoLeader, adjust)
        BY <3>1 DEF down
      <4>2. q2 \in Int /\ (r.voters = {} => q2 < 0) /\ adjust \in BOOLEAN
        <5>1. r.voters = {} => Cardinality(r.voters) = 0
          BY NoNodes
        <5>2. q2 = Cardinality(r.voters) - target
          BY <1>3, <1>5 DEF q2
        <5>3. QED
          BY <1>3, <1>5, <1>9, <5>1, <5>2 DEF adjust
      <4>3. Adjustable(r, q2, r.voters)
        BY <1>3, <1>5, <1>9, <4>2 DEF Adjustable
      <4>4. QuorumDone(down, r, q2, r.voters, adjust, k, s, L)
        <5>1. r.voters \in SUBSET (Nodes \ {L})
          BY <1>3
        <5>2. QED
          BY <2>1, <2>3, <4>1, <4>2, <4>3, <5>1, GoodQuorum, Zenon
      <4>5. QED
        BY <4>4 DEF QuorumDone, QuorumMade
    <3>2. CASE ~voting
      BY <2>1, <3>2 DEF down, Fixed
    <3>3. QED
      BY <3>1, <3>2
  <2>5. num2 = target /\ num2 \in Int /\ down.sync \in SUBSET (Nodes \ {L})
        /\ (num2 = 0 \/ down.sync = {} => down.voters = {})
    BY <1>3, <1>5, <1>9, <2>4 DEF num2
  <2>6. SyncDone(u, down, num2, down.sync, k, s, L)
    BY <1>2, <2>2, <2>4, <2>5, GoodSync, Zenon
  <2>7. QED
    BY <2>4, <2>6 DEF SyncDone, Fixed
<1>10. QED
  BY <1>5, <1>7, <1>8, <1>9
-----------------------------------------------------------------------------
(* _generate_transitions *)

\* Yielding a change keeps the type of a resolver.
LEMMA YieldTyped ==
  ASSUME NEW L \in Nodes, NEW c \in Resolvers(L), NEW t \in Changes
  PROVE  Yield(c, t) \in Resolvers(L) /\ Yield(c, t).leader = c.leader
<1>1. c.out \in Seq(Changes)
  BY DEF Resolvers
<1>2. Merged(c.out, t) \in Seq(Changes)
  BY <1>1, MergedIsTyped
<1>3. [c EXCEPT !.out = Merged(c.out, t)] \in Resolvers(L) /\ [c EXCEPT !.out = Merged(c.out, t)].leader = c.leader
  BY <1>2 DEF Resolvers
<1>4. Fail(c) \in Resolvers(L) /\ Fail(c).leader = c.leader
  BY DEF Resolvers, Fail
<1>5. QED
  BY <1>3, <1>4 DEF Yield

\* So does sync_update, whether it fails or not.
LEMMA SyncTyped ==
  ASSUME NEW L \in Nodes, NEW r \in Resolvers(L), NEW num \in Int, NEW names \in SUBSET (Nodes \ {L})
  PROVE  SyncUpdate(r, num, names) \in Resolvers(L) /\ SyncUpdate(r, num, names).leader = r.leader
<1> DEFINE c == [r EXCEPT !.numsync = num, !.sync = names]
           t == Transition("sync", num, names, r.leader)
           u == SyncUpdate(r, num, names)
<1>1. u = IF r.failed THEN r
          ELSE IF num < 0 \/ num > Cardinality(names) THEN Fail(r) ELSE Yield(c, t)
  BY Zenon DEF SyncUpdate
<1>2. Fail(r) \in Resolvers(L) /\ Fail(r).leader = r.leader
  BY DEF Fail, Resolvers
<1>3. ASSUME num >= 0
      PROVE  c \in Resolvers(L) /\ c.leader = r.leader /\ t \in Changes
  <2>1. num \in Nat /\ r.leader \in Nodes /\ names \in SUBSET Nodes
    BY <1>3 DEF Resolvers
  <2>2. t \in Changes
    BY <2>1 DEF Changes, Transition
  <2>3. c \in Resolvers(L) /\ c.leader = r.leader
    BY <2>1 DEF Resolvers
  <2>4. QED
    BY <2>2, <2>3
<1>4. num >= 0 => Yield(c, t) \in Resolvers(L) /\ Yield(c, t).leader = r.leader
  BY <1>3, YieldTyped
<1> HIDE DEF c, t, u
<1>5. u \in Resolvers(L) /\ u.leader = r.leader
  BY <1>1, <1>2, <1>4
<1>6. QED
  BY <1>5 DEF u

\* And quorum_update.
LEMMA QuorumTyped ==
  ASSUME NEW L \in Nodes, NEW r \in Resolvers(L), NEW quorum \in Int, NEW voters \in SUBSET Nodes,
         NEW lead, lead = NoLeader \/ lead \in Nodes, NEW adjust \in BOOLEAN
  PROVE  LET u == QuorumUpdate(r, quorum, voters, lead, adjust)
         IN u \in Resolvers(L) /\ (lead = NoLeader => u.leader = r.leader)
<1> DEFINE l == IF lead # NoLeader THEN lead ELSE r.leader
           none == lead = NoLeader /\ r.confirmed = 0 /\ r.voters = {}
           v == IF none THEN {} ELSE voters
           q == IF none THEN 0
                ELSE IF lead = NoLeader /\ adjust THEN quorum + Higher(r.numsync - r.confirmed, 0)
                ELSE quorum
           same == <<l, q, v>> = <<r.leader, r.quorum, r.voters>>
           again == Transition("restart", q, v, l)
           t == Transition("quorum", q, v, l)
           out == IF same THEN Merged(r.out, again) ELSE r.out
           c == [r EXCEPT !.leader = l, !.quorum = q, !.voters = v, !.out = out]
           u == QuorumUpdate(r, quorum, voters, lead, adjust)
<1>1. u = IF r.failed THEN r
          ELSE IF quorum < 0 \/ (quorum > 0 /\ quorum >= Cardinality(voters)) THEN Fail(r)
          ELSE IF same /\ v # {} THEN r
          ELSE Yield(c, t)
  <2>1. u = IF r.failed THEN r
            ELSE IF quorum < 0 \/ (quorum > 0 /\ quorum >= Cardinality(voters)) THEN Fail(r)
            ELSE YieldKey(r, q, v, l)
    BY Zenon DEF QuorumUpdate
  <2> HIDE DEF u, q, v, l
  <2>2. YieldKey(r, q, v, l) = IF same /\ v # {} THEN r ELSE Yield(c, t)
    BY Zenon DEF YieldKey
  <2> HIDE DEF same, c, t
  <2>3. QED
    BY <2>1, <2>2
<1>2. Fail(r) \in Resolvers(L) /\ Fail(r).leader = r.leader
  BY DEF Fail, Resolvers
<1>3. ASSUME quorum >= 0
      PROVE  Yield(c, t) \in Resolvers(L) /\ Yield(c, t).leader = l
  <2>1. q \in Nat
    <3>1. r.numsync - r.confirmed \in Int
      BY DEF Resolvers
    <3>2. Higher(r.numsync - r.confirmed, 0) \in Nat
      BY <3>1 DEF Higher
    <3>3. QED
      BY <1>3, <3>2
  <2>2. l \in Nodes /\ v \in SUBSET Nodes
    BY DEF Resolvers
  <2> HIDE DEF q, l, v
  <2>3. again \in Changes /\ t \in Changes
    BY <2>1, <2>2 DEF Changes, Transition
  <2> HIDE DEF again, t
  <2>4. out \in Seq(Changes)
    BY <2>3, MergedIsTyped DEF Resolvers
  <2> HIDE DEF out
  <2>5. c \in Resolvers(L) /\ c.leader = l
    BY <2>1, <2>2, <2>4 DEF Resolvers
  <2> HIDE DEF c
  <2>6. QED
    BY <2>3, <2>5, YieldTyped
<1> HIDE DEF u, c, t, v, same
<1>4. u \in Resolvers(L) /\ (lead = NoLeader => u.leader = r.leader)
  BY <1>1, <1>2, <1>3
<1>5. QED
  BY <1>4, SMTT(60) DEF u

\* The handler of QuorumError makes a change of its own: what was refused does not satisfy check_invariants.
LEMMA Recovered ==
  ASSUME NEW L \in Nodes, NEW k, NEW s, NEW r, Known(r, k, s, L), r.leader = L, ~Overlap(r), r.confirmed \in Nat,
         NEW u, u = QuorumUpdate(r, Cardinality(r.sync) - r.numsync, r.sync, NoLeader, TRUE), ~u.failed
  PROVE  Good(u, k, s, L) /\ Fixed(u, r) /\ u.out # <<>>
<1> DEFINE quorum == Cardinality(r.sync) - r.numsync
           voters == r.sync
           adjust == TRUE
<1>1. /\ r.sync \in SUBSET (Nodes \ {L}) /\ r.numsync \in Nat /\ Cardinality(r.sync) \in Nat
      /\ r.numsync <= Cardinality(r.sync) /\ r.sync \subseteq Nodes /\ r.leaderWanted = L /\ L \notin r.sync
  BY NodesAreFinite DEF Known, Resolvers
<1>2. quorum \in Int /\ quorum = Cardinality(r.sync) - r.numsync
  BY <1>1
<1>3. Adjustable(r, quorum, voters)
  BY <1>1, NoNodes DEF Adjustable
<1>4. /\ quorum \in Int /\ voters \in SUBSET (Nodes \ {L}) /\ adjust \in BOOLEAN
      /\ u = QuorumUpdate(r, quorum, voters, NoLeader, adjust) /\ ~u.failed
      /\ Own(r, k, s, L) /\ L \in Nodes
      /\ adjust => Adjustable(r, quorum, voters)
  BY <1>1, <1>2, <1>3 DEF Own
<1> HIDE DEF quorum, voters, adjust
<1>5. QuorumMade(u, r, quorum, voters, NoLeader, adjust, k, s, L)
  BY ONLY <1>4, KnownQuorum, Zenon
<1>6. ASSUME r.voters = r.sync, r.sync # {}, r.quorum = Adjusted(r, quorum, NoLeader, adjust)
      PROVE  FALSE
  <2>1. r.quorum \in Int /\ r.quorum + r.numsync >= Cardinality(r.sync)
    <3>1. Adjusted(r, quorum, NoLeader, adjust) = quorum + Higher(r.numsync - r.confirmed, 0)
      BY DEF Adjusted, adjust
    <3>2. Higher(r.numsync - r.confirmed, 0) \in Nat
      BY <1>1 DEF Higher
    <3>3. QED
      BY <1>1, <1>2, <1>6, <3>1, <3>2
  <2>2. Cardinality(r.sync \cup {L}) = Cardinality(r.sync) + 1
    BY <1>1, WithNode
  <2>3. (r.voters \cup {r.leader}) \cup (r.sync \cup {r.leaderWanted}) = r.sync \cup {L}
    BY <1>1, <1>6
  <2>4. Overlap(r)
    BY <1>1, <1>6, <2>1, <2>2, <2>3 DEF Overlap
  <2>5. QED
    BY <2>4
<1>7. QED
  BY <1>5, <1>6 DEF QuorumMade, voters

\* A new leader writes its own name into /sync first; when that fails, what is left is the resolver
\* that the handler of QuorumError starts from.
LEMMA TakenOver ==
  ASSUME NEW L \in Nodes, NEW k, NEW s, NEW r, Base(r, k, s, L), r.leader # L, r.voters = {} => r.quorum = 0,
         NEW u, u = TakeOver(r)
  PROVE  /\ u \in Resolvers(L)
         /\ \/ ~u.failed /\ Good(u, k, s, L) /\ Fixed(u, r) /\ u.out # <<>>
            \/ u.failed /\ u.leader # L
            \/ /\ u.failed
               /\ LET t == [u EXCEPT !.failed = FALSE]
                  IN Known(t, k, s, L) /\ t.leader = L /\ ~Overlap(t) /\ Fixed(t, r)
<1> DEFINE voters == (r.voters \ {r.leaderWanted}) \cup {r.leader}
           num == Cardinality(voters) - r.quorum
           r1 == IF r.sync = {} THEN SyncUpdate(r, num, voters) ELSE r
           c == [r1 EXCEPT !.leader = L, !.quorum = r.quorum, !.voters = voters, !.out = r1.out]
           t == Transition("quorum", r.quorum, voters, L)
<1>1. r \in Resolvers(L) /\ r.leaderWanted = L /\ r.leader \in Nodes /\ r.quorum \in Nat /\ ~r.failed
  BY DEF Base, Known, Resolvers
<1>2. voters \in SUBSET (Nodes \ {L}) /\ voters # {} /\ voters \subseteq Nodes
  BY <1>1 DEF Resolvers
<1>3. u = QuorumUpdate(r1, r.quorum, voters, L, TRUE)
  BY <1>1, Zenon DEF TakeOver
<1>4. num \in Int /\ (r.voters # {} \/ (voters = {r.leader} /\ num = 1))
  <2>1. num \in Int
    BY <1>1, <1>2, NodesAreFinite
  <2>2. ASSUME r.voters = {}
        PROVE  voters = {r.leader} /\ num = 1
    <3>1. voters = {} \cup {r.leader} /\ voters = {r.leader}
      BY <2>2
    <3>2. Cardinality(voters) = Cardinality({}) + 1 /\ Cardinality({}) = 0
      BY <1>1, <3>1, WithNode, NoNodes
    <3>3. QED
      BY <2>2, <3>1, <3>2
  <2>3. QED
    BY <2>1, <2>2
<1> HIDE DEF voters, num
<1>5. r1 \in Resolvers(L) /\ r1.leader = r.leader
  BY <1>1, <1>2, <1>4, SyncTyped
<1>6. r1.failed \/ (Base(r1, k, s, L) /\ Fixed(r1, r))
  <2>1. CASE r.sync = {}
    <3>1. r1 = SyncUpdate(r, num, voters) /\ (r.leader = L /\ voters = {} => r.voters = {})
      BY <1>2, <2>1
    <3> HIDE DEF r1
    <3>2. r.leader = L \/ r.voters # {} \/ (voters = {r.leader} /\ num = 1)
      BY <1>4
    <3>3. ~r1.failed => Base(r1, k, s, L) /\ Fixed(r1, r)
      BY <1>2, <1>4, <3>1, <3>2, SyncStep
    <3>4. QED
      BY <3>3
  <2>2. CASE r.sync # {}
    BY <2>2 DEF Fixed
  <2>3. QED
    BY <2>1, <2>2
<1> HIDE DEF r1
<1>7. u \in Resolvers(L)
  <2>1. L = NoLeader \/ L \in Nodes
    OBVIOUS
  <2>2. r.quorum \in Int /\ voters \in SUBSET Nodes
    BY <1>1, <1>2
  <2> DEFINE yes == TRUE
  <2>3. yes \in BOOLEAN /\ u = QuorumUpdate(r1, r.quorum, voters, L, yes)
    BY <1>3
  <2> HIDE DEF yes
  <2>4. QED
    BY <1>5, <2>1, <2>2, <2>3, QuorumTyped
<1>8. CASE r1.failed
  <2>1. u = r1
    BY <1>3, <1>8, FailedStays
  <2>2. QED
    BY <1>5, <1>7, <1>8, <2>1
<1>9. CASE ~r1.failed /\ ~u.failed
  <2> DEFINE lead == L
             adjust == TRUE
  <2>1. L # NoLeader
    BY SyncAssumption DEF Nodes, NoLeader
  <2>2. Known(r1, k, s, L) /\ lead = L /\ lead # NoLeader
    BY <1>6, <1>9, <2>1 DEF Base
  <2>3. r.quorum \in Int /\ voters \in SUBSET (Nodes \ {L}) /\ adjust \in BOOLEAN
    BY <1>1, <1>2
  <2>4. u = QuorumUpdate(r1, r.quorum, voters, lead, adjust) /\ ~u.failed
    BY <1>3, <1>9
  <2> HIDE DEF lead, adjust
  <2>5. QuorumMade(u, r1, r.quorum, voters, lead, adjust, k, s, L)
    BY <2>2, <2>3, <2>4, QuorumStep, Zenon
  <2>6. QED
    BY <1>1, <1>5, <1>6, <1>7, <1>9, <2>5 DEF QuorumMade, Fixed
<1>10. CASE ~r1.failed /\ u.failed
  <2>1. L # NoLeader
    BY SyncAssumption DEF Nodes, NoLeader
  <2>2. u = IF r.quorum < 0 \/ (r.quorum > 0 /\ r.quorum >= Cardinality(voters)) THEN Fail(r1) ELSE Yield(c, t)
    <3> DEFINE l == IF L # NoLeader THEN L ELSE r1.leader
               none == L = NoLeader /\ r1.confirmed = 0 /\ r1.voters = {}
               v == IF none THEN {} ELSE voters
               yes == TRUE
               q == IF none THEN 0
                    ELSE IF L = NoLeader /\ yes THEN r.quorum + Higher(r1.numsync - r1.confirmed, 0)
                    ELSE r.quorum
               same == <<l, q, v>> = <<r1.leader, r1.quorum, r1.voters>>
               out == IF same THEN Merged(r1.out, Transition("restart", q, v, l)) ELSE r1.out
               Other(ll, qq, vv, oo) == Yield([r1 EXCEPT !.leader = ll, !.quorum = qq, !.voters = vv, !.out = oo],
                                              Transition("quorum", qq, vv, ll))
    <3> HIDE DEF yes
    <3>1. QuorumUpdate(r1, r.quorum, voters, L, yes) =
            IF r1.failed THEN r1
            ELSE IF r.quorum < 0 \/ (r.quorum > 0 /\ r.quorum >= Cardinality(voters)) THEN Fail(r1)
            ELSE IF same /\ v # {} THEN r1
            ELSE Other(l, q, v, out)
      <4>1. QuorumUpdate(r1, r.quorum, voters, L, yes) =
              IF r1.failed THEN r1
              ELSE IF r.quorum < 0 \/ (r.quorum > 0 /\ r.quorum >= Cardinality(voters)) THEN Fail(r1)
              ELSE YieldKey(r1, q, v, l)
        BY Zenon DEF QuorumUpdate
      <4> HIDE DEF q, v, l
      <4>2. YieldKey(r1, q, v, l) = IF same /\ v # {} THEN r1 ELSE Other(l, q, v, out)
        BY Zenon DEF YieldKey
      <4> HIDE DEF same, Other, out
      <4>3. QED
        BY <4>1, <4>2
    <3>2. l = L /\ ~none /\ v = voters /\ q = r.quorum
      BY <2>1
    <3>3. ~same
      BY <1>5, <3>2
    <3>4. out = r1.out
      BY <3>3
    <3>5. Other(L, r.quorum, voters, r1.out) = Yield(c, t)
      OBVIOUS
    <3> HIDE DEF same, l, q, v, out, Other, c, t
    <3>6. QED
      <4>1. u = QuorumUpdate(r1, r.quorum, voters, L, yes)
        BY <1>3, SMTT(60) DEF yes
      <4>2. QED
        BY <1>10, <3>1, <3>2, <3>3, <3>4, <3>5, <4>1
  <2>3. CASE u = Fail(r1)
    <3>1. u.leader = r1.leader
      BY <1>5, <2>3 DEF Fail, Resolvers
    <3>2. QED
      BY <1>5, <1>7, <1>10, <3>1
  <2>4. CASE u = Yield(c, t)
    <3>1. Base(r1, k, s, L) /\ Fixed(r1, r)
      BY <1>6, <1>10
    <3>2. c \in Resolvers(L) /\ ~c.failed /\ c.leader = L /\ c.voters = voters /\ c.numsync = r1.numsync
          /\ c.sync = r1.sync /\ c.out = r1.out /\ Fixed(c, r)
      BY <1>1, <1>2, <3>1 DEF Base, Known, Resolvers, Fixed
    <3>3. Known(c, k, s, L)
      BY <1>2, <3>1, <3>2 DEF Base, Known, LatestSsn, IsSsn
    <3> HIDE DEF c, t
    <3>4. ~Overlap(c) /\ u = Fail(c)
      <4>1. [c EXCEPT !.out = Merged(c.out, t)].failed = c.failed
        BY <3>2 DEF Resolvers
      <4>2. QED
        BY <1>10, <2>4, <3>2, <4>1 DEF Yield
    <3>5. [u EXCEPT !.failed = FALSE] = c
      BY <3>2, <3>4 DEF Fail, Resolvers
    <3>6. QED
      BY <1>7, <1>10, <3>2, <3>3, <3>4, <3>5
  <2>5. QED
    BY <2>2, <2>3, <2>4
<1>11. QED
  BY <1>8, <1>9, <1>10

\* confirmed is only a number.
LEMMA OtherConfirmed ==
  ASSUME NEW L \in Nodes, NEW k, NEW s, NEW r, Base(r, k, s, L), NEW n \in Int
  PROVE  LET u == [r EXCEPT !.confirmed = n]
         IN /\ Base(u, k, s, L) /\ u.confirmed = n /\ u.active = r.active /\ u.wanted = r.wanted
            /\ u.leader = r.leader /\ u.voters = r.voters /\ u.quorum = r.quorum
            /\ u.sync = r.sync /\ u.numsync = r.numsync /\ u.out = r.out
<1> DEFINE u == [r EXCEPT !.confirmed = n]
<1>1. r \in Resolvers(L)
  BY DEF Base, Known
<1>2. u \in Resolvers(L) /\ u.confirmed = n /\ u.active = r.active /\ u.wanted = r.wanted
      /\ u.voters = r.voters /\ u.quorum = r.quorum /\ u.sync = r.sync /\ u.numsync = r.numsync
      /\ u.out = r.out /\ u.leader = r.leader /\ u.failed = r.failed
  BY <1>1 DEF Resolvers
<1> HIDE DEF u
<1>3. Base(u, k, s, L)
  BY <1>2 DEF Base, Known, LatestKey, LatestSsn, IsKey, IsSsn
<1>4. QED
  BY <1>2, <1>3 DEF u

\* The resolver that starts with k and s.
Starts(r, k, s, L) ==
  /\ Base(r, k, s, L) /\ r.out = <<>> /\ r.confirmed \in Nat
  /\ r.leader = L /\ r.numsync = 0 => r.sync = {}
  /\ r.voters = {} => r.quorum = 0

\* No change is needed.
Steady(r, L) ==
  /\ r.leader = L /\ Overlap(r)
  /\ r.voters = r.sync /\ r.sync = r.active /\ r.numsync = Lower(r.wanted, Cardinality(r.sync))
  /\ r.confirmed # 0 => r.quorum + Lower(r.numsync, r.confirmed) <= Cardinality(r.sync)

\* _generate_transitions: every change on the list fits what is in force before it, and an empty list
\* means that no change is needed.
LEMMA Generated ==
  ASSUME NEW L \in Nodes, NEW k, NEW s, NEW r, Starts(r, k, s, L), NEW g, g = Generate(r), ~g.failed
  PROVE  Good(g, k, s, L) /\ (g.out = <<>> => Steady(r, L))
<1> DEFINE failover == r.leader # r.leaderWanted
           taken == IF failover THEN TakeOver(r) ELSE IF Overlap(r) THEN r ELSE Fail(r)
           t == [taken EXCEPT !.failed = FALSE]
           again == QuorumUpdate(t, Cardinality(t.sync) - t.numsync, t.sync, NoLeader, TRUE)
           fixed == IF ~taken.failed THEN taken ELSE again
           listed == fixed.sync \cap fixed.active
           confirmed == IF fixed.confirmed = 0 /\ listed # {}
                        THEN Lower(Cardinality(listed), Cardinality(fixed.voters) - fixed.quorum)
                        ELSE fixed.confirmed
           start == [fixed EXCEPT !.confirmed = confirmed]
<1>1. g = IF failover /\ ~taken.failed /\ listed = {} THEN taken
          ELSE IF fixed.failed THEN fixed
          ELSE IF fixed.leader # r.leaderWanted THEN Fail(fixed)
          ELSE ChangeFactor(AddNew(RemoveGone(NonSteady(start))))
  BY Zenon DEF Generate
<1>2. /\ r \in Resolvers(L) /\ ~r.failed /\ r.failed = FALSE /\ r.leaderWanted = L /\ Known(r, k, s, L) /\ Base(r, k, s, L)
      /\ r.confirmed \in Nat /\ r.out = <<>> /\ r.leader \in Nodes /\ (r.voters = {} => r.quorum = 0)
      /\ r.leader = L => Good(r, k, s, L) \/ Lone(r, k, s, L)
  BY DEF Starts, Base, Known, Resolvers, Good, Lone
<1>3. /\ taken \in Resolvers(L)
      /\ \/ ~taken.failed /\ Good(taken, k, s, L) /\ Fixed(taken, r)
            /\ (taken.out # <<>> \/ (taken = r /\ Overlap(r) /\ r.leader = L))
         \/ ~taken.failed /\ taken = r /\ Lone(r, k, s, L)
         \/ taken.failed /\ taken.leader # L
         \/ taken.failed /\ Known(t, k, s, L) /\ t.leader = L /\ ~Overlap(t) /\ Fixed(t, r)
  <2>1. CASE failover
    <3>1. taken = TakeOver(r) /\ r.leader # L
      BY <1>2, <2>1
    <3> HIDE DEF taken
    <3>2. QED
      BY <1>2, <3>1, TakenOver
  <2>2. CASE ~failover /\ Overlap(r)
    BY <1>2, <2>2 DEF Fixed
  <2>3. CASE ~failover /\ ~Overlap(r)
    <3>1. taken = Fail(r)
      BY <2>3
    <3>2. taken \in Resolvers(L) /\ taken.failed /\ t = r
      BY <1>2, <3>1 DEF Fail, Resolvers
    <3> HIDE DEF taken, t
    <3>3. QED
      BY <1>2, <2>3, <3>2 DEF Fixed
  <2>4. QED
    BY <2>1, <2>2, <2>3
<1> HIDE DEF taken
<1>4. ASSUME taken.failed, taken.leader # L
      PROVE  FALSE
  <2>1. t \in Resolvers(L) /\ t.leader # L
    BY <1>3, <1>4 DEF Resolvers
  <2> HIDE DEF t
  <2>2. t.sync \in SUBSET Nodes /\ Cardinality(t.sync) - t.numsync \in Int
    BY <2>1, NodesAreFinite DEF Resolvers
  <2>3. again \in Resolvers(L) /\ again.leader = t.leader
    <3> DEFINE yes == TRUE
               lead == NoLeader
               quorum == Cardinality(t.sync) - t.numsync
               voters == t.sync
    <3>1. /\ yes \in BOOLEAN /\ again = QuorumUpdate(t, quorum, voters, lead, yes)
          /\ lead = NoLeader /\ quorum \in Int /\ voters \in SUBSET Nodes
      BY <2>2
    <3> HIDE DEF yes, lead, quorum, voters, again
    <3>2. QED
      BY <2>1, <3>1, QuorumTyped
  <2>4. fixed = again
    BY <1>4
  <2>5. again.leader # r.leaderWanted
    BY <1>2, <2>1, <2>3
  <2>6. g = IF again.failed THEN again ELSE Fail(again)
    <3> HIDE DEF again, listed, start
    <3>1. QED
      BY <1>1, <1>4, <2>4, <2>5
  <2> HIDE DEF again, fixed
  <2>7. Fail(again).failed
    BY <2>3, FailFails
  <2>8. QED
    BY <2>6, <2>7
<1>5. ASSUME taken.failed, Known(t, k, s, L), t.leader = L, ~Overlap(t), Fixed(t, r), ~fixed.failed
      PROVE  Good(fixed, k, s, L) /\ Fixed(fixed, r) /\ fixed.out # <<>>
  <2>1. fixed = again /\ t.confirmed \in Nat
    BY <1>2, <1>5 DEF Fixed
  <2> HIDE DEF t, fixed
  <2>2. Good(again, k, s, L) /\ Fixed(again, t) /\ again.out # <<>>
    BY <1>5, <2>1, Recovered
  <2>3. QED
    BY <1>5, <2>1, <2>2 DEF Fixed
<1>6. \/ fixed.failed
      \/ /\ Good(fixed, k, s, L) /\ Fixed(fixed, r)
         /\ fixed.out # <<>> \/ (fixed = r /\ Overlap(r) /\ r.leader = L)
      \/ fixed = r /\ Lone(r, k, s, L)
  <2>1. CASE ~taken.failed
    <3>1. fixed = taken
      BY <2>1
    <3> HIDE DEF fixed
    <3>2. QED
      BY <1>3, <2>1, <3>1
  <2>2. CASE taken.failed
    <3> HIDE DEF fixed, t
    <3>1. QED
      BY <1>3, <1>4, <1>5, <2>2
  <2>3. QED
    BY <2>1, <2>2
<1>7. CASE failover /\ ~taken.failed /\ listed = {}
  <2>1. g = taken
    BY <1>1, <1>7
  <2>2. r.leader # L
    BY <1>2, <1>7
  <2>3. ~Lone(r, k, s, L)
    BY <2>2 DEF Lone
  <2> HIDE DEF listed
  <2>4. QED
    BY <1>3, <1>7, <2>1, <2>2, <2>3
<1>8. CASE ~(failover /\ ~taken.failed /\ listed = {})
  <2>1. g = IF fixed.failed THEN fixed
            ELSE IF fixed.leader # r.leaderWanted THEN Fail(fixed)
            ELSE ChangeFactor(AddNew(RemoveGone(NonSteady(start))))
    <3> HIDE DEF failover, fixed, start, listed
    <3>1. QED
      BY <1>1, <1>8
  <2> HIDE DEF fixed
  <2>2. ~fixed.failed
    BY <2>1
  <2>3. \/ /\ Good(fixed, k, s, L) /\ Fixed(fixed, r)
           /\ fixed.out # <<>> \/ (fixed = r /\ Overlap(r) /\ r.leader = L)
        \/ fixed = r /\ Lone(fixed, k, s, L)
    BY <1>6, <2>2
  <2>4. fixed.leader = r.leaderWanted /\ Base(fixed, k, s, L)
    BY <1>2, <2>3 DEF Good, Lone
  <2>5. /\ confirmed \in Int /\ (fixed.voters = {} => confirmed >= 0) /\ (fixed.confirmed # 0 => confirmed = fixed.confirmed)
        /\ fixed.sync = {} => confirmed \in Nat
    <3>1. fixed.confirmed \in Nat /\ fixed.quorum \in Nat /\ (fixed.voters = {} => fixed.quorum = 0)
          /\ fixed.voters \subseteq Nodes /\ listed \subseteq Nodes
      <4>1. fixed \in Resolvers(L)
        BY <2>4 DEF Base, Known
      <4>2. fixed.quorum \in Nat /\ fixed.voters \subseteq Nodes /\ listed \subseteq Nodes
        BY <4>1 DEF Resolvers
      <4> HIDE DEF listed
      <4>3. QED
        BY <1>2, <2>3, <4>2 DEF Fixed, Good, Lone
    <3>2. Cardinality(listed) \in Nat /\ Cardinality(fixed.voters) \in Nat /\ (fixed.voters = {} => Cardinality(fixed.voters) = 0)
      BY <3>1, NodesAreFinite, NoNodes
    <3>3. fixed.sync = {} => listed = {}
      OBVIOUS
    <3> HIDE DEF listed
    <3>4. QED
      BY <3>1, <3>2, <3>3 DEF Lower
  <2> HIDE DEF confirmed
  <2>6. /\ Base(start, k, s, L) /\ start.confirmed = confirmed /\ start.active = fixed.active
        /\ start.wanted = fixed.wanted /\ start.leader = fixed.leader
        /\ start.voters = fixed.voters /\ start.quorum = fixed.quorum
        /\ start.sync = fixed.sync /\ start.numsync = fixed.numsync /\ start.out = fixed.out
    BY <2>4, <2>5, OtherConfirmed
  <2> HIDE DEF start
  <2>7. /\ Good(fixed, k, s, L) => Good(start, k, s, L)
        /\ Lone(fixed, k, s, L) => Lone(start, k, s, L)
    BY <2>5, <2>6 DEF Good, Lone
  <2> DEFINE a == NonSteady(start)
             b == RemoveGone(a)
             c == AddNew(b)
  <2>8. g = ChangeFactor(c)
    BY <2>1, <2>2, <2>4
  <2> HIDE DEF c
  <2>9. ~c.failed
    BY <2>8, ZenonT(60) DEF ChangeFactor
  <2> HIDE DEF b
  <2>10. ~b.failed
    BY <2>9, FailedAdd, SMTT(60) DEF c
  <2> HIDE DEF a
  <2>11. ~a.failed
    BY <2>10, ZenonT(60) DEF b, RemoveGone
  <2>12. /\ Almost(a, k, s, L)
         /\ \/ a.out # <<>>
            \/ /\ a = start /\ start.voters = start.sync /\ Good(start, k, s, L)
               /\ start.quorum + Lower(start.numsync, start.confirmed) <= Cardinality(start.sync)
    <3>1. CASE Good(start, k, s, L)
      BY <2>5, <2>6, <2>11, <3>1, Steadied, GoodIsAlmost DEF a
    <3>2. CASE Lone(start, k, s, L)
      BY <2>11, <3>2, LoneSteadied DEF a
    <3>3. QED
      BY <2>3, <2>7, <3>1, <3>2
  <2>13. Almost(b, k, s, L) /\ (b.out # <<>> \/ (b = a /\ a.sync \subseteq a.active))
    BY <2>10, <2>12, AlmostGone DEF b
  <2>14. Almost(c, k, s, L) /\ (c.out # <<>> \/ (c = b /\ b.active \subseteq b.sync))
    BY <2>9, <2>13, NewAdded, GoodIsAlmost DEF c
  <2>15. Good(g, k, s, L) /\ (g.out # <<>> \/ (g = c /\ c.numsync = Lower(c.wanted, Cardinality(c.sync))))
    BY <2>8, <2>14, FactorChanged, SMTT(60)
  <2>16. ASSUME g.out = <<>>
         PROVE  Steady(r, L)
    <3>1. g = c /\ c = b /\ b = a /\ a = start
      BY <2>12, <2>13, <2>14, <2>15, <2>16
    <3>2. fixed = r /\ Overlap(r) /\ r.leader = L
      <4>1. start.voters = start.sync
        BY <2>12, <2>13, <2>14, <2>15, <2>16, <3>1
      <4>2. ~Lone(fixed, k, s, L)
        BY <2>6, <4>1 DEF Lone
      <4>3. QED
        BY <2>3, <2>6, <2>16, <3>1, <4>2
    <3>3. start.sync = start.active /\ start.numsync = Lower(start.wanted, Cardinality(start.sync)) /\ start.voters = start.sync
          /\ start.quorum + Lower(start.numsync, start.confirmed) <= Cardinality(start.sync)
      BY <2>12, <2>13, <2>14, <2>15, <2>16, <3>1
    <3>4. QED
      BY <2>5, <2>6, <3>2, <3>3 DEF Steady
  <2>17. QED
    BY <2>15, <2>16
<1>9. QED
  BY <1>7, <1>8
-----------------------------------------------------------------------------
(* What holds in every state *)

KeyNow == [num |-> key.quorum, names |-> key.voters, leader |-> key.leader]
SsnNow == [num |-> Lower(ssn.num, Cardinality(ssn.names)), names |-> ssn.names]

Steps == [type : {"sync", "quorum", "restart", "confirm"}, num : Nat, names : SUBSET Nodes, leader : Nodes]

\* The parts of the state that the two loops share.
Shape ==
  /\ key \in [leader : Nodes \cup {NoLeader}, quorum : Nat, voters : SUBSET Nodes]
  /\ mode \in {"quorum", "sync", "off"} /\ wanted \in Nat \ {0}
  /\ todo \in Seq(Steps)

\* No more is asked for than there are names, and without ANY all of them.
SsnSound(s, L) ==
  /\ s \in [num : Nat, names : SUBSET (Nodes \ {L}), star : BOOLEAN, any : BOOLEAN]
  /\ IF s.names = {} THEN s.num <= 1 ELSE s.num \in 1 .. Cardinality(s.names)
  /\ s.names # {} /\ ~s.any => s.num = Cardinality(s.names)

KeySound == key.leader \notin key.voters /\ (key.voters = {} => key.quorum = 0)

\* In sync mode the change of synchronous_standby_names comes first, for all that it names.
TodoSound ==
  \A i \in 1 .. Len(todo) :
    /\ todo[i].type = "sync" =>
         /\ leader \notin todo[i].names /\ (todo[i].num <= Cardinality(todo[i].names) \/ todo[i].names = {})
         /\ mode # "quorum" => /\ i = 1 /\ key.leader = leader /\ key.voters \subseteq todo[i].names
                               /\ todo[i].names = {} \/ todo[i].num = Cardinality(todo[i].names)
    /\ todo[i].type = "quorum" =>
         /\ todo[i].leader = leader /\ leader \notin todo[i].names /\ (todo[i].names = {} => todo[i].num = 0)
         /\ mode = "quorum"
    /\ todo[i].type = "confirm" => mode # "quorum" /\ key.leader = leader

\* The changes to come fit each other, and the first of them fits what is in force.
TodoFits == mode = "quorum" => Trace(todo, KeyNow, SsnNow, leader)

\* Of M any q + 1 nodes overlap with the leader L and any n nodes of S.
Joins(M, q, S, n, L) == M \subseteq {L} \/ Cardinality(M \cup S \cup {L}) <= q + n + 1

\* What is in force fits as well, whoever is the owner of /sync and whatever the mode is.
InForce ==
  leader # NoLeader /\ key.leader # NoLeader => Joins(Members, key.quorum, ssn.names, SsnNow.num, leader)

\* In sync mode /sync is the leader's, and every voter is waited for.
SyncFits ==
  leader # NoLeader /\ key.leader # NoLeader /\ mode = "sync" /\ ~switched =>
    /\ key.leader = leader /\ key.voters \subseteq ssn.names
    /\ key.voters # {} => ssn.num = Cardinality(ssn.names)

Inv ==
  /\ TypeOK /\ Shape /\ SsnSound(ssn, leader) /\ KeySound /\ TodoSound /\ TodoFits
  /\ InForce /\ SyncFits

\* With /sync the leader's, that is what check_invariants asks for.
LEMMA JoinsIffMeets ==
  ASSUME NEW L, NEW e, NEW f, L \notin e.names
  PROVE  Joins({L} \cup e.names, e.num, f.names, f.num, L) <=> Meets(e, f, L)
<1>1. ({L} \cup e.names) \cup f.names \cup {L} = e.names \cup f.names \cup {L}
  OBVIOUS
<1>2. {L} \cup e.names \subseteq {L} <=> e.names = {}
  OBVIOUS
<1>3. QED
  BY <1>1, <1>2 DEF Joins, Meets

\* Voters all of whom are waited for, or none.
LEMMA AllWaitedFor ==
  ASSUME NEW L \in Nodes, NEW V \in SUBSET Nodes, NEW S \in SUBSET (Nodes \ {L}), NEW q \in Nat, NEW n \in Nat,
         V \subseteq S, V # {} => n = Cardinality(S)
  PROVE  Joins({L} \cup V, q, S, n, L)
<1>1. CASE V = {}
  BY <1>1 DEF Joins
<1>2. CASE V # {}
  <2>1. ({L} \cup V) \cup S \cup {L} = S \cup {L}
    OBVIOUS
  <2>2. Cardinality(S \cup {L}) = n + 1 /\ Cardinality(S) \in Nat
    BY <1>2, WithNode, NodesAreFinite
  <2>3. QED
    BY <2>1, <2>2 DEF Joins
<1>3. QED
  BY <1>1, <1>2

\* No more than N standbys are waited for.
LEMMA SsnInRange ==
  ASSUME NEW L, NEW s, SsnSound(s, L)
  PROVE  s.num \in 0 .. N
<1>1. s.names \subseteq Nodes /\ s.num \in Nat
  BY DEF SsnSound
<1>2. Cardinality(s.names) \in Nat /\ Cardinality(s.names) <= N
  BY <1>1, NodesAreFinite
<1>3. QED
  BY <1>1, <1>2, SyncAssumption DEF SsnSound

\* What set_synchronous_standby_names makes of a number of names.
LEMMA SsnIsSound ==
  ASSUME NEW L, NEW names \in SUBSET (Nodes \ {L}), NEW num \in Int, NEW now, SsnSound(now, L),
         names = {} \/ num <= Cardinality(names), names = {} \/ mode = "quorum" \/ num = Cardinality(names)
  PROVE  SsnSound(Ssn(names, num, now), L)
<1>1. Cardinality(names) \in Nat
  BY NodesAreFinite
<1>2. CASE names = {}
  BY <1>2 DEF Ssn, SsnSound
<1>3. CASE names # {} /\ num <= 0
  BY <1>3 DEF Ssn
<1>4. CASE names # {} /\ num > 0
  <2>1. Ssn(names, num, now) = [num |-> num, names |-> names, star |-> FALSE, any |-> mode = "quorum"]
    BY <1>4 DEF Ssn
  <2>2. /\ Ssn(names, num, now).num = num /\ Ssn(names, num, now).names = names
        /\ mode = "quorum" => Ssn(names, num, now).any
    <3>1. Ssn(names, num, now).num = num /\ Ssn(names, num, now).names = names
      BY <2>1
    <3>2. CASE mode = "quorum"
      <4>1. (mode = "quorum") = TRUE
        BY <3>2, Zenon
      <4>3. Ssn(names, num, now) = [num |-> num, names |-> names, star |-> FALSE, any |-> TRUE]
        BY <2>1, <4>1, Zenon
      <4>2. QED
        BY <4>3
    <3>3. QED
      BY <3>1, <3>2
  <2>3. Ssn(names, num, now) \in [num : Nat, names : SUBSET (Nodes \ {L}), star : BOOLEAN, any : BOOLEAN]
    <3>1. num \in Nat /\ (mode = "quorum") \in BOOLEAN
      BY <1>4
    <3>2. QED
      BY <2>1, <3>1
  <2>4. QED
    BY <1>1, <1>4, <2>2, <2>3 DEF SsnSound
<1>5. QED
  BY <1>2, <1>3, <1>4

\* A primary that waits for nobody.
LEMMA NoSsnIsSound == \A L : SsnSound(NoSsn, L)
BY DEF SsnSound, NoSsn

\* What is left of the list fits what the first change led to.
LEMMA TailFits ==
  ASSUME NEW C, NEW out \in Seq(C), out # <<>>, NEW L, NEW k, NEW s, Trace(out, k, s, L), NEW k1, NEW s1,
         out[1].type = "quorum" => k1.num = out[1].num /\ k1.names = out[1].names /\ k1.leader = out[1].leader,
         out[1].type = "sync" => \A e : KeyFits(e, out[1], L) => KeyFits(e, s1, L)
  PROVE  out[1].type \in {"quorum", "sync"} => Trace(Tail(out), k1, s1, L)
<1> DEFINE rest == Tail(out)
<1>1. Len(rest) = Len(out) - 1 /\ (\A i \in 1 .. Len(rest) : rest[i] = out[i + 1]) /\ Len(out) \in Nat \ {0}
  OBVIOUS
<1> HIDE DEF rest
<1>2. SUFFICES ASSUME out[1].type \in {"quorum", "sync"}, NEW i \in 1 .. Len(rest)
      PROVE  /\ rest[i].type = "restart" => i = Len(rest)
             /\ i > 1 => rest[i - 1].type # rest[i].type
             /\ rest[i].type = "quorum" => KeyFits(rest[i], Before(rest, i, s1), L)
             /\ rest[i].type = "sync" => SsnFits(rest[i], Before(rest, i, k1), L)
  BY DEF Trace, rest
<1>3. /\ i + 1 \in 1 .. Len(out) /\ i + 1 > 1 /\ i + 1 # 1 /\ rest[i] = out[i + 1] /\ (i + 1) - 1 = i
      /\ i > 1 => rest[i - 1] = out[i]
  <2>1. i + 1 \in 1 .. Len(out) /\ i + 1 > 1 /\ i + 1 # 1 /\ (i + 1) - 1 = i /\ rest[i] = out[i + 1]
    BY <1>1
  <2>2. ASSUME i > 1
        PROVE  rest[i - 1] = out[i]
    <3>1. i - 1 \in 1 .. Len(rest) /\ (i - 1) + 1 = i
      BY <1>1, <2>2
    <3>2. rest[i - 1] = out[(i - 1) + 1]
      BY <1>1, <3>1
    <3>3. QED
      BY <3>1, <3>2
  <2>3. QED
    BY <2>1, <2>2
<1>4. /\ out[i + 1].type = "restart" => i + 1 = Len(out)
      /\ out[i].type # out[i + 1].type
      /\ out[i + 1].type = "quorum" => KeyFits(out[i + 1], out[i], L)
      /\ out[i + 1].type = "sync" => SsnFits(out[i + 1], out[i], L)
  <2>1. Before(out, i + 1, s) = out[i] /\ Before(out, i + 1, k) = out[i]
    <3> DEFINE j == i + 1
    <3>1. j # 1 /\ j - 1 = i
      BY <1>3
    <3> HIDE DEF j
    <3>2. Before(out, j, s) = out[i] /\ Before(out, j, k) = out[i]
      BY <3>1 DEF Before
    <3>3. QED
      BY <3>2 DEF j
  <2>2. QED
    BY <1>3, <2>1 DEF Trace
<1>5. CASE i = 1
  <2>1. Before(rest, i, s1) = s1 /\ Before(rest, i, k1) = k1
    BY <1>5 DEF Before
  <2>2. out[i + 1].type = "sync" => SsnFits(out[i + 1], k1, L)
    <3>1. SUFFICES ASSUME out[i + 1].type = "sync"
          PROVE  SsnFits(out[i + 1], k1, L)
      OBVIOUS
    <3>2. out[1].type = "quorum" /\ SsnFits(out[i + 1], out[1], L)
      BY <1>2, <1>4, <1>5, <3>1
    <3>3. QED
      BY <3>2 DEF SsnFits, Meets
  <2>3. out[i + 1].type = "quorum" => KeyFits(out[i + 1], s1, L)
    <3>1. SUFFICES ASSUME out[i + 1].type = "quorum"
          PROVE  KeyFits(out[i + 1], s1, L)
      OBVIOUS
    <3>2. out[1].type = "sync" /\ KeyFits(out[i + 1], out[1], L)
      BY <1>2, <1>4, <1>5, <3>1
    <3>3. QED
      BY <3>2
  <2>4. QED
    BY <1>1, <1>3, <1>4, <1>5, <2>1, <2>2, <2>3
<1>6. CASE i # 1
  <2>1. Before(rest, i, s1) = out[i] /\ Before(rest, i, k1) = out[i]
    BY <1>3, <1>6 DEF Before
  <2>2. QED
    BY <1>1, <1>3, <1>4, <1>6, <2>1
<1>7. QED
  BY <1>5, <1>6

\* The resolver starts from what is in force.
LEMMA SeenStarts ==
  ASSUME Inv, ToResolve
  PROVE  leader \in Nodes /\ Starts(Seen, KeyNow, SsnNow, leader)
<1>1. /\ leader \in Nodes /\ key.leader \in Nodes /\ key.quorum \in Nat /\ key.voters \subseteq Nodes
      /\ streaming \subseteq Nodes \ {leader} /\ wanted \in Nat \ {0} /\ ssn.num \in Nat
      /\ ssn.names \subseteq Nodes \ {leader} /\ key.leader \notin key.voters
      /\ key.voters = {} => key.quorum = 0
  BY DEF Inv, TypeOK, Shape, SsnSound, KeySound, ToResolve, Idle
<1> DEFINE confirmed == Cardinality(NowReady(leader) \cap streaming)
           numsync == Lower(ssn.num, Cardinality(ssn.names))
<1>2. confirmed \in Nat
  <2>1. NowReady(leader) \cap streaming \subseteq Nodes
    BY <1>1
  <2>2. QED
    BY <2>1, NodesAreFinite
<1>3. numsync \in Nat /\ numsync <= Cardinality(ssn.names)
      /\ (numsync = 0 => ssn.names = {})
  <2>1. Cardinality(ssn.names) \in Nat
    BY <1>1, NodesAreFinite
  <2>2. ssn.names # {} => ssn.num >= 1 /\ ssn.num <= Cardinality(ssn.names)
    BY <2>1 DEF Inv, SsnSound
  <2>3. QED
    BY <1>1, <2>1, <2>2 DEF Lower
<1> HIDE DEF confirmed, numsync
<1>4. Seen = [leader |-> key.leader, quorum |-> key.quorum, voters |-> key.voters,
              numsync |-> numsync, sync |-> ssn.names, confirmed |-> confirmed,
              active |-> streaming, wanted |-> wanted, leaderWanted |-> leader,
              out |-> <<>>, failed |-> FALSE]
  BY DEF Seen, Resolver, confirmed, numsync
<1>5. Seen \in Resolvers(leader)
  BY <1>1, <1>2, <1>3, <1>4 DEF Resolvers
<1>6. Trace(Seen.out, KeyNow, SsnNow, leader)
  BY <1>4 DEF Trace
<1>7. KeyNow.num = key.quorum /\ KeyNow.names = key.voters /\ KeyNow.leader = key.leader
      /\ SsnNow.num = numsync /\ SsnNow.names = ssn.names
  BY DEF KeyNow, SsnNow, numsync
<1> HIDE DEF Seen, KeyNow, SsnNow
<1>8. LatestKey(Seen, KeyNow) /\ LatestSsn(Seen, SsnNow)
  BY <1>4, <1>7 DEF LatestKey, LatestSsn, IsKey, IsSsn
<1>9. Base(Seen, KeyNow, SsnNow, leader)
  BY <1>1, <1>3, <1>4, <1>5, <1>6, <1>8 DEF Base, Known
<1>10. QED
  BY <1>1, <1>2, <1>3, <1>4, <1>9 DEF Starts

\* Steps that change neither of the two settings nor the list.
Quiet == UNCHANGED <<leader, ssn, key, todo, mode, wanted, switched>>

\* A step that touches neither the settings nor the list keeps what holds.
LEMMA QuietStep ==
  ASSUME Inv, Quiet, TypeOK'
  PROVE  Inv'
BY DEF Inv, Quiet, Shape, SsnSound, KeySound, TodoSound, TodoFits, InForce, SyncFits, KeyNow, SsnNow, Members

\* A cluster begins without /sync, and nobody is waited for.
LEMMA InitIsSound == Init => Inv
<1> SUFFICES ASSUME Init
    PROVE  Inv
  OBVIOUS
<1>1. /\ leader = 1 /\ live = Nodes /\ streaming = {} /\ ssn = NoSsn /\ key = NoKey /\ todo = <<>>
      /\ mode \in Modes /\ wanted \in Counts /\ 1 \in Nodes
  BY SyncAssumption DEF Init, Nodes
<1>2. TypeOK
  BY <1>1, SyncAssumption DEF TypeOK, NoSsn, NoKey, NoLeader
<1>3. Shape
  BY <1>1, SyncAssumption DEF Shape, NoKey
<1>4. SsnSound(ssn, leader)
  BY <1>1, NoSsnIsSound
<1>5. KeySound /\ TodoSound
  BY <1>1, SyncAssumption DEF KeySound, TodoSound, NoKey, NoLeader
<1>6. TodoFits
  BY <1>1 DEF TodoFits, Trace
<1>7. InForce /\ SyncFits
  BY <1>1 DEF InForce, SyncFits, NoKey
<1>8. QED
  BY <1>2, <1>3, <1>4, <1>5, <1>6, <1>7 DEF Inv

\* An empty list fits everything.
LEMMA NothingLeft ==
  ASSUME Inv, leader' = leader, todo' = <<>>, TypeOK', KeySound',
         key' \in [leader : Nodes \cup {NoLeader}, quorum : Nat, voters : SUBSET Nodes],
         SsnSound(ssn', leader'), mode' = mode, wanted' = wanted, InForce', SyncFits'
  PROVE  Inv'
<1>1. Shape'
  BY DEF Inv, Shape
<1>2. TodoSound' /\ TodoFits'
  BY DEF TodoSound, TodoFits, Trace
<1>3. QED
  BY <1>1, <1>2 DEF Inv

\* _maybe_enable_synchronous_mode writes a /sync without voters.
LEMMA EnableIsSound == Inv /\ Enable => Inv'
<1> SUFFICES ASSUME Inv, Enable
    PROVE  Inv'
  OBVIOUS
<1>1. /\ leader \in Nodes /\ key' = [leader |-> leader, quorum |-> 0, voters |-> {}] /\ todo' = <<>>
      /\ UNCHANGED <<leader, live, streaming, ssn, mode, wanted, switched>>
  BY DEF Enable, Idle, Kept, config, Inv, TypeOK
<1>2. TypeOK' /\ KeySound'
  BY <1>1 DEF Inv, TypeOK, KeySound
<1>3. SsnSound(ssn', leader')
  BY <1>1 DEF Inv
<1>4. InForce' /\ SyncFits'
  BY <1>1 DEF InForce, Joins, Members, SyncFits
<1>5. QED
  BY <1>1, <1>2, <1>3, <1>4, NothingLeft

\* disable_synchronous_replication removes both settings.
LEMMA DisableIsSound == Inv /\ Disable => Inv'
<1> SUFFICES ASSUME Inv, Disable
    PROVE  Inv'
  OBVIOUS
<1>1. /\ key' = NoKey /\ ssn' = NoSsn /\ todo' = <<>>
      /\ UNCHANGED <<leader, live, streaming, mode, wanted>>
  BY DEF Disable, Idle, Kept, config
<1>2. NoLeader \notin Nodes
  BY SyncAssumption DEF NoLeader, Nodes
<1>3. TypeOK' /\ KeySound'
  BY <1>1, <1>2, SyncAssumption DEF Inv, TypeOK, KeySound, NoKey, NoSsn
<1>4. SsnSound(ssn', leader')
  BY <1>1, NoSsnIsSound
<1>5. InForce' /\ SyncFits'
  BY <1>1 DEF InForce, SyncFits, NoKey
<1>6. QED
  BY <1>1, <1>3, <1>4, <1>5, NothingLeft DEF NoKey

\* The list of changes that a cycle of the leader begins with fits what is in force.
LEMMA ResolveIsSound == Inv /\ Resolve => Inv'
<1> SUFFICES ASSUME Inv, Resolve
    PROVE  Inv'
  OBVIOUS
<1> DEFINE g == Generate(Seen)
<1>1. /\ ToResolve /\ UNCHANGED <<leader, live, streaming, ssn, key, mode, wanted, switched>>
      /\ todo' = IF g.failed THEN <<>> ELSE g.out
  BY DEF Resolve, Kept, config, Transitions
<1>2. leader \in Nodes /\ Starts(Seen, KeyNow, SsnNow, leader) /\ mode = "quorum" /\ leader # NoLeader
  BY <1>1, SeenStarts DEF ToResolve, Idle
<1> HIDE DEF g
<1>3. ~g.failed => Good(g, KeyNow, SsnNow, leader)
  BY <1>2, Generated DEF g
<1>4. todo' \in Seq(Changes) /\ Trace(todo', KeyNow, SsnNow, leader)
  <2>1. CASE g.failed
    BY <1>1, <2>1 DEF Trace
  <2>2. CASE ~g.failed
    BY <1>1, <1>3, <2>2 DEF Good, Base, Known, Resolvers
  <2>3. QED
    BY <2>1, <2>2
<1>5. Shape'
  <2>1. Changes \subseteq Steps
    BY DEF Changes, Steps
  <2>2. todo' \in Seq(Steps)
    BY <1>4, <2>1
  <2>3. QED
    BY <1>1, <2>2 DEF Inv, Shape
<1>6. TypeOK' /\ SsnSound(ssn, leader)' /\ KeySound'
  BY <1>1, <1>2 DEF Inv, TypeOK, SsnSound, KeySound
<1>7. TodoSound'
  <2>1. SUFFICES ASSUME NEW i \in 1 .. Len(todo')
        PROVE  /\ todo'[i].type = "sync" => leader \notin todo'[i].names /\ todo'[i].num <= Cardinality(todo'[i].names)
               /\ todo'[i].type = "quorum" =>
                    todo'[i].leader = leader /\ leader \notin todo'[i].names /\ (todo'[i].names = {} => todo'[i].num = 0)
               /\ todo'[i].type # "confirm"
    BY <1>1, <1>2 DEF TodoSound
  <2>2. todo'[i] \in Changes
    BY <1>4
  <2>3. /\ todo'[i].type = "quorum" => KeyFits(todo'[i], Before(todo', i, SsnNow), leader)
        /\ todo'[i].type = "sync" => SsnFits(todo'[i], Before(todo', i, KeyNow), leader)
    BY <1>4 DEF Trace
  <2>4. QED
    BY <2>2, <2>3 DEF SsnFits, KeyFits, Changes
<1>8. TodoFits' /\ InForce' /\ SyncFits'
  BY <1>1, <1>4 DEF Inv, TodoFits, InForce, SyncFits, KeyNow, SsnNow, Members
<1>9. QED
  BY <1>5, <1>6, <1>7, <1>8 DEF Inv

\* The first half of a cycle in sync mode: the voters that /sync keeps are waited for now and will be,
\* and none is kept that PostgreSQL waits for only as one of several.
LEMMA PickDoes ==
  ASSUME Inv, Pick
  PROVE  \E picked \in SUBSET (Nodes \ {leader}) :
           /\ \/ key' = key /\ key.leader = leader
              \/ \E V \in SUBSET (Nodes \ {leader}) : key' = [leader |-> leader, quorum |-> 0, voters |-> V]
           /\ key'.voters \subseteq picked /\ key'.voters \subseteq ssn.names /\ key'.voters \subseteq key.voters
           /\ key'.voters # {} => ~ssn.any
           /\ \/ todo' = <<>>
              \/ /\ todo' \in Seq(Steps) /\ Len(todo') = 2
                 /\ todo'[1].type = "sync" /\ todo'[1].names = picked
                 /\ picked = {} \/ todo'[1].num = Cardinality(picked)
                 /\ todo'[2].type = "confirm"
<1>1. leader \in Nodes /\ streaming \subseteq Nodes \ {leader}
  BY DEF Pick, Idle, Inv, TypeOK
<1>2. PICK picked \in Picks :
        LET confirmed == picked \cap Synchronous
            mine == IF key.leader = leader THEN key.voters ELSE {}
            voters == IF picked = mine THEN confirmed ELSE mine
            common == voters \cap confirmed
            names == IF picked = {} /\ Strict THEN Ssn({}, 1, ssn) ELSE Ssn(picked, Cardinality(picked), ssn)
        IN /\ key' = IF key.leader = leader /\ voters = mine /\ common = voters THEN key
                     ELSE [leader |-> leader, quorum |-> 0, voters |-> common]
           /\ todo' = IF picked = voters /\ picked = ssn.names /\ ssn.num = Cardinality(picked) THEN <<>>
                      ELSE <<Transition("sync", names.num, names.names, leader),
                             Transition("confirm", 0, picked, leader)>>
  BY DEF Pick
<1> DEFINE confirmed == picked \cap Synchronous
           mine == IF key.leader = leader THEN key.voters ELSE {}
           voters == IF picked = mine THEN confirmed ELSE mine
           common == voters \cap confirmed
           names == IF picked = {} /\ Strict THEN Ssn({}, 1, ssn) ELSE Ssn(picked, Cardinality(picked), ssn)
           list == <<Transition("sync", names.num, names.names, leader), Transition("confirm", 0, picked, leader)>>
<1>3. /\ \/ key' = key /\ key.leader = leader /\ voters = mine /\ common = voters
         \/ key' = [leader |-> leader, quorum |-> 0, voters |-> common]
      /\ todo' = <<>> \/ todo' = list
  BY <1>2, Zenon
<1>4. picked \in SUBSET (Nodes \ {leader}) /\ Cardinality(picked) \in Nat
      /\ (Cardinality(picked) = 0 => picked = {}) /\ Cardinality({}) = 0
  <2>1. picked \subseteq streaming
    BY <1>1 DEF Picks
  <2>2. QED
    BY <1>1, <2>1, NodesAreFinite, NoNodes
<1>5. /\ common \in SUBSET (Nodes \ {leader}) /\ common \subseteq picked /\ common \subseteq ssn.names
      /\ common \subseteq key.voters /\ (common # {} => ~ssn.any)
  <2>1. confirmed \subseteq picked /\ confirmed \subseteq ssn.names /\ (confirmed # {} => ~ssn.any)
    BY DEF Synchronous
  <2>2. common \subseteq confirmed
    OBVIOUS
  <2>3. common \subseteq key.voters
    <3> HIDE DEF confirmed
    <3>1. CASE picked = mine
      BY <2>1, <3>1
    <3>2. CASE picked # mine
      BY <3>2
    <3>3. QED
      BY <3>1, <3>2
  <2> HIDE DEF common, confirmed
  <2>4. QED
    BY <1>4, <2>1, <2>2, <2>3
<1>6. \/ key' = key /\ key.leader = leader /\ key.voters = common
      \/ key' = [leader |-> leader, quorum |-> 0, voters |-> common]
  <2>1. key.leader = leader => mine = key.voters
    OBVIOUS
  <2> HIDE DEF mine, voters, common, list
  <2>2. QED
    BY <1>3, <2>1
<1> HIDE DEF common, confirmed, mine, voters
<1>7. /\ names.names = picked /\ names.num \in Nat /\ (names.num = Cardinality(picked) \/ picked = {})
  <2>1. CASE picked = {}
    BY <1>4, <2>1 DEF Ssn
  <2>2. CASE picked # {}
    BY <1>4, <2>2 DEF Ssn
  <2>3. QED
    BY <2>1, <2>2
<1> HIDE DEF names
<1>8. /\ list \in Seq(Steps) /\ Len(list) = 2
      /\ list[1].type = "sync" /\ list[1].num = names.num /\ list[1].names = picked
      /\ list[2].type = "confirm"
  <2>1. Transition("sync", names.num, names.names, leader) \in Steps /\ Transition("confirm", 0, picked, leader) \in Steps
    BY <1>1, <1>4, <1>7 DEF Transition, Steps
  <2>2. list \in Seq(Steps) /\ Len(list) = 2
    BY <2>1
  <2>3. QED
    BY <1>7, <2>2 DEF Transition
<1> HIDE DEF list
<1>9. key'.voters = common
  BY <1>6
<1>10. \/ key' = key /\ key.leader = leader
       \/ \E V \in SUBSET (Nodes \ {leader}) : key' = [leader |-> leader, quorum |-> 0, voters |-> V]
  BY <1>5, <1>6
<1>11. \/ todo' = <<>>
       \/ /\ todo' \in Seq(Steps) /\ Len(todo') = 2
          /\ todo'[1].type = "sync" /\ todo'[1].names = picked
          /\ picked = {} \/ todo'[1].num = Cardinality(picked)
          /\ todo'[2].type = "confirm"
  <2>1. CASE todo' = <<>>
    BY <2>1
  <2>2. CASE todo' = list
    BY <1>7, <1>8, <2>2
  <2>3. QED
    BY <1>3, <2>1, <2>2
<1>12. QED
  BY <1>4, <1>5, <1>9, <1>10, <1>11

\* A cycle of the leader in sync mode: /sync only loses voters before the standbys change.
LEMMA PickIsSound == Inv /\ Pick => Inv'
<1> SUFFICES ASSUME Inv, Pick
    PROVE  Inv'
  OBVIOUS
<1>1. leader \in Nodes /\ leader # NoLeader /\ mode = "sync"
      /\ UNCHANGED <<leader, live, streaming, ssn, mode, wanted>>
  BY DEF Pick, Idle, config, Inv, TypeOK
<1>2. PICK picked \in SUBSET (Nodes \ {leader}) :
        /\ \/ key' = key /\ key.leader = leader
           \/ \E V \in SUBSET (Nodes \ {leader}) : key' = [leader |-> leader, quorum |-> 0, voters |-> V]
        /\ key'.voters \subseteq picked /\ key'.voters \subseteq ssn.names /\ key'.voters \subseteq key.voters
        /\ key'.voters # {} => ~ssn.any
        /\ \/ todo' = <<>>
           \/ /\ todo' \in Seq(Steps) /\ Len(todo') = 2
              /\ todo'[1].type = "sync" /\ todo'[1].names = picked
              /\ picked = {} \/ todo'[1].num = Cardinality(picked)
              /\ todo'[2].type = "confirm"
  BY PickDoes
<1>3. key' \in [leader : Nodes \cup {NoLeader}, quorum : Nat, voters : SUBSET Nodes] /\ key'.leader = leader
      /\ leader \notin key'.voters /\ key'.voters \subseteq Nodes /\ key'.quorum \in Nat /\ KeySound'
  <2>1. CASE key' = key /\ key.leader = leader
    BY <1>1, <2>1 DEF Inv, Shape, KeySound
  <2>2. ASSUME NEW V \in SUBSET (Nodes \ {leader}), key' = [leader |-> leader, quorum |-> 0, voters |-> V]
        PROVE  /\ key' \in [leader : Nodes \cup {NoLeader}, quorum : Nat, voters : SUBSET Nodes] /\ key'.leader = leader
               /\ leader \notin key'.voters /\ key'.voters \subseteq Nodes /\ key'.quorum \in Nat /\ KeySound'
    <3>1. key'.leader = leader /\ key'.quorum = 0 /\ key'.voters = V
      BY <2>2
    <3>2. key' \in [leader : Nodes \cup {NoLeader}, quorum : Nat, voters : SUBSET Nodes]
      BY <1>1, <2>2
    <3>3. QED
      BY <3>1, <3>2 DEF KeySound
  <2>3. QED
    BY <1>2, <2>1, <2>2
<1>4. TypeOK'
  BY <1>1, <1>2, <1>3 DEF Inv, TypeOK, Pick, Idle
<1>5. Shape'
  <2>1. todo' \in Seq(Steps)
    <3>1. <<>> \in Seq(Steps)
      OBVIOUS
    <3>2. QED
      BY <1>2, <3>1
  <2>2. QED
    BY <1>1, <1>3, <2>1 DEF Inv, Shape
<1>6. TodoSound'
  <2>1. CASE todo' = <<>>
    BY <2>1 DEF TodoSound
  <2>2. CASE todo' # <<>>
    <3>1. \A i \in 1 .. Len(todo') : i = 1 \/ i = 2
      <4>1. Len(todo') = 2
        BY <1>2, <2>2
      <4>2. \A i \in 1 .. 2 : i = 1 \/ i = 2
        OBVIOUS
      <4>3. QED
        BY ONLY <4>1, <4>2
    <3>2. Cardinality(picked) \in Nat
      BY NodesAreFinite
    <3>3. /\ leader \notin todo'[1].names /\ key'.voters \subseteq todo'[1].names
          /\ todo'[1].num <= Cardinality(todo'[1].names) \/ todo'[1].names = {}
          /\ todo'[1].names = {} \/ todo'[1].num = Cardinality(todo'[1].names)
          /\ todo'[1].type = "sync" /\ todo'[2].type = "confirm"
      BY <1>2, <2>2, <3>2
    <3>4. QED
      BY <1>1, <1>3, <3>1, <3>3 DEF TodoSound
  <2>3. QED
    BY <2>1, <2>2
<1>7. key'.voters # {} => ssn.num = Cardinality(ssn.names)
  BY <1>2 DEF Inv, SsnSound
<1>8. SyncFits'
  BY <1>1, <1>2, <1>3, <1>7 DEF SyncFits
<1>9. InForce'
  <2>1. /\ ssn.names \in SUBSET (Nodes \ {leader}) /\ Cardinality(ssn.names) \in Nat /\ SsnNow'.num \in Nat
        /\ key'.voters # {} => SsnNow'.num = Cardinality(ssn.names)
    <3>1. ssn.names \in SUBSET (Nodes \ {leader}) /\ ssn.num \in Nat
      BY DEF Inv, SsnSound
    <3>2. Cardinality(ssn.names) \in Nat
      BY <3>1, NodesAreFinite
    <3>3. SsnNow'.num = Lower(ssn.num, Cardinality(ssn.names))
      BY <1>1 DEF SsnNow
    <3>4. QED
      BY <1>7, <3>1, <3>2, <3>3 DEF Lower
  <2>2. Members' = {leader} \cup key'.voters
    BY <1>1, <1>3 DEF Members
  <2>3. Joins({leader} \cup key'.voters, key'.quorum, ssn.names, SsnNow'.num, leader)
    BY <1>1, <1>2, <1>3, <2>1, AllWaitedFor
  <2>4. QED
    BY <1>1, <2>2, <2>3 DEF InForce
<1>10. TodoFits' /\ SsnSound(ssn, leader)'
  BY <1>1 DEF Inv, TodoFits, SsnSound
<1>11. QED
  BY <1>3, <1>4, <1>5, <1>6, <1>8, <1>9, <1>10 DEF Inv

\* The list without its first change.
LEMMA RestOfTodo ==
  ASSUME Inv, todo # <<>>
  PROVE  /\ 1 \in 1 .. Len(todo) /\ todo[1] \in Steps /\ Tail(todo) \in Seq(Steps)
         /\ Len(Tail(todo)) = Len(todo) - 1
         /\ \A i \in 1 .. Len(Tail(todo)) : i + 1 \in 1 .. Len(todo) /\ Tail(todo)[i] = todo[i + 1]
<1>1. todo \in Seq(Steps)
  BY DEF Inv, Shape
<1>2. QED
  BY <1>1

\* The rest of the list is sound when its first change is made.
LEMMA TailIsSound ==
  ASSUME Inv, todo # <<>>, todo' = Tail(todo), leader' = leader, mode' = mode, key' = key \/ mode = "quorum"
  PROVE  TodoSound'
<1>1. ASSUME NEW i \in 1 .. Len(todo')
      PROVE  i + 1 \in 1 .. Len(todo) /\ todo'[i] = todo[i + 1] /\ i + 1 # 1
  BY <1>1, RestOfTodo
<1>2. ASSUME NEW j \in 1 .. Len(todo), j # 1
      PROVE  /\ todo[j].type = "sync" =>
                  leader \notin todo[j].names /\ (todo[j].num <= Cardinality(todo[j].names) \/ todo[j].names = {})
                  /\ mode = "quorum"
             /\ todo[j].type = "quorum" =>
                  todo[j].leader = leader /\ leader \notin todo[j].names /\ (todo[j].names = {} => todo[j].num = 0)
                  /\ mode = "quorum"
             /\ todo[j].type = "confirm" => mode # "quorum" /\ key.leader = leader
  BY <1>2 DEF Inv, TodoSound
<1>3. QED
  BY <1>1, <1>2, ZenonT(60) DEF TodoSound

\* A change of synchronous_standby_names: the list was made for a number of standbys that is at least
\* MinSync here, and waiting for more of them than the list says breaks none of what follows.
LEMMA ApplySyncIsSound == Inv /\ ApplySync => Inv'
<1> SUFFICES ASSUME Inv, ApplySync
    PROVE  Inv'
  OBVIOUS
<1> DEFINE t == todo[1]
           num == Higher(t.num, MinSync)
           s == Ssn(t.names, num, ssn)
<1>1. /\ leader \in Nodes /\ leader # NoLeader /\ todo # <<>> /\ t.type = "sync" /\ ssn' = s /\ todo' = Tail(todo)
      /\ UNCHANGED <<leader, live, streaming, key, mode, wanted, switched>>
  BY DEF ApplySync, config, Inv, TypeOK
<1>2. /\ 1 \in 1 .. Len(todo) /\ t \in Steps /\ todo' \in Seq(Steps)
  BY <1>1, RestOfTodo
<1>3. /\ t.names \in SUBSET (Nodes \ {leader}) /\ (t.num <= Cardinality(t.names) \/ t.names = {})
      /\ t.num \in Nat /\ Cardinality(t.names) \in Nat /\ (Cardinality(t.names) = 0 => t.names = {})
      /\ Cardinality({}) = 0
  <2>1. t.names \subseteq Nodes /\ leader \notin t.names /\ (t.num <= Cardinality(t.names) \/ t.names = {}) /\ t.num \in Nat
    BY <1>1, <1>2 DEF Inv, TodoSound, Steps
  <2>2. QED
    BY <2>1, NodesAreFinite, NoNodes
<1>14. mode # "quorum" => /\ key.leader = leader /\ key.voters \subseteq t.names
                          /\ t.names = {} \/ t.num = Cardinality(t.names)
  BY <1>1, <1>2 DEF Inv, TodoSound
<1> HIDE DEF t
<1>4. num \in Nat /\ (t.names # {} => num <= Cardinality(t.names))
      /\ (num = t.num \/ (t.num = 0 /\ num = 1))
      /\ (t.names = {} \/ mode = "quorum" \/ num = Cardinality(t.names))
  BY <1>3, <1>14 DEF num, Higher, MinSync
<1> HIDE DEF num
<1>5. SsnSound(ssn, leader)'
  <2>1. SsnSound(s, leader)
    BY <1>3, <1>4, SsnIsSound DEF Inv
  <2>2. QED
    BY <1>1, <2>1 DEF SsnSound
<1>6. TypeOK'
  <2>1. SsnSound(ssn', leader)
    BY <1>1, <1>5 DEF SsnSound
  <2>2. ssn'.num \in 0 .. N
    BY <2>1, SsnInRange
  <2>3. ssn'.names \subseteq Nodes \ {leader}
    BY <2>1 DEF SsnSound
  <2>4. QED
    BY <1>1, <2>2, <2>3 DEF Inv, TypeOK
<1>7. KeySound' /\ Shape' /\ TodoSound'
  BY <1>1, <1>2, TailIsSound DEF Inv, KeySound, Shape
<1>8. /\ t.names # {} /\ num > 0 => SsnNow'.num = num /\ SsnNow'.names = t.names
      /\ t.names # {} /\ num = 0 => ssn' = ssn
      /\ t.names = {} => ssn'.names = {} /\ SsnNow'.names = {} /\ SsnNow'.num = 0
      /\ t.names # {} /\ num > 0 => ssn'.num = num /\ ssn'.names = t.names
  <2>1. ASSUME t.names # {}, num > 0
        PROVE  SsnNow'.num = num /\ SsnNow'.names = t.names /\ ssn'.num = num /\ ssn'.names = t.names
    <3>1. ssn'.num = num /\ ssn'.names = t.names
      BY <1>1, <1>4, <2>1 DEF Ssn
    <3>2. Lower(num, Cardinality(t.names)) = num
      BY <1>3, <1>4, <2>1 DEF Lower
    <3>3. QED
      BY <3>1, <3>2 DEF SsnNow
  <2>2. ASSUME t.names = {}
        PROVE  ssn'.names = {} /\ SsnNow'.names = {} /\ SsnNow'.num = 0
    <3>1. ssn'.names = {} /\ ssn'.num \in {0, 1}
      BY <1>1, <2>2 DEF Ssn
    <3>2. QED
      BY <1>3, <3>1 DEF SsnNow, Lower
  <2>3. QED
    BY <1>1, <2>1, <2>2 DEF Ssn
<1>9. mode = "quorum" => SsnFits(t, KeyNow, leader) /\ Trace(todo, KeyNow, SsnNow, leader)
  <2>1. SUFFICES ASSUME mode = "quorum"
        PROVE  SsnFits(t, KeyNow, leader) /\ Trace(todo, KeyNow, SsnNow, leader)
    OBVIOUS
  <2>2. Trace(todo, KeyNow, SsnNow, leader)
    BY <2>1 DEF Inv, TodoFits
  <2>3. SsnFits(todo[1], Before(todo, 1, KeyNow), leader)
    BY <1>1, <1>2, <2>2 DEF Trace, t
  <2>4. QED
    BY <2>2, <2>3 DEF Before, t
<1>10. ASSUME mode = "quorum", NEW e, KeyFits(e, t, leader)
       PROVE  KeyFits(e, SsnNow', leader)
  <2>1. t.names = {} => t.num = 0
    BY <1>3, <1>9, <1>10 DEF SsnFits
  <2>2. CASE t.num = 0
    BY <1>10, <2>2 DEF KeyFits, Meets
  <2>3. CASE t.num # 0
    <3>1. SsnNow'.num = t.num /\ SsnNow'.names = t.names
      BY <1>3, <1>4, <1>8, <2>1, <2>3
    <3>2. QED
      BY <1>10, <3>1 DEF KeyFits, Meets
  <2>4. QED
    BY <2>2, <2>3
<1>11. TodoFits'
  <2>1. SUFFICES ASSUME mode = "quorum"
        PROVE  Trace(Tail(todo), KeyNow, SsnNow', leader)
    BY <1>1 DEF TodoFits, KeyNow
  <2>2. todo \in Seq(Steps)
    BY DEF Inv, Shape
  <2>3. todo[1].type = "sync" /\ todo[1].type # "quorum" /\ \A e : KeyFits(e, todo[1], leader) => KeyFits(e, SsnNow', leader)
    BY <1>1, <1>10, <2>1 DEF t
  <2>4. Trace(todo, KeyNow, SsnNow, leader)
    BY <1>9, <2>1
  <2> DEFINE k == KeyNow
             s0 == SsnNow
             s1 == SsnNow'
  <2> HIDE DEF k, s0, s1
  <2>5. Trace(todo, k, s0, leader) /\ \A e : KeyFits(e, todo[1], leader) => KeyFits(e, s1, leader)
    BY <2>3, <2>4 DEF k, s0, s1
  <2>6. Trace(Tail(todo), k, s1, leader)
    BY <1>1, <2>2, <2>3, <2>5, TailFits
  <2>7. QED
    BY <2>6 DEF k, s1
<1>12. ASSUME mode = "quorum", key.leader = leader
       PROVE  Meets(KeyNow, SsnNow', leader)
  <2>1. Meets(KeyNow, t, leader) /\ (t.names = {} => KeyNow.names = {})
    BY <1>9, <1>12 DEF SsnFits, KeyNow
  <2>2. CASE t.names = {}
    BY <2>1, <2>2 DEF Meets
  <2>3. CASE t.names # {} /\ num = 0
    <3>1. SsnNow' = SsnNow
      BY <1>8, <2>3 DEF SsnNow
    <3>2. leader \notin KeyNow.names /\ Joins({leader} \cup KeyNow.names, KeyNow.num, SsnNow.names, SsnNow.num, leader)
      BY <1>1, <1>12 DEF Inv, InForce, Members, KeySound, KeyNow, SsnNow
    <3>3. QED
      BY <3>1, <3>2, JoinsIffMeets
  <2>4. CASE t.names # {} /\ num > 0
    <3>1. SsnNow'.num = num /\ SsnNow'.names = t.names
      BY <1>8, <2>4
    <3>2. KeyNow.num \in Nat /\ KeyNow.names \cup t.names \cup {leader} \subseteq Nodes
      BY <1>1, <1>3 DEF Inv, Shape, KeyNow
    <3>3. Cardinality(KeyNow.names \cup t.names \cup {leader}) \in Nat
      BY <3>2, NodesAreFinite
    <3>4. QED
      BY <1>3, <1>4, <2>1, <3>1, <3>2, <3>3 DEF Meets
  <2>5. QED
    BY <1>4, <2>2, <2>3, <2>4
<1>15. mode # "quorum" =>
         /\ key.leader = leader /\ key.voters \subseteq ssn'.names
         /\ key.voters # {} => ssn'.num = Cardinality(ssn'.names) /\ SsnNow'.num = Cardinality(ssn'.names)
  <2>1. SUFFICES ASSUME mode # "quorum"
        PROVE  /\ key.leader = leader /\ key.voters \subseteq ssn'.names
               /\ key.voters # {} => ssn'.num = Cardinality(ssn'.names) /\ SsnNow'.num = Cardinality(ssn'.names)
    OBVIOUS
  <2>2. CASE t.names = {}
    BY <1>8, <1>14, <2>1, <2>2
  <2>3. CASE t.names # {}
    <3>1. num = Cardinality(t.names) /\ num > 0
      BY <1>3, <1>4, <2>1, <2>3
    <3>2. QED
      BY <1>8, <1>14, <2>1, <2>3, <3>1
  <2>4. QED
    BY <2>2, <2>3
<1>16. SsnNow'.num \in Nat /\ ssn'.names \in SUBSET (Nodes \ {leader}) /\ SsnNow'.names = ssn'.names
  <2>1. ssn'.num \in Nat /\ ssn'.names \in SUBSET (Nodes \ {leader})
    BY <1>1, <1>5 DEF SsnSound
  <2>2. Cardinality(ssn'.names) \in Nat
    BY <2>1, NodesAreFinite
  <2>3. SsnNow'.num = Lower(ssn'.num, Cardinality(ssn'.names)) /\ SsnNow'.names = ssn'.names
    BY DEF SsnNow
  <2>4. QED
    BY <2>1, <2>2, <2>3 DEF Lower
<1>17. InForce'
  <2>1. SUFFICES ASSUME key.leader # NoLeader
        PROVE  Joins(Members, key.quorum, ssn'.names, SsnNow'.num, leader)
    BY <1>1 DEF InForce, Members
  <2>2. /\ Members = {key.leader} \cup key.voters /\ key.voters \in SUBSET Nodes /\ key.quorum \in Nat
        /\ leader = key.leader => leader \notin key.voters
        /\ Members \subseteq Nodes
    BY <2>1 DEF Members, Inv, Shape, KeySound
  <2>3. CASE mode # "quorum"
    BY <1>1, <1>15, <1>16, <2>2, <2>3, AllWaitedFor
  <2>4. CASE mode = "quorum" /\ key.leader = leader
    <3>1. Meets(KeyNow, SsnNow', leader) /\ leader \notin KeyNow.names
      BY <1>12, <2>2, <2>4 DEF KeyNow
    <3>2. Joins({leader} \cup KeyNow.names, KeyNow.num, SsnNow'.names, SsnNow'.num, leader)
      BY <3>1, JoinsIffMeets
    <3>3. QED
      BY <1>16, <2>2, <2>4, <3>2 DEF KeyNow
  <2>5. CASE mode = "quorum" /\ key.leader # leader
    <3>1. /\ Cardinality(key.voters \cup {key.leader} \cup t.names \cup {leader}) <= key.quorum + t.num + 1
          /\ t.num <= Cardinality(t.names)
      BY <1>9, <2>5 DEF SsnFits, KeyNow
    <3>2. Members \cup t.names \cup {leader} = key.voters \cup {key.leader} \cup t.names \cup {leader}
      BY <2>2
    <3>3. Cardinality(Members \cup t.names \cup {leader}) \in Nat
      BY <1>1, <1>3, <2>2, NodesAreFinite
    <3>4. CASE t.names = {}
      <4>1. Members \cup ssn'.names \cup {leader} = Members \cup t.names \cup {leader} /\ SsnNow'.num = 0
        BY <1>8, <3>4
      <4>2. t.num = 0
        BY <1>3, <3>1, <3>4
      <4>3. Cardinality(Members \cup t.names \cup {leader}) <= key.quorum + 0 + 1
        BY <3>1, <3>2, <4>2
      <4>4. QED
        BY <4>1, <4>3 DEF Joins
    <3>5. CASE t.names # {} /\ num = 0
      BY <1>1, <1>8, <2>1, <3>5 DEF Inv, InForce, SsnNow
    <3>6. CASE t.names # {} /\ num > 0
      BY <1>3, <1>4, <1>8, <2>2, <3>1, <3>2, <3>3, <3>6 DEF Joins
    <3>7. QED
      BY <1>4, <3>4, <3>5, <3>6
  <2>6. QED
    BY <2>3, <2>4, <2>5
<1>18. SyncFits'
  BY <1>1, <1>15 DEF SyncFits
<1>13. QED
  BY <1>5, <1>6, <1>7, <1>11, <1>17, <1>18 DEF Inv

\* A change of /sync.
LEMMA ApplyQuorumIsSound == Inv /\ ApplyQuorum => Inv'
<1> SUFFICES ASSUME Inv, ApplyQuorum
    PROVE  Inv'
  OBVIOUS
<1> DEFINE t == todo[1]
<1>1. /\ leader \in Nodes /\ leader # NoLeader /\ todo # <<>> /\ t.type = "quorum" /\ todo' = Tail(todo)
      /\ key' = [leader |-> t.leader, quorum |-> t.num, voters |-> t.names]
      /\ UNCHANGED <<leader, live, streaming, ssn, mode, wanted>>
  BY DEF ApplyQuorum, Kept, config, Inv, TypeOK
<1>2. /\ 1 \in 1 .. Len(todo) /\ t \in Steps /\ todo' \in Seq(Steps)
  BY <1>1, RestOfTodo
<1>3. /\ t.names \subseteq Nodes /\ t.num \in Nat /\ t.leader = leader /\ leader \notin t.names
      /\ t.names = {} => t.num = 0
      /\ mode = "quorum"
  BY <1>1, <1>2 DEF Inv, TodoSound, Steps
<1> HIDE DEF t
<1>4. key'.leader = leader /\ key'.quorum = t.num /\ key'.voters = t.names
  BY <1>1, <1>3
<1>5. TypeOK' /\ KeySound' /\ SsnSound(ssn, leader)' /\ TodoSound'
  BY <1>1, <1>3, <1>4, TailIsSound DEF Inv, TypeOK, KeySound, SsnSound
<1>6. Shape'
  BY <1>1, <1>2, <1>3 DEF Inv, Shape
<1>7. mode = "quorum" => KeyFits(t, SsnNow, leader) /\ Trace(todo, KeyNow, SsnNow, leader)
  <2>1. SUFFICES ASSUME mode = "quorum"
        PROVE  KeyFits(t, SsnNow, leader) /\ Trace(todo, KeyNow, SsnNow, leader)
    OBVIOUS
  <2>2. Trace(todo, KeyNow, SsnNow, leader)
    BY <2>1 DEF Inv, TodoFits
  <2>3. KeyFits(todo[1], Before(todo, 1, SsnNow), leader)
    BY <1>1, <1>2, <2>2 DEF Trace, t
  <2>4. QED
    BY <2>2, <2>3 DEF Before, t
<1>8. TodoFits'
  <2>1. SUFFICES ASSUME mode = "quorum"
        PROVE  Trace(Tail(todo), KeyNow', SsnNow, leader)
    BY <1>1 DEF TodoFits, SsnNow
  <2>2. todo \in Seq(Steps)
    BY DEF Inv, Shape
  <2> DEFINE k == KeyNow
             s == SsnNow
             k1 == KeyNow'
  <2>3. k1.num = todo[1].num /\ k1.names = todo[1].names /\ k1.leader = todo[1].leader
    BY <1>1 DEF KeyNow, t
  <2>4. todo[1].type = "quorum" /\ todo[1].type # "sync" /\ Trace(todo, k, s, leader)
    BY <1>1, <1>7, <2>1 DEF t
  <2> HIDE DEF k, s, k1
  <2>5. Trace(Tail(todo), k1, s, leader)
    BY <1>1, <2>2, <2>3, <2>4, TailFits
  <2>6. QED
    BY <2>5 DEF k1, s
<1>9. InForce'
  <2>1. Meets(t, SsnNow, leader)
    BY <1>3, <1>7 DEF KeyFits
  <2>2. Joins({leader} \cup t.names, t.num, SsnNow.names, SsnNow.num, leader)
    BY <1>3, <2>1, JoinsIffMeets
  <2>3. Members' = {leader} \cup t.names /\ SsnNow.names = ssn.names
    BY <1>1, <1>4 DEF Members, SsnNow
  <2>4. SsnNow' = SsnNow
    BY <1>1 DEF SsnNow
  <2>5. QED
    BY <1>1, <1>4, <2>2, <2>3, <2>4 DEF InForce
<1>10. SyncFits'
  BY <1>1, <1>3 DEF SyncFits
<1>11. QED
  BY <1>5, <1>6, <1>8, <1>9, <1>10 DEF Inv

\* The second half of a cycle in sync mode: only standbys all of whom are waited for enter /sync.
LEMMA ConfirmDoes ==
  ASSUME Inv, ApplyConfirm
  PROVE  /\ leader \in Nodes /\ leader # NoLeader /\ mode # "quorum" /\ key.leader = leader /\ todo' = <<>>
         /\ UNCHANGED <<leader, live, streaming, wal, acked, ssn, config, faults, switched>>
         /\ \/ key' = key
            \/ \E V \in SUBSET (Nodes \ {leader}) :
                 /\ key' = [leader |-> leader, quorum |-> 0, voters |-> V]
                 /\ V # {} /\ V \subseteq ssn.names /\ ssn.num = Cardinality(ssn.names)
<1> DEFINE confirmed == Synchronous \cap todo[1].names \cap streaming
<1>1. /\ leader \in Nodes /\ leader # NoLeader /\ todo # <<>> /\ todo[1].type = "confirm" /\ todo' = <<>>
      /\ \/ key' = key
         \/ confirmed # {} /\ key' = [leader |-> leader, quorum |-> 0, voters |-> confirmed]
      /\ UNCHANGED <<leader, live, streaming, wal, acked, ssn, config, faults, switched>>
  BY DEF ApplyConfirm, Kept, config, Inv, TypeOK
<1>2. confirmed \in SUBSET (Nodes \ {leader})
  BY <1>1 DEF Inv, TypeOK
<1>3. mode # "quorum" /\ key.leader = leader
  BY <1>1, RestOfTodo DEF Inv, TodoSound
<1>4. confirmed # {} => confirmed \subseteq ssn.names /\ ssn.num = Cardinality(ssn.names)
  <2>1. confirmed \subseteq ssn.names /\ (confirmed # {} => ~ssn.any)
    BY DEF Synchronous
  <2> HIDE DEF confirmed
  <2>2. QED
    BY <2>1 DEF Inv, SsnSound
<1> HIDE DEF confirmed
<1>5. QED
  BY <1>1, <1>2, <1>3, <1>4

\* The end of a cycle in sync mode.
LEMMA ApplyConfirmIsSound == Inv /\ ApplyConfirm => Inv'
<1> SUFFICES ASSUME Inv, ApplyConfirm
    PROVE  Inv'
  OBVIOUS
<1>1. /\ leader \in Nodes /\ leader # NoLeader /\ mode # "quorum" /\ key.leader = leader /\ todo' = <<>>
      /\ UNCHANGED <<leader, live, streaming, ssn, mode, wanted, switched>>
  BY ConfirmDoes DEF config
<1>2. CASE key' = key
  <2>1. TypeOK' /\ KeySound' /\ key' \in [leader : Nodes \cup {NoLeader}, quorum : Nat, voters : SUBSET Nodes]
    BY <1>1, <1>2 DEF Inv, TypeOK, KeySound, Shape
  <2>2. SsnSound(ssn', leader') /\ InForce' /\ SyncFits'
    BY <1>1, <1>2 DEF Inv, InForce, SyncFits, Members, SsnNow
  <2>3. QED
    BY <1>1, <2>1, <2>2, NothingLeft
<1>3. ASSUME NEW V \in SUBSET (Nodes \ {leader}), key' = [leader |-> leader, quorum |-> 0, voters |-> V],
             V # {}, V \subseteq ssn.names, ssn.num = Cardinality(ssn.names)
      PROVE  Inv'
  <2>1. key'.leader = leader /\ key'.quorum = 0 /\ key'.voters = V
    BY <1>3
  <2>2. TypeOK' /\ KeySound' /\ key' \in [leader : Nodes \cup {NoLeader}, quorum : Nat, voters : SUBSET Nodes]
    BY <1>1, <1>3 DEF Inv, TypeOK, KeySound
  <2>3. SsnSound(ssn', leader')
    BY <1>1 DEF Inv
  <2>4. SyncFits'
    BY <1>1, <1>3, <2>1 DEF SyncFits
  <2>5. InForce'
    <3>1. ssn.num \in Nat /\ ssn.names \in SUBSET (Nodes \ {leader})
      BY DEF Inv, SsnSound
    <3>2. SsnNow'.num = Lower(ssn.num, Cardinality(ssn.names)) /\ Members' = {leader} \cup V
      BY <1>1, <2>1 DEF SsnNow, Members
    <3>3. SsnNow'.num = Cardinality(ssn.names) /\ SsnNow'.num \in Nat
      BY <1>3, <3>1, <3>2 DEF Lower
    <3>4. Joins({leader} \cup V, 0, ssn.names, SsnNow'.num, leader)
      BY <1>1, <1>3, <3>1, <3>3, AllWaitedFor
    <3>5. QED
      BY <1>1, <2>1, <3>2, <3>4 DEF InForce
  <2>6. QED
    BY <1>1, <2>2, <2>3, <2>4, <2>5, NothingLeft
<1>4. QED
  BY <1>2, <1>3, ConfirmDoes

\* A cycle may stop anywhere: what is in force fits without the rest of the list.
LEMMA DroppedIsSound == Inv /\ (ApplyRestart \/ GiveUp) => Inv'
<1> SUFFICES ASSUME Inv, ApplyRestart \/ GiveUp
    PROVE  Inv'
  OBVIOUS
<1>1. todo' = <<>> /\ UNCHANGED <<leader, live, streaming, ssn, key, mode, wanted, switched>>
  BY DEF ApplyRestart, GiveUp, Kept, config
<1>2. TypeOK' /\ KeySound' /\ key' \in [leader : Nodes \cup {NoLeader}, quorum : Nat, voters : SUBSET Nodes]
  BY <1>1 DEF Inv, TypeOK, KeySound, Shape
<1>3. SsnSound(ssn', leader') /\ InForce' /\ SyncFits'
  BY <1>1 DEF Inv, InForce, SyncFits, Members, SsnNow
<1>4. QED
  BY <1>1, <1>2, <1>3, NothingLeft

\* PostgreSQL and its standbys touch neither setting.
LEMMA FaultsAreSound ==
  Inv /\ (Write \/ Ack \/ \E n \in Nodes : Connect(n) \/ Stream(n) \/ Disconnect(n) \/ Start(n)) => Inv'
<1> SUFFICES ASSUME Inv, Write \/ Ack \/ \E n \in Nodes : Connect(n) \/ Stream(n) \/ Disconnect(n) \/ Start(n)
    PROVE  Inv'
  OBVIOUS
<1>1. leader # NoLeader \/ (leader = NoLeader /\ streaming = {} /\ todo = <<>>)
  BY DEF Inv, TypeOK
<1>2. CASE Write \/ Ack
  <2>1. Quiet /\ UNCHANGED <<live, streaming>>
    BY <1>2 DEF Write, Ack, Rest, Quiet, config
  <2>2. TypeOK'
    BY <2>1 DEF Inv, TypeOK, Quiet
  <2>3. QED
    BY <2>1, <2>2, QuietStep
<1>3. ASSUME NEW n \in Nodes, Connect(n)
      PROVE  Inv'
  <2>1. Quiet /\ live' = live /\ streaming' = streaming \cup {n} /\ n \in live /\ n # leader /\ leader # NoLeader
    BY <1>3 DEF Connect, Rest, Quiet, config
  <2>2. TypeOK'
    BY <2>1 DEF Inv, TypeOK, Quiet
  <2>3. QED
    BY <2>1, <2>2, QuietStep
<1>4. ASSUME NEW n \in Nodes, Stream(n)
      PROVE  Inv'
  <2>1. Quiet /\ UNCHANGED <<live, streaming>>
    BY <1>4 DEF Stream, Rest, Quiet, config
  <2>2. TypeOK'
    BY <2>1 DEF Inv, TypeOK, Quiet
  <2>3. QED
    BY <2>1, <2>2, QuietStep
<1>5. ASSUME NEW n \in Nodes, Disconnect(n)
      PROVE  Inv'
  <2>1. Quiet /\ live' = live /\ streaming' = streaming \ {n}
    BY <1>5 DEF Disconnect, Rest, Quiet, config
  <2>2. TypeOK'
    BY <2>1 DEF Inv, TypeOK, Quiet
  <2>3. QED
    BY <2>1, <2>2, QuietStep
<1>6. ASSUME NEW n \in Nodes, Start(n)
      PROVE  Inv'
  <2>1. Quiet /\ live' = live \cup {n} /\ streaming' = streaming
    BY <1>6 DEF Start, Rest, Quiet, config
  <2>2. TypeOK'
    BY <2>1 DEF Inv, TypeOK, Quiet
  <2>3. QED
    BY <2>1, <2>2, QuietStep
<1>7. QED
  BY <1>2, <1>3, <1>4, <1>5, <1>6

\* A primary that stops leaves /sync behind and waits for nobody.
LEMMA StopIsSound ==
  ASSUME Inv, NEW n \in Nodes, Stop(n)
  PROVE  Inv'
<1>1. live' = live \ {n} /\ UNCHANGED <<key, mode, wanted>>
  BY DEF Stop, Rest, config
<1>2. CASE n = leader
  <2>1. leader' = NoLeader /\ streaming' = {} /\ ssn' = NoSsn /\ todo' = <<>>
    BY <1>2 DEF Stop
  <2>2. NoLeader \notin Nodes
    BY SyncAssumption DEF NoLeader, Nodes
  <2>3. TypeOK'
    BY <1>1, <2>1, <2>2, SyncAssumption DEF Inv, TypeOK, NoSsn
  <2>4. Shape' /\ KeySound'
    BY <1>1, <2>1 DEF Inv, Shape, KeySound
  <2>5. SsnSound(ssn, leader)'
    BY <2>1, NoSsnIsSound
  <2>6. TodoSound' /\ TodoFits' /\ InForce' /\ SyncFits'
    BY <2>1 DEF TodoSound, TodoFits, Trace, InForce, SyncFits
  <2>7. QED
    BY <2>3, <2>4, <2>5, <2>6 DEF Inv
<1>3. CASE n # leader
  <2>1. Quiet /\ streaming' = streaming \ {n}
    BY <1>1, <1>3 DEF Stop, Quiet, Rest
  <2>2. TypeOK'
    BY <1>1, <1>3, <2>1 DEF Inv, TypeOK, Quiet
  <2>3. QED
    BY <2>1, <2>2, QuietStep
<1>4. QED
  BY <1>2, <1>3

\* What the user asks for counts from the next cycle on; with a change to sync mode the settings are
\* those of quorum mode, or none, until a leader acts on it.
LEMMA ConfigureIsSound == Inv /\ Configure => Inv'
<1> SUFFICES ASSUME Inv, Configure
    PROVE  Inv'
  OBVIOUS
<1>1. /\ mode' \in Modes \cup {"off"} /\ wanted' \in Counts /\ todo = <<>>
      /\ mode' = "sync" /\ ~switched' => mode = "sync" /\ ~switched
      /\ UNCHANGED <<leader, live, streaming, ssn, key, todo>>
  BY DEF Configure
<1>2. TypeOK' /\ KeySound' /\ SsnSound(ssn, leader)'
  BY <1>1 DEF Inv, TypeOK, KeySound, SsnSound
<1>3. Shape'
  BY <1>1, SyncAssumption DEF Inv, Shape
<1>4. TodoSound' /\ TodoFits'
  BY <1>1 DEF TodoSound, TodoFits, Trace
<1>5. InForce' /\ SyncFits'
  BY <1>1 DEF Inv, InForce, SyncFits, Members, SsnNow
<1>6. QED
  BY <1>2, <1>3, <1>4, <1>5 DEF Inv

\* What a new leader asks for before it is promoted.
LEMMA PrePromoteIsSound ==
  ASSUME Inv, NEW c \in Nodes
  PROVE  /\ SsnSound(PrePromoteSsn(c), c)
         /\ mode = "quorum" /\ key.leader # NoLeader =>
              Joins(Members, key.quorum, PrePromoteSsn(c).names,
                    Lower(PrePromoteSsn(c).num, Cardinality(PrePromoteSsn(c).names)), c)
<1>1. c # NoLeader
  BY SyncAssumption DEF NoLeader, Nodes
<1>2. CASE mode = "quorum" /\ key.leader # NoLeader
  <2> DEFINE names == Members \ {c}
             num == Cardinality(Members) - key.quorum - (IF c \in Members THEN 1 ELSE 0)
             s == Ssn(names, num, NoSsn)
  <2>1. PrePromoteSsn(c) = s
    BY <1>2 DEF PrePromoteSsn
  <2>2. /\ Members \subseteq Nodes /\ key.quorum \in Nat /\ Members = {key.leader} \cup key.voters
        /\ key.leader \notin key.voters /\ key.voters \subseteq Nodes
    BY <1>2 DEF Inv, Shape, KeySound, Members
  <2>3. Cardinality(Members) \in Nat /\ Cardinality(names) \in Nat /\ Cardinality(key.voters) \in Nat
        /\ Cardinality({}) = 0
    BY <2>2, NodesAreFinite, NoNodes
  <2>4. Cardinality(Members) = Cardinality(names) + (IF c \in Members THEN 1 ELSE 0)
    <3>1. CASE c \in Members
      <4>1. Members = names \cup {c} /\ names \subseteq Nodes /\ c \notin names
        BY <2>2, <3>1
      <4> HIDE DEF names
      <4>2. Cardinality(names \cup {c}) = Cardinality(names) + 1
        BY <4>1, WithNode
      <4>3. QED
        BY <3>1, <4>1, <4>2
    <3>2. CASE c \notin Members
      <4>1. names = Members
        BY <3>2
      <4>2. QED
        BY <2>3, <3>2, <4>1
    <3>3. QED
      BY <3>1, <3>2
  <2>5. num \in Int /\ num = Cardinality(names) - key.quorum /\ names \in SUBSET (Nodes \ {c})
    BY <2>2, <2>3, <2>4
  <2> HIDE DEF names, num, s
  <2>6. SsnSound(s, c)
    <3>1. num <= Cardinality(names)
      BY <2>2, <2>3, <2>5
    <3>2. QED
      BY <1>2, <2>5, <3>1, SsnIsSound, NoSsnIsSound DEF s
  <2>7. Joins(Members, key.quorum, s.names, Lower(s.num, Cardinality(s.names)), c)
    <3>1. names = {} \/ ~(Members \subseteq {c})
      BY DEF names
    <3>2. Members \cup {c} = names \cup {c} /\ Members \cup names \cup {c} = names \cup {c}
      BY DEF names
    <3>3. Cardinality(names \cup {c}) = Cardinality(names) + 1
      BY <2>5, WithNode
    <3>4. CASE names = {}
      <4>1. Members \subseteq {c}
        BY <3>4 DEF names
      <4>2. QED
        BY <4>1 DEF Joins
    <3>5. CASE names # {} /\ num <= 0
      <4>1. s.num = 0 /\ s.names = {}
        BY <3>5 DEF s, Ssn, NoSsn
      <4>2. Lower(s.num, Cardinality(s.names)) = 0 /\ Members \cup s.names \cup {c} = names \cup {c}
        BY <2>3, <3>2, <4>1 DEF Lower
      <4>3. Cardinality(names) <= key.quorum
        BY <2>2, <2>3, <2>5, <3>5
      <4>4. Cardinality(names \cup {c}) <= key.quorum + 0 + 1
        BY <2>2, <2>3, <3>3, <4>3
      <4>5. QED
        BY <4>2, <4>4 DEF Joins
    <3>6. CASE names # {} /\ num > 0
      <4>1. s.num = num /\ s.names = names
        <5>1. names # {} /\ ~(num <= 0)
          BY <2>5, <3>6
        <5>2. s = [num |-> num, names |-> names, star |-> FALSE, any |-> mode = "quorum"]
          BY <5>1 DEF s, Ssn
        <5>3. QED
          BY <5>2
      <4>2. Lower(s.num, Cardinality(s.names)) = num
        <5>1. num <= Cardinality(names)
          BY <2>2, <2>3, <2>5
        <5>2. QED
          BY <2>3, <2>5, <4>1, <5>1 DEF Lower
      <4>3. Cardinality(names \cup {c}) <= key.quorum + num + 1
        BY <2>2, <2>3, <2>5, <3>3
      <4>4. QED
        BY <3>2, <4>1, <4>2, <4>3 DEF Joins
    <3>7. QED
      BY <2>5, <3>4, <3>5, <3>6
  <2>8. QED
    BY <2>1, <2>6, <2>7
<1>3. CASE ~(mode = "quorum" /\ key.leader # NoLeader)
  <2>1. MinSync \in Int
    BY DEF MinSync
  <2>2. SsnSound(Ssn({}, MinSync, NoSsn), c)
    BY <2>1, SsnIsSound, NoSsnIsSound
  <2>3. PrePromoteSsn(c) = NoSsn \/ PrePromoteSsn(c) = Ssn({}, MinSync, NoSsn)
    BY <1>3 DEF PrePromoteSsn
  <2>4. QED
    BY <1>1, <1>3, <2>2, <2>3, NoSsnIsSound
<1>4. QED
  BY <1>2, <1>3

\* A promotion: what the new leader waits for meets the voters that may replace it.
LEMMA ElectIsSound ==
  ASSUME Inv, NEW c \in Nodes, Elect(c)
  PROVE  Inv'
<1>1. /\ leader = NoLeader /\ c \in live /\ leader' = c /\ ssn' = PrePromoteSsn(c)
      /\ key' = CASE mode = "quorum" -> key
                   [] mode = "sync" -> [leader |-> c, quorum |-> 0, voters |-> {}]
                   [] OTHER -> NoKey
      /\ UNCHANGED <<live, streaming, todo, mode, wanted>>
  BY DEF Elect
<1>2. c # NoLeader /\ NoLeader \notin Nodes
  BY SyncAssumption DEF NoLeader, Nodes
<1>3. streaming = {} /\ todo = <<>>
  BY <1>1 DEF Inv, TypeOK
<1>4. /\ key' = key \/ key' = [leader |-> c, quorum |-> 0, voters |-> {}] \/ key' = NoKey
      /\ mode = "quorum" => key' = key
      /\ mode = "sync" => key' = [leader |-> c, quorum |-> 0, voters |-> {}]
      /\ mode # "quorum" /\ mode # "sync" => key' = NoKey
  BY <1>1
<1>5. key' \in [leader : Nodes \cup {NoLeader}, quorum : Nat, voters : SUBSET Nodes] /\ KeySound'
      /\ key'.voters \subseteq Nodes \ {key'.leader}
  <2>1. CASE key' = key
    BY <2>1 DEF Inv, Shape, KeySound, TypeOK
  <2>2. CASE key' = [leader |-> c, quorum |-> 0, voters |-> {}] \/ key' = NoKey
    BY <2>2 DEF KeySound, NoKey
  <2>3. QED
    BY <1>4, <2>1, <2>2
<1>6. SsnSound(ssn', c)
  BY <1>1, PrePromoteIsSound
<1>7. TypeOK'
  <2>1. ssn'.num \in 0 .. N /\ ssn'.names \subseteq Nodes \ {c}
    BY <1>6, SsnInRange DEF SsnSound
  <2>2. QED
    BY <1>1, <1>2, <1>3, <1>5, <2>1 DEF Inv, TypeOK, Shape
<1>8. Shape' /\ SsnSound(ssn, leader)'
  BY <1>1, <1>5, <1>6 DEF Inv, Shape, SsnSound
<1>9. TodoSound' /\ TodoFits'
  BY <1>1, <1>3 DEF TodoSound, TodoFits, Trace
<1>10. InForce'
  <2>1. SsnNow'.num = Lower(PrePromoteSsn(c).num, Cardinality(PrePromoteSsn(c).names))
    BY <1>1 DEF SsnNow
  <2>2. CASE mode = "quorum"
    <3>1. key' = key /\ Members' = Members
      BY <1>4, <2>2 DEF Members
    <3>2. key.leader # NoLeader => Joins(Members, key.quorum, ssn'.names, SsnNow'.num, c)
      BY <1>1, <2>1, <2>2, PrePromoteIsSound
    <3>3. QED
      BY <1>1, <3>1, <3>2 DEF InForce
  <2>3. CASE mode # "quorum"
    <3>1. key'.leader = NoLeader \/ (key'.leader = c /\ key'.voters = {})
      BY <1>4, <2>3 DEF NoKey
    <3>2. key'.leader = NoLeader \/ Members' \subseteq {c}
      BY <3>1 DEF Members
    <3>3. QED
      BY <1>1, <3>2 DEF InForce, Joins
  <2>4. QED
    BY <2>2, <2>3
<1>11. SyncFits'
  <2>1. SUFFICES ASSUME mode = "sync"
        PROVE  key'.leader = c /\ key'.voters = {}
    BY <1>1 DEF SyncFits
  <2>2. QED
    BY <1>4, <2>1
<1>12. QED
  BY <1>5, <1>7, <1>8, <1>9, <1>10, <1>11 DEF Inv

\* Every step keeps what holds.
LEMMA StepIsSound == Inv /\ [Next]_vars => Inv'
<1> SUFFICES ASSUME Inv, [Next]_vars
    PROVE  Inv'
  OBVIOUS
<1>1. CASE Enable
  BY <1>1, EnableIsSound
<1>2. CASE Disable
  BY <1>2, DisableIsSound
<1>3. CASE Resolve
  BY <1>3, ResolveIsSound
<1>4. CASE Pick
  BY <1>4, PickIsSound
<1>5. CASE ApplySync
  BY <1>5, ApplySyncIsSound
<1>6. CASE ApplyQuorum
  BY <1>6, ApplyQuorumIsSound
<1>7. CASE ApplyRestart \/ GiveUp
  BY <1>7, DroppedIsSound
<1>8. CASE ApplyConfirm
  BY <1>8, ApplyConfirmIsSound
<1>9. CASE Write \/ Ack \/ \E n \in Nodes : Connect(n) \/ Stream(n) \/ Disconnect(n) \/ Start(n)
  BY <1>9, FaultsAreSound
<1>10. CASE Configure
  BY <1>10, ConfigureIsSound
<1>11. ASSUME NEW n \in Nodes, Stop(n)
       PROVE  Inv'
  BY <1>11, StopIsSound
<1>12. ASSUME NEW n \in Nodes, Elect(n)
       PROVE  Inv'
  BY <1>12, ElectIsSound
<1>13. CASE UNCHANGED vars
  BY <1>13 DEF vars, Inv, TypeOK, Shape, SsnSound, KeySound, TodoSound, TodoFits, InForce, SyncFits, KeyNow, SsnNow, Members
<1>14. QED
  BY <1>1, <1>2, <1>3, <1>4, <1>5, <1>6, <1>7, <1>8, <1>9, <1>10, <1>11, <1>12, <1>13 DEF Next, Loop

\* In every state, the two settings and the list of changes between them fit: whatever change of the
\* list of QuorumStateResolver the loop is stopped at, what is in force overlaps.
THEOREM SpecIsSound == Spec => []Inv
<1>1. Init => Inv
  BY InitIsSound
<1>2. Inv /\ [Next]_vars => Inv'
  BY StepIsSound
<1>3. QED
  BY <1>1, <1>2, PTL DEF Spec

\* Every variable has its type.
THEOREM TypeCorrect == Spec => []TypeOK
<1>1. Inv => TypeOK
  BY DEF Inv
<1>2. QED
  BY <1>1, SpecIsSound, PTL

\* OverlapInForce: the standbys that acknowledge a commit and the voters that elect the next leader
\* overlap, at every step of every transition, whichever steps were cut short, for any number of
\* nodes and any synchronous_node_count, also across changes of the mode, except from setting it to
\* on to the leader's next cycle (check_invariants of QuorumStateResolver, and what the code around
\* it does with what it yields).
THEOREM AcknowledgedMeetsElected == Spec => []OverlapInForce
<1>1. Inv => OverlapInForce
  <2>1. SUFFICES ASSUME Inv, leader # NoLeader, key.leader # NoLeader, mode # "off", ~switched,
                        ~(Members \subseteq {leader})
        PROVE  Cardinality(Members \cup ssn.names \cup {leader})
                 <= ssn.num + 1 + IF mode = "quorum" THEN key.quorum ELSE 0
    BY DEF OverlapInForce
  <2>2. /\ Members = {key.leader} \cup key.voters /\ Members \cup ssn.names \cup {leader} \subseteq Nodes
        /\ key.quorum \in Nat /\ ssn.num \in Nat /\ ssn.names \in SUBSET (Nodes \ {leader}) /\ leader \in Nodes
        /\ mode \in {"quorum", "sync"}
    BY <2>1 DEF Inv, TypeOK, Shape, SsnSound, Members
  <2>3. Cardinality(Members \cup ssn.names \cup {leader}) \in Nat /\ Cardinality(ssn.names) \in Nat
    BY <2>2, NodesAreFinite
  <2>4. CASE mode = "quorum"
    <3>1. Joins(Members, key.quorum, ssn.names, SsnNow.num, leader)
      BY <2>1 DEF Inv, InForce
    <3>2. SsnNow.num \in Nat /\ SsnNow.num <= ssn.num
      BY <2>2, <2>3 DEF SsnNow, Lower
    <3>3. QED
      BY <2>1, <2>2, <2>3, <2>4, <3>1, <3>2 DEF Joins
  <2>5. CASE mode = "sync"
    <3>1. key.leader = leader /\ key.voters \subseteq ssn.names /\ key.voters # {}
          /\ ssn.num = Cardinality(ssn.names)
      BY <2>1, <2>2, <2>5 DEF Inv, SyncFits
    <3>2. Members \cup ssn.names \cup {leader} = ssn.names \cup {leader}
      BY <2>2, <3>1
    <3>3. Cardinality(ssn.names \cup {leader}) = Cardinality(ssn.names) + 1
      BY <2>2, WithNode
    <3>4. QED
      BY <2>2, <2>3, <2>5, <3>1, <3>2, <3>3
  <2>6. QED
    BY <2>2, <2>4, <2>5
<1>2. QED
  BY <1>1, SpecIsSound, PTL

\* Settled: a cycle of the leader that finds nothing to do finds the steady state, in which the
\* standbys that stream are those that are waited for and those that vote.
THEOREM NothingToDoIsSettled == Spec => []Settled
<1>1. Inv => Settled
  <2>1. SUFFICES ASSUME Inv, ToResolve, NothingToDo(Generate(Seen))
        PROVE  /\ key.leader = leader /\ ssn.names = streaming /\ key.voters = streaming
               /\ streaming # {} =>
                    /\ ssn.num = Higher(MinSync, Lower(wanted, Cardinality(streaming)))
                    /\ key.quorum >= Cardinality(streaming) - ssn.num
                    /\ streaming \subseteq NowReady(leader) => key.quorum = Cardinality(streaming) - ssn.num
    BY DEF Settled
  <2> DEFINE confirmed == Cardinality(NowReady(leader) \cap streaming)
             numsync == Lower(ssn.num, Cardinality(ssn.names))
             g == Generate(Seen)
  <2>2. leader \in Nodes /\ Starts(Seen, KeyNow, SsnNow, leader) /\ mode = "quorum"
    BY <2>1, SeenStarts DEF ToResolve
  <2> HIDE DEF g
  <2>3. Steady(Seen, leader)
    BY <2>1, <2>2, Generated DEF g, NothingToDo
  <2>4. /\ Seen.leader = key.leader /\ Seen.quorum = key.quorum /\ Seen.voters = key.voters
        /\ Seen.numsync = numsync /\ Seen.sync = ssn.names /\ Seen.confirmed = confirmed
        /\ Seen.active = streaming /\ Seen.wanted = wanted
    BY DEF Seen, Resolver
  <2>5. /\ key.quorum \in Nat /\ wanted \in Nat \ {0} /\ ssn.num \in Nat /\ streaming \subseteq Nodes
        /\ leader \notin streaming
        /\ ssn.names # {} => ssn.num <= Cardinality(ssn.names)
    BY <2>1, <2>2 DEF Inv, TypeOK, Shape, SsnSound
  <2>6. /\ Cardinality(streaming) \in Nat /\ (Cardinality(streaming) = 0 => streaming = {})
        /\ confirmed \in Nat
        /\ confirmed = 0 => NowReady(leader) \cap streaming = {}
        /\ streaming \subseteq NowReady(leader) => confirmed = Cardinality(streaming)
    <3>1. NowReady(leader) \cap streaming \subseteq Nodes
      BY <2>5
    <3>2. streaming \subseteq NowReady(leader) => NowReady(leader) \cap streaming = streaming
      OBVIOUS
    <3>3. QED
      BY <2>5, <3>1, <3>2, NodesAreFinite, NoNodes
  <2>7. /\ key.leader = leader /\ ssn.names = streaming /\ key.voters = streaming
        /\ numsync = Lower(wanted, Cardinality(streaming))
        /\ confirmed # 0 => key.quorum + Lower(numsync, confirmed) <= Cardinality(streaming)
    BY <2>3, <2>4 DEF Steady
  <2>8. numsync = Lower(ssn.num, Cardinality(ssn.names)) /\ SsnNow.num = numsync /\ SsnNow.names = ssn.names
    BY DEF SsnNow
  <2> HIDE DEF confirmed, numsync
  <2>9. ASSUME streaming # {}
        PROVE  ssn.num = numsync /\ numsync \in Nat \ {0} /\ ssn.num = Higher(MinSync, Lower(wanted, Cardinality(streaming)))
               /\ numsync <= Cardinality(streaming)
    <3>1. ssn.num <= Cardinality(streaming) /\ Cardinality(streaming) \in Nat \ {0}
      BY <2>5, <2>6, <2>7, <2>9
    <3>2. numsync = Lower(ssn.num, Cardinality(streaming))
      BY <2>7, <2>8
    <3>3. ssn.num = numsync
      BY <2>5, <3>1, <3>2 DEF Lower
    <3>4. numsync \in Nat \ {0} /\ numsync <= Cardinality(streaming)
      BY <2>5, <2>7, <3>1 DEF Lower
    <3>5. Higher(MinSync, numsync) = numsync
      BY <3>4 DEF Higher, MinSync
    <3>6. QED
      BY <2>7, <3>3, <3>4, <3>5
  <2>10. ASSUME streaming # {}
         PROVE  key.quorum + ssn.num >= Cardinality(streaming)
    <3>1. Meets(KeyNow, SsnNow, leader)
      <4>1. leader \notin KeyNow.names /\ Joins({leader} \cup KeyNow.names, KeyNow.num, SsnNow.names, SsnNow.num, leader)
        BY <2>1, <2>7 DEF Inv, InForce, ToResolve, Idle, Members, KeySound, KeyNow, SsnNow
      <4>2. QED
        BY <4>1, JoinsIffMeets
    <3>2. Cardinality(streaming \cup {leader}) = Cardinality(streaming) + 1
      BY <2>2, <2>5, WithNode
    <3>3. KeyNow.names = streaming /\ KeyNow.num = key.quorum /\ SsnNow.names = streaming
          /\ streaming \cup streaming \cup {leader} = streaming \cup {leader}
      BY <2>7, <2>8 DEF KeyNow
    <3>4. Cardinality(streaming) + 1 <= key.quorum + numsync + 1
      BY <2>10, <2>8, <3>1, <3>2, <3>3 DEF Meets
    <3>5. QED
      BY <2>5, <2>6, <2>9, <2>10, <3>4
  <2>11. ASSUME streaming # {}, streaming \subseteq NowReady(leader)
         PROVE  key.quorum = Cardinality(streaming) - ssn.num
    <3>1. confirmed = Cardinality(streaming) /\ confirmed # 0
      BY <2>6, <2>11
    <3>2. Lower(numsync, confirmed) = numsync
      BY <2>6, <2>9, <2>11, <3>1 DEF Lower
    <3>3. key.quorum + numsync <= Cardinality(streaming)
      BY <2>7, <3>1, <3>2
    <3>4. key.quorum + numsync >= Cardinality(streaming) /\ ssn.num = numsync /\ numsync \in Nat
      BY <2>9, <2>10, <2>11
    <3>5. QED
      BY <2>5, <2>6, <3>3, <3>4
  <2>12. streaming # {} => key.quorum >= Cardinality(streaming) - ssn.num
    BY <2>5, <2>6, <2>9, <2>10
  <2>13. QED
    BY <2>7, <2>9, <2>11, <2>12
<1>2. QED
  BY <1>1, SpecIsSound, PTL

-----------------------------------------------------------------------------
(* WALs *)

\* One WAL is the beginning of another when their records agree.
LEMMA SameRecords ==
  ASSUME NEW v \in Seq(Nat), NEW w \in Seq(Nat)
  PROVE  Prefix(v, w) <=> Len(v) <= Len(w) /\ \A i \in 1 .. Len(v) : v[i] = w[i]
<1> DEFINE u == SubSeq(w, 1, Len(v))
<1>1. SUFFICES ASSUME Len(v) <= Len(w)
      PROVE  u = v <=> \A i \in 1 .. Len(v) : v[i] = w[i]
  BY DEF Prefix
<1>2. Len(v) \in Nat /\ Len(w) \in Nat /\ \A i \in 1 .. Len(v) : w[i] \in Nat
  BY <1>1, SMTT(60)
<1>3. u \in Seq(Nat) /\ Len(u) = Len(v) /\ \A i \in 1 .. Len(v) : u[i] = w[i]
  <2>1. u \in Seq(Nat) /\ Len(u) = (IF 1 <= Len(v) THEN Len(v) - 1 + 1 ELSE 0)
        /\ \A i \in 1 .. Len(v) - 1 + 1 : u[i] = w[1 + i - 1]
    BY <1>2, SubSeqProperties
  <2> HIDE DEF u
  <2>2. QED
    BY <1>2, <2>1
<1> HIDE DEF u
<1>4. (\A i \in 1 .. Len(v) : v[i] = w[i]) => u = v
  BY <1>3, SeqEqual
<1>5. QED
  BY <1>3, <1>4

\* The first k records.
LEMMA FirstRecords ==
  ASSUME NEW w \in Seq(Nat), NEW k \in 0 .. Len(w)
  PROVE  LET u == SubSeq(w, 1, k)
         IN u \in Seq(Nat) /\ Len(u) = k /\ (\A i \in 1 .. k : u[i] = w[i]) /\ Prefix(u, w)
<1> DEFINE u == SubSeq(w, 1, k)
<1>1. \A i \in 1 .. k : w[i] \in Nat
  OBVIOUS
<1>2. u \in Seq(Nat) /\ Len(u) = (IF 1 <= k THEN k - 1 + 1 ELSE 0) /\ \A i \in 1 .. k - 1 + 1 : u[i] = w[1 + i - 1]
  BY <1>1, SubSeqProperties
<1> HIDE DEF u
<1>3. Len(u) = k /\ \A i \in 1 .. k : u[i] = w[i]
  BY <1>2
<1>4. u \in Seq(Nat) /\ Len(u) <= Len(w) /\ \A i \in 1 .. Len(u) : u[i] = w[i]
  BY <1>2, <1>3
<1>5. Prefix(u, w)
  BY <1>4, SameRecords
<1>6. QED
  BY <1>2, <1>3, <1>5 DEF u

\* A WAL is its own beginning.
LEMMA PrefixOfItself ==
  ASSUME NEW v \in Seq(Nat)
  PROVE  Prefix(v, v)
BY SameRecords

\* The beginning of a beginning.
LEMMA PrefixOfPrefix ==
  ASSUME NEW u \in Seq(Nat), NEW v \in Seq(Nat), NEW w \in Seq(Nat), Prefix(u, v), Prefix(v, w)
  PROVE  Prefix(u, w)
<1>1. /\ Len(u) <= Len(v) /\ \A i \in 1 .. Len(u) : u[i] = v[i]
      /\ Len(v) <= Len(w) /\ \A i \in 1 .. Len(v) : v[i] = w[i]
  BY SameRecords
<1>2. Len(u) <= Len(w) /\ \A i \in 1 .. Len(u) : u[i] = w[i]
  BY <1>1
<1>3. QED
  BY <1>2, SameRecords

\* Of two beginnings of one WAL the shorter is the beginning of the longer.
LEMMA ShorterPrefix ==
  ASSUME NEW u \in Seq(Nat), NEW v \in Seq(Nat), NEW w \in Seq(Nat), Prefix(u, w), Prefix(v, w), Len(u) <= Len(v)
  PROVE  Prefix(u, v)
<1>1. /\ \A i \in 1 .. Len(u) : u[i] = w[i]
      /\ \A i \in 1 .. Len(v) : v[i] = w[i]
  BY SameRecords
<1>2. \A i \in 1 .. Len(u) : u[i] = v[i]
  BY <1>1
<1>3. QED
  BY <1>2, SameRecords

\* A record more: what was the beginning of a WAL still is.
LEMMA LongerWal ==
  ASSUME NEW w \in Seq(Nat), NEW t \in Nat
  PROVE  /\ Append(w, t) \in Seq(Nat) /\ Len(Append(w, t)) = Len(w) + 1 /\ Append(w, t)[Len(w) + 1] = t
         /\ \A i \in 1 .. Len(w) : Append(w, t)[i] = w[i]
         /\ Prefix(w, Append(w, t))
         /\ \A v \in Seq(Nat) : Prefix(v, w) => Prefix(v, Append(w, t))
<1> DEFINE x == Append(w, t)
<1>1. /\ x \in Seq(Nat) /\ Len(x) = Len(w) + 1 /\ x[Len(w) + 1] = t
      /\ \A i \in 1 .. Len(w) : x[i] = w[i]
  BY AppendProperties
<1> HIDE DEF x
<1>2. Prefix(w, x)
  BY <1>1, SameRecords, SMTT(60)
<1>3. \A v \in Seq(Nat) : Prefix(v, w) => Prefix(v, x)
  BY <1>1, <1>2, PrefixOfPrefix
<1>4. QED
  BY <1>1, <1>2, <1>3 DEF x

\* Among finitely many numbers there is a greatest.
LEMMA SomeAreLast ==
  ASSUME NEW m \in Nat, NEW S \in SUBSET (0 .. m), S # {}
  PROVE  \E k \in S : \A j \in S : j <= k
<1> DEFINE T == {m - k : k \in S}
<1>1. T \in SUBSET Nat /\ T # {}
  <2>1. \A k \in S : m - k \in Nat
    OBVIOUS
  <2>2. QED
    BY <2>1
<1>2. IsWellFoundedOn(Below, Nat)
  BY NatLessThanWellFounded DEF OpToRel, Below
<1>3. PICK x \in T : \A y \in T : <<y, x>> \notin Below
  BY <1>1, <1>2, WFMin
<1>4. PICK k \in S : x = m - k
  BY <1>3
<1>5. ASSUME NEW j \in S
      PROVE  j <= k
  <2>1. m - j \in T /\ m - j \in Nat
    BY <1>1
  <2>2. <<m - j, x>> \notin Below
    BY <1>3, <2>1
  <2>3. ~(m - j < x)
    BY <1>1, <1>3, <2>1, <2>2 DEF Below
  <2>4. QED
    BY <1>4, <2>3
<1>6. QED
  BY <1>5

\* pg_rewind leaves what two WALs have in common.
LEMMA CommonPart ==
  ASSUME NEW v \in Seq(Nat), NEW w \in Seq(Nat)
  PROVE  LET u == SubSeq(v, 1, Common(v, w))
         IN /\ Common(v, w) \in 0 .. Len(v) /\ u \in Seq(Nat) /\ Len(u) = Common(v, w)
            /\ Prefix(u, v) /\ Prefix(u, w)
            /\ \A x \in Seq(Nat) : Prefix(x, v) /\ Prefix(x, w) => Prefix(x, u)
<1> DEFINE S == {k \in 0 .. Len(v) : Prefix(SubSeq(v, 1, k), w)}
           c == Common(v, w)
           u == SubSeq(v, 1, c)
<1>1. Len(v) \in Nat /\ Len(w) \in Nat
  OBVIOUS
<1>2. 0 \in S
  <2>1. 0 \in 0 .. Len(v)
    BY <1>1
  <2>2. SubSeq(v, 1, 0) \in Seq(Nat) /\ Len(SubSeq(v, 1, 0)) = 0
    BY <2>1, FirstRecords
  <2>3. Prefix(SubSeq(v, 1, 0), w)
    <3> DEFINE e == SubSeq(v, 1, 0)
    <3> HIDE DEF e
    <3>1. e \in Seq(Nat) /\ Len(e) <= Len(w) /\ \A i \in 1 .. Len(e) : e[i] = w[i]
      BY <1>1, <2>2 DEF e
    <3>2. QED
      BY <3>1, SameRecords DEF e
  <2>4. QED
    BY <2>1, <2>3
<1>3. PICK k \in S : \A j \in S : j <= k
  BY <1>1, <1>2, SomeAreLast
<1>4. c \in 0 .. Len(v) /\ Prefix(SubSeq(v, 1, c), w) /\ \A j \in 0 .. Len(v) : Prefix(SubSeq(v, 1, j), w) => j <= c
  <2>1. \E h \in 0 .. Len(v) : /\ Prefix(SubSeq(v, 1, h), w)
                               /\ \A j \in 0 .. Len(v) : Prefix(SubSeq(v, 1, j), w) => j <= h
    BY <1>3
  <2>2. c = CHOOSE h \in 0 .. Len(v) : /\ Prefix(SubSeq(v, 1, h), w)
                                       /\ \A j \in 0 .. Len(v) : Prefix(SubSeq(v, 1, j), w) => j <= h
    BY DEF Common
  <2> HIDE DEF c
  <2>3. QED
    BY ONLY <2>1, <2>2, Zenon
<1> HIDE DEF c
<1>5. u \in Seq(Nat) /\ Len(u) = c /\ Prefix(u, v) /\ Prefix(u, w) /\ \A i \in 1 .. c : u[i] = v[i]
  BY <1>4, FirstRecords
<1>6. ASSUME NEW x \in Seq(Nat), Prefix(x, v), Prefix(x, w)
      PROVE  Prefix(x, u)
  <2>1. Len(x) \in 0 .. Len(v) /\ Len(x) <= Len(w)
    BY <1>6, SameRecords
  <2>2. SubSeq(v, 1, Len(x)) = x
    BY <1>6 DEF Prefix
  <2>3. Len(x) <= c
    BY <1>4, <1>6, <2>1, <2>2
  <2> HIDE DEF u
  <2>4. QED
    BY <1>5, <1>6, <2>3, ShorterPrefix
<1>7. QED
  BY <1>4, <1>5, <1>6 DEF c, u
-----------------------------------------------------------------------------
(* Who holds what was acknowledged *)

Holds(n) == Prefix(acked, wal[n])
Lack(S) == {n \in S : ~Holds(n)}

\* WALs begin with the first record of the cluster, and their timelines ascend.
Wals ==
  /\ wal \in [Nodes -> Seq(Nat)] /\ acked \in Seq(Nat)
  /\ \A n \in Nodes : /\ Lsn(n) >= 1 /\ wal[n][1] = 1
                      /\ \A i, j \in 1 .. Lsn(n) : i <= j => wal[n][i] <= wal[n][j]
  /\ acked # <<>> => acked[1] = 1

\* Who was promoted last, the leader if there is one, has all that was acknowledged, and no node has
\* other WAL of its timeline or of a later one.
IsMain(w) ==
  /\ leader # NoLeader => w = leader
  /\ Holds(w)
  /\ \A n \in Nodes : Timeline(n) <= Timeline(w) /\ (Timeline(n) = Timeline(w) => Prefix(wal[n], wal[w]))
MainLine == former \in Nodes /\ IsMain(former)

StreamsFollow == \A n \in streaming : Prefix(wal[n], wal[leader])

WalInv == Wals /\ MainLine /\ StreamsFollow

\* Records and timelines are numbers, and the last timeline of a WAL is its greatest.
LEMMA WalTypes ==
  ASSUME Wals, NEW n \in Nodes
  PROVE  /\ wal[n] \in Seq(Nat) /\ Lsn(n) \in Nat \ {0} /\ wal[n][1] = 1
         /\ Timeline(n) \in Nat /\ Lsn(n) = Len(wal[n]) /\ Timeline(n) = wal[n][Lsn(n)]
         /\ \A i \in 1 .. Lsn(n) : wal[n][i] \in Nat /\ wal[n][i] <= Timeline(n)
         /\ acked \in Seq(Nat) /\ Len(acked) \in Nat
<1>1. wal[n] \in Seq(Nat) /\ Lsn(n) = Len(wal[n]) /\ Len(wal[n]) >= 1 /\ wal[n][1] = 1 /\ acked \in Seq(Nat)
      /\ \A i, j \in 1 .. Lsn(n) : i <= j => wal[n][i] <= wal[n][j]
  BY DEF Wals, Lsn
<1>2. Lsn(n) \in Nat \ {0} /\ Lsn(n) \in 1 .. Lsn(n) /\ \A i \in 1 .. Lsn(n) : wal[n][i] \in Nat
  BY <1>1, SMTT(60)
<1>3. \A i \in 1 .. Lsn(n) : wal[n][i] <= wal[n][Lsn(n)]
  BY <1>1, <1>2
<1>4. QED
  BY <1>1, <1>2, <1>3 DEF Timeline

\* A beginning of a WAL that is not empty has no later timeline.
LEMMA EarlierTimeline ==
  ASSUME Wals, NEW n \in Nodes, NEW v \in Seq(Nat), Len(v) >= 1, Prefix(v, wal[n])
  PROVE  /\ v[1] = 1 /\ v[Len(v)] <= Timeline(n)
         /\ \A i, j \in 1 .. Len(v) : i <= j => v[i] <= v[j]
<1>1. Len(v) <= Lsn(n) /\ Len(v) \in Nat /\ Lsn(n) \in Nat /\ \A i \in 1 .. Len(v) : v[i] = wal[n][i]
  BY WalTypes, SameRecords, SMTT(60)
<1>2. \A i, j \in 1 .. Lsn(n) : i <= j => wal[n][i] <= wal[n][j]
  BY DEF Wals
<1>3. wal[n][1] = 1 /\ \A i \in 1 .. Lsn(n) : wal[n][i] <= Timeline(n)
  BY WalTypes
<1>4. 1 \in 1 .. Len(v) /\ Len(v) \in 1 .. Len(v) /\ Len(v) \in 1 .. Lsn(n)
  BY <1>1
<1>5. v[1] = 1 /\ v[Len(v)] <= Timeline(n)
  BY <1>1, <1>3, <1>4
<1>6. \A i, j \in 1 .. Len(v) : i \in 1 .. Lsn(n) /\ j \in 1 .. Lsn(n) /\ v[i] = wal[n][i] /\ v[j] = wal[n][j]
  BY <1>1
<1>7. QED
  BY <1>2, <1>5, <1>6

\* Nobody lacks the first record.
LEMMA FirstIsHeld ==
  ASSUME Wals, NEW n \in Nodes
  PROVE  /\ Len(acked) <= 1 => Holds(n)
         /\ Prefix(<< 1 >>, wal[n]) /\ Prefix(<<>>, wal[n])
<1>1. wal[n] \in Seq(Nat) /\ Len(wal[n]) \in Nat \ {0} /\ wal[n][1] = 1 /\ acked \in Seq(Nat) /\ Len(acked) \in Nat
  BY WalTypes DEF Lsn
<1>2. Len(acked) <= 1 => \A i \in 1 .. Len(acked) : acked[i] = 1 /\ i = 1
  <2>1. acked # <<>> => acked[1] = 1
    BY DEF Wals
  <2>2. Len(acked) = 0 \/ acked # <<>>
    BY <1>1
  <2>3. QED
    BY <1>1, <2>1, <2>2
<1>3. Len(acked) <= 1 => Prefix(acked, wal[n])
  BY <1>1, <1>2, SameRecords
<1>4. << 1 >> \in Seq(Nat) /\ Len(<< 1 >>) = 1 /\ << 1 >>[1] = 1 /\ <<>> \in Seq(Nat) /\ Len(<<>>) = 0
  OBVIOUS
<1>5. Prefix(<< 1 >>, wal[n]) /\ Prefix(<<>>, wal[n])
  <2>1. \A i \in 1 .. 1 : << 1 >>[i] = wal[n][i]
    BY <1>1, <1>4
  <2>2. Prefix(<< 1 >>, wal[n])
    <3> DEFINE v == << 1 >>
    <3>1. v \in Seq(Nat) /\ Len(v) <= Len(wal[n]) /\ \A i \in 1 .. Len(v) : v[i] = wal[n][i]
      BY <1>1, <1>4, <2>1
    <3> HIDE DEF v
    <3>2. Prefix(v, wal[n])
      BY <1>1, <3>1, SameRecords
    <3>3. QED
      BY <3>2 DEF v
  <2>3. Prefix(<<>>, wal[n])
    <3> DEFINE v == <<>>
    <3>1. v \in Seq(Nat) /\ Len(v) <= Len(wal[n]) /\ \A i \in 1 .. Len(v) : v[i] = wal[n][i]
      BY <1>1, <1>4
    <3> HIDE DEF v
    <3>2. Prefix(v, wal[n])
      BY <1>1, <3>1, SameRecords
    <3>3. QED
      BY <3>2 DEF v
  <2>4. QED
    BY <2>2, <2>3
<1>6. QED
  BY <1>3, <1>5 DEF Holds

\* What is left of what was acknowledged begins with the first record.
LEMMA LessAcked ==
  ASSUME Wals, NEW v \in Seq(Nat), Prefix(v, acked)
  PROVE  v # <<>> => v[1] = 1
<1>1. acked \in Seq(Nat) /\ (acked # <<>> => acked[1] = 1)
  BY DEF Wals
<1>2. Len(v) <= Len(acked) /\ \A i \in 1 .. Len(v) : v[i] = acked[i]
  BY <1>1, SameRecords
<1>3. ASSUME v # <<>>
      PROVE  v[1] = 1
  <2>1. 1 \in 1 .. Len(v) /\ acked # <<>>
    BY <1>1, <1>2, <1>3
  <2>2. QED
    BY <1>1, <1>2, <2>1
<1>4. QED
  BY <1>3

\* The part of what was acknowledged that all of some nodes have.
LEMMA HeldByAll ==
  ASSUME Wals, NEW S \in SUBSET Nodes
  PROVE  HeldBy(S) \in Seq(Nat) /\ Prefix(HeldBy(S), acked) /\ \A n \in S : Prefix(HeldBy(S), wal[n])
<1> DEFINE T == {k \in 0 .. Len(acked) : \A n \in S : Prefix(SubSeq(acked, 1, k), wal[n])}
           h == CHOOSE k \in 0 .. Len(acked) :
                  /\ \A n \in S : Prefix(SubSeq(acked, 1, k), wal[n])
                  /\ \A j \in 0 .. Len(acked) : (\A n \in S : Prefix(SubSeq(acked, 1, j), wal[n])) => j <= k
<1>1. acked \in Seq(Nat) /\ Len(acked) \in Nat
  BY DEF Wals
<1>2. 0 \in T
  <2> DEFINE e == SubSeq(acked, 1, 0)
  <2>1. e \in Seq(Nat) /\ Len(e) = 0
    BY <1>1, FirstRecords
  <2> HIDE DEF e
  <2>2. ASSUME NEW n \in S
        PROVE  Prefix(e, wal[n])
    <3>1. wal[n] \in Seq(Nat) /\ Len(wal[n]) \in Nat
      BY WalTypes
    <3>2. Len(e) <= Len(wal[n]) /\ \A i \in 1 .. Len(e) : e[i] = wal[n][i]
      BY <2>1, <3>1
    <3>3. QED
      BY <2>1, <3>1, <3>2, SameRecords
  <2>3. QED
    BY <1>1, <2>2 DEF e
<1>3. PICK k \in T : \A j \in T : j <= k
  <2>1. T \in SUBSET (0 .. Len(acked))
    OBVIOUS
  <2> HIDE DEF T
  <2>2. QED
    BY <1>1, <1>2, <2>1, SomeAreLast
<1>4. h \in 0 .. Len(acked) /\ \A n \in S : Prefix(SubSeq(acked, 1, h), wal[n])
  <2>1. \E g \in 0 .. Len(acked) :
          /\ \A n \in S : Prefix(SubSeq(acked, 1, g), wal[n])
          /\ \A j \in 0 .. Len(acked) : (\A n \in S : Prefix(SubSeq(acked, 1, j), wal[n])) => j <= g
    BY <1>3
  <2>2. QED
    BY ONLY <2>1, Zenon
<1> HIDE DEF h
<1>5. HeldBy(S) = SubSeq(acked, 1, h)
  BY DEF HeldBy, h
<1>6. SubSeq(acked, 1, h) \in Seq(Nat) /\ Prefix(SubSeq(acked, 1, h), acked)
  BY <1>1, <1>4, FirstRecords
<1>7. QED
  BY <1>4, <1>5, <1>6

\* The WALs stay as they are, and no more is acknowledged.
LEMMA WalsStay ==
  ASSUME WalInv, wal' = wal, former' = former, acked' \in Seq(Nat), acked' = << 1 >> \/ Prefix(acked', acked),
         leader' = leader \/ (leader' = NoLeader /\ streaming' = {}),
         \A n \in streaming' : n \in streaming \/ Prefix(wal[n], wal[leader])
  PROVE  WalInv' /\ \A n \in Nodes : Holds(n) => Holds(n)'
<1>1. ASSUME NEW n \in Nodes, Holds(n)
      PROVE  Holds(n)'
  BY <1>1, FirstIsHeld, WalTypes, PrefixOfPrefix DEF Holds, WalInv
<1>2. Wals'
  <2>1. acked' # <<>> => acked'[1] = 1
    <3>1. CASE acked' = << 1 >>
      BY <3>1
    <3>2. CASE Prefix(acked', acked)
      BY <3>2, LessAcked DEF WalInv
    <3>3. QED
      BY <3>1, <3>2
  <2>2. QED
    BY <2>1 DEF WalInv, Wals, Lsn
<1>3. MainLine'
  <2>1. former \in Nodes /\ IsMain(former)
    BY DEF WalInv, MainLine
  <2>2. IsMain(former)'
    BY <1>1, <2>1 DEF IsMain, Timeline, Lsn
  <2>3. QED
    BY <2>1, <2>2 DEF MainLine
<1>4. StreamsFollow'
  BY DEF WalInv, StreamsFollow
<1>5. QED
  BY <1>1, <1>2, <1>3, <1>4 DEF WalInv

\* The leader has all that was acknowledged.
LEMMA LeaderIsMain ==
  ASSUME WalInv, leader # NoLeader
  PROVE  leader \in Nodes /\ IsMain(leader) /\ Holds(leader) /\ former = leader
BY DEF WalInv, MainLine, IsMain

\* Who connects or receives WAL has a part of the WAL of the leader.
LEMMA FollowerMoves ==
  ASSUME WalInv, leader # NoLeader, NEW n \in Nodes, n # leader,
         NEW v \in Seq(Nat), Len(v) >= 1, Prefix(v, wal[leader]), Holds(n) => Prefix(acked, v),
         wal' = [wal EXCEPT ![n] = v], acked' = acked, leader' = leader, former' = former,
         streaming' \subseteq streaming \cup {n}
  PROVE  WalInv' /\ \A m \in Nodes : Holds(m) => Holds(m)'
<1>1. leader \in Nodes /\ IsMain(leader) /\ Wals /\ former = leader
  BY LeaderIsMain DEF WalInv
<1>2. wal' \in [Nodes -> Seq(Nat)] /\ wal'[n] = v /\ wal'[leader] = wal[leader]
      /\ \A m \in Nodes : m # n => wal'[m] = wal[m]
  BY <1>1 DEF Wals
<1>3. /\ v[1] = 1 /\ v[Len(v)] <= Timeline(leader)
      /\ \A i, j \in 1 .. Len(v) : i <= j => v[i] <= v[j]
  BY <1>1, EarlierTimeline
<1>4. \A m \in Nodes : Holds(m) => Holds(m)'
  BY <1>2 DEF Holds
<1>5. Wals'
  <2>1. \A m \in Nodes : /\ Len(wal'[m]) >= 1 /\ wal'[m][1] = 1
                         /\ \A i, j \in 1 .. Len(wal'[m]) : i <= j => wal'[m][i] <= wal'[m][j]
    <3>1. SUFFICES ASSUME NEW m \in Nodes
          PROVE  /\ Len(wal'[m]) >= 1 /\ wal'[m][1] = 1
                 /\ \A i, j \in 1 .. Len(wal'[m]) : i <= j => wal'[m][i] <= wal'[m][j]
      OBVIOUS
    <3>2. CASE m = n
      BY <1>2, <1>3, <3>2
    <3>3. CASE m # n
      BY <1>1, <1>2, <3>3 DEF Wals, Lsn
    <3>4. QED
      BY <3>2, <3>3
  <2>2. QED
    BY <1>1, <1>2, <2>1 DEF Wals, Lsn
<1>6. MainLine'
  <2>1. Timeline(n)' = v[Len(v)] /\ Timeline(leader)' = Timeline(leader) /\ leader' = leader
        /\ \A m \in Nodes : m # n => Timeline(m)' = Timeline(m)
    BY <1>1, <1>2 DEF Timeline, Lsn
  <2>2. ASSUME NEW m \in Nodes
        PROVE  Timeline(m)' <= Timeline(leader)' /\ (Timeline(m)' = Timeline(leader)' => Prefix(wal'[m], wal'[leader]))
    <3>1. CASE m = n
      BY <1>2, <1>3, <2>1, <3>1
    <3>2. CASE m # n
      BY <1>1, <1>2, <2>1, <3>2 DEF IsMain
    <3>3. QED
      BY <3>1, <3>2
  <2>3. IsMain(leader)'
    BY <1>1, <1>4, <2>1, <2>2 DEF IsMain
  <2>4. QED
    BY <1>1, <2>3 DEF MainLine
<1>7. StreamsFollow'
  BY <1>2 DEF WalInv, StreamsFollow
<1>8. QED
  BY <1>4, <1>5, <1>6, <1>7 DEF WalInv

\* A standby that connects, after pg_rewind if need be, keeps everything that was acknowledged: the
\* leader has it too.
LEMMA ConnectKeepsWals ==
  ASSUME WalInv, NEW n \in Nodes, Connect(n)
  PROVE  WalInv' /\ \A m \in Nodes : Holds(m) => Holds(m)'
<1> DEFINE v == SubSeq(wal[n], 1, Common(wal[n], wal[leader]))
<1>1. leader # NoLeader /\ n # leader /\ leader \in Nodes /\ Holds(leader) /\ Wals
  BY LeaderIsMain DEF Connect, WalInv
<1>2. wal[n] \in Seq(Nat) /\ wal[leader] \in Seq(Nat) /\ acked \in Seq(Nat)
  BY <1>1, WalTypes
<1>3. /\ v \in Seq(Nat) /\ Prefix(v, wal[leader])
      /\ \A x \in Seq(Nat) : Prefix(x, wal[n]) /\ Prefix(x, wal[leader]) => Prefix(x, v)
  BY <1>2, CommonPart
<1>4. wal' = [wal EXCEPT ![n] = v] /\ acked' = acked /\ leader' = leader /\ former' = former
      /\ streaming' = streaming \cup {n}
  BY DEF Connect, Rest, config
<1> HIDE DEF v
<1>5. Len(v) >= 1
  <2> DEFINE one == << 1 >>
  <2>1. one \in Seq(Nat) /\ Len(one) = 1
    OBVIOUS
  <2>2. Prefix(one, wal[n]) /\ Prefix(one, wal[leader])
    BY <1>1, FirstIsHeld
  <2> HIDE DEF one
  <2>3. QED
    BY <1>3, <2>1, <2>2, SameRecords
<1>6. Holds(n) => Prefix(acked, v)
  BY <1>1, <1>2, <1>3 DEF Holds
<1>7. QED
  BY <1>1, <1>3, <1>4, <1>5, <1>6, FollowerMoves

\* WAL that is streamed goes behind the WAL that is there.
LEMMA StreamKeepsWals ==
  ASSUME TypeOK, WalInv, NEW n \in Nodes, Stream(n)
  PROVE  WalInv' /\ \A m \in Nodes : Holds(m) => Holds(m)'
<1> DEFINE v == SubSeq(wal[leader], 1, Lsn(n) + 1)
<1>1. n \in streaming /\ Lsn(n) < Lsn(leader) /\ leader # NoLeader /\ n # leader
  BY DEF Stream, TypeOK
<1>2. leader \in Nodes /\ Wals /\ wal[n] \in Seq(Nat) /\ wal[leader] \in Seq(Nat) /\ acked \in Seq(Nat)
      /\ Lsn(n) = Len(wal[n]) /\ Lsn(leader) = Len(wal[leader]) /\ Lsn(n) \in Nat /\ Lsn(leader) \in Nat
  BY <1>1, LeaderIsMain, WalTypes DEF WalInv
<1>3. Lsn(n) + 1 \in 0 .. Len(wal[leader])
  BY <1>1, <1>2
<1>4. v \in Seq(Nat) /\ Len(v) = Lsn(n) + 1 /\ Prefix(v, wal[leader])
  BY <1>2, <1>3, FirstRecords
<1>5. wal' = [wal EXCEPT ![n] = v] /\ acked' = acked /\ leader' = leader /\ former' = former /\ streaming' = streaming
  BY DEF Stream, Rest, config
<1> HIDE DEF v
<1>6. Prefix(wal[n], wal[leader])
  BY <1>1 DEF WalInv, StreamsFollow
<1>7. Prefix(wal[n], v)
  BY <1>2, <1>4, <1>6, ShorterPrefix
<1>8. Holds(n) => Prefix(acked, v)
  BY <1>2, <1>4, <1>7, PrefixOfPrefix DEF Holds
<1>9. Len(v) >= 1
  BY <1>2, <1>4
<1>10. QED
  BY <1>1, <1>4, <1>5, <1>8, <1>9, FollowerMoves

\* A primary writes: one that leads already, or one that has just been promoted.
LEMMA LeaderWrites ==
  ASSUME WalInv, NEW c \in Nodes, NEW t \in Nat, Timeline(c) <= t,
         \A m \in Nodes : Timeline(m) <= t /\ (Timeline(m) = t => Prefix(wal[m], wal[c])),
         wal' = [wal EXCEPT ![c] = Append(@, t)], leader' = c, former' = c,
         acked' \in Seq(Nat), Prefix(acked', acked), Prefix(acked', wal[c]),
         \A m \in streaming' : m \in Nodes /\ m # c /\ Prefix(wal[m], wal[c])
  PROVE  WalInv' /\ \A m \in Nodes : Holds(m) => Holds(m)'
<1> DEFINE v == Append(wal[c], t)
<1>1. Wals /\ wal[c] \in Seq(Nat) /\ acked \in Seq(Nat) /\ Lsn(c) = Len(wal[c]) /\ Lsn(c) \in Nat \ {0}
      /\ Timeline(c) \in Nat /\ wal[c][1] = 1 /\ \A i \in 1 .. Lsn(c) : wal[c][i] <= Timeline(c) /\ wal[c][i] \in Nat
  BY WalTypes DEF WalInv
<1>2. /\ v \in Seq(Nat) /\ Len(v) = Lsn(c) + 1 /\ v[Lsn(c) + 1] = t
      /\ \A i \in 1 .. Lsn(c) : v[i] = wal[c][i]
      /\ \A u \in Seq(Nat) : Prefix(u, wal[c]) => Prefix(u, v)
  BY <1>1, LongerWal
<1>3. wal' \in [Nodes -> Seq(Nat)] /\ wal'[c] = v /\ \A m \in Nodes : m # c => wal'[m] = wal[m]
  BY <1>1, <1>2 DEF Wals
<1> HIDE DEF v
<1>4. Holds(c)' /\ \A m \in Nodes : Holds(m) => Holds(m)'
  <2>1. Prefix(acked', v)
    BY <1>2
  <2>2. ASSUME NEW m \in Nodes, m # c, Holds(m)
        PROVE  Prefix(acked', wal[m])
    BY <1>1, <2>2, WalTypes, PrefixOfPrefix DEF Holds
  <2>3. QED
    BY <1>3, <2>1, <2>2 DEF Holds
<1>5. Wals'
  <2>1. \A m \in Nodes : /\ Len(wal'[m]) >= 1 /\ wal'[m][1] = 1
                         /\ \A i, j \in 1 .. Len(wal'[m]) : i <= j => wal'[m][i] <= wal'[m][j]
    <3>1. SUFFICES ASSUME NEW m \in Nodes
          PROVE  /\ Len(wal'[m]) >= 1 /\ wal'[m][1] = 1
                 /\ \A i, j \in 1 .. Len(wal'[m]) : i <= j => wal'[m][i] <= wal'[m][j]
      OBVIOUS
    <3>2. CASE m = c
      <4>1. ASSUME NEW i \in 1 .. Lsn(c) + 1, NEW j \in 1 .. Lsn(c) + 1, i <= j
            PROVE  v[i] <= v[j]
        <5>1. CASE j \in 1 .. Lsn(c)
          <6>1. i \in 1 .. Lsn(c)
            BY <1>1, <4>1, <5>1
          <6>2. wal[c][i] <= wal[c][j]
            BY <1>1, <4>1, <5>1, <6>1 DEF Wals
          <6>3. QED
            BY <1>2, <5>1, <6>1, <6>2
        <5>2. CASE j = Lsn(c) + 1 /\ i \in 1 .. Lsn(c)
          <6>1. wal[c][i] \in Nat /\ wal[c][i] <= Timeline(c) /\ v[i] = wal[c][i] /\ v[j] = t
            BY <1>1, <1>2, <5>2
          <6>2. QED
            BY <1>1, <6>1, SMTT(60)
        <5>3. CASE j = Lsn(c) + 1 /\ i = Lsn(c) + 1
          BY <1>2, <5>3
        <5>4. QED
          BY <1>1, <4>1, <5>1, <5>2, <5>3
      <4>2. 1 \in 1 .. Lsn(c) /\ v[1] = 1
        BY <1>1, <1>2, SMTT(60)
      <4>3. QED
        BY <1>1, <1>2, <1>3, <3>2, <4>1, <4>2, SMTT(60)
    <3>3. CASE m # c
      BY <1>1, <1>3, <3>3 DEF Wals, Lsn
    <3>4. QED
      BY <3>2, <3>3
  <2>2. acked' # <<>> => acked'[1] = 1
    BY <1>1, LessAcked
  <2>3. QED
    BY <1>3, <2>1, <2>2 DEF Wals, Lsn
<1>6. MainLine'
  <2>1. Timeline(c)' = t /\ leader' = c /\ \A m \in Nodes : m # c => Timeline(m)' = Timeline(m)
    BY <1>1, <1>2, <1>3 DEF Timeline, Lsn
  <2>2. ASSUME NEW m \in Nodes
        PROVE  Timeline(m)' <= Timeline(c)' /\ (Timeline(m)' = Timeline(c)' => Prefix(wal'[m], wal'[c]))
    <3>1. CASE m = c
      <4>1. Prefix(v, v)
        BY <1>2, PrefixOfItself
      <4>2. Timeline(m)' = t /\ Timeline(c)' = t /\ wal'[m] = v /\ wal'[c] = v /\ t <= t
        BY <1>3, <2>1, <3>1
      <4>3. QED
        BY <4>1, <4>2
    <3>2. CASE m # c
      BY <1>1, <1>2, <1>3, <2>1, <3>2, WalTypes, ZenonT(60)
    <3>3. QED
      BY <3>1, <3>2
  <2>3. IsMain(c)'
    BY <1>4, <2>1, <2>2 DEF IsMain
  <2>4. QED
    BY <2>3 DEF MainLine
<1>7. StreamsFollow'
  BY <1>1, <1>2, <1>3, WalTypes, ZenonT(60) DEF StreamsFollow
<1>8. QED
  BY <1>4, <1>5, <1>6, <1>7 DEF WalInv

\* A write of the primary.
LEMMA WriteKeepsWals ==
  ASSUME TypeOK, WalInv, Write
  PROVE  WalInv' /\ \A m \in Nodes : Holds(m) => Holds(m)'
<1>1. leader # NoLeader /\ acked' = acked /\ leader' = leader /\ former' = former /\ streaming' = streaming
      /\ wal' = [wal EXCEPT ![leader] = Append(@, Timeline(leader))]
  BY DEF Write, Rest, config
<1>2. leader \in Nodes /\ IsMain(leader) /\ Holds(leader) /\ Wals /\ Timeline(leader) \in Nat /\ former = leader
  BY <1>1, LeaderIsMain, WalTypes DEF WalInv
<1>6. acked' \in Seq(Nat) /\ Prefix(acked', acked) /\ Prefix(acked', wal[leader])
  BY <1>1, <1>2, PrefixOfItself DEF Wals, Holds
<1>3. \A m \in streaming' : m \in Nodes /\ m # leader /\ Prefix(wal[m], wal[leader])
  BY <1>1 DEF TypeOK, WalInv, StreamsFollow
<1>4. \A m \in Nodes : Timeline(m) <= Timeline(leader) /\ (Timeline(m) = Timeline(leader) => Prefix(wal[m], wal[leader]))
  BY <1>2 DEF IsMain
<1>5. QED
  BY <1>1, <1>2, <1>3, <1>4, <1>6, LeaderWrites

\* PostgreSQL acknowledges what it has written, and what enough of its standbys have.
LEMMA AckKeepsWals ==
  ASSUME WalInv, Ack
  PROVE  /\ WalInv' /\ Holds(leader)' /\ acked' # <<>>
         /\ ssn.star \/ \E lsn \in Nat :
              /\ Cardinality({n \in ssn.names : Has(n, lsn)}) >= ssn.num
              /\ \A n \in Nodes : Has(n, lsn) => Holds(n)'
<1> DEFINE asked == IF ssn.star THEN Nodes ELSE ssn.names
           enough(k) == Cardinality({n \in asked : Has(n, k)}) >= ssn.num
           committed == {k \in 1 .. Lsn(leader) : enough(k)}
           lsn == CHOOSE k \in committed : \A j \in committed : j <= k
<1>1. leader # NoLeader /\ committed # {} /\ lsn > Len(acked) /\ acked' = SubSeq(wal[leader], 1, lsn)
      /\ UNCHANGED <<leader, live, streaming, wal, ssn, todo, faults, former>>
  BY DEF Ack, Rest, config
<1>2. leader \in Nodes /\ former = leader /\ IsMain(leader) /\ Wals /\ wal[leader] \in Seq(Nat) /\ Lsn(leader) = Len(wal[leader])
      /\ Lsn(leader) \in Nat /\ wal[leader][1] = 1
  BY <1>1, LeaderIsMain, WalTypes DEF WalInv
<1>3. \E k \in committed : \A j \in committed : j <= k
  <2>1. committed \in SUBSET (0 .. Lsn(leader))
    BY <1>2
  <2> HIDE DEF committed
  <2>2. QED
    BY <1>1, <1>2, <2>1, SomeAreLast
<1>4. lsn \in committed
  <2> HIDE DEF committed
  <2>1. QED
    BY <1>3
<1>5. lsn \in 1 .. Lsn(leader) /\ enough(lsn) /\ lsn \in 0 .. Len(wal[leader]) /\ lsn \in Nat /\ lsn >= 1
  <2> HIDE DEF lsn
  <2>1. QED
    BY <1>2, <1>4
<1> HIDE DEF lsn
<1>6. /\ acked' \in Seq(Nat) /\ Len(acked') = lsn /\ Prefix(acked', wal[leader])
      /\ \A i \in 1 .. lsn : acked'[i] = wal[leader][i]
  BY <1>1, <1>2, <1>5, FirstRecords
<1>7. acked' # <<>> /\ acked'[1] = 1
  <2>1. 1 \in 1 .. lsn
    BY <1>5
  <2>2. QED
    BY <1>2, <1>5, <1>6, <2>1
<1>8. Holds(leader)'
  BY <1>1, <1>6 DEF Holds
<1>9. WalInv'
  <2>1. Wals'
    BY <1>1, <1>2, <1>6, <1>7 DEF Wals, Lsn
  <2>2. IsMain(leader)'
    BY <1>1, <1>2, <1>8 DEF IsMain, Timeline, Lsn
  <2>3. StreamsFollow'
    BY <1>1 DEF WalInv, StreamsFollow
  <2>4. QED
    BY <1>1, <1>2, <2>1, <2>2, <2>3 DEF WalInv, MainLine
<1>10. ASSUME NEW n \in Nodes, Has(n, lsn)
       PROVE  Holds(n)'
  <2>1. Prefix(wal[n], wal[leader]) /\ lsn <= Lsn(n)
    BY <1>1, <1>10 DEF Has, WalInv, StreamsFollow
  <2>2. wal[n] \in Seq(Nat) /\ Len(wal[n]) = Lsn(n)
    BY <1>2, WalTypes
  <2>3. Prefix(acked', wal[n])
    BY <1>2, <1>6, <2>1, <2>2, ShorterPrefix
  <2>4. QED
    BY <1>1, <2>3 DEF Holds
<1>11. ~ssn.star => asked = ssn.names
  OBVIOUS
<1> HIDE DEF asked
<1>12. QED
  BY <1>5, <1>7, <1>8, <1>9, <1>10, <1>11
-----------------------------------------------------------------------------
(* What the two settings say about it *)

\* Where nothing is replicated synchronously, nothing counts.
Short == mode = "off" \/ key.leader = NoLeader => Len(acked) <= 1

NamesSound(s) == (s.star => s.names = {}) /\ (s.names = {} /\ ~s.star => s.num = 0)

\* Enough of those who are asked now have what was acknowledged, whoever was asked before.
Covered == leader # NoLeader => ssn.star \/ Cardinality({n \in ssn.names : Holds(n)}) >= ssn.num

\* Of the voters fewer lack it than have to agree to an election.
VotersHold == mode = "quorum" /\ key.leader # NoLeader => Cardinality(Lack(Members)) <= key.quorum

\* In sync mode every voter has it.
SyncHolds == mode = "sync" /\ key.leader # NoLeader => \A m \in Members : Holds(m)

Settings == Short /\ NamesSound(ssn) /\ Covered /\ VotersHold /\ SyncHolds

\* As many as there are is all of them.
LEMMA AllOfThem ==
  ASSUME NEW S \in SUBSET Nodes, NEW H, Cardinality(S \cap H) >= Cardinality(S)
  PROVE  S \subseteq H
<1> DEFINE T == S \cap H
<1>1. T \subseteq S /\ S \subseteq Nodes /\ T \subseteq Nodes /\ Cardinality(T) >= Cardinality(S)
  OBVIOUS
<1> HIDE DEF T
<1>2. Cardinality(T) = Cardinality(S)
  BY <1>1, SmallerSet, NodesAreFinite
<1>3. T = S
  BY <1>1, <1>2, SmallerSet
<1>4. QED
  BY <1>3 DEF T

\* The voters that lack something are few, when the standbys that have it meet them: those who have
\* it and those who do not are different nodes.
LEMMA FewLack ==
  ASSUME NEW L \in Nodes, NEW A \in SUBSET Nodes, NEW B \in SUBSET (Nodes \ {L}), NEW H \in SUBSET Nodes, L \in H,
         NEW m \in Nat, NEW q \in Nat, Cardinality(B \cap H) >= m,
         Joins(A, q, B, m, L)
  PROVE  Cardinality(A \ H) <= q
<1> DEFINE X == A \ H
           Y == (B \cap H) \cup {L}
           U == A \cup B \cup {L}
<1>1. CASE A \subseteq {L}
  <2>1. X = {}
    BY <1>1
  <2>2. QED
    BY <2>1, NoNodes
<1>2. CASE ~(A \subseteq {L})
  <2>1. X \cup Y \subseteq U /\ X \cap Y = {} /\ U \subseteq Nodes /\ X \subseteq Nodes /\ Y \subseteq Nodes
        /\ X \cup Y \subseteq Nodes /\ B \cap H \subseteq Nodes /\ L \notin B \cap H
    OBVIOUS
  <2>2. Cardinality(Y) = Cardinality(B \cap H) + 1
    BY <2>1, WithNode
  <2>3. Cardinality(U) <= q + m + 1
    BY <1>2 DEF Joins
  <2> HIDE DEF X, Y, U
  <2>4. /\ Cardinality(X) \in Nat /\ Cardinality(Y) \in Nat /\ Cardinality(B \cap H) \in Nat /\ Cardinality(U) \in Nat
        /\ IsFiniteSet(X) /\ IsFiniteSet(Y)
    BY <2>1, NodesAreFinite
  <2>5. Cardinality(X \cup Y) = Cardinality(X) + Cardinality(Y)
    <3>1. Cardinality(X \cup Y) = Cardinality(X) + Cardinality(Y) - Cardinality(X \cap Y)
      BY <2>4, FS_Union
    <3>2. Cardinality(X \cap Y) = 0
      BY <2>1, NoNodes
    <3>3. QED
      BY <2>4, <3>1, <3>2
  <2>6. Cardinality(X \cup Y) <= Cardinality(U)
    BY <2>1, SmallerSet
  <2>7. Cardinality(X) <= q
    BY <2>2, <2>3, <2>4, <2>5, <2>6
  <2>8. QED
    BY <2>7 DEF X
<1>3. QED
  BY <1>1, <1>2

\* Who is asked, and who votes.
LEMMA SettingTypes ==
  ASSUME Inv
  PROVE  /\ ssn.names \subseteq Nodes /\ ssn.num \in Nat /\ ssn.star \in BOOLEAN /\ leader \notin ssn.names
         /\ ssn.names # {} => ssn.num <= Cardinality(ssn.names)
         /\ key.voters \subseteq Nodes /\ key.quorum \in Nat /\ key.leader \notin key.voters
         /\ key.leader \in Nodes \cup {NoLeader} /\ leader \in Nodes \cup {NoLeader}
         /\ Members \subseteq Nodes /\ (key.leader # NoLeader => key.leader \in Members)
         /\ key.leader # NoLeader => Members = {key.leader} \cup key.voters
BY DEF Inv, TypeOK, Shape, SsnSound, KeySound, Members

\* Nobody forgets, and /sync stays: what the voters have stays true.
LEMMA VotersStay ==
  ASSUME Inv, Settings, key' = key, mode' = mode \/ mode' = "off", \A m \in Nodes : Holds(m) => Holds(m)'
  PROVE  VotersHold'
<1>1. SUFFICES ASSUME mode' = "quorum", key.leader # NoLeader
      PROVE  Cardinality(Lack(Members)') <= key.quorum
  BY DEF VotersHold
<1>2. Cardinality(Lack(Members)) <= key.quorum
  BY <1>1 DEF Settings, VotersHold
<1>3. key.leader \in Nodes /\ Members \subseteq Nodes /\ key.quorum \in Nat
  BY <1>1, SettingTypes
<1>4. Members' = Members
  BY DEF Members
<1>5. Lack(Members)' \subseteq Lack(Members) /\ Lack(Members) \subseteq Nodes
  BY <1>3, <1>4 DEF Lack
<1>6. Cardinality(Lack(Members)') <= Cardinality(Lack(Members)) /\ Cardinality(Lack(Members)) \in Nat
      /\ Cardinality(Lack(Members)') \in Nat
  BY <1>5, SmallerSet, NodesAreFinite
<1>7. QED
  BY <1>2, <1>3, <1>6

\* The same in sync mode.
LEMMA VotersHave ==
  ASSUME Inv, Settings, key' = key, mode' = mode, \A m \in Nodes : Holds(m) => Holds(m)'
  PROVE  SyncHolds'
<1>1. Members' = Members
  BY DEF Members
<1>2. QED
  BY <1>1, SettingTypes DEF Settings, SyncHolds

\* The standbys that are asked are the same, and forget nothing.
LEMMA CoveredStays ==
  ASSUME Inv, Settings, \A m \in Nodes : Holds(m) => Holds(m)',
         (leader' = leader /\ ssn' = ssn) \/ (leader' = NoLeader /\ ssn' = NoSsn)
  PROVE  Covered'
<1>1. SUFFICES ASSUME leader' # NoLeader, ~ssn'.star
      PROVE  Cardinality({n \in ssn'.names : Holds(n)'}) >= ssn'.num
  BY DEF Covered
<1>2. leader' = leader /\ ssn' = ssn /\ Cardinality({n \in ssn.names : Holds(n)}) >= ssn.num
  BY <1>1 DEF Settings, Covered
<1> DEFINE A == {n \in ssn.names : Holds(n)}
           B == {n \in ssn.names : Holds(n)'}
<1>3. A \subseteq B /\ B \subseteq Nodes /\ A \subseteq Nodes /\ ssn.num \in Nat
  BY SettingTypes
<1>4. Cardinality(A) <= Cardinality(B) /\ Cardinality(A) \in Nat /\ Cardinality(B) \in Nat
  BY <1>3, SmallerSet, NodesAreFinite
<1>5. {n \in ssn'.names : Holds(n)'} = B
  BY <1>2
<1>6. Cardinality(A) >= ssn.num
  BY <1>2
<1> HIDE DEF A, B
<1>7. Cardinality(B) >= ssn.num
  BY <1>3, <1>4, <1>6
<1>8. Cardinality({n \in ssn'.names : Holds(n)'}) = Cardinality(B)
  BY <1>5
<1>9. ssn'.num = ssn.num
  BY <1>2
<1>10. QED
  BY <1>7, <1>8, <1>9

\* Nobody forgets, and the settings stay: what they say stays true.
LEMMA SettingsStay ==
  ASSUME Inv, Settings, key' = key, mode' = mode, acked' = acked,
         \A m \in Nodes : Holds(m) => Holds(m)',
         (leader' = leader /\ ssn' = ssn) \/ (leader' = NoLeader /\ ssn' = NoSsn)
  PROVE  Settings'
<1>1. Short' /\ NamesSound(ssn)'
  BY DEF Settings, Short, NamesSound, NoSsn
<1>2. Covered'
  BY CoveredStays
<1>3. VotersHold'
  BY VotersStay
<1>4. SyncHolds'
  BY VotersHave
<1>5. QED
  BY <1>1, <1>2, <1>3, <1>4 DEF Settings

\* set_synchronous_standby_names writes names or a star, and asks for nobody without either.
LEMMA NamesAreSound ==
  ASSUME NEW names, NEW num \in Int, NEW now, NamesSound(now)
  PROVE  NamesSound(Ssn(names, num, now)) /\ NamesSound(NoSsn)
BY DEF NamesSound, Ssn, NoSsn

\* What still counts after a change of synchronous_standby_names, who is asked then has.
LEMMA StillAckedIsHeld ==
  ASSUME Wals, ~EveryAck, ~Unwaited, NEW s, SsnSound(s, leader), NamesSound(s)
  PROVE  /\ StillAcked(s) \in Seq(Nat) /\ Prefix(StillAcked(s), acked)
         /\ s.star \/ Cardinality({n \in s.names : Prefix(StillAcked(s), wal[n])}) >= s.num
<1> DEFINE asked == IF s.star THEN Nodes \ {leader} ELSE s.names
           held(k) == {n \in asked : Prefix(SubSeq(acked, 1, k), wal[n])}
           enough == {0} \cup {k \in 1 .. Len(acked) : Cardinality(held(k)) >= s.num}
           h == CHOOSE k \in enough : \A j \in enough : j <= k
<1>1. acked \in Seq(Nat) /\ Len(acked) \in Nat /\ s.num \in Nat /\ s.names \subseteq Nodes /\ s.star \in BOOLEAN
      /\ (s.names # {} => s.num <= Cardinality(s.names)) /\ (s.names = {} /\ ~s.star => s.num = 0)
      /\ Cardinality(s.names) \in Nat
  <2>1. s.names \subseteq Nodes
    BY DEF SsnSound
  <2>2. QED
    BY <2>1, NodesAreFinite DEF SsnSound, Wals, NamesSound
<1>2. StillAcked(s) = IF s.num = 0 THEN acked ELSE SubSeq(acked, 1, h)
  BY DEF StillAcked
<1>3. CASE s.num = 0
  <2>1. StillAcked(s) = acked
    BY <1>2, <1>3
  <2>2. Prefix(acked, acked)
    BY <1>1, PrefixOfItself
  <2> DEFINE some == {n \in s.names : Prefix(acked, wal[n])}
  <2>3. some \subseteq Nodes
    BY <1>1
  <2> HIDE DEF some
  <2>4. Cardinality(some) \in Nat
    BY <2>3, NodesAreFinite
  <2>5. Cardinality(some) >= s.num
    BY <1>3, <2>4
  <2>6. QED
    BY <1>1, <2>1, <2>2, <2>5 DEF some
<1>4. CASE s.num # 0
  <2>1. h \in enough
    <3>1. enough \in SUBSET (0 .. Len(acked)) /\ enough # {}
      BY <1>1
    <3> HIDE DEF enough
    <3>2. \E k \in enough : \A j \in enough : j <= k
      BY <1>1, <3>1, SomeAreLast
    <3>3. QED
      BY <3>2
  <2>2. h = 0 \/ (h \in 1 .. Len(acked) /\ Cardinality(held(h)) >= s.num)
    <3> HIDE DEF h
    <3>1. QED
      BY <2>1
  <2>3. StillAcked(s) = SubSeq(acked, 1, h) /\ (~s.star => asked = s.names)
    BY <1>2, <1>4
  <2> HIDE DEF h, asked
  <2>4. h \in 0 .. Len(acked)
    BY <1>1, <2>2
  <2> DEFINE u == SubSeq(acked, 1, h)
             some == {n \in s.names : Prefix(u, wal[n])}
  <2>5. u \in Seq(Nat) /\ Len(u) = h /\ Prefix(u, acked)
    BY <1>1, <2>4, FirstRecords
  <2>6. ASSUME ~s.star
        PROVE  Cardinality(some) >= s.num
    <3>1. CASE h = 0
      <4>1. ASSUME NEW n \in s.names
            PROVE  Prefix(u, wal[n])
        <5>1. n \in Nodes
          BY <1>1, <4>1
        <5>2. wal[n] \in Seq(Nat) /\ Len(u) <= Len(wal[n]) /\ \A i \in 1 .. Len(u) : u[i] = wal[n][i]
          BY <2>5, <3>1, <5>1, WalTypes
        <5> HIDE DEF u
        <5>3. QED
          BY <2>5, <5>2, SameRecords
      <4>2. some = s.names
        BY <4>1
      <4> HIDE DEF some
      <4>3. QED
        BY <1>1, <1>4, <2>6, <4>2
    <3>2. CASE h \in 1 .. Len(acked) /\ Cardinality(held(h)) >= s.num
      <4>1. held(h) = some
        BY <2>3, <2>6
      <4>2. QED
        BY <3>2, <4>1
    <3>3. QED
      BY <2>2, <3>1, <3>2
  <2>7. QED
    BY <2>3, <2>5, <2>6
<1>5. QED
  BY <1>3, <1>4

\* A change of /sync that meets what is in force leaves few voters who lack what was acknowledged.
LEMMA MeetingHolds ==
  ASSUME Inv, NamesSound(ssn), leader # NoLeader,
         NEW A \in SUBSET Nodes, NEW q \in Nat, Joins(A, q, ssn.names, SsnNow.num, leader),
         NEW H \in SUBSET Nodes, leader \in H, ssn.star \/ Cardinality(ssn.names \cap H) >= ssn.num
  PROVE  Cardinality(A \ H) <= q
<1> DEFINE m == SsnNow.num
           B == ssn.names
<1>1. leader \in Nodes /\ B \in SUBSET (Nodes \ {leader}) /\ ssn.num \in Nat
  BY SettingTypes
<1>2. m = Lower(ssn.num, Cardinality(B)) /\ SsnNow.names = B
  BY DEF SsnNow
<1>3. Cardinality(B) \in Nat /\ B \cap H \subseteq Nodes /\ Cardinality(B \cap H) \in Nat
      /\ (B = {} => Cardinality(B) = 0)
  BY <1>1, NodesAreFinite, NoNodes
<1>4. ssn.star => B = {}
  BY DEF NamesSound
<1>5. Joins(A, q, B, m, leader)
  BY <1>2
<1> HIDE DEF m, B
<1>6. m \in Nat /\ m <= ssn.num /\ (B = {} => m = 0)
  BY <1>1, <1>2, <1>3 DEF Lower
<1>7. Cardinality(B \cap H) >= m
  <2>1. CASE ssn.star
    BY <1>3, <1>4, <1>6, <2>1
  <2>2. CASE ~ssn.star
    BY <1>1, <1>3, <1>6, <2>2 DEF B
  <2>3. QED
    BY <2>1, <2>2
<1>8. QED
  BY <1>1, <1>5, <1>6, <1>7, FewLack

\* A /sync without voters: only the leader can be elected.
LEMMA EnableKeepsSettings ==
  ASSUME Inv, WalInv, Settings, Enable
  PROVE  Settings'
<1>1. leader # NoLeader /\ todo = <<>> /\ mode # "off" /\ key' = [leader |-> leader, quorum |-> 0, voters |-> {}]
      /\ UNCHANGED <<leader, wal, acked, ssn, todo, mode>>
  BY DEF Enable, Idle, Kept, config
<1>2. leader \in Nodes /\ Holds(leader) /\ \A m \in Nodes : Holds(m)' <=> Holds(m)
  BY <1>1, LeaderIsMain DEF Holds
<1>3. Members' = {leader} /\ key'.leader = leader /\ key'.voters = {} /\ key'.quorum = 0
  BY <1>1 DEF Members
<1>4. Short' /\ NamesSound(ssn)' /\ Covered'
  BY <1>1, <1>2, <1>3, CoveredStays DEF Settings, Short, NamesSound
<1>5. VotersHold'
  <2>1. Lack(Members)' = {}
    BY <1>2, <1>3 DEF Lack
  <2>2. QED
    BY <1>2, <1>3, <2>1, NoNodes DEF VotersHold
<1>6. SyncHolds'
  BY <1>2, <1>3 DEF SyncHolds
<1>7. QED
  BY <1>4, <1>5, <1>6 DEF Settings

\* With synchronous_mode off nothing counts.
LEMMA DisableKeepsSettings ==
  ASSUME Inv, WalInv, Settings, Disable
  PROVE  Settings'
<1>1. mode = "off" /\ key' = NoKey /\ ssn' = NoSsn /\ UNCHANGED <<leader, wal, acked, todo, mode>>
  BY DEF Disable, Kept, config
<1>2. Short' /\ VotersHold' /\ SyncHolds'
  BY <1>1 DEF Settings, Short, VotersHold, SyncHolds
<1>3. NamesSound(ssn)'
  BY <1>1 DEF NamesSound, NoSsn
<1>4. Covered'
  <2>1. {n \in ssn'.names : Holds(n)'} = {} /\ ssn'.num = 0
    BY <1>1 DEF NoSsn
  <2>2. Cardinality({n \in ssn'.names : Holds(n)'}) >= ssn'.num
    BY <2>1, NoNodes
  <2>3. QED
    BY <2>2 DEF Covered
<1>5. QED
  BY <1>2, <1>3, <1>4 DEF Settings

\* Making the list of changes changes nothing yet.
LEMMA ResolveKeepsSettings ==
  ASSUME Inv, WalInv, Settings, Resolve
  PROVE  Settings'
<1>1. mode = "quorum" /\ UNCHANGED <<leader, wal, acked, ssn, key, mode>>
  BY DEF Resolve, ToResolve, Kept, config
<1>2. \A m \in Nodes : Holds(m) => Holds(m)'
  BY <1>1 DEF Holds
<1>3. Covered' /\ VotersHold'
  BY <1>1, <1>2, CoveredStays, VotersStay
<1>4. Short' /\ NamesSound(ssn)' /\ SyncHolds'
  BY <1>1 DEF Settings, Short, NamesSound, SyncHolds
<1>5. QED
  BY <1>3, <1>4 DEF Settings

\* A change of /sync: it fits what is asked of the standbys now, and enough of them have what was
\* acknowledged, whatever they had to acknowledge when it was.
LEMMA ApplyQuorumKeepsSettings ==
  ASSUME Inv, Inv', WalInv, Settings, ApplyQuorum
  PROVE  Settings'
<1> DEFINE H == {n \in Nodes : Holds(n)}
<1>1. leader # NoLeader /\ todo # <<>> /\ todo[1].type = "quorum" /\ key'.leader = todo[1].leader
      /\ UNCHANGED <<leader, wal, acked, ssn, mode>>
  BY DEF ApplyQuorum, Kept, config
<1>2. mode = "quorum" /\ key'.leader = leader
  BY <1>1, RestOfTodo DEF Inv, TodoSound
<1>3. leader \in Nodes /\ Holds(leader) /\ leader # NoLeader /\ \A m \in Nodes : Holds(m)' <=> Holds(m)
  BY <1>1, LeaderIsMain DEF Holds
<1>4. Short' /\ NamesSound(ssn)' /\ Covered' /\ SyncHolds'
  BY <1>1, <1>2, <1>3, CoveredStays DEF Settings, Short, NamesSound, SyncHolds
<1>5. VotersHold'
  <2>1. ssn.star \/ Cardinality(ssn.names \cap H) >= ssn.num
    <3>1. {n \in ssn.names : Holds(n)} = ssn.names \cap H
      BY SettingTypes
    <3>2. QED
      BY <1>1, <3>1 DEF Settings, Covered
  <2>2. Members' \in SUBSET Nodes /\ key'.quorum \in Nat
    BY <1>2, <1>3 DEF Inv, TypeOK, Members
  <2>3. Joins(Members', key'.quorum, ssn.names, SsnNow.num, leader)
    <3>1. SsnNow' = SsnNow
      BY <1>1 DEF SsnNow
    <3>2. QED
      BY <1>1, <1>2, <1>3, <3>1 DEF Inv, InForce
  <2>4. Lack(Members)' = Members' \ H
    BY <1>3, <2>2 DEF Lack
  <2>5. leader \in H /\ H \in SUBSET Nodes
    BY <1>3
  <2> HIDE DEF H
  <2>6. Cardinality(Members' \ H) <= key'.quorum
    BY <1>1, <2>1, <2>2, <2>3, <2>5, MeetingHolds DEF Settings
  <2>7. QED
    BY <2>4, <2>6 DEF VotersHold
<1>6. QED
  BY <1>4, <1>5 DEF Settings

\* A commit that is acknowledged: the standbys that are asked meet the voters.
LEMMA AckKeepsSettings ==
  ASSUME Inv, WalInv, Settings, ~EveryAck, Ack
  PROVE  Settings'
<1> DEFINE H == {n \in Nodes : Holds(n)'}
<1>1. leader # NoLeader /\ mode # "off" /\ key.leader # NoLeader /\ ~switched
      /\ UNCHANGED <<leader, wal, ssn, todo, key, mode>>
  BY DEF Ack, Rest, config
<1>2. leader \in Nodes /\ Holds(leader)'
  BY <1>1, LeaderIsMain, AckKeepsWals
<1>3. ssn.star \/ Cardinality(ssn.names \cap H) >= ssn.num
  <2>1. SUFFICES ASSUME ~ssn.star
        PROVE  Cardinality(ssn.names \cap H) >= ssn.num
    OBVIOUS
  <2>2. PICK lsn \in Nat : /\ Cardinality({n \in ssn.names : Has(n, lsn)}) >= ssn.num
                           /\ \A n \in Nodes : Has(n, lsn) => Holds(n)'
    BY <2>1, AckKeepsWals
  <2> DEFINE A == {n \in ssn.names : Has(n, lsn)}
             B == ssn.names \cap H
  <2>3. A \subseteq B /\ B \subseteq Nodes /\ A \subseteq Nodes /\ ssn.num \in Nat
    BY <2>2, SettingTypes
  <2>4. Cardinality(A) >= ssn.num
    BY <2>2
  <2> HIDE DEF A, B
  <2>5. Cardinality(A) <= Cardinality(B) /\ Cardinality(A) \in Nat /\ Cardinality(B) \in Nat
    BY <2>3, SmallerSet, NodesAreFinite
  <2>6. QED
    BY <2>3, <2>4, <2>5 DEF B
<1>4. Short' /\ NamesSound(ssn)'
  BY <1>1 DEF Settings, Short, NamesSound
<1>5. Covered'
  <2>1. {n \in ssn'.names : Holds(n)'} = ssn.names \cap H
    BY <1>1, SettingTypes
  <2>2. QED
    BY <1>1, <1>3, <2>1 DEF Covered
<1>6. Members' = Members /\ Members \in SUBSET Nodes /\ key.quorum \in Nat /\ leader \in H /\ H \in SUBSET Nodes
  BY <1>1, <1>2, SettingTypes DEF Members, Holds
<1>7. VotersHold'
  <2>1. SUFFICES ASSUME mode = "quorum"
        PROVE  VotersHold'
    BY <1>1 DEF VotersHold
  <2>2. Joins(Members, key.quorum, ssn.names, SsnNow.num, leader)
    BY <1>1 DEF Inv, InForce
  <2>3. Lack(Members)' = Members \ H
    BY <1>6 DEF Lack
  <2> HIDE DEF H
  <2>4. Cardinality(Members \ H) <= key.quorum
    BY <1>1, <1>3, <1>6, <2>2, MeetingHolds DEF Settings
  <2>5. QED
    BY <1>1, <2>3, <2>4 DEF VotersHold
<1>8. SyncHolds'
  <2>1. SUFFICES ASSUME mode = "sync"
        PROVE  SyncHolds'
    BY <1>1 DEF SyncHolds
  <2>2. /\ Members = {leader} \cup key.voters /\ key.voters \subseteq ssn.names
        /\ key.voters # {} => ssn.num = Cardinality(ssn.names)
    BY <1>1, <2>1 DEF Inv, SyncFits, Members
  <2>3. \A m \in key.voters : m \in H
    <3>1. SUFFICES ASSUME key.voters # {}
          PROVE  key.voters \subseteq H
      OBVIOUS
    <3>2. ssn.names \in SUBSET Nodes /\ Cardinality(ssn.names \cap H) >= Cardinality(ssn.names)
      BY <1>3, <2>2, <3>1, SettingTypes DEF Settings, NamesSound
    <3> HIDE DEF H
    <3>3. QED
      BY <2>2, <3>2, AllOfThem
  <2>4. QED
    BY <1>2, <1>6, <2>2, <2>3 DEF SyncHolds
<1>9. QED
  BY <1>4, <1>5, <1>7, <1>8 DEF Settings

\* Where all the standbys with a name are waited for, they have what was acknowledged.
LEMMA AskedHold ==
  ASSUME Inv, Settings, leader # NoLeader, ssn.num = Cardinality(ssn.names)
  PROVE  \A n \in ssn.names : Holds(n)
<1> DEFINE H == {n \in Nodes : Holds(n)}
<1>1. CASE ssn.star
  BY <1>1 DEF Settings, NamesSound
<1>2. CASE ~ssn.star
  <2>1. ssn.names \subseteq Nodes /\ {n \in ssn.names : Holds(n)} = ssn.names \cap H
    BY SettingTypes
  <2>2. Cardinality({n \in ssn.names : Holds(n)}) >= ssn.num
    BY <1>2 DEF Settings, Covered
  <2>3. Cardinality(ssn.names \cap H) >= Cardinality(ssn.names)
    BY <2>1, <2>2
  <2>4. ssn.names \subseteq H
    <3> HIDE DEF H
    <3>1. QED
      BY <2>1, <2>3, AllOfThem
  <2>5. QED
    BY <2>4
<1>3. QED
  BY <1>1, <1>2

\* A change of synchronous_standby_names: who is waited for now has what still counts.
LEMMA ApplySyncKeepsSettings ==
  ASSUME Inv, WalInv, Settings, ~EveryAck, ~Unwaited, ApplySync, SsnSound(ssn', leader)
  PROVE  Settings' /\ acked' \in Seq(Nat) /\ Prefix(acked', acked)
<1> DEFINE t == todo[1]
           num == Higher(t.num, MinSync)
           s == Ssn(t.names, num, ssn)
<1>1. /\ leader # NoLeader /\ todo # <<>> /\ ssn' = s /\ acked' = StillAcked(s)
      /\ UNCHANGED <<leader, wal, key, mode>>
  BY DEF ApplySync, config
<1>2. t \in Steps
  BY <1>1, RestOfTodo
<1> HIDE DEF t
<1>3. num \in Int
  BY <1>2 DEF Steps, Higher, MinSync
<1> HIDE DEF num
<1>4. SsnSound(s, leader) /\ NamesSound(s)
  <2>1. NamesSound(s)
    BY <1>3, NamesAreSound DEF Settings
  <2>2. QED
    BY <1>1, <2>1
<1> HIDE DEF s
<1>5. /\ acked' \in Seq(Nat) /\ Prefix(acked', acked)
      /\ s.star \/ Cardinality({n \in s.names : Prefix(acked', wal[n])}) >= s.num
  BY <1>1, <1>4, StillAckedIsHeld DEF WalInv
<1>6. \A n \in Nodes : Holds(n) => Holds(n)'
  BY <1>1, <1>5, WalTypes, PrefixOfPrefix DEF Holds, WalInv
<1>7. Short'
  <2>1. Len(acked') <= Len(acked) /\ Len(acked') \in Nat /\ Len(acked) \in Nat
    BY <1>5, SameRecords DEF WalInv, Wals
  <2>2. QED
    BY <1>1, <2>1 DEF Settings, Short
<1>8. NamesSound(ssn)' /\ Covered'
  <2>1. Covered'
    BY <1>1, <1>5 DEF Covered, Holds
  <2>2. QED
    BY <1>1, <1>4, <2>1 DEF NamesSound
<1>9. VotersHold' /\ SyncHolds'
  BY <1>1, <1>6, VotersStay, VotersHave
<1>10. QED
  BY <1>5, <1>7, <1>8, <1>9 DEF Settings

\* Whoever enters /sync at the end of a cycle is waited for already.
LEMMA ApplyConfirmKeepsSettings ==
  ASSUME Inv, WalInv, Settings, ApplyConfirm
  PROVE  Settings'
<1>1. leader # NoLeader /\ mode # "quorum" /\ key.leader = leader /\ UNCHANGED <<leader, wal, acked, ssn, mode>>
  BY ConfirmDoes DEF config
<1>2. leader \in Nodes /\ Holds(leader) /\ \A m \in Nodes : Holds(m)' <=> Holds(m)
  BY <1>1, LeaderIsMain DEF Holds
<1>3. Covered' /\ NamesSound(ssn)' /\ VotersHold' /\ Short'
  <2>1. Covered' /\ NamesSound(ssn)' /\ VotersHold'
    BY <1>1, <1>2, CoveredStays DEF Settings, NamesSound, VotersHold
  <2>2. key'.leader = leader
    BY <1>1, ConfirmDoes
  <2>3. QED
    BY <1>1, <2>1, <2>2 DEF Settings, Short
<1>4. SyncHolds'
  <2>1. CASE key' = key
    BY <1>1, <1>2, <2>1, VotersHave
  <2>2. ASSUME NEW V \in SUBSET (Nodes \ {leader}), key' = [leader |-> leader, quorum |-> 0, voters |-> V],
               V \subseteq ssn.names, ssn.num = Cardinality(ssn.names)
        PROVE  SyncHolds'
    <3>1. Members' = {leader} \cup V
      BY <1>1, <2>2 DEF Members
    <3>2. \A m \in V : Holds(m)
      BY <1>1, <2>2, AskedHold
    <3>3. QED
      BY <1>2, <3>1, <3>2 DEF SyncHolds
  <2>3. QED
    BY <2>1, <2>2, ConfirmDoes
<1>5. QED
  BY <1>3, <1>4 DEF Settings

\* The first half of a cycle in sync mode: /sync keeps none but voters it had, and the leader.
LEMMA PickKeepsSettings ==
  ASSUME Inv, WalInv, Settings, Pick
  PROVE  Settings'
<1>1. leader # NoLeader /\ mode = "sync" /\ key.leader # NoLeader /\ UNCHANGED <<leader, wal, acked, ssn, mode>>
  BY DEF Pick, Idle, config
<1>2. key'.leader = leader /\ key'.voters \subseteq key.voters
  BY PickDoes
<1>3. leader \in Nodes /\ Holds(leader) /\ \A m \in Nodes : Holds(m)' <=> Holds(m)
  BY <1>1, LeaderIsMain DEF Holds
<1>4. Short' /\ NamesSound(ssn)' /\ Covered' /\ VotersHold'
  BY <1>1, <1>2, <1>3, CoveredStays DEF Settings, Short, NamesSound, VotersHold
<1>5. SyncHolds'
  <2>1. Members' = {leader} \cup key'.voters /\ key'.voters \subseteq Members /\ Members \subseteq Nodes
    BY <1>1, <1>2, SettingTypes DEF Members
  <2>2. \A m \in Members : Holds(m)
    BY <1>1 DEF Settings, SyncHolds
  <2>3. QED
    BY <1>3, <2>1, <2>2 DEF SyncHolds
<1>6. QED
  BY <1>4, <1>5 DEF Settings

\* Off, and nothing counts any more; on after quorum, and what all the voters have does.
LEMMA ConfigureKeepsSettings ==
  ASSUME Inv, WalInv, Settings, ~EveryAck, Configure
  PROVE  Settings' /\ WalInv'
<1>1. /\ UNCHANGED <<leader, streaming, wal, ssn, key, former>>
      /\ mode' = "off" => acked' = << 1 >>
      /\ mode' # "off" => acked' = HeldBy(Members) \/ (acked' = acked /\ (mode' = "sync" => mode = "sync"))
  BY DEF Configure
<1>2. /\ acked \in Seq(Nat) /\ Prefix(acked, acked) /\ << 1 >> \in Seq(Nat) /\ Len(<< 1 >>) = 1 /\ Wals
      /\ Members \in SUBSET Nodes /\ Len(acked) \in Nat /\ key.quorum \in Nat
  <2>1. acked \in Seq(Nat) /\ Wals
    BY DEF WalInv, Wals
  <2>2. QED
    BY <2>1, PrefixOfItself, SettingTypes
<1>3. /\ HeldBy(Members) \in Seq(Nat) /\ Prefix(HeldBy(Members), acked)
      /\ \A n \in Members : Prefix(HeldBy(Members), wal[n])
  BY <1>2, HeldByAll
<1>4. /\ acked' \in Seq(Nat) /\ (acked' = << 1 >> \/ Prefix(acked', acked))
      /\ mode' # "off" => Prefix(acked', acked)
  BY <1>1, <1>2, <1>3
<1>5. WalInv' /\ \A n \in Nodes : Holds(n) => Holds(n)'
  BY <1>1, <1>4, WalsStay
<1>6. Short'
  <2>1. mode' # "off" => Len(acked') <= Len(acked) /\ Len(acked') \in Nat
    BY <1>2, <1>4, SameRecords
  <2>2. mode' # "off" /\ key.leader = NoLeader => Len(acked) <= 1
    BY DEF Settings, Short
  <2>3. mode' = "off" => Len(acked') <= 1
    <3>1. mode' = "off" => Len(acked') = 1
      BY ONLY <1>1, <1>2
    <3>2. 1 <= 1
      OBVIOUS
    <3>3. QED
      BY <3>1, <3>2
  <2>4. mode' # "off" /\ key'.leader = NoLeader => Len(acked') <= 1
    BY <1>1, <1>2, <2>1, <2>2
  <2>5. QED
    BY <2>3, <2>4 DEF Short
<1>7. NamesSound(ssn)' /\ Covered'
  BY <1>1, <1>5, CoveredStays DEF Settings, NamesSound
<1>8. mode' # "off" /\ mode' # mode /\ key.leader # NoLeader => \A m \in Members : Holds(m)'
  <2>1. SUFFICES ASSUME mode' # "off", mode' # mode, key.leader # NoLeader, NEW m \in Members
        PROVE  Holds(m)'
    OBVIOUS
  <2>2. CASE acked' = HeldBy(Members)
    BY <1>1, <1>3, <2>2 DEF Holds
  <2>3. CASE acked' = acked /\ mode' # "sync"
    <3>1. mode \in {"sync", "off"}
      BY <2>1, <2>3, SyncAssumption DEF Inv, Shape, Configure
    <3>2. Holds(m)
      BY <1>2, <2>1, <3>1, FirstIsHeld DEF Settings, Short, SyncHolds
    <3>3. QED
      BY <1>2, <1>5, <3>2
  <2>4. CASE acked' = acked /\ mode' = "sync"
    BY <1>1, <2>1, <2>4, <2>2
  <2>5. QED
    BY <1>1, <2>1, <2>2, <2>3, <2>4
<1>9. Members' = Members
  BY <1>1 DEF Members
<1>10. VotersHold'
  <2>1. CASE mode' = mode \/ mode' = "off"
    BY <1>1, <1>5, <2>1, VotersStay
  <2>2. CASE mode' # mode /\ mode' = "quorum" /\ key.leader # NoLeader
    <3>1. Lack(Members)' = {}
      BY <1>8, <1>9, <2>2 DEF Lack
    <3>2. QED
      BY <1>1, <1>2, <3>1, NoNodes DEF VotersHold
  <2>3. QED
    BY <1>1, <2>1, <2>2 DEF VotersHold
<1>11. SyncHolds'
  <2>1. CASE mode' = mode
    BY <1>1, <1>5, <2>1, VotersHave
  <2>2. CASE mode' # mode
    BY <1>1, <1>8, <1>9, <2>2 DEF SyncHolds
  <2>3. QED
    BY <2>1, <2>2
<1>12. QED
  BY <1>5, <1>6, <1>7, <1>10, <1>11 DEF Settings

\* Who wins the race has what was acknowledged: in quorum mode one of those who let it win has,
\* and nobody with less is elected; where the owner of /sync wins without them, it is the one promoted
\* last, or what others acknowledged after it is gone (Outdated).
LEMMA WinnerHolds ==
  ASSUME Inv, WalInv, Settings, ~EveryAck, ~DivergedRaces, NEW c \in Nodes, Elect(c)
  PROVE  /\ acked' \in Seq(Nat) /\ Prefix(acked', acked) /\ Prefix(acked', wal[c])
         /\ \A n \in Nodes : Timeline(n) <= Timeline(former)
<1>1. leader = NoLeader /\ Healthiest(c) /\ ~Abandoned(c)
      /\ acked' = IF Outdated(c) THEN HeldBy({c}) ELSE acked
  BY DEF Elect
<1>2. former \in Nodes /\ IsMain(former)
  BY DEF WalInv, MainLine
<1> DEFINE w == former
<1>3. Wals /\ wal[c] \in Seq(Nat) /\ wal[w] \in Seq(Nat) /\ acked \in Seq(Nat) /\ Len(acked) \in Nat
      /\ Timeline(c) \in Nat /\ Timeline(w) \in Nat /\ Lsn(c) \in Nat /\ Lsn(c) = Len(wal[c])
  BY <1>2, WalTypes DEF WalInv
<1>4. Prefix(wal[c], wal[w])
  <2>1. CASE c = w
    BY <1>3, <2>1, PrefixOfItself
  <2>2. CASE c # w /\ Timeline(w) > Timeline(c)
    BY <1>1, <1>2, <2>2 DEF Abandoned
  <2>3. CASE c # w /\ ~(Timeline(w) > Timeline(c))
    <3>1. Timeline(c) <= Timeline(w) /\ (Timeline(c) = Timeline(w) => Prefix(wal[c], wal[w]))
      BY <1>2 DEF IsMain
    <3>2. QED
      BY <1>3, <2>3, <3>1
  <2>4. QED
    BY <2>1, <2>2, <2>3
<1>5. Len(acked) <= Lsn(c) => Holds(c)
  BY <1>2, <1>3, <1>4, ShorterPrefix DEF IsMain, Holds
<1>6. \A n \in Nodes : Holds(n) => Len(acked) <= Lsn(n)
  BY SameRecords, WalTypes DEF Holds, WalInv
<1>7. CASE Outdated(c)
  <2>1. acked' = HeldBy({c}) /\ {c} \in SUBSET Nodes
    BY <1>1, <1>7
  <2>2. QED
    BY <1>2, <1>3, <2>1, HeldByAll DEF IsMain
<1>8. ASSUME ~Outdated(c)
      PROVE  Holds(c)
  <2>1. CASE mode = "off" \/ key.leader = NoLeader
    BY <1>3, <2>1, FirstIsHeld DEF Settings, Short
  <2>2. CASE mode = "sync" /\ key.leader # NoLeader
    <3>1. c \in Members
      BY <1>1, <2>2 DEF Healthiest, Active
    <3>2. QED
      BY <2>2, <3>1 DEF Settings, SyncHolds
  <2>3. CASE mode = "quorum" /\ key.leader # NoLeader
    <3> DEFINE V == ((live \ {c}) \cap Members) \ Ahead(c)
    <3>1. V \subseteq Members /\ c \notin V /\ (\A v \in V : ~(Lsn(v) > Lsn(c))) /\ Members \subseteq Nodes
          /\ key.quorum \in Nat
      BY <2>3, SettingTypes DEF Ahead, Active
    <3>2. Votes(c) = Cardinality(V) - (IF c \in Members THEN 0 ELSE 1)
      BY DEF Votes
    <3> HIDE DEF V
    <3>3. Cardinality(Lack(Members)) <= key.quorum
      BY <2>3 DEF Settings, VotersHold
    <3>4. V \subseteq Nodes /\ Cardinality(V) \in Nat /\ Votes(c) \in Int
      <4>1. V \subseteq Nodes
        BY <3>1
      <4>2. Cardinality(V) \in Nat
        BY <4>1, NodesAreFinite
      <4>3. QED
        BY <3>2, <4>1, <4>2
    <3>5. CASE former = c
      BY <1>2, <3>5 DEF IsMain
    <3>6. CASE former # c
      <4>1. Cardinality(V) - (IF c \in Members THEN 0 ELSE 1) >= key.quorum
        BY <1>8, <2>3, <3>1, <3>2, <3>4, <3>6 DEF Outdated, QuorumMode, Active
      <4> DEFINE C == IF c \in Members THEN V \cup {c} ELSE V
      <4>2. C \subseteq Members /\ C \subseteq Nodes
        BY <3>1
      <4>3. Cardinality(C) > key.quorum
        <5>1. Cardinality(V \cup {c}) = Cardinality(V) + 1
          BY <3>1, <3>4, WithNode
        <5>2. QED
          BY <3>1, <3>4, <4>1, <5>1
      <4> HIDE DEF C
      <4>4. ~(C \subseteq Lack(Members))
        <5>1. Lack(Members) \subseteq Nodes
          BY <3>1 DEF Lack
        <5>2. C \subseteq Lack(Members) => Cardinality(C) <= Cardinality(Lack(Members))
          BY <5>1, SmallerSet
        <5>3. Cardinality(C) \in Nat /\ Cardinality(Lack(Members)) \in Nat
          BY <4>2, <5>1, NodesAreFinite
        <5>4. QED
          BY <3>1, <3>3, <4>3, <5>2, <5>3
      <4>5. PICK v \in C : Holds(v)
        BY <4>2, <4>4 DEF Lack
      <4>6. Len(acked) <= Lsn(v) /\ Lsn(v) \in Nat
        BY <1>3, <1>6, <4>2, <4>5, WalTypes
      <4>7. v = c \/ ~(Lsn(v) > Lsn(c))
        BY <3>1, <4>5 DEF C
      <4>8. QED
        BY <1>3, <1>5, <4>6, <4>7
    <3>7. QED
      BY <3>5, <3>6
  <2>4. QED
    BY <2>1, <2>2, <2>3 DEF Inv, Shape
<1>9. CASE ~Outdated(c)
  <2>1. acked' = acked
    BY <1>1, <1>9
  <2>2. QED
    BY <1>2, <1>3, <1>8, <1>9, <2>1, PrefixOfItself DEF IsMain, Holds
<1>10. QED
  BY <1>7, <1>9

\* The new timeline is later than all others, and what is written on it follows what was acknowledged.
LEMMA ElectKeepsWals ==
  ASSUME Inv, WalInv, Settings, ~EveryAck, ~DivergedRaces, NEW c \in Nodes, Elect(c)
  PROVE  WalInv' /\ \A m \in Nodes : Holds(m) => Holds(m)'
<1> DEFINE S == {wal[n][Lsn(n)] : n \in Nodes}
           T == CHOOSE t \in S : \A n \in Nodes : Timeline(n) <= t
<1>1. leader = NoLeader /\ leader' = c /\ former' = c /\ streaming' = streaming
      /\ wal' = [wal EXCEPT ![c] = Append(@, 1 + T)]
  BY DEF Elect
<1>2. former \in Nodes /\ \A n \in Nodes : Timeline(n) <= Timeline(former)
  BY WinnerHolds DEF WalInv, MainLine
<1>3. \A n \in Nodes : Timeline(n) \in Nat
  BY WalTypes DEF WalInv
<1>4. Timeline(former) \in S
  BY <1>2 DEF Timeline
<1>5. T \in S /\ \A n \in Nodes : Timeline(n) <= T
  <2> HIDE DEF S
  <2>1. \E t \in S : \A n \in Nodes : Timeline(n) <= t
    BY <1>2, <1>4
  <2>2. QED
    BY <2>1
<1> HIDE DEF T
<1>6. T \in Nat
  BY <1>3, <1>5 DEF Timeline
<1>7. /\ 1 + T \in Nat /\ Timeline(c) <= 1 + T
      /\ \A m \in Nodes : Timeline(m) <= 1 + T /\ (Timeline(m) = 1 + T => Prefix(wal[m], wal[c]))
  BY <1>3, <1>5, <1>6
<1>8. acked' \in Seq(Nat) /\ Prefix(acked', acked) /\ Prefix(acked', wal[c])
  BY WinnerHolds
<1>9. streaming' = {}
  BY <1>1 DEF Inv, TypeOK
<1>10. QED
  BY <1>1, <1>7, <1>8, <1>9, LeaderWrites

\* The new leader waits for so many of the voters that enough of them have what was acknowledged.
LEMMA ElectedIsCovered ==
  ASSUME Inv, Settings, NEW c \in Nodes, mode = "quorum", key.leader # NoLeader
  PROVE  Cardinality({n \in PrePromoteSsn(c).names : Holds(n)}) >= PrePromoteSsn(c).num \/ PrePromoteSsn(c).star
<1> DEFINE names == Members \ {c}
           num == Cardinality(Members) - key.quorum - (IF c \in Members THEN 1 ELSE 0)
           s == Ssn(names, num, NoSsn)
<1>1. PrePromoteSsn(c) = s
  BY DEF PrePromoteSsn
<1>2. Members \subseteq Nodes /\ key.quorum \in Nat
  BY SettingTypes
<1>3. Cardinality(Members) \in Nat /\ Cardinality({}) = 0 /\ IsFiniteSet(Members)
  BY <1>2, NodesAreFinite, NoNodes
<1> DEFINE has == {n \in names : Holds(n)}
<1> DEFINE lacks == {n \in names : ~Holds(n)}
<1>4. /\ names = has \cup lacks /\ has \cap lacks = {} /\ names \subseteq Nodes /\ c \notin names
      /\ has \subseteq Nodes /\ lacks \subseteq Lack(Members) /\ Lack(Members) \subseteq Nodes /\ lacks \subseteq Nodes
      /\ IF c \in Members THEN Members = names \cup {c} ELSE Members = names
  BY <1>2 DEF Lack
<1>5. Cardinality(Lack(Members)) <= key.quorum
  BY DEF Settings, VotersHold
<1> HIDE DEF has, lacks, names
<1>6. Cardinality(has) >= num
  <2>1. /\ Cardinality(has) \in Nat /\ Cardinality(lacks) \in Nat /\ IsFiniteSet(has) /\ IsFiniteSet(lacks)
        /\ Cardinality(names) \in Nat /\ Cardinality(Lack(Members)) \in Nat
    BY <1>4, NodesAreFinite
  <2>2. Cardinality(names) = Cardinality(has) + Cardinality(lacks)
    <3>1. Cardinality(has \cup lacks) = Cardinality(has) + Cardinality(lacks) - Cardinality(has \cap lacks)
      BY <2>1, FS_Union
    <3>2. Cardinality(has \cap lacks) = 0
      BY <1>3, <1>4
    <3>3. Cardinality(names) = Cardinality(has \cup lacks)
      BY <1>4
    <3>4. QED
      BY <2>1, <3>1, <3>2, <3>3
  <2>3. Cardinality(lacks) <= key.quorum
    <3>1. Cardinality(lacks) <= Cardinality(Lack(Members))
      BY <1>4, SmallerSet
    <3>2. QED
      BY <1>2, <1>5, <2>1, <3>1
  <2>4. num = Cardinality(names) - key.quorum
    <3>1. CASE c \in Members
      <4>1. Cardinality(names \cup {c}) = Cardinality(names) + 1
        BY <1>4, WithNode
      <4>2. Cardinality(Members) = Cardinality(names) + 1
        BY <1>4, <3>1, <4>1
      <4>3. QED
        BY <1>2, <2>1, <3>1, <4>2
    <3>2. CASE c \notin Members
      <4>1. Cardinality(Members) = Cardinality(names)
        BY <1>4, <3>2
      <4>2. QED
        BY <1>2, <2>1, <3>2, <4>1
    <3>3. QED
      BY <3>1, <3>2
  <2> HIDE DEF num
  <2>5. QED
    BY <1>2, <2>1, <2>2, <2>3, <2>4
<1>7. num \in Int /\ Cardinality(has) \in Nat
  BY <1>2, <1>3, <1>4, NodesAreFinite
<1> HIDE DEF num
<1>8. CASE names = {}
  <2>1. s.star \/ s.num = 0
    BY <1>7, <1>8 DEF Ssn
  <2>2. s.names = {}
    BY <1>8 DEF Ssn
  <2>3. {n \in s.names : Holds(n)} = {}
    BY <2>2
  <2>4. QED
    BY <1>1, <1>3, <2>1, <2>3
<1>9. CASE names # {} /\ num <= 0
  <2>1. s = NoSsn
    BY <1>9 DEF Ssn
  <2>2. s.num = 0 /\ {n \in s.names : Holds(n)} = {}
    BY <2>1 DEF NoSsn
  <2>3. QED
    BY <1>1, <1>3, <2>2
<1>10. CASE names # {} /\ ~(num <= 0)
  <2>1. s = [num |-> num, names |-> names, star |-> FALSE, any |-> mode = "quorum"]
    BY <1>10 DEF Ssn
  <2>2. s.num = num /\ {n \in s.names : Holds(n)} = has
    BY <2>1 DEF has
  <2>3. QED
    BY <1>1, <1>6, <2>2
<1>11. QED
  BY <1>8, <1>9, <1>10

\* A promotion.
LEMMA ElectKeepsSettings ==
  ASSUME Inv, WalInv, Settings, ~EveryAck, ~DivergedRaces, NEW c \in Nodes, Elect(c)
  PROVE  Settings'
<1>1. /\ leader = NoLeader /\ leader' = c /\ ssn' = PrePromoteSsn(c)
      /\ key' = CASE mode = "quorum" -> key
                   [] mode = "sync" -> [leader |-> c, quorum |-> 0, voters |-> {}]
                   [] OTHER -> NoKey
      /\ UNCHANGED mode
  BY DEF Elect
<1>2. /\ mode \in {"quorum", "sync", "off"} /\ c # NoLeader
      /\ mode = "quorum" => key' = key
      /\ mode = "sync" => key' = [leader |-> c, quorum |-> 0, voters |-> {}]
      /\ mode = "off" => key' = NoKey
  <2>1. c # NoLeader
    BY SyncAssumption DEF NoLeader, Nodes
  <2>2. QED
    BY <1>1, <2>1 DEF Inv, Shape
<1>3. Holds(c)' /\ \A m \in Nodes : Holds(m) => Holds(m)'
  <2>1. WalInv'
    BY ElectKeepsWals
  <2>2. leader' # NoLeader /\ leader' = c
    BY <1>1, <1>2
  <2>3. Holds(c)'
    BY <2>1, <2>2 DEF WalInv, MainLine, IsMain
  <2>4. QED
    BY <2>3, ElectKeepsWals
<1>4. Short'
  <2>1. Len(acked') <= Len(acked) /\ Len(acked') \in Nat /\ Len(acked) \in Nat
    <3>1. acked \in Seq(Nat) /\ acked' \in Seq(Nat) /\ Prefix(acked', acked)
      BY WinnerHolds DEF WalInv, Wals
    <3>2. QED
      BY <3>1, SameRecords
  <2>2. QED
    BY <1>1, <1>2, <2>1 DEF Settings, Short, NoKey
<1>5. NamesSound(ssn)'
  <2>1. NamesSound(NoSsn)
    BY DEF NamesSound, NoSsn
  <2>2. NamesSound(PrePromoteSsn(c))
    <3>1. MinSync \in Int
      BY DEF MinSync
    <3>2. CASE mode = "quorum" /\ key.leader # NoLeader
      <4> DEFINE num == Cardinality(Members) - key.quorum - (IF c \in Members THEN 1 ELSE 0)
      <4>1. num \in Int
        <5>1. Members \subseteq Nodes /\ key.quorum \in Nat
          BY SettingTypes
        <5>2. Cardinality(Members) \in Nat
          BY <5>1, NodesAreFinite
        <5>3. QED
          BY <5>1, <5>2
      <4>2. PrePromoteSsn(c) = Ssn(Members \ {c}, num, NoSsn)
        BY <3>2 DEF PrePromoteSsn
      <4> HIDE DEF num
      <4>3. QED
        BY <2>1, <4>1, <4>2, NamesAreSound
    <3>3. CASE ~(mode = "quorum" /\ key.leader # NoLeader)
      BY <2>1, <3>1, <3>3, NamesAreSound DEF PrePromoteSsn
    <3>4. QED
      BY <3>2, <3>3
  <2>3. QED
    BY <1>1, <2>2 DEF NamesSound
<1>6. ssn'.star \/ Cardinality({n \in ssn'.names : Holds(n)'}) >= ssn'.num
  <2>1. CASE mode = "quorum" /\ key.leader # NoLeader
    <3>1. ssn'.star \/ Cardinality({n \in ssn'.names : Holds(n)}) >= ssn'.num
      BY <1>1, <2>1, ElectedIsCovered
    <3> DEFINE A == {n \in ssn'.names : Holds(n)}
               B == {n \in ssn'.names : Holds(n)'}
    <3>2. ssn'.names \subseteq Nodes /\ ssn'.num \in Nat
      BY <1>1, PrePromoteIsSound DEF SsnSound
    <3>3. A \subseteq B /\ A \subseteq Nodes /\ B \subseteq Nodes
      BY <1>3, <3>2
    <3>4. Cardinality(A) >= ssn'.num \/ ssn'.star
      BY <3>1
    <3> HIDE DEF A, B
    <3>5. Cardinality(A) <= Cardinality(B) /\ Cardinality(A) \in Nat /\ Cardinality(B) \in Nat
      BY <3>3, SmallerSet, NodesAreFinite
    <3>6. Cardinality(B) >= ssn'.num \/ ssn'.star
      BY <3>2, <3>4, <3>5
    <3>7. QED
      BY <3>6 DEF B
  <2>2. CASE ~(mode = "quorum" /\ key.leader # NoLeader)
    <3>1. ssn' = NoSsn \/ ssn' = Ssn({}, MinSync, NoSsn)
      BY <1>1, <2>2 DEF PrePromoteSsn
    <3>2. ssn'.names = {} /\ (ssn'.star \/ ssn'.num = 0)
      <4>1. NoSsn.names = {} /\ NoSsn.num = 0
        BY DEF NoSsn
      <4>2. Ssn({}, MinSync, NoSsn).names = {} /\ (Ssn({}, MinSync, NoSsn).star \/ Ssn({}, MinSync, NoSsn).num = 0)
        BY DEF Ssn, MinSync
      <4>3. QED
        BY <3>1, <4>1, <4>2
    <3>3. {n \in ssn'.names : Holds(n)'} = {}
      BY <3>2
    <3>4. QED
      BY <3>2, <3>3, NoNodes
  <2>3. QED
    BY <2>1, <2>2
<1>7. Covered'
  BY <1>6 DEF Covered
<1>8. VotersHold'
  BY <1>1, <1>2, <1>3, VotersStay DEF VotersHold
<1>9. SyncHolds'
  <2>1. SUFFICES ASSUME mode = "sync"
        PROVE  SyncHolds'
    BY <1>1 DEF SyncHolds
  <2>2. key' = [leader |-> c, quorum |-> 0, voters |-> {}] /\ Members' = {c}
    BY <1>2, <2>1 DEF Members
  <2>3. QED
    BY <1>3, <2>2 DEF SyncHolds
<1>10. QED
  BY <1>4, <1>5, <1>7, <1>8, <1>9 DEF Settings

-----------------------------------------------------------------------------
(* No acknowledged commit is lost *)

\* The commits that count are those that standbys had to acknowledge, and no node with WAL of an
\* abandoned timeline takes part in a race.
Counted == ~EveryAck /\ ~DivergedRaces /\ ~Unwaited

LossInv == Inv /\ WalInv /\ Settings

\* In a new cluster everybody has the first record.
LEMMA InitHolds == Init => LossInv
<1> SUFFICES ASSUME Init
    PROVE  LossInv
  OBVIOUS
<1>1. Inv
  BY InitIsSound
<1>2. /\ leader = 1 /\ former = 1 /\ streaming = {} /\ wal = [n \in Nodes |-> << 1 >>] /\ acked = << 1 >>
      /\ ssn = NoSsn /\ key = NoKey /\ todo = <<>>
  BY DEF Init
<1>3. << 1 >> \in Seq(Nat) /\ Len(<< 1 >>) = 1 /\ << 1 >>[1] = 1 /\ 1 \in Nodes
  BY SyncAssumption DEF Nodes
<1>4. Prefix(<< 1 >>, << 1 >>)
  <2> DEFINE one == << 1 >>
  <2>1. one \in Seq(Nat)
    BY <1>3
  <2> HIDE DEF one
  <2>2. Prefix(one, one)
    BY <2>1, PrefixOfItself
  <2>3. QED
    BY <2>2 DEF one
<1>5. WalInv
  <2>1. \A n \in Nodes : wal[n] = << 1 >> /\ Lsn(n) = 1 /\ Timeline(n) = 1 /\ Holds(n)
    BY <1>2, <1>3, <1>4 DEF Lsn, Timeline, Holds
  <2>2. Wals
    BY <1>2, <1>3, <2>1 DEF Wals
  <2>3. IsMain(1)
    BY <1>2, <1>3, <1>4, <2>1 DEF IsMain
  <2>4. QED
    BY <1>2, <1>3, <2>2, <2>3 DEF WalInv, MainLine, StreamsFollow
<1>6. Settings
  <2>1. {n \in ssn.names : Holds(n)} = {} /\ ssn.num = 0 /\ ssn.names = {}
    BY <1>2 DEF NoSsn
  <2>2. Cardinality({n \in ssn.names : Holds(n)}) >= ssn.num
    BY <2>1, NoNodes
  <2>3. key.leader = NoLeader /\ Len(acked) <= 1
    BY <1>2 DEF NoKey
  <2>4. QED
    BY <2>1, <2>2, <2>3 DEF Settings, Short, NamesSound, Covered, VotersHold, SyncHolds
<1>7. QED
  BY <1>1, <1>5, <1>6 DEF LossInv

\* A step that changes no WAL, acknowledges nothing, and leaves the settings alone or is a crash.
LEMMA PlainStep ==
  ASSUME LossInv, UNCHANGED <<wal, acked, key, mode, former>>,
         (leader' = leader /\ ssn' = ssn) \/ (leader' = NoLeader /\ ssn' = NoSsn /\ streaming' = {}),
         streaming' \subseteq streaming
  PROVE  WalInv' /\ Settings'
<1>1. WalInv /\ Settings /\ Inv
  BY DEF LossInv
<1>2. acked' \in Seq(Nat) /\ Prefix(acked', acked)
  BY <1>1, PrefixOfItself DEF WalInv, Wals
<1>3. WalInv' /\ \A n \in Nodes : Holds(n) => Holds(n)'
  BY <1>1, <1>2, WalsStay
<1>4. Settings'
  BY <1>1, <1>3, SettingsStay
<1>5. QED
  BY <1>3, <1>4

\* A step of the loop of the leader, other than a change of synchronous_standby_names.
LEMMA LoopKeepsWals ==
  ASSUME WalInv, UNCHANGED <<wal, acked, leader, streaming, former>>
  PROVE  WalInv'
<1>1. acked' \in Seq(Nat) /\ Prefix(acked', acked)
  BY PrefixOfItself DEF WalInv, Wals
<1>2. QED
  BY <1>1, WalsStay

\* Every step keeps it.
LEMMA NextHolds == Counted /\ LossInv /\ [Next]_vars => LossInv'
<1> SUFFICES ASSUME Counted, LossInv, [Next]_vars
    PROVE  LossInv'
  OBVIOUS
<1>1. Inv' /\ Inv /\ WalInv /\ Settings /\ TypeOK /\ ~EveryAck /\ ~DivergedRaces /\ ~Unwaited
  BY StepIsSound DEF LossInv, Counted, Inv
<1>2. SUFFICES WalInv' /\ Settings'
  BY <1>1 DEF LossInv
<1>3. CASE Enable
  <2>1. UNCHANGED <<wal, acked, leader, streaming, former>>
    BY <1>3 DEF Enable, Kept, config
  <2>2. QED
    BY <1>1, <1>3, <2>1, LoopKeepsWals, EnableKeepsSettings
<1>4. CASE Disable
  <2>1. UNCHANGED <<wal, acked, leader, streaming, former>>
    BY <1>4 DEF Disable, Kept, config
  <2>2. QED
    BY <1>1, <1>4, <2>1, LoopKeepsWals, DisableKeepsSettings
<1>5. CASE Resolve
  <2>1. UNCHANGED <<wal, acked, leader, streaming, former>>
    BY <1>5 DEF Resolve, Kept, config
  <2>2. QED
    BY <1>1, <1>5, <2>1, LoopKeepsWals, ResolveKeepsSettings
<1>6. CASE Pick
  <2>1. UNCHANGED <<wal, acked, leader, streaming, former>>
    BY <1>6 DEF Pick, config
  <2>2. QED
    BY <1>1, <1>6, <2>1, LoopKeepsWals, PickKeepsSettings
<1>7. CASE ApplySync
  <2>1. UNCHANGED <<wal, leader, streaming, former>>
    BY <1>7 DEF ApplySync, config
  <2>2. SsnSound(ssn', leader)
    BY <1>1, <2>1 DEF Inv, SsnSound
  <2>3. Settings' /\ acked' \in Seq(Nat) /\ Prefix(acked', acked)
    BY <1>1, <1>7, <2>2, ApplySyncKeepsSettings
  <2>4. QED
    BY <1>1, <2>1, <2>3, WalsStay
<1>8. CASE ApplyQuorum
  <2>1. UNCHANGED <<wal, acked, leader, streaming, former>>
    BY <1>8 DEF ApplyQuorum, Kept, config
  <2>2. QED
    BY <1>1, <1>8, <2>1, LoopKeepsWals, ApplyQuorumKeepsSettings
<1>9. CASE ApplyRestart \/ GiveUp
  <2>1. UNCHANGED <<leader, streaming, wal, acked, ssn, key, mode, former>>
    BY <1>9 DEF ApplyRestart, GiveUp, Kept, config
  <2>2. QED
    BY <2>1, PlainStep
<1>10. CASE ApplyConfirm
  <2>1. UNCHANGED <<wal, acked, leader, streaming, former>>
    BY <1>10 DEF ApplyConfirm, Kept, config
  <2>2. QED
    BY <1>1, <1>10, <2>1, LoopKeepsWals, ApplyConfirmKeepsSettings
<1>11. CASE Write
  <2>1. UNCHANGED <<leader, acked, ssn, key, mode>>
    BY <1>11 DEF Write, Rest, config
  <2>2. WalInv' /\ \A m \in Nodes : Holds(m) => Holds(m)'
    BY <1>1, <1>11, WriteKeepsWals
  <2>3. QED
    BY <1>1, <2>1, <2>2, SettingsStay
<1>12. CASE Ack
  BY <1>1, <1>12, AckKeepsWals, AckKeepsSettings
<1>13. CASE Configure
  BY <1>1, <1>13, ConfigureKeepsSettings
<1>14. ASSUME NEW n \in Nodes, Connect(n) \/ Stream(n)
       PROVE  WalInv' /\ Settings'
  <2>1. UNCHANGED <<leader, acked, ssn, key, mode>>
    BY <1>14 DEF Connect, Stream, Rest, config
  <2>2. WalInv' /\ \A m \in Nodes : Holds(m) => Holds(m)'
    BY <1>1, <1>14, ConnectKeepsWals, StreamKeepsWals
  <2>3. QED
    BY <1>1, <2>1, <2>2, SettingsStay
<1>15. ASSUME NEW n \in Nodes, Disconnect(n) \/ Start(n)
       PROVE  WalInv' /\ Settings'
  <2>1. UNCHANGED <<leader, wal, acked, ssn, key, mode, former>> /\ streaming' \subseteq streaming
    BY <1>15 DEF Disconnect, Start, Rest, config
  <2>2. QED
    BY <2>1, PlainStep
<1>16. ASSUME NEW n \in Nodes, Stop(n)
       PROVE  WalInv' /\ Settings'
  <2>1. UNCHANGED <<wal, acked, key, mode, former>>
        /\ \/ leader' = NoLeader /\ ssn' = NoSsn /\ streaming' = {}
           \/ streaming' = streaming \ {n} /\ UNCHANGED <<leader, ssn>>
    BY <1>16 DEF Stop, Rest, config
  <2>2. QED
    BY <2>1, PlainStep
<1>17. ASSUME NEW c \in Nodes, Elect(c)
       PROVE  WalInv' /\ Settings'
  BY <1>1, <1>17, ElectKeepsWals, ElectKeepsSettings
<1>18. CASE UNCHANGED vars
  <2>1. UNCHANGED <<leader, streaming, wal, acked, ssn, key, mode, former>>
    BY <1>18 DEF vars
  <2>2. QED
    BY <2>1, PlainStep
<1>19. QED
  BY <1>3, <1>4, <1>5, <1>6, <1>7, <1>8, <1>9, <1>10, <1>11, <1>12, <1>13, <1>14, <1>15, <1>16, <1>17, <1>18 DEF Next, Loop

\* NoAckedLoss: what a client was told to be committed, and those who are waited for now have, is
\* in the WAL of whoever is elected afterwards, for any number of nodes, in quorum and in sync
\* mode and through changes between them.  Commits that nobody was waited for do not count, and no
\* node with WAL of an abandoned timeline takes part in the race (Counted).  Neither does what
\* others than those waited for now have (StillAcked), what not all of Members have when
\* synchronous_mode is set to on or is acknowledged before a leader acts on it (Configure, Ack), nor
\* what the former leader lacks if it wins because /sync still names it (Outdated).
THEOREM NothingAcknowledgedIsLost == Counted => (Spec => []NoAckedLoss)
<1> SUFFICES ASSUME Counted
    PROVE  Spec => []NoAckedLoss
  OBVIOUS
<1>1. Init => LossInv
  BY InitHolds
<1>2. LossInv /\ [Next]_vars => LossInv'
  BY NextHolds
<1>3. LossInv => NoAckedLoss
  BY LeaderIsMain DEF LossInv, NoAckedLoss, Holds
<1>4. QED
  BY <1>1, <1>2, <1>3, PTL DEF Spec
=============================================================================
