-------------------------- MODULE SyncReplication --------------------------
(***************************************************************************)
(* Synchronous replication: what a primary asks of its standbys before it  *)
(* acknowledges a commit (synchronous_standby_names, here ssn), what the   *)
(* /sync key in the DCS asks of a candidate, and the two HA loops that     *)
(* move one after the other, in quorum mode with QuorumResolver.           *)
(*                                                                         *)
(* There is one holder of the leader key at a time (HaCluster).  A WAL is  *)
(* the sequence of the timelines its records were written on; its length   *)
(* is the LSN.  The nofailover, nosync and sync_priority tags and          *)
(* maximum_lag_on_syncnode are left out: every streaming standby counts.   *)
(***************************************************************************)
EXTENDS QuorumResolver

CONSTANTS
  N,              \* nodes 1 .. N
  Modes,          \* values synchronous_mode takes: "quorum", "sync", "off"
  Counts,         \* values synchronous_node_count takes
  Strict,         \* synchronous_mode_strict
  DivergedRaces,  \* whether a node with WAL of an abandoned timeline takes part in the race
  EveryAck,  \* whether every acknowledged commit counts, also what StillAcked, Configure and Elect drop
  Unwaited,  \* whether commits count that no standby had to acknowledge
  MaxWal, MaxTimeline, MaxFaults, MaxChanges  \* bounds

ASSUME SyncAssumption ==
  /\ N \in Nat \ {0} /\ Modes \subseteq {"quorum", "sync", "off"} /\ Modes # {}
  /\ Counts \subseteq Nat \ {0} /\ Counts # {}
  /\ Strict \in BOOLEAN /\ DivergedRaces \in BOOLEAN
  /\ EveryAck \in BOOLEAN /\ Unwaited \in BOOLEAN
  /\ MaxWal \in Nat /\ MaxTimeline \in Nat /\ MaxFaults \in Nat /\ MaxChanges \in Nat

VARIABLES
  leader,     \* the holder of the leader key, running as primary, or NoLeader
  live,       \* nodes whose PostgreSQL runs and answers
  streaming,  \* standbys in pg_stat_replication of the leader
  wal,
  acked,      \* the longest WAL a client was told to be committed while synchronous mode is in force
  ssn,        \* synchronous_standby_names of the leader: num of names, or of anybody (star);
              \* any: written with the prefix ANY
  key,        \* /sync
  todo,       \* changes the loop of the leader is about to make
  known,      \* SyncHandler._synchronous_standby_names of each node: the last one it looked at
  ready,      \* SyncHandler._ready_replicas of each node
  flush,      \* SyncHandler._primary_flush_lsn of each node
  mode, wanted, \* synchronous_mode and synchronous_node_count
  faults,     \* how often a standby lost its connection or a node was gone
  changes,    \* how often mode or wanted changed
  former,     \* history: the node promoted last
  switched    \* history: synchronous_mode was set to on, and no leader has acted on it since

vars == <<leader, live, streaming, wal, acked, ssn, key, todo, known, ready, flush,
          mode, wanted, faults, changes, former, switched>>
config  == <<mode, wanted, changes, former>>
handler == <<known, ready, flush>>

Nodes == 1 .. N
NoSsn == [num |-> 0, names |-> {}, star |-> FALSE, any |-> FALSE]
NoKey == [leader |-> NoLeader, quorum |-> 0, voters |-> {}]
MinSync == IF Strict THEN 1 ELSE 0

\* A cluster right after it was initialised.
Init ==
  /\ leader = 1 /\ live = Nodes /\ streaming = {}
  /\ wal = [n \in Nodes |-> <<1>>] /\ acked = <<1>>
  /\ ssn = NoSsn /\ key = NoKey /\ todo = <<>>
  /\ known = [n \in Nodes |-> NoSsn] /\ ready = [n \in Nodes |-> {}] /\ flush = [n \in Nodes |-> 0]
  /\ mode \in Modes /\ wanted \in Counts /\ faults = 0 /\ changes = 0
  /\ former = 1 /\ switched = FALSE

Lsn(n) == Len(wal[n])
Prefix(v, w) == Len(v) <= Len(w) /\ SubSeq(w, 1, Len(v)) = v
Common(v, w) == CHOOSE k \in 0 .. Len(v) :
                  /\ Prefix(SubSeq(v, 1, k), w)
                  /\ \A j \in 0 .. Len(v) : Prefix(SubSeq(v, 1, j), w) => j <= k
Timeline(n) == wal[n][Lsn(n)]
Members == IF key.leader = NoLeader THEN {} ELSE {key.leader} \cup key.voters

-----------------------------------------------------------------------------
(* SyncHandler *)

\* set_synchronous_standby_names, in place of the value now; PostgreSQL refuses "ANY 0 (...)" and
\* "ANY -1 (...)".
Ssn(names, num, now) ==
  IF names = {} THEN [num |-> IF num >= 1 THEN 1 ELSE 0, names |-> {}, star |-> num >= 1, any |-> FALSE]
  ELSE IF num <= 0 THEN now
  ELSE [num |-> num, names |-> names, star |-> FALSE, any |-> mode = "quorum"]

\* _handle_synchronous_standby_names_change: readiness is forgotten for who is not listed.
ReadyOf(n, s)  == IF s = known[n] THEN ready[n] ELSE ready[n] \cap s.names
FlushOf(n, s)  == IF s = known[n] THEN flush[n] ELSE Lsn(n)

\* Mutant: a standby is ready as soon as it streams.
ReadyAtOnce(n) == ReadyOf(n, ssn) \cup (streaming \cap ssn.names)

\* _process_replica_readiness; sync_state is 'quorum' for the names after ANY and 'sync' for others.
NowReady(n) ==
  ReadyOf(n, ssn) \cup
    {m \in streaming \cap ssn.names :
       IF mode = "quorum" THEN ssn.any /\ Lsn(m) >= FlushOf(n, ssn)
       ELSE m \in key.voters \/ (~ssn.any /\ Lsn(m) >= FlushOf(n, ssn))}

\* sync_confirmed of current_state in sync mode
Synchronous == IF ssn.any THEN {} ELSE NowReady(leader) \cap ssn.names

\* current_state: in quorum mode all standbys are active, else as many as are wanted,
\* those that are synchronous now first.
Picks ==
  LET count == Lower(wanted, Cardinality(streaming))
      now == streaming \cap ssn.names
  IN IF mode = "quorum" THEN {streaming}
     ELSE {S \in SUBSET streaming : Cardinality(S) = count /\ (S \subseteq now \/ now \subseteq S)}
Looks(n) ==
  /\ ready' = [ready EXCEPT ![n] = NowReady(n)]
  /\ known' = [known EXCEPT ![n] = ssn]
  /\ flush' = [flush EXCEPT ![n] = FlushOf(n, ssn)]

-----------------------------------------------------------------------------
(* The loop of the leader *)

Idle == leader # NoLeader /\ todo = <<>>
Kept == UNCHANGED <<leader, live, streaming, wal, acked, config, faults, switched>>

\* _maybe_enable_synchronous_mode
Enable ==
  /\ Idle /\ mode # "off" /\ key.leader = NoLeader
  /\ key' = [leader |-> leader, quorum |-> 0, voters |-> {}]
  /\ UNCHANGED <<ssn, todo, handler>> /\ Kept

\* disable_synchronous_replication
Disable ==
  /\ Idle /\ mode = "off" /\ key.leader # NoLeader
  /\ key' = NoKey /\ ssn' = NoSsn
  /\ UNCHANGED <<todo, handler>> /\ Kept

\* _process_quorum_replication up to the list of transitions
ToResolve == Idle /\ mode = "quorum" /\ key.leader # NoLeader
Seen == Resolver(key.leader, key.quorum, key.voters, ssn.num, ssn.names,
                 Cardinality(NowReady(leader) \cap streaming), streaming, wanted, leader)
Resolve ==
  /\ ToResolve
  /\ Looks(leader)
  /\ todo' = Transitions(Seen)
  /\ UNCHANGED <<ssn, key>> /\ Kept

\* _process_multisync_replication up to the first change of synchronous_standby_names:
\* what is no longer confirmed leaves /sync first.
Pick ==
  /\ Idle /\ mode = "sync" /\ key.leader # NoLeader
  /\ Looks(leader)
  /\ \E picked \in Picks :
       LET confirmed == picked \cap Synchronous
           mine == IF key.leader = leader THEN key.voters ELSE {}
           voters == IF picked = mine THEN confirmed ELSE mine
           common == voters \cap confirmed
           names == IF picked = {} /\ Strict THEN Ssn({}, 1, ssn) ELSE Ssn(picked, Cardinality(picked), ssn)
       IN /\ key' = IF key.leader = leader /\ voters = mine /\ common = voters THEN key
                    ELSE [leader |-> leader, quorum |-> 0, voters |-> common]
          /\ todo' = IF picked = voters /\ picked = ssn.names /\ ssn.num = Cardinality(picked) THEN <<>>
                     ELSE <<Transition("sync", names.num, names.names, leader),
                            Transition("confirm", 0, picked, leader)>>
  /\ switched' = FALSE /\ UNCHANGED <<leader, live, streaming, wal, acked, ssn, config, faults>>

\* What is left of acked when s replaces ssn: the part of it that s would have acknowledged.
StillAcked(s) ==
  LET asked == IF s.star THEN Nodes \ {leader} ELSE s.names
      held(k) == {n \in asked : Prefix(SubSeq(acked, 1, k), wal[n])}
      enough == {0} \cup {k \in 1 .. Len(acked) : Cardinality(held(k)) >= s.num}
  IN IF EveryAck \/ s.num = 0 \/ (Unwaited /\ ssn.num = 0) THEN acked
     ELSE SubSeq(acked, 1, CHOOSE k \in enough : \A j \in enough : j <= k)

\* A change of synchronous_standby_names; the handler looks at it right away.
ApplySync ==
  LET t == todo[1]
      s == Ssn(t.names, Higher(t.num, MinSync), ssn)
  IN /\ leader # NoLeader /\ todo # <<>> /\ t.type = "sync"
     /\ ssn' = s
     /\ ready' = [ready EXCEPT ![leader] = IF s.star THEN @ ELSE ReadyOf(leader, s)]
     /\ known' = [known EXCEPT ![leader] = IF s.star THEN @ ELSE s]
     /\ flush' = [flush EXCEPT ![leader] = IF s.star THEN @ ELSE FlushOf(leader, s)]
     /\ todo' = Tail(todo)
     /\ acked' = StillAcked(s)
     /\ UNCHANGED <<leader, live, streaming, wal, key, config, faults, switched>>

\* A change of /sync.
ApplyQuorum ==
  /\ leader # NoLeader /\ todo # <<>> /\ todo[1].type = "quorum"
  /\ key' = [leader |-> todo[1].leader, quorum |-> todo[1].num, voters |-> todo[1].names]
  /\ todo' = Tail(todo)
  /\ UNCHANGED <<ssn, handler>> /\ Kept

\* The loop starts over with a fresh look at the standbys.
ApplyRestart ==
  /\ leader # NoLeader /\ todo # <<>> /\ todo[1].type = "restart"
  /\ todo' = <<>>
  /\ UNCHANGED <<ssn, key, handler>> /\ Kept

\* The end of _process_multisync_replication: who has caught up enters /sync.
ApplyConfirm ==
  LET confirmed == Synchronous \cap todo[1].names \cap streaming
  IN /\ leader # NoLeader /\ todo # <<>> /\ todo[1].type = "confirm"
     /\ Looks(leader)
     /\ key' = IF confirmed # {} /\ confirmed # key.voters
               THEN [leader |-> leader, quorum |-> 0, voters |-> confirmed] ELSE key
     /\ todo' = <<>>
     /\ UNCHANGED <<ssn>> /\ Kept

\* A cycle is cut short: the DCS does not answer, or loop_wait is over (_check_timeout).
GiveUp ==
  /\ todo # <<>> /\ todo' = <<>>
  /\ UNCHANGED <<ssn, key, handler>> /\ Kept

-----------------------------------------------------------------------------
(* PostgreSQL *)

Rest == UNCHANGED <<key, handler, config, switched>>
Fault == faults < MaxFaults /\ faults' = faults + 1

Write ==
  /\ leader # NoLeader /\ Lsn(leader) < MaxWal
  /\ wal' = [wal EXCEPT ![leader] = Append(@, Timeline(leader))]
  /\ UNCHANGED <<leader, live, streaming, acked, ssn, todo, faults>> /\ Rest

Has(n, lsn) == n \in streaming /\ Lsn(n) >= lsn

Ack ==
  /\ leader # NoLeader /\ mode # "off" /\ key.leader # NoLeader /\ (EveryAck \/ ~switched)
  /\ LET enough(lsn) == Cardinality({n \in IF ssn.star THEN Nodes ELSE ssn.names : Has(n, lsn)}) >= ssn.num
         committed == {lsn \in 1 .. Lsn(leader) : enough(lsn)}
         lsn == CHOOSE k \in committed : \A j \in committed : j <= k
     IN committed # {} /\ lsn > Len(acked) /\ acked' = SubSeq(wal[leader], 1, lsn)
  /\ UNCHANGED <<leader, live, streaming, wal, ssn, todo, faults>> /\ Rest

\* A standby connects, after pg_rewind if it has to.
Connect(n) ==
  /\ leader # NoLeader /\ n \in live \ (streaming \cup {leader})
  /\ wal' = [wal EXCEPT ![n] = SubSeq(@, 1, Common(@, wal[leader]))]
  /\ streaming' = streaming \cup {n}
  /\ UNCHANGED <<leader, live, acked, ssn, todo, faults>> /\ Rest

Stream(n) ==
  /\ n \in streaming /\ Lsn(n) < Lsn(leader)
  /\ wal' = [wal EXCEPT ![n] = SubSeq(wal[leader], 1, Lsn(n) + 1)]
  /\ UNCHANGED <<leader, live, streaming, acked, ssn, todo, faults>> /\ Rest

Disconnect(n) ==
  /\ n \in streaming
  /\ streaming' = streaming \ {n}
  /\ UNCHANGED <<leader, live, wal, acked, ssn, todo>> /\ Rest /\ Fault

\* A node is gone, with its Patroni or only its PostgreSQL; demote() clears the ssn.
Stop(n) ==
  /\ n \in live
  /\ live' = live \ {n}
  /\ IF n = leader THEN leader' = NoLeader /\ streaming' = {} /\ ssn' = NoSsn /\ todo' = <<>>
     ELSE streaming' = streaming \ {n} /\ UNCHANGED <<leader, ssn, todo>>
  /\ UNCHANGED <<wal, acked>> /\ Rest /\ Fault

Start(n) ==
  /\ n \notin live
  /\ live' = live \cup {n}
  /\ UNCHANGED <<leader, streaming, wal, acked, ssn, todo, faults>> /\ Rest

-----------------------------------------------------------------------------
(* The race *)

Active == key.leader # NoLeader
QuorumMode == mode = "quorum" /\ Active
Ahead(c) ==
  LET asked == live \ {c}
  IN {m \in IF mode # "off" /\ Active THEN asked \cap Members ELSE asked : Lsn(m) > Lsn(c)}
Votes(c) ==
  Cardinality(((live \ {c}) \cap Members) \ Ahead(c)) - (IF c \in Members THEN 0 ELSE 1)

\* _is_healthiest_node
Healthiest(c) ==
  /\ mode = "sync" /\ Active => c \in Members
  /\ Ahead(c) \subseteq IF mode # "off" /\ Active THEN {key.leader} ELSE {}
  /\ QuorumMode => Votes(c) >= key.quorum \/ (Ahead(c) = {} /\ key.leader = c)

\* The node named in /sync wins without votes, and another one was promoted after it.
Outdated(c) == QuorumMode /\ Votes(c) < key.quorum /\ former # c

\* process_sync_replication_prepromote
PrePromoteSsn(c) ==
  IF mode = "quorum" /\ key.leader # NoLeader
    THEN Ssn(Members \ {c}, Cardinality(Members) - key.quorum - (IF c \in Members THEN 1 ELSE 0), NoSsn)
    ELSE IF mode = "off" THEN NoSsn ELSE Ssn({}, MinSync, NoSsn)

\* The part of acked that every node of S has.
HeldBy(S) == SubSeq(acked, 1, CHOOSE k \in 0 .. Len(acked) :
               /\ \A n \in S : Prefix(SubSeq(acked, 1, k), wal[n])
               /\ \A j \in 0 .. Len(acked) : (\A n \in S : Prefix(SubSeq(acked, 1, j), wal[n])) => j <= k)

\* Whether n has written WAL that the leaders after it do not have.
Abandoned(n) == \E m \in Nodes : m # n /\ Timeline(m) > Timeline(n) /\ ~Prefix(wal[n], wal[m])

\* A node wins the race and is promoted.
Elect(c) ==
  /\ leader = NoLeader /\ c \in live /\ Timeline(c) < MaxTimeline
  /\ Healthiest(c) /\ (DivergedRaces \/ ~Abandoned(c))
  /\ leader' = c
  /\ ssn' = PrePromoteSsn(c)
  /\ key' = CASE mode = "quorum" -> key
              [] mode = "sync" -> [leader |-> c, quorum |-> 0, voters |-> {}]
              [] OTHER -> NoKey
  /\ wal' = [wal EXCEPT ![c] = Append(@, 1 + CHOOSE t \in {wal[n][Lsn(n)] : n \in Nodes} :
                                             \A n \in Nodes : Timeline(n) <= t)]
  /\ former' = c
  /\ switched' = FALSE
  /\ acked' = IF ~EveryAck /\ Outdated(c) THEN HeldBy({c}) ELSE acked
  /\ UNCHANGED <<live, streaming, todo, handler, mode, wanted, faults, changes>>

\* The user edits the dynamic configuration; a cycle under way goes on with the one it has loaded.
Configure ==
  /\ changes < MaxChanges /\ changes' = changes + 1 /\ todo = <<>>
  /\ mode' \in Modes \cup {"off"} /\ wanted' \in Counts /\ <<mode', wanted'>> # <<mode, wanted>>
  /\ switched' = (mode' = "sync" /\ (switched \/ mode # "sync"))
  /\ acked' = IF mode' = "off" THEN <<1>>
              ELSE IF switched' /\ ~EveryAck THEN HeldBy(Members) ELSE acked
  /\ UNCHANGED <<leader, live, streaming, wal, ssn, key, todo, handler, faults, former>>

Loop == Enable \/ Disable \/ Resolve \/ Pick
        \/ ApplySync \/ ApplyQuorum \/ ApplyRestart \/ ApplyConfirm

Next ==
  \/ Loop \/ GiveUp \/ Write \/ Ack \/ Configure
  \/ \E n \in Nodes : Connect(n) \/ Stream(n) \/ Disconnect(n) \/ Stop(n) \/ Start(n) \/ Elect(n)

Spec == Init /\ [][Next]_vars
-----------------------------------------------------------------------------
TypeOK ==
  /\ leader \in live \cup {NoLeader} /\ live \subseteq Nodes
  /\ streaming \subseteq live \ {leader}
  /\ key.voters \subseteq Nodes \ {key.leader} /\ ssn.names \subseteq Nodes \ {leader}
  /\ ssn.num \in 0 .. N /\ key.quorum \in Nat
  /\ leader = NoLeader => streaming = {} /\ todo = <<>>

\* What a client was told to be committed is in the WAL of every later leader, in quorum and in
\* sync mode and after a change from one to the other, also what was acknowledged by a leader that
\* /sync did not name yet.  Four kinds of commits count only with EveryAck, and may be lost: what
\* those who are waited for now do not have (StillAcked), what not all of Members have when
\* synchronous_mode is set to on (HeldBy in Configure), what is acknowledged from then on until a
\* leader has acted on it (switched, in Ack), and what the former leader lacks if /sync still names
\* it when it wins without votes (Outdated, in Elect; ha.py:1386).
NoAckedLoss == leader # NoLeader => Prefix(acked, wal[leader])

\* Who may acknowledge a commit and who may elect the next leader overlap, whoever owns /sync, in
\* both modes, but for the time from setting synchronous_mode to on to the leader's next cycle.
OverlapInForce ==
  leader # NoLeader /\ key.leader # NoLeader /\ mode # "off" /\ ~switched
    => \/ Members \subseteq {leader}
       \/ Cardinality(Members \cup ssn.names \cup {leader})
            <= ssn.num + 1 + IF mode = "quorum" THEN key.quorum ELSE 0

NothingToDo(g) == ~g.failed /\ g.out = <<>>

\* The loop has nothing left to do only in the steady state: the standbys that stream are the
\* ones that are waited for and the ones that vote, and the quorum is as small as the number of
\* standbys waited for allows, once all of them are known to have caught up.
Settled ==
  ToResolve /\ NothingToDo(Generate(Seen)) =>
    /\ key.leader = leader /\ ssn.names = streaming /\ key.voters = streaming
    /\ streaming # {} =>
         /\ ssn.num = Higher(MinSync, Lower(wanted, Cardinality(streaming)))
         /\ key.quorum >= Cardinality(streaming) - ssn.num
         /\ streaming \subseteq NowReady(leader) => key.quorum = Cardinality(streaming) - ssn.num

\* No state the cluster gets into makes the resolver raise an exception.
ResolverNeverFails == ToResolve => ~Generate(Seen).failed
=============================================================================
