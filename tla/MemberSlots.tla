---------------------------- MODULE MemberSlots ----------------------------
(***************************************************************************)
(* Physical replication slots of the members of a cluster: every node that *)
(* may become the leader keeps one for every other member, so that a       *)
(* member that was away can stream again from whoever leads, without a new *)
(* copy of the data.  SlotsHandler.sync_replication_slots runs in every    *)
(* node's cycle on what the leader has written to /status: the positions   *)
(* of its slots, and the names it retains for member_slots_ttl.            *)
(*                                                                         *)
(* A unit of time is long to a cycle and to the ttl of a key, and short to *)
(* member_slots_ttl.                                                       *)
(***************************************************************************)
EXTENDS Integers, FiniteSets, FiniteSetsExt

CONSTANTS Nodes,
          NoFailover,  \* the members with the nofailover tag
          None,
          HotStandbyFeedback,
          SlotsTTL,    \* member_slots_ttl
          MaxLsn,      \* bound: WAL positions
          MaxFaults    \* bound: times that a member goes away

ASSUME SlotsAssumption ==
  /\ IsFiniteSet(Nodes) /\ NoFailover \subseteq Nodes /\ None \notin Nodes
  /\ HotStandbyFeedback \in BOOLEAN
  /\ SlotsTTL \in Nat /\ MaxLsn \in Nat /\ MaxFaults \in Nat

NoSlot == -1
Lsn == 0..MaxLsn
NoSlots == [m \in Nodes |-> NoSlot]

VARIABLES from,    \* the replicatefrom tag of every member, or None
          leader,  \* the holder of the leader key
          up,      \* the nodes that run
          keys,    \* the members whose key is in the DCS, and their xlog_location
          told,
          status,  \* /status in the DCS: slots and retain_slots
          age,     \* _last_retain_slots of the leader: the time since each name was last seen
          wal,     \* what every node has of the leader's WAL
          oldest,  \* the first position of which a node still has the WAL
          slot,    \* restart_lsn of the slots of every node
          xmin,    \* those of them with an xmin: the feedback of a standby that used them
          away,    \* history: the time since a leader last saw a member and a slot of it
          faults

dcsVars == <<leader, keys, told, status>>
pgVars == <<wal, oldest, slot, xmin>>
vars == <<from, up, age, away, faults, dcsVars, pgVars>>

-----------------------------------------------------------------------------
(* Which slots a node should have: Cluster.get_replication_slots *)

\* leader_filter and replica_filter: the members that are expected to stream from n
ExpectedActive(n, m) ==
  IF n = leader THEN from[m] = None \/ from[m] = n \/ from[m] \notin keys
  ELSE from[m] = n /\ m # leader

\* _get_members_slots: the other members, of a nofailover node only its own standbys
MemberSlotNames(n) == {m \in keys \ {n} : n \notin NoFailover \/ from[m] = n}

\* ... and what /status retains
RetainedNames(n) == IF n \in NoFailover THEN {} ELSE status.retain \ ({n} \cup MemberSlotNames(n))

SlotNames(n) == MemberSlotNames(n) \cup RetainedNames(n)

\* The position to which a slot that nobody uses is moved; none for a retained name.
FeedbackLsn(n, m) ==
  IF m \notin MemberSlotNames(n) THEN 0
  ELSE IF from[m] # None THEN Max({told[m], status.slots[m], 0})
  ELSE Max({status.slots[m], 0})

\* A slot whose xmin holds back vacuum though nobody is expected to use it is created anew.
Stale(n, m) == m \in MemberSlotNames(n) \cap xmin[n] /\ ~ExpectedActive(n, m)

\* pg_replication_slot_advance stops at what n has; a slot in use is left to its standby.
Advance(n, m) ==
  IF ExpectedActive(n, m) \/ m \in xmin[n] THEN slot[n][m]
  ELSE Max({slot[n][m], Min({FeedbackLsn(n, m), wal[n]})})

\* _ensure_physical_slots: a new slot starts at the last checkpoint, anywhere in the WAL of n.
EnsureSlot(n, m, redo) == IF slot[n][m] = NoSlot \/ Stale(n, m) THEN redo ELSE Advance(n, m)

\* _drop_incorrect_slots
Incorrect(n) == Nodes \ SlotNames(n)

\* sync_replication_slots: drop the slots that should not exist, then create and advance the others
SyncSlots(n) ==
  /\ \E redo \in oldest[n]..wal[n] :
       slot' = [slot EXCEPT ![n] = [m \in Nodes |->
                  IF m \in Incorrect(n) THEN NoSlot ELSE EnsureSlot(n, m, redo)]]
  /\ xmin' = [xmin EXCEPT ![n] = {m \in @ \ Incorrect(n) : ~Stale(n, m)}]

\* A cluster that has been running for a while.
Init ==
  /\ leader \in Nodes \ NoFailover
  /\ from \in [Nodes -> (Nodes \ {leader}) \cup {None}]
  /\ from[leader] = None
  /\ \A m \in Nodes : from[m] # None => from[from[m]] = None
  /\ up = Nodes /\ keys = Nodes
  /\ told = [m \in Nodes |-> 0]
  /\ status = [slots |-> [m \in Nodes |-> 0], retain |-> Nodes]
  /\ age = [m \in Nodes |-> 0]
  /\ wal = [n \in Nodes |-> 0]
  /\ oldest = [n \in Nodes |-> 0]
  /\ slot = [n \in Nodes |-> [m \in Nodes |-> IF m # n /\ n \notin NoFailover THEN 0 ELSE NoSlot]]
  /\ xmin = [n \in Nodes |-> {}]
  /\ away = [m \in Nodes |-> 0]
  /\ faults = 0

-----------------------------------------------------------------------------
(* The leader's /status. *)

\* Postgresql.slots: the leader's slots, and its own position as that of a slot
Published(n) == [slot[n] EXCEPT ![n] = wal[n]]

\* The members that the leader n sees, and that have a slot on it.
Seen(n) == {m \in keys \cup {n} : Published(n)[m] # NoSlot}

\* _build_retain_slots: a name is kept for SlotsTTL after the member was last seen.
Retain(n) ==
  [m \in Nodes |-> IF m \in Seen(n) THEN 0 ELSE IF age[m] >= SlotsTTL THEN NoSlot ELSE age[m]]

\* update_leader: the leader writes /status along with its key.
UpdateStatus(n) ==
  /\ age' = Retain(n)
  /\ status' = [slots |-> Published(n), retain |-> {m \in Nodes : age'[m] # NoSlot}]
  /\ away' = [m \in Nodes |-> IF m \in Seen(n) THEN 0 ELSE away[m]]

\* The node that is promoted is not behind any that runs.  What others have beyond its WAL is lost:
\* they are rewound, and pg_rewind leaves neither slots nor older WAL.
Promote(n) ==
  LET ahead == {m \in Nodes : wal[m] > wal[n]} IN
  /\ leader \notin up /\ n \in up \ NoFailover /\ ahead \cap up = {}
  /\ leader' = n
  /\ wal' = [m \in Nodes |-> IF m \in ahead THEN wal[n] ELSE wal[m]]
  /\ oldest' = [m \in Nodes |-> IF m \in ahead THEN wal[n] ELSE oldest[m]]
  /\ slot' = [m \in Nodes |-> IF m \in ahead THEN NoSlots ELSE slot[m]]
  /\ xmin' = [m \in Nodes |-> IF m \in ahead THEN {} ELSE xmin[m]]
  /\ UNCHANGED <<from, up, away, faults, keys, told, status>>

\* Mutant: the names that the former leader retained are not taken over.
AcquireForgetful(n) == Promote(n) /\ age' = [m \in Nodes |-> NoSlot]

\* acquire_leader_lock: the names the former leader retained start anew.
Acquire(n) == Promote(n) /\ age' = [m \in Nodes |-> IF m \in status.retain THEN 0 ELSE NoSlot]

\* touch_member: the key of the member with its position, which is only read of a cascading one
TouchMember(m) ==
  /\ keys' = keys \cup {m}
  /\ told' = [told EXCEPT ![m] = IF from[m] = None THEN 0 ELSE wal[m]]

\* A cycle of a node works on the view of the cluster that it has loaded first.
Cycle(n) ==
  /\ n \in up
  /\ TouchMember(n)
  /\ \/ n = leader /\ UpdateStatus(n)
     \/ n # leader /\ UNCHANGED <<age, status, away>>
  /\ SyncSlots(n)
  /\ UNCHANGED <<from, up, faults, leader, wal, oldest>>

-----------------------------------------------------------------------------
(* PostgreSQL. *)

Write ==
  /\ leader \in up /\ wal[leader] < MaxLsn
  /\ wal' = [wal EXCEPT ![leader] = @ + 1]
  /\ UNCHANGED <<from, up, age, away, faults, dcsVars, oldest, slot, xmin>>

\* A member streams from the one it replicates from, or from the leader when that one is gone.
Upstream(m) == IF from[m] \in keys THEN from[m] ELSE leader

Stream(m) ==
  LET u == Upstream(m) IN
  /\ m \in up /\ u \in up /\ m # leader /\ u # m
  /\ slot[u][m] # NoSlot
  /\ oldest[u] <= wal[m] /\ wal[m] <= wal[u]
  /\ \E to \in wal[m]..wal[u] :
       /\ wal' = [wal EXCEPT ![m] = to]
       /\ slot' = [slot EXCEPT ![u][m] = to]
  /\ xmin' = [xmin EXCEPT ![u] = IF HotStandbyFeedback THEN @ \cup {m} ELSE @]
  /\ UNCHANGED <<from, up, age, away, faults, dcsVars, oldest>>

\* A checkpoint or restartpoint removes the WAL that no slot holds.
Recycle(n) ==
  /\ n \in up
  /\ oldest' = [oldest EXCEPT ![n] = Max({@, Min({wal[n]} \cup {slot[n][m] : m \in {x \in Nodes : slot[n][x] # NoSlot}})})]
  /\ UNCHANGED <<from, up, age, away, faults, dcsVars, wal, slot, xmin>>

\* A member for which the WAL is gone is copied anew, without slots.
Reinitialize(m) ==
  LET u == Upstream(m) IN
  /\ m \in up /\ u \in up /\ m # leader /\ u # m
  /\ wal[m] < oldest[u]
  /\ wal' = [wal EXCEPT ![m] = wal[u]]
  /\ oldest' = [oldest EXCEPT ![m] = wal[u]]
  /\ slot' = [slot EXCEPT ![m] = NoSlots]
  /\ xmin' = [xmin EXCEPT ![m] = {}]
  /\ UNCHANGED <<from, up, age, away, faults, dcsVars>>

-----------------------------------------------------------------------------
(* Members that go and come. *)

GoAway(m) ==
  /\ m \in up /\ faults < MaxFaults
  /\ up' = up \ {m}
  /\ faults' = faults + 1
  /\ UNCHANGED <<from, age, away, dcsVars, pgVars>>

\* The key outlives its member for longer than a cycle of the leader.
KeyExpires(m) ==
  /\ m \in keys \ up
  /\ leader \in up => age[m] = 0
  /\ keys' = keys \ {m}
  /\ UNCHANGED <<from, up, age, away, faults, leader, told, status, pgVars>>

ComeBack(m) ==
  /\ m \notin up
  /\ up' = up \cup {m}
  /\ keys' = keys \cup {m}
  /\ told' = [told EXCEPT ![m] = IF from[m] = None THEN 0 ELSE wal[m]]
  /\ UNCHANGED <<from, age, away, faults, leader, status, pgVars>>

Older(t) == IF t = NoSlot THEN NoSlot ELSE Min({t + 1, SlotsTTL})

\* Time passes, once the keys of those who are away are gone and somebody leads.
Tick ==
  /\ keys = up /\ leader \in up /\ up # Nodes
  /\ away' = [m \in Nodes |-> Older(away[m])]
  /\ age' = [m \in Nodes |-> Older(age[m])]
  /\ UNCHANGED <<from, up, faults, dcsVars, pgVars>>

Next ==
  \/ Write \/ Tick
  \/ \E n \in Nodes :
       \/ Cycle(n) \/ Acquire(n) \/ Stream(n) \/ Recycle(n)
       \/ Reinitialize(n) \/ GoAway(n) \/ KeyExpires(n) \/ ComeBack(n)

Spec == Init /\ [][Next]_vars

-----------------------------------------------------------------------------
\* Types; a node keeps no slot for itself, and has the WAL that it still holds.
TypeOK ==
  /\ leader \in Nodes /\ up \subseteq Nodes /\ keys \subseteq Nodes
  /\ from \in [Nodes -> Nodes \cup {None}]
  /\ told \in [Nodes -> Lsn] /\ wal \in [Nodes -> Lsn] /\ oldest \in [Nodes -> Lsn]
  /\ slot \in [Nodes -> [Nodes -> Lsn \cup {NoSlot}]]
  /\ status \in [slots : [Nodes -> Lsn \cup {NoSlot}], retain : SUBSET Nodes]
  /\ xmin \in [Nodes -> SUBSET Nodes]
  /\ age \in [Nodes -> -1..SlotsTTL] /\ away \in [Nodes -> 0..SlotsTTL]
  /\ \A n \in Nodes : slot[n][n] = NoSlot /\ oldest[n] <= wal[n]

\* Node n has all the WAL that member m is missing, and a slot that holds it.
Covers(n, m) == slot[n][m] # NoSlot /\ oldest[n] <= slot[n][m] /\ slot[n][m] <= wal[m]

\* What the DCS says of member m is not ahead of it, as it is when m has lost WAL in a failover.
Accurate(m) == told[m] <= wal[m] /\ status.slots[m] <= wal[m]

Expected(m) == m \in keys \/ away[m] < SlotsTTL

\* A member that is away for less than member_slots_ttl finds its WAL: a node that holds what the
\* member is missing does not let go of it, through failovers, expired keys and slots that are moved
\* with what the DCS says, unless its data is replaced, the member loses WAL in a failover, or the
\* slot holds back vacuum and nobody is expected to use it.
WalIsRetained ==
  [][\A n \in (up' \cap up) \ NoFailover, m \in Nodes :
       (Covers(n, m) /\ Expected(m) /\ Accurate(m) /\ ~Stale(n, m))
         => (Covers(n, m)' \/ slot[n]' = NoSlots \/ wal'[m] < wal[m])]_vars
=============================================================================
