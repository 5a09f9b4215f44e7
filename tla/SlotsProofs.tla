---------------------------- MODULE SlotsProofs ----------------------------
(***************************************************************************)
(* What holds of MemberSlots for any members, tags, ttl and number of      *)
(* faults, with hot standby feedback or without: the types, and that a     *)
(* member that is expected back finds its WAL. What holds of LogicalSlots  *)
(* for any slots and number of changes: the copies stay behind their       *)
(* consumers, and the ready ones have their catalog rows.                  *)
(***************************************************************************)
EXTENDS MemberSlots, LogicalSlots, TLAPS, WellFoundedInduction

\* Whom a leader has seen within member_slots_ttl is on the list of /status, and would stay on it for
\* what is left of the ttl if nobody saw it again.
Retained == \A m \in Nodes : away[m] < SlotsTTL => m \in status.retain /\ age[m] \in 0..away[m]

IInv == TypeOK /\ Retained
-----------------------------------------------------------------------------
(* The greatest and the least of some numbers *)

LEMMA GreatestOfTwo ==
  ASSUME NEW a \in Int, NEW b \in Int
  PROVE  Max({a, b}) \in {a, b} /\ Max({a, b}) >= a /\ Max({a, b}) >= b
<1>1. \E x \in {a, b} : \A y \in {a, b} : x >= y
  BY a >= b \/ b >= a
<1>2. Max({a, b}) \in {a, b} /\ \A y \in {a, b} : Max({a, b}) >= y
  BY <1>1 DEF Max
<1>3. QED
  BY <1>2

LEMMA GreatestOfThree ==
  ASSUME NEW a \in Int, NEW b \in Int, NEW c \in Int
  PROVE  Max({a, b, c}) \in {a, b, c} /\ Max({a, b, c}) >= c
<1>1. \E x \in {a, b, c} : \A y \in {a, b, c} : x >= y
  <2>1. CASE a >= b /\ a >= c
    BY <2>1
  <2>2. CASE b >= a /\ b >= c
    BY <2>2
  <2>3. CASE c >= a /\ c >= b
    BY <2>3
  <2>4. QED
    BY <2>1, <2>2, <2>3
<1>2. Max({a, b, c}) \in {a, b, c} /\ \A y \in {a, b, c} : Max({a, b, c}) >= y
  BY <1>1 DEF Max
<1>3. QED
  BY <1>2

Below == {p \in Nat \X Nat : p[1] < p[2]}

LEMMA LeastOf ==
  ASSUME NEW S \in SUBSET Nat, S # {}
  PROVE  Min(S) \in S /\ \A y \in S : Min(S) <= y
<1>1. IsWellFoundedOn(Below, Nat)
  BY NatLessThanWellFounded DEF OpToRel, Below
<1>2. PICK x \in S : \A y \in S : <<y, x>> \notin Below
  BY <1>1, WFMin
<1>3. \A y \in S : y < x => <<y, x>> \in Below
  BY DEF Below
<1>4. ASSUME NEW y \in S PROVE x <= y
  <2>1. <<y, x>> \notin Below
    BY <1>2
  <2>2. y < x => <<y, x>> \in Below
    BY <1>3
  <2>3. ~(y < x)
    BY <2>1, <2>2, Zenon
  <2>4. QED
    BY <2>3
<1>5. QED
  BY <1>4 DEF Min

-----------------------------------------------------------------------------
(* Slots and their positions *)

\* The position that a slot is moved to is one the node has.
LEMMA FeedbackIsLsn ==
  ASSUME TypeOK, NEW n \in Nodes, NEW m \in Nodes
  PROVE  /\ FeedbackLsn(n, m) \in Nat
         /\ Accurate(m) => FeedbackLsn(n, m) <= wal[m]
<1>1. told[m] \in Nat /\ status.slots[m] \in Int /\ wal[m] \in Nat
  BY SlotsAssumption DEF TypeOK, Lsn, NoSlot
<1>2. CASE m \notin MemberSlotNames(n)
  BY <1>1, <1>2 DEF FeedbackLsn
<1>3. CASE m \in MemberSlotNames(n) /\ from[m] # None
  <2>1. FeedbackLsn(n, m) = Max({told[m], status.slots[m], 0})
    BY <1>3 DEF FeedbackLsn
  <2>2. Max({told[m], status.slots[m], 0}) \in {told[m], status.slots[m], 0} /\ Max({told[m], status.slots[m], 0}) >= 0
    BY <1>1, GreatestOfThree
  <2>3. QED
    BY <1>1, <2>1, <2>2 DEF Accurate
<1>4. CASE m \in MemberSlotNames(n) /\ from[m] = None
  <2>1. FeedbackLsn(n, m) = Max({status.slots[m], 0})
    BY <1>4 DEF FeedbackLsn
  <2>2. Max({status.slots[m], 0}) \in {status.slots[m], 0} /\ Max({status.slots[m], 0}) >= 0
    <3> DEFINE s == status.slots[m]
    <3>1. s \in Int /\ 0 \in Int
      BY <1>1
    <3> HIDE DEF s
    <3>2. Max({s, 0}) \in {s, 0} /\ Max({s, 0}) >= 0
      BY <3>1, GreatestOfTwo
    <3>3. QED
      BY <3>2 DEF s
  <2>3. QED
    BY <1>1, <2>1, <2>2 DEF Accurate
<1>5. QED
  BY <1>2, <1>3, <1>4

LEMMA AdvanceIsLsn ==
  ASSUME TypeOK, NEW n \in Nodes, NEW m \in Nodes, slot[n][m] # NoSlot
  PROVE  /\ Advance(n, m) \in Lsn /\ Advance(n, m) >= slot[n][m]
         /\ Accurate(m) /\ slot[n][m] <= wal[m] => Advance(n, m) <= wal[m]
<1> DEFINE to == Min({FeedbackLsn(n, m), wal[n]})
<1>1. slot[n][m] \in Lsn /\ wal[n] \in Lsn /\ wal[m] \in Lsn
  BY DEF TypeOK
<1>2. FeedbackLsn(n, m) \in Nat /\ (Accurate(m) => FeedbackLsn(n, m) <= wal[m])
  BY FeedbackIsLsn
<1>3. to \in Nat /\ to <= FeedbackLsn(n, m) /\ to <= wal[n]
  <2>1. {FeedbackLsn(n, m), wal[n]} \in SUBSET Nat
    BY <1>1, <1>2 DEF Lsn
  <2>2. to \in {FeedbackLsn(n, m), wal[n]} /\ \A y \in {FeedbackLsn(n, m), wal[n]} : to <= y
    BY <2>1, LeastOf
  <2>3. QED
    BY <2>1, <2>2
<1>4. CASE ExpectedActive(n, m) \/ m \in xmin[n]
  BY <1>1, <1>4, SlotsAssumption DEF Advance, Lsn
<1>5. CASE ~(ExpectedActive(n, m) \/ m \in xmin[n])
  <2>1. Advance(n, m) = Max({slot[n][m], to})
    BY <1>5 DEF Advance
  <2> HIDE DEF to
  <2>2. slot[n][m] \in Int /\ to \in Int
    BY <1>1, <1>3 DEF Lsn
  <2>3. Advance(n, m) \in {slot[n][m], to} /\ Advance(n, m) >= slot[n][m]
    BY <2>1, <2>2, GreatestOfTwo
  <2>4. QED
    BY <1>1, <1>2, <1>3, <2>3, SlotsAssumption DEF Lsn
<1>6. QED
  BY <1>4, <1>5

-----------------------------------------------------------------------------
(* Types *)

\* A cycle creates slots at WAL that the node has, moves them forward, and keeps none for the node itself.
LEMMA SlotsAreTyped ==
  ASSUME TypeOK, NEW n \in Nodes, SyncSlots(n)
  PROVE  /\ slot' \in [Nodes -> [Nodes -> Lsn \cup {NoSlot}]]
         /\ xmin' \in [Nodes -> SUBSET Nodes]
         /\ \A x \in Nodes : slot'[x][x] = NoSlot
<1>1. PICK redo \in oldest[n]..wal[n] :
        slot' = [slot EXCEPT ![n] = [m \in Nodes |->
                   IF m \in Incorrect(n) THEN NoSlot ELSE EnsureSlot(n, m, redo)]]
  BY DEF SyncSlots
<1>2. redo \in Lsn
  BY SlotsAssumption DEF TypeOK, Lsn
<1>3. \A m \in Nodes : EnsureSlot(n, m, redo) \in Lsn
  BY <1>2, AdvanceIsLsn DEF EnsureSlot
<1>4. n \in Incorrect(n)
  BY DEF Incorrect, SlotNames, MemberSlotNames, RetainedNames
<1> DEFINE row == [m \in Nodes |-> IF m \in Incorrect(n) THEN NoSlot ELSE EnsureSlot(n, m, redo)]
<1>5. row \in [Nodes -> Lsn \cup {NoSlot}] /\ row[n] = NoSlot
  BY <1>3, <1>4
<1> HIDE DEF row
<1>6. slot' = [slot EXCEPT ![n] = row]
  BY <1>1 DEF row
<1>7. /\ slot' \in [Nodes -> [Nodes -> Lsn \cup {NoSlot}]]
      /\ \A x \in Nodes : slot'[x][x] = NoSlot
  BY <1>5, <1>6 DEF TypeOK
<1>8. xmin' \in [Nodes -> SUBSET Nodes]
  <2> DEFINE rest == {m \in xmin[n] \ Incorrect(n) : ~Stale(n, m)}
  <2>1. rest \subseteq Nodes
    BY DEF TypeOK
  <2>2. xmin' = [xmin EXCEPT ![n] = rest]
    BY DEF SyncSlots
  <2> HIDE DEF rest
  <2>3. QED
    BY <2>1, <2>2 DEF TypeOK
<1>9. QED
  BY <1>7, <1>8

LEMMA OlderIsTyped ==
  ASSUME NEW t \in -1..SlotsTTL
  PROVE  /\ Older(t) \in -1..SlotsTTL
         /\ t \in Nat => Older(t) \in Nat /\ Older(t) = IF t < SlotsTTL THEN t + 1 ELSE SlotsTTL
<1>1. CASE t = -1
  BY <1>1, SlotsAssumption DEF Older, NoSlot
<1>2. CASE t # -1
  <2>1. t \in Nat /\ t <= SlotsTTL /\ {t + 1, SlotsTTL} \in SUBSET Nat
    BY <1>2, SlotsAssumption
  <2>2. /\ Min({t + 1, SlotsTTL}) \in {t + 1, SlotsTTL}
        /\ \A y \in {t + 1, SlotsTTL} : Min({t + 1, SlotsTTL}) <= y
    BY <2>1, LeastOf
  <2>3. Older(t) = Min({t + 1, SlotsTTL})
    BY <1>2 DEF Older, NoSlot
  <2>4. QED
    BY <2>1, <2>2, <2>3, SlotsAssumption
<1>3. QED
  BY <1>1, <1>2

\* What a checkpoint keeps reaches back to every slot.
LEMMA RecycledIsTyped ==
  ASSUME TypeOK, NEW n \in Nodes
  PROVE  LET kept == {wal[n]} \cup {slot[n][m] : m \in {x \in Nodes : slot[n][x] # NoSlot}}
         IN /\ Max({oldest[n], Min(kept)}) \in Lsn
            /\ Max({oldest[n], Min(kept)}) <= wal[n]
            /\ \A m \in Nodes : oldest[n] <= slot[n][m] => Max({oldest[n], Min(kept)}) <= slot[n][m]
<1> DEFINE kept == {wal[n]} \cup {slot[n][m] : m \in {x \in Nodes : slot[n][x] # NoSlot}}
           low == Min(kept)
<1>1. kept \in SUBSET Nat
  BY SlotsAssumption DEF TypeOK, Lsn
<1>2. wal[n] \in kept /\ \A m \in Nodes : slot[n][m] # NoSlot => slot[n][m] \in kept
  OBVIOUS
<1> HIDE DEF kept
<1>3. low \in Nat /\ \A y \in kept : low <= y
  BY <1>1, <1>2, LeastOf
<1> HIDE DEF low
<1>4. oldest[n] \in Lsn /\ wal[n] \in Lsn /\ oldest[n] <= wal[n]
  BY DEF TypeOK
<1>5. Max({oldest[n], low}) \in {oldest[n], low}
  <2>1. oldest[n] \in Int /\ low \in Int
    BY <1>3, <1>4 DEF Lsn
  <2>2. QED
    BY <2>1, GreatestOfTwo
<1>6. low <= wal[n]
  BY <1>2, <1>3
<1>7. Max({oldest[n], low}) \in Lsn /\ Max({oldest[n], low}) <= wal[n]
  BY <1>3, <1>4, <1>5, <1>6, SlotsAssumption DEF Lsn
<1>8. ASSUME NEW m \in Nodes, oldest[n] <= slot[n][m] PROVE Max({oldest[n], low}) <= slot[n][m]
  <2>1. slot[n][m] # NoSlot
    BY <1>4, <1>8 DEF Lsn, NoSlot
  <2>2. low <= slot[n][m]
    BY <1>2, <1>3, <2>1
  <2>3. QED
    BY <1>5, <1>8, <2>2
<1>9. QED
  BY <1>7, <1>8 DEF kept, low

LEMMA InitIsTyped ==
  ASSUME Init
  PROVE  TypeOK
<1>1. 0 \in Lsn /\ 0 \in 0..SlotsTTL /\ 0 \in -1..SlotsTTL
  BY SlotsAssumption DEF Lsn
<1>2. slot \in [Nodes -> [Nodes -> Lsn \cup {NoSlot}]] /\ \A n \in Nodes : slot[n][n] = NoSlot
  BY <1>1 DEF Init
<1>3. status \in [slots : [Nodes -> Lsn \cup {NoSlot}], retain : SUBSET Nodes]
  BY <1>1 DEF Init
<1>4. from \in [Nodes -> Nodes \cup {None}]
  BY DEF Init
<1>5. QED
  BY <1>1, <1>2, <1>3, <1>4 DEF Init, TypeOK

LEMMA CycleIsTyped ==
  ASSUME TypeOK, NEW n \in Nodes, Cycle(n)
  PROVE  TypeOK'
<1>1. /\ slot' \in [Nodes -> [Nodes -> Lsn \cup {NoSlot}]] /\ xmin' \in [Nodes -> SUBSET Nodes]
      /\ \A x \in Nodes : slot'[x][x] = NoSlot
  BY SlotsAreTyped DEF Cycle
<1>2. keys' \subseteq Nodes /\ told' \in [Nodes -> Lsn]
  <2>1. 0 \in Lsn
    BY SlotsAssumption DEF Lsn
  <2>2. QED
    BY <2>1 DEF Cycle, TouchMember, TypeOK
<1>3. /\ age' \in [Nodes -> -1..SlotsTTL] /\ away' \in [Nodes -> 0..SlotsTTL]
      /\ status' \in [slots : [Nodes -> Lsn \cup {NoSlot}], retain : SUBSET Nodes]
  <2>1. CASE UpdateStatus(n)
    <3>1. age' \in [Nodes -> -1..SlotsTTL] /\ away' \in [Nodes -> 0..SlotsTTL]
      BY <2>1, SlotsAssumption DEF UpdateStatus, Retain, TypeOK, NoSlot
    <3>2. Published(n) \in [Nodes -> Lsn \cup {NoSlot}]
      BY DEF Published, TypeOK
    <3>3. QED
      BY <2>1, <3>1, <3>2 DEF UpdateStatus
  <2>2. CASE UNCHANGED <<age, status, away>>
    BY <2>2 DEF TypeOK
  <2>3. QED
    BY <2>1, <2>2 DEF Cycle
<1>4. UNCHANGED <<from, up, leader, wal, oldest>>
  BY DEF Cycle
<1>5. QED
  BY <1>1, <1>2, <1>3, <1>4 DEF TypeOK

LEMMA PromoteIsTyped ==
  ASSUME TypeOK, NEW n \in Nodes, Acquire(n)
  PROVE  TypeOK'
<1>1. leader' \in Nodes /\ up' = up /\ keys' = keys /\ from' = from /\ told' = told /\ status' = status
  BY DEF Acquire, Promote
<1>2. away' = away /\ age' \in [Nodes -> -1..SlotsTTL]
  BY SlotsAssumption DEF Acquire, Promote, NoSlot
<1>3. wal' \in [Nodes -> Lsn] /\ oldest' \in [Nodes -> Lsn] /\ \A x \in Nodes : oldest'[x] <= wal'[x]
  BY SlotsAssumption DEF Acquire, Promote, TypeOK, Lsn
<1>4. NoSlots \in [Nodes -> Lsn \cup {NoSlot}] /\ \A x \in Nodes : NoSlots[x] = NoSlot
  BY DEF NoSlots
<1>5. /\ slot' \in [Nodes -> [Nodes -> Lsn \cup {NoSlot}]] /\ xmin' \in [Nodes -> SUBSET Nodes]
      /\ \A x \in Nodes : slot'[x][x] = NoSlot
  BY <1>4 DEF Acquire, Promote, TypeOK
<1>6. QED
  BY <1>1, <1>2, <1>3, <1>5 DEF TypeOK

LEMMA StreamIsTyped ==
  ASSUME TypeOK, NEW m \in Nodes, Stream(m)
  PROVE  TypeOK'
<1> DEFINE u == Upstream(m)
<1>1. u \in Nodes /\ u # m
  BY DEF Stream, TypeOK
<1>2. PICK to \in wal[m]..wal[u] : wal' = [wal EXCEPT ![m] = to] /\ slot' = [slot EXCEPT ![u][m] = to]
  BY DEF Stream
<1> HIDE DEF u
<1>3. to \in Lsn /\ wal[m] <= to
  BY <1>1, SlotsAssumption DEF TypeOK, Lsn
<1>4. wal' \in [Nodes -> Lsn] /\ \A x \in Nodes : oldest[x] <= wal'[x]
  BY <1>2, <1>3, SlotsAssumption DEF TypeOK, Lsn
<1>5. slot' \in [Nodes -> [Nodes -> Lsn \cup {NoSlot}]] /\ \A x \in Nodes : slot'[x][x] = NoSlot
  BY <1>1, <1>2, <1>3 DEF TypeOK
<1>6. xmin' \in [Nodes -> SUBSET Nodes]
  BY <1>1 DEF Stream, TypeOK
<1>7. UNCHANGED <<from, up, age, away, dcsVars, oldest>>
  BY DEF Stream
<1>8. QED
  BY <1>4, <1>5, <1>6, <1>7 DEF TypeOK, dcsVars

LEMMA RecycleIsTyped ==
  ASSUME TypeOK, NEW n \in Nodes, Recycle(n)
  PROVE  TypeOK'
<1> DEFINE kept == {wal[n]} \cup {slot[n][m] : m \in {x \in Nodes : slot[n][x] # NoSlot}}
           low == Max({oldest[n], Min(kept)})
<1>1. low \in Lsn /\ low <= wal[n]
  BY RecycledIsTyped
<1>2. oldest' = [oldest EXCEPT ![n] = low]
  BY DEF Recycle
<1> HIDE DEF low
<1>3. oldest' \in [Nodes -> Lsn] /\ \A x \in Nodes : oldest'[x] <= wal[x]
  BY <1>1, <1>2 DEF TypeOK
<1>4. UNCHANGED <<from, up, age, away, dcsVars, wal, slot, xmin>>
  BY DEF Recycle
<1>5. QED
  BY <1>3, <1>4 DEF TypeOK, dcsVars

LEMMA ReinitializeIsTyped ==
  ASSUME TypeOK, NEW m \in Nodes, Reinitialize(m)
  PROVE  TypeOK'
<1>1. Upstream(m) \in Nodes
  BY DEF Reinitialize, TypeOK
<1>2. wal' \in [Nodes -> Lsn] /\ oldest' \in [Nodes -> Lsn] /\ \A x \in Nodes : oldest'[x] <= wal'[x]
  BY <1>1, SlotsAssumption DEF Reinitialize, TypeOK, Lsn
<1>3. NoSlots \in [Nodes -> Lsn \cup {NoSlot}] /\ NoSlots[m] = NoSlot
  BY DEF NoSlots
<1>4. slot' \in [Nodes -> [Nodes -> Lsn \cup {NoSlot}]] /\ \A x \in Nodes : slot'[x][x] = NoSlot
  BY <1>3 DEF Reinitialize, TypeOK
<1>5. xmin' \in [Nodes -> SUBSET Nodes]
  BY DEF Reinitialize, TypeOK
<1>6. UNCHANGED <<from, up, age, away, dcsVars>>
  BY DEF Reinitialize
<1>7. QED
  BY <1>2, <1>4, <1>5, <1>6 DEF TypeOK, dcsVars

LEMMA TickIsTyped ==
  ASSUME TypeOK, Tick
  PROVE  TypeOK'
<1>1. \A m \in Nodes : Older(age[m]) \in -1..SlotsTTL
  BY OlderIsTyped DEF TypeOK
<1>2. \A m \in Nodes : Older(away[m]) \in 0..SlotsTTL
  <2>1. \A m \in Nodes : away[m] \in -1..SlotsTTL /\ away[m] \in Nat
    BY SlotsAssumption DEF TypeOK
  <2>2. \A m \in Nodes : Older(away[m]) \in -1..SlotsTTL /\ Older(away[m]) \in Nat
    BY <2>1, OlderIsTyped
  <2>3. QED
    BY <2>2
<1>3. age' \in [Nodes -> -1..SlotsTTL] /\ away' \in [Nodes -> 0..SlotsTTL]
  BY <1>1, <1>2 DEF Tick
<1>4. UNCHANGED <<from, up, dcsVars, pgVars>>
  BY DEF Tick
<1>5. QED
  BY <1>3, <1>4 DEF TypeOK, dcsVars, pgVars

LEMMA TypeStep ==
  ASSUME TypeOK, [Next]_vars
  PROVE  TypeOK'
<1>1. CASE Write
  <2>1. wal' \in [Nodes -> Lsn] /\ \A n \in Nodes : wal[n] <= wal'[n]
    BY <1>1, SlotsAssumption DEF Write, TypeOK, Lsn
  <2>2. UNCHANGED <<from, up, age, away, dcsVars, oldest, slot, xmin>>
    BY <1>1 DEF Write
  <2>3. \A n \in Nodes : oldest[n] <= wal'[n]
    BY <2>1, SlotsAssumption DEF TypeOK, Lsn
  <2>4. QED
    BY <2>1, <2>2, <2>3 DEF TypeOK, dcsVars
<1>2. CASE Tick
  BY <1>2, TickIsTyped
<1>3. ASSUME NEW n \in Nodes, GoAway(n) PROVE TypeOK'
  BY <1>3 DEF GoAway, TypeOK, dcsVars, pgVars
<1>4. ASSUME NEW n \in Nodes, KeyExpires(n) PROVE TypeOK'
  BY <1>4 DEF KeyExpires, TypeOK, pgVars
<1>5. ASSUME NEW n \in Nodes, ComeBack(n) PROVE TypeOK'
  <2>1. told' \in [Nodes -> Lsn]
    BY <1>5, SlotsAssumption DEF ComeBack, TypeOK, Lsn
  <2>2. up' \subseteq Nodes /\ keys' \subseteq Nodes
    BY <1>5 DEF ComeBack, TypeOK
  <2>3. UNCHANGED <<from, age, away, leader, status, pgVars>>
    BY <1>5 DEF ComeBack
  <2>4. QED
    BY <2>1, <2>2, <2>3 DEF TypeOK, pgVars
<1>6. CASE UNCHANGED vars
  BY <1>6 DEF vars, dcsVars, pgVars, TypeOK
<1>7. QED
  BY <1>1, <1>2, <1>3, <1>4, <1>5, <1>6, CycleIsTyped, PromoteIsTyped, StreamIsTyped, RecycleIsTyped,
     ReinitializeIsTyped DEF Next

\* The values; a node never keeps a slot for itself and never loses the WAL at its own position.
THEOREM TypeCorrect == Spec => []TypeOK
<1>1. Init => TypeOK
  BY InitIsTyped
<1>2. TypeOK /\ [Next]_vars => TypeOK'
  BY TypeStep
<1>3. QED
  BY <1>1, <1>2, PTL DEF Spec

-----------------------------------------------------------------------------
(* The list of /status *)

LEMMA UpdateKeepsNames ==
  ASSUME TypeOK, Retained, NEW n \in Nodes, UpdateStatus(n)
  PROVE  Retained'
<1> SUFFICES ASSUME NEW m \in Nodes, away'[m] < SlotsTTL
             PROVE  m \in status'.retain /\ age'[m] \in 0..away'[m]
  BY DEF Retained
<1>1. /\ age'[m] = IF m \in Seen(n) THEN 0 ELSE IF age[m] >= SlotsTTL THEN NoSlot ELSE age[m]
      /\ away'[m] = IF m \in Seen(n) THEN 0 ELSE away[m]
      /\ m \in status'.retain <=> age'[m] # NoSlot
  BY DEF UpdateStatus, Retain
<1>2. age[m] \in Int /\ away[m] \in Int
  BY SlotsAssumption DEF TypeOK
<1>3. CASE m \in Seen(n)
  BY <1>1, <1>3 DEF NoSlot
<1>4. CASE m \notin Seen(n)
  <2>1. away[m] < SlotsTTL /\ away'[m] = away[m]
    BY <1>1, <1>4
  <2>2. age[m] \in 0..away[m]
    BY <2>1 DEF Retained
  <2>3. age'[m] = age[m]
    BY <1>1, <1>2, <1>4, <2>1, <2>2, SlotsAssumption
  <2>4. QED
    BY <1>1, <1>2, <2>1, <2>2, <2>3 DEF NoSlot
<1>5. QED
  BY <1>3, <1>4

LEMMA TickKeepsNames ==
  ASSUME TypeOK, Retained, Tick
  PROVE  Retained'
<1> SUFFICES ASSUME NEW m \in Nodes, away'[m] < SlotsTTL
             PROVE  m \in status'.retain /\ age'[m] \in 0..away'[m]
  BY DEF Retained
<1>1. away'[m] = Older(away[m]) /\ age'[m] = Older(age[m]) /\ status' = status
  BY DEF Tick, dcsVars
<1>2. away[m] \in Nat /\ away[m] \in -1..SlotsTTL /\ age[m] \in -1..SlotsTTL
  BY SlotsAssumption DEF TypeOK
<1>3. Older(away[m]) = IF away[m] < SlotsTTL THEN away[m] + 1 ELSE SlotsTTL
  BY <1>2, OlderIsTyped
<1>4. away[m] < SlotsTTL /\ away'[m] = away[m] + 1
  BY <1>1, <1>2, <1>3, SlotsAssumption
<1>5. m \in status.retain /\ age[m] \in Nat /\ age[m] <= away[m]
  BY <1>2, <1>4 DEF Retained
<1>6. Older(age[m]) = IF age[m] < SlotsTTL THEN age[m] + 1 ELSE SlotsTTL
  BY <1>2, <1>5, OlderIsTyped
<1>7. age'[m] = age[m] + 1
  BY <1>1, <1>2, <1>4, <1>5, <1>6, SlotsAssumption
<1>8. QED
  BY <1>1, <1>2, <1>4, <1>5, <1>7

LEMMA NamesAreKept ==
  ASSUME TypeOK, Retained, [Next]_vars
  PROVE  Retained'
<1>1. ASSUME UNCHANGED <<age, away, status>> PROVE Retained'
  BY <1>1 DEF Retained
<1>2. ASSUME NEW n \in Nodes, Cycle(n) PROVE Retained'
  BY <1>1, <1>2, UpdateKeepsNames DEF Cycle
<1>3. ASSUME NEW n \in Nodes, Acquire(n) PROVE Retained'
  <2>1. age' = [m \in Nodes |-> IF m \in status.retain THEN 0 ELSE NoSlot] /\ UNCHANGED <<away, status>>
    BY <1>3 DEF Acquire, Promote
  <2>2. \A m \in Nodes : away[m] \in Nat
    BY SlotsAssumption DEF TypeOK
  <2>3. QED
    BY <2>1, <2>2 DEF Retained
<1>4. CASE Tick
  BY <1>4, TickKeepsNames
<1>5. CASE Write
  BY <1>1, <1>5 DEF Write, dcsVars
<1>6. ASSUME NEW n \in Nodes,
             Stream(n) \/ Recycle(n) \/ Reinitialize(n) \/ GoAway(n) \/ KeyExpires(n) \/ ComeBack(n)
      PROVE  Retained'
  BY <1>1, <1>6 DEF Stream, Recycle, Reinitialize, GoAway, KeyExpires, ComeBack, dcsVars
<1>7. CASE UNCHANGED vars
  BY <1>1, <1>7 DEF vars, dcsVars
<1>8. QED
  BY <1>2, <1>3, <1>4, <1>5, <1>6, <1>7 DEF Next

LEMMA Invariant == Spec => []IInv
<1>1. Init => IInv
  <2>1. ASSUME Init PROVE Retained
    BY <2>1 DEF Init, Retained
  <2>2. QED
    BY <2>1, InitIsTyped DEF IInv
<1>2. IInv /\ [Next]_vars => IInv'
  BY TypeStep, NamesAreKept DEF IInv
<1>3. QED
  BY <1>1, <1>2, PTL DEF Spec

-----------------------------------------------------------------------------
(* WAL *)

\* A step that leaves the slot of m on n and the WAL it holds as they are.
LEMMA CoversStays ==
  ASSUME NEW n \in Nodes, NEW m \in Nodes, Covers(n, m), TypeOK, TypeOK',
         slot'[n][m] = slot[n][m], oldest'[n] <= slot[n][m], wal[m] <= wal'[m]
  PROVE  Covers(n, m)'
<1>1. oldest[n] \in Int /\ oldest'[n] \in Int /\ wal[m] \in Int /\ wal'[m] \in Int
  BY SlotsAssumption DEF TypeOK, Lsn
<1>2. slot[n][m] \in Int
  BY SlotsAssumption DEF TypeOK, Lsn, NoSlot
<1>3. QED
  BY <1>1, <1>2 DEF Covers

\* The cycle of n keeps the slot of a member that is expected back.
LEMMA CycleKeeps ==
  ASSUME IInv, NEW n \in Nodes \ NoFailover, NEW m \in Nodes, Cycle(n),
         Covers(n, m), Expected(m), Accurate(m), ~Stale(n, m)
  PROVE  Covers(n, m)'
<1>1. n # m
  BY DEF Covers, IInv, TypeOK
<1>2. m \notin Incorrect(n)
  <2>1. m \in keys \/ m \in status.retain
    BY DEF Expected, IInv, Retained
  <2>2. QED
    BY <1>1, <2>1 DEF Incorrect, SlotNames, MemberSlotNames, RetainedNames
<1>3. slot'[n][m] = Advance(n, m)
  <2>1. PICK redo \in oldest[n]..wal[n] :
          slot' = [slot EXCEPT ![n] = [x \in Nodes |->
                     IF x \in Incorrect(n) THEN NoSlot ELSE EnsureSlot(n, x, redo)]]
    BY DEF Cycle, SyncSlots
  <2>2. slot'[n][m] = EnsureSlot(n, m, redo)
    BY <1>2, <2>1 DEF IInv, TypeOK
  <2>3. QED
    BY <2>2 DEF EnsureSlot, Covers
<1>4. /\ Advance(n, m) \in Lsn /\ Advance(n, m) >= slot[n][m] /\ Advance(n, m) <= wal[m]
  BY AdvanceIsLsn DEF Covers, IInv
<1>5. slot[n][m] \in Int /\ oldest[n] \in Int /\ oldest[n] <= slot[n][m]
  BY SlotsAssumption DEF Covers, IInv, TypeOK, Lsn, NoSlot
<1>6. wal' = wal /\ oldest' = oldest
  BY DEF Cycle
<1>7. slot'[n][m] # NoSlot /\ oldest[n] <= slot'[n][m]
  BY <1>3, <1>4, <1>5, SlotsAssumption DEF Lsn, NoSlot
<1>8. QED
  BY <1>3, <1>4, <1>6, <1>7 DEF Covers

LEMMA StreamKeeps ==
  ASSUME TypeOK, TypeOK', NEW n \in Nodes, NEW m \in Nodes, NEW x \in Nodes, Stream(x), Covers(n, m)
  PROVE  Covers(n, m)'
<1> DEFINE u == Upstream(x)
<1>1. u \in Nodes /\ oldest[u] <= wal[x] /\ oldest' = oldest
  BY DEF Stream, TypeOK
<1>2. PICK to \in wal[x]..wal[u] : wal' = [wal EXCEPT ![x] = to] /\ slot' = [slot EXCEPT ![u][x] = to]
  BY DEF Stream
<1> HIDE DEF u
<1>3. /\ to \in Int /\ wal[x] <= to /\ to # NoSlot
      /\ \A y \in Nodes : wal[y] \in Int /\ oldest[y] \in Int /\ slot[n][m] \in Int
  BY <1>1, SlotsAssumption DEF TypeOK, Lsn, NoSlot
<1>4. CASE u = n /\ x = m
  <2>1. slot'[n][m] = to /\ wal'[m] = to
    BY <1>2, <1>4 DEF TypeOK
  <2>2. oldest[n] <= to
    BY <1>1, <1>3, <1>4
  <2>3. QED
    BY <1>1, <1>3, <2>1, <2>2 DEF Covers
<1>5. CASE ~(u = n /\ x = m)
  <2>1. slot'[n][m] = slot[n][m]
    BY <1>1, <1>2, <1>5 DEF TypeOK
  <2>2. wal[m] <= wal'[m]
    BY <1>2, <1>3 DEF TypeOK
  <2>3. QED
    BY <1>1, <2>1, <2>2, CoversStays DEF Covers
<1>6. QED
  BY <1>4, <1>5

LEMMA RecycleKeeps ==
  ASSUME TypeOK, TypeOK', NEW n \in Nodes, NEW m \in Nodes, NEW x \in Nodes, Recycle(x), Covers(n, m)
  PROVE  Covers(n, m)'
<1> DEFINE kept == {wal[x]} \cup {slot[x][y] : y \in {z \in Nodes : slot[x][z] # NoSlot}}
           low == Max({oldest[x], Min(kept)})
<1>1. \A y \in Nodes : oldest[x] <= slot[x][y] => low <= slot[x][y]
  BY RecycledIsTyped
<1>2. oldest' = [oldest EXCEPT ![x] = low] /\ slot' = slot /\ wal' = wal
  BY DEF Recycle
<1> HIDE DEF low
<1>3. oldest'[n] <= slot[n][m]
  BY <1>1, <1>2 DEF Covers, TypeOK
<1>4. wal[m] <= wal'[m]
  BY <1>2, SlotsAssumption DEF TypeOK, Lsn
<1>5. QED
  BY <1>2, <1>3, <1>4, CoversStays

LEMMA ReinitializeKeeps ==
  ASSUME TypeOK, TypeOK', NEW n \in Nodes, NEW m \in Nodes, NEW x \in Nodes, Reinitialize(x), Covers(n, m)
  PROVE  Covers(n, m)' \/ slot'[n] = NoSlots
<1>1. CASE x = n
  BY <1>1 DEF Reinitialize, TypeOK
<1>2. CASE x # n
  <2>1. slot'[n][m] = slot[n][m] /\ oldest'[n] = oldest[n]
    BY <1>2 DEF Reinitialize, TypeOK
  <2>2. wal[m] <= wal'[m]
    <3>1. Upstream(x) \in Nodes
      BY DEF Reinitialize, TypeOK
    <3>2. wal[x] < oldest[Upstream(x)] /\ oldest[Upstream(x)] <= wal[Upstream(x)]
      BY <3>1 DEF Reinitialize, TypeOK
    <3>3. \A y \in Nodes : wal[y] \in Int /\ oldest[y] \in Int
      BY SlotsAssumption DEF TypeOK, Lsn
    <3>4. wal[x] <= wal[Upstream(x)]
      BY <3>1, <3>2, <3>3
    <3>5. wal' = [wal EXCEPT ![x] = wal[Upstream(x)]]
      BY DEF Reinitialize
    <3>6. QED
      BY <3>3, <3>4, <3>5 DEF TypeOK
  <2>3. QED
    BY <2>1, <2>2, CoversStays DEF Covers
<1>3. QED
  BY <1>1, <1>2

\* Nothing that runs is ahead of the node that is promoted.
LEMMA PromoteKeeps ==
  ASSUME TypeOK, TypeOK', NEW n \in up, NEW m \in Nodes, NEW x \in Nodes, Promote(x), Covers(n, m)
  PROVE  Covers(n, m)' \/ wal'[m] < wal[m]
<1>1. n \in Nodes /\ \A y \in Nodes : wal[y] \in Int
  BY SlotsAssumption DEF TypeOK, Lsn
<1>2. ~(wal[n] > wal[x])
  BY <1>1 DEF Promote
<1>3. slot'[n][m] = slot[n][m] /\ oldest'[n] = oldest[n]
  BY <1>1, <1>2 DEF Promote
<1>4. CASE wal[m] > wal[x]
  <2>1. wal'[m] = wal[x]
    BY <1>4 DEF Promote
  <2>2. QED
    BY <1>1, <1>4, <2>1
<1>5. CASE ~(wal[m] > wal[x])
  <2>1. wal'[m] = wal[m]
    BY <1>5 DEF Promote
  <2>2. QED
    BY <1>1, <1>3, <2>1, CoversStays DEF Covers
<1>6. QED
  BY <1>4, <1>5

LEMMA StepKeeps ==
  ASSUME IInv, IInv', [Next]_vars, NEW n \in (up' \cap up) \ NoFailover, NEW m \in Nodes,
         Covers(n, m), Expected(m), Accurate(m), ~Stale(n, m)
  PROVE  Covers(n, m)' \/ slot'[n] = NoSlots \/ wal'[m] < wal[m]
<1>1. n \in Nodes /\ TypeOK /\ TypeOK'
  BY DEF IInv, TypeOK
<1>2. \A y \in Nodes : wal[y] \in Int
  BY <1>1, SlotsAssumption DEF TypeOK, Lsn
<1>3. ASSUME slot' = slot, oldest' = oldest, wal[m] <= wal'[m] PROVE Covers(n, m)'
  BY <1>1, <1>3, CoversStays DEF Covers
<1>4. CASE Write
  BY <1>1, <1>2, <1>3, <1>4 DEF Write, TypeOK
<1>5. CASE Tick
  BY <1>2, <1>3, <1>5 DEF Tick, pgVars
<1>6. ASSUME NEW x \in Nodes, GoAway(x) \/ KeyExpires(x) \/ ComeBack(x) PROVE Covers(n, m)'
  BY <1>2, <1>3, <1>6 DEF GoAway, KeyExpires, ComeBack, pgVars
<1>7. ASSUME NEW x \in Nodes, Cycle(x) PROVE Covers(n, m)'
  <2>1. CASE x = n
    BY <1>1, <1>7, <2>1, CycleKeeps
  <2>2. CASE x # n
    <3>1. slot'[n] = slot[n] /\ oldest' = oldest /\ wal' = wal
      BY <1>1, <1>7, <2>2 DEF Cycle, SyncSlots, TypeOK
    <3>2. QED
      BY <1>1, <1>2, <3>1, CoversStays DEF Covers
  <2>3. QED
    BY <2>1, <2>2
<1>8. ASSUME NEW x \in Nodes, Acquire(x) PROVE Covers(n, m)' \/ wal'[m] < wal[m]
  BY <1>1, <1>8, PromoteKeeps DEF Acquire
<1>9. ASSUME NEW x \in Nodes, Stream(x) \/ Recycle(x) PROVE Covers(n, m)'
  BY <1>1, <1>9, StreamKeeps, RecycleKeeps
<1>10. ASSUME NEW x \in Nodes, Reinitialize(x) PROVE Covers(n, m)' \/ slot'[n] = NoSlots
  BY <1>1, <1>10, ReinitializeKeeps
<1>11. CASE UNCHANGED vars
  BY <1>2, <1>3, <1>11 DEF vars, pgVars
<1>12. QED
  BY <1>4, <1>5, <1>6, <1>7, <1>8, <1>9, <1>10, <1>11 DEF Next

\* A member that is away for less than member_slots_ttl finds its WAL on the nodes that held it
\* (_build_retain_slots, sync_replication_slots).
THEOREM AbsentMemberFindsItsWal == Spec => WalIsRetained
<1> DEFINE Kept == \A n \in (up' \cap up) \ NoFailover, m \in Nodes :
                     (Covers(n, m) /\ Expected(m) /\ Accurate(m) /\ ~Stale(n, m))
                       => (Covers(n, m)' \/ slot[n]' = NoSlots \/ wal'[m] < wal[m])
<1>1. IInv /\ IInv' /\ [Next]_vars => Kept
  BY StepKeeps
<1>2. IInv /\ IInv' /\ [Next]_vars => [Kept]_vars
  BY <1>1
<1>3. Spec => [][Kept]_vars
  BY <1>2, Invariant, PTL DEF Spec
<1>4. QED
  BY <1>3 DEF WalIsRetained
-----------------------------------------------------------------------------
(* Logical slots *)

Types ==
  /\ config \in SUBSET Slots /\ copySlots \in SUBSET Slots
  /\ walEnd \in Nat \ {0} /\ vacuumed \in Nat /\ replay \in Nat /\ feedback \in Nat
  /\ published \in [Slots -> Nat] /\ primary \in [Slots -> Nat]
  /\ standby \in [Slots -> Nat] /\ scheduled \in [Slots -> Nat]
  /\ queue \in [Slots -> Nat \cup {Unknown, NotQueued}]
  /\ advancing = <<>> \/ advancing \in Slots \X Nat
  /\ task \in [step : {"idle", "read", "stop", "write"}, slots : [Slots -> Nat]]
  /\ running \in BOOLEAN /\ reported \in BOOLEAN /\ force \in BOOLEAN

\* No further than the primary, nor than its slot where it has one.
Upto(v, l) == v <= walEnd /\ (primary[l] # NoPos => v <= primary[l])

\* Every position on its way to a copy is one the consumer on the primary has confirmed: what
\* /status says, what the thread is to advance to, what it is advancing to, the files to be copied.
Behind ==
  /\ replay <= walEnd
  /\ \A l \in Slots :
       /\ primary[l] <= walEnd
       /\ Upto(published[l], l)
       /\ Upto(standby[l], l)
       /\ Upto(scheduled[l], l)
       /\ Upto(task.slots[l], l)
       /\ scheduled[l] <= replay
  /\ advancing # <<>> => Upto(advancing[2], advancing[1]) /\ advancing[2] <= replay

\* A replica that has reported since it started holds the primary back for each of its copies.
Told ==
  \A l \in Slots : reported /\ standby[l] # NoPos =>
    feedback # NoPos /\ feedback <= standby[l]

\* The primary keeps the rows its own slots need.
Kept == vacuumed <= walEnd /\ \A l \in Slots : primary[l] # NoPos => vacuumed <= primary[l]

\* Once the copies have been checked, one off the queue has its rows, and one on it is sure of them
\* when it is found ready: the primary has vacuumed no further than the larger of the position it
\* was queued with and the feedback, and neither is beyond a ready copy.
Checked ==
  /\ force \/ reported
  /\ \A l \in Slots : standby[l] # NoPos /\ ~force =>
     /\ queue[l] = NotQueued => vacuumed <= standby[l]
     /\ queue[l] \in Nat => vacuumed <= queue[l] \/ vacuumed <= feedback

LogicalInv == Types /\ Behind
Rows == Told /\ Kept /\ Checked

\* What belongs to the replica: no step of the primary changes it.
Replica == <<replicaVars, threadVars, force, queue, task, promoted, threadFaults>>

LEMMA LogicalStart ==
  ASSUME LogicalInit
  PROVE  LogicalInv /\ Rows
<1>1. Types
  BY DEF LogicalInit, Types, Nothing, Idle, NoPos, NotQueued
<1>2. Behind
  BY DEF LogicalInit, Behind, Upto, Nothing, Idle, NoPos
<1>3. Told /\ Kept /\ Checked
  BY DEF LogicalInit, Told, Kept, Checked, Nothing, NoPos
<1>4. QED
  BY <1>1, <1>2, <1>3 DEF Rows, LogicalInv

LEMMA Horizon ==
  ASSUME Types, Vacuum, Kept, \A l \in Slots : primary[l] <= walEnd
  PROVE  /\ vacuumed' \in Nat /\ vacuumed' <= walEnd
         /\ \A l \in Slots : primary[l] # NoPos => vacuumed' <= primary[l]
         /\ feedback # NoPos => vacuumed' <= feedback
<1> DEFINE S == {walEnd} \cup {primary[l] : l \in Have(primary)} \cup
             ({feedback} \ {NoPos})
<1>1. S \in SUBSET Nat /\ walEnd \in S
  BY DEF Types, Have
<1>2. Min(S) \in S /\ \A y \in S : Min(S) <= y
  BY <1>1, LeastOf
<1>3. vacuumed' = Min(S)
  BY DEF Vacuum
<1>4. \A l \in Slots : primary[l] # NoPos => primary[l] \in S
  BY DEF Have
<1>5. feedback # NoPos => feedback \in S
  OBVIOUS
<1> HIDE DEF S
<1>6. QED
  BY <1>1, <1>2, <1>3, <1>4, <1>5

LEMMA PrimaryBehind ==
  ASSUME LogicalInv, WriteWal \/ Vacuum \/ PrimaryCycle \/
         \E l \in Slots : Consume(l) \/ Configure(l)
  PROVE  LogicalInv'
<1> USE DEF LogicalInv
<1>0. UNCHANGED Replica
  BY DEF Replica, WriteWal, Vacuum, PrimaryCycle, Consume,
     Configure
<1>1. CASE WriteWal
  <2>1. walEnd' = walEnd + 1 /\ UNCHANGED <<config, published, primary, vacuumed>>
    BY <1>1 DEF WriteWal
  <2>2. \A l \in Slots, v \in Nat : Upto(v, l) => Upto(v, l)'
    BY <2>1 DEF Upto, Types
  <2>3. Types'
    BY <1>0, <2>1 DEF Types, Replica, replicaVars, threadVars
  <2>4. \A l \in Slots : primary[l] <= walEnd'
    BY <2>1 DEF Types, Behind
  <2>5. replay <= walEnd'
    BY <2>1 DEF Types, Behind
  <2>6. Behind'
    BY <1>0, <2>1, <2>2, <2>4, <2>5 DEF Types, Behind, Replica, replicaVars, threadVars
  <2>7. QED
    BY <2>3, <2>6
<1>2. CASE Vacuum
  <2>1. vacuumed' \in Nat
    <3> DEFINE S == {walEnd} \cup {primary[l] : l \in Have(primary)} \cup
                 ({feedback} \ {NoPos})
    <3>1. S \in SUBSET Nat /\ S # {}
      BY DEF Types, Have
    <3>2. Min(S) \in Nat
      BY <3>1, LeastOf
    <3>3. QED
      BY <1>2, <3>2 DEF Vacuum
  <2>2. UNCHANGED <<config, published, walEnd, primary>>
    BY <1>2 DEF Vacuum
  <2>3. QED
    BY <1>0, <2>1, <2>2 DEF Types, Behind, Upto, Replica, replicaVars, threadVars
<1>3. CASE PrimaryCycle
  <2>1. /\ published' = primary /\ UNCHANGED <<config, walEnd, vacuumed>>
        /\ primary' = [l \in Slots |-> IF l \notin config THEN NoPos
             ELSE IF primary[l] = NoPos THEN walEnd ELSE primary[l]]
    BY <1>3 DEF PrimaryCycle
  <2>2. \A l \in Slots : primary'[l] \in Nat /\ primary'[l] <= walEnd /\
        (primary'[l] # NoPos => primary'[l] \in {walEnd, primary[l]} /\
        (primary[l] # NoPos => primary'[l] = primary[l]))
    BY <2>1 DEF Types, Behind, NoPos
  <2>3. \A l \in Slots, v \in Nat : Upto(v, l) => Upto(v, l)'
    BY <2>1, <2>2 DEF Upto, Types
  <2>4. Types'
    BY <1>0, <2>1, <2>2 DEF Types, Replica, replicaVars, threadVars
  <2>5. Behind'
    BY <1>0, <2>1, <2>2, <2>3 DEF Types, Behind, Upto, Replica, replicaVars,
       threadVars, NoPos
  <2>6. QED
    BY <2>4, <2>5
<1>4. ASSUME NEW l \in Slots, Consume(l)
      PROVE  LogicalInv'
  <2>1. /\ primary[l] # NoPos /\ primary[l] < walEnd /\ primary' = [primary EXCEPT ![l] = @ + 1]
        /\ UNCHANGED <<config, published, walEnd, vacuumed>>
    BY <1>4 DEF Consume, Have
  <2>2. ASSUME NEW m \in Slots
        PROVE  primary'[m] \in Nat /\ primary[m] <= primary'[m] /\ primary'[m] <= walEnd /\
               (primary[m] = NoPos => primary'[m] = NoPos)
    <3>1. primary[m] \in Nat /\ primary[l] \in Nat /\ primary[m] <= walEnd /\ walEnd \in Nat
      BY DEF Types, Behind
    <3>2. primary'[m] = IF m = l THEN primary[l] + 1 ELSE primary[m]
      BY <2>1 DEF Types
    <3>3. QED
      BY <2>1, <3>1, <3>2 DEF NoPos
  <2>3. \A m \in Slots, v \in Nat : Upto(v, m) => Upto(v, m)'
    BY <2>1, <2>2 DEF Upto, Types
  <2>4. Types'
    BY <1>0, <2>1 DEF Types, Replica, replicaVars, threadVars
  <2>5. Behind'
    BY <1>0, <2>1, <2>2, <2>3 DEF Types, Behind, Replica, replicaVars, threadVars
  <2>6. QED
    BY <2>4, <2>5
<1>5. ASSUME NEW l \in Slots, Configure(l)
      PROVE  LogicalInv'
  BY <1>0, <1>5 DEF Configure, Types, Behind, Upto, Replica, replicaVars,
     threadVars
<1>6. QED
  BY <1>1, <1>2, <1>3, <1>4, <1>5

LEMMA PrimarySafe ==
  ASSUME LogicalInv, Rows, WriteWal \/ Vacuum \/ PrimaryCycle \/
         \E l \in Slots : Consume(l) \/ Configure(l)
  PROVE  Rows'
<1> USE DEF LogicalInv, Rows
<1>0. UNCHANGED Replica
  BY DEF Replica, WriteWal, Vacuum, PrimaryCycle, Consume,
     Configure
<1>1. Told'
  BY <1>0 DEF Told, Replica, replicaVars
<1>2. Kept'
  <2>1. CASE Vacuum
    BY <2>1, Horizon DEF Behind, Vacuum, Kept
  <2>2. CASE WriteWal \/ \E l \in Slots : Configure(l)
    BY <2>2 DEF WriteWal, Configure, Kept, Types
  <2>3. CASE PrimaryCycle
    BY <2>3 DEF PrimaryCycle, Kept, Types
  <2>4. CASE \E l \in Slots : Consume(l)
    <3>1. PICK l \in Slots : primary[l] # NoPos /\ primary' = [primary EXCEPT ![l] = @ + 1]
      BY <2>4 DEF Consume, Have
    <3>2. \A m \in Slots : primary'[m] # NoPos =>
          primary[m] # NoPos /\ primary[m] <= primary'[m]
      BY <3>1 DEF Types
    <3>3. \A m \in Slots : primary'[m] \in Nat
      BY <3>1 DEF Types
    <3>4. vacuumed' = vacuumed /\ walEnd' = walEnd
      BY <2>4 DEF Consume
    <3>5. QED
      BY <3>2, <3>3, <3>4 DEF Kept, Types
  <2>5. QED
    BY <2>1, <2>2, <2>3, <2>4
<1>3. Checked'
  <2>1. CASE vacuumed' = vacuumed
    BY <1>0, <2>1 DEF Checked, Replica, replicaVars
  <2>2. CASE Vacuum
    <3>1. vacuumed' \in Nat /\ (feedback # NoPos => vacuumed' <= feedback)
      BY <2>2, Horizon DEF Behind
    <3>2. \A l \in Slots : standby[l] # NoPos /\ ~force =>
          vacuumed' <= feedback /\ feedback <= standby[l]
      BY <3>1 DEF Checked, Told
    <3>3. \A l \in Slots : standby[l] # NoPos /\ ~force => vacuumed' <= standby[l]
      BY <3>1, <3>2 DEF Types
    <3>4. QED
      BY <1>0, <3>2, <3>3 DEF Checked, Replica, replicaVars
  <2>3. QED
    BY <2>1, <2>2 DEF WriteWal, PrimaryCycle, Consume, Configure
<1>4. QED
  BY <1>1, <1>2, <1>3

LEMMA ReplicaServer ==
  ASSUME LogicalInv, Replay \/ Feedback
  PROVE  LogicalInv' /\ (Rows => Rows')
<1> USE DEF LogicalInv, Rows
<1>1. CASE Replay
  <2>1. replay' = walEnd /\ UNCHANGED <<primaryVars, feedback, standby, running, reported,
          threadVars, force, queue, task>>
    BY <1>1 DEF Replay
  <2>2. Types'
    BY <2>1 DEF Types, primaryVars, threadVars
  <2>3. Behind'
    BY <2>1 DEF Types, Behind, Upto, primaryVars, threadVars
  <2>4. Rows => Rows'
    BY <2>1 DEF Told, Kept, Checked, primaryVars
  <2>5. QED
    BY <2>2, <2>3, <2>4
<1>2. CASE Feedback
  <2> DEFINE S == {standby[l] : l \in Have(standby)}
  <2>1. /\ feedback' = IF Have(standby) = {} THEN NoPos ELSE Min(S)
        /\ reported' = TRUE
        /\ UNCHANGED <<primaryVars, replay, standby, running, threadVars, force,
             queue, task>>
    BY <1>2 DEF Feedback
  <2>2. S \in SUBSET (Nat \ {0}) /\ (Have(standby) # {} => S # {})
    <3>1. \A l \in Have(standby) : standby[l] \in Nat /\ standby[l] # 0
      BY DEF Types, Have, NoPos
    <3>2. QED
      BY <3>1
  <2>3. Have(standby) # {} => Min(S) \in S /\ \A y \in S : Min(S) <= y
    BY <2>2, LeastOf
  <2>4. \A l \in Slots : standby[l] # NoPos =>
        l \in Have(standby) /\ standby[l] \in S
    BY DEF Have
  <2> HIDE DEF S
  <2>5. feedback' \in Nat /\ \A l \in Slots : standby[l] # NoPos =>
        feedback' # NoPos /\ feedback' <= standby[l]
    BY <2>1, <2>2, <2>3, <2>4 DEF NoPos
  <2>6. Types'
    BY <2>1, <2>5 DEF Types, primaryVars, threadVars
  <2>7. Behind'
    BY <2>1 DEF Behind, Upto, primaryVars, threadVars
  <2>8. Rows => Told' /\ Kept'
    BY <2>1, <2>5 DEF Told, Kept, primaryVars
  <2>9. Rows => Checked'
    <3> SUFFICES ASSUME Rows PROVE Checked'
      OBVIOUS
    <3>1. ~force => \A l \in Slots : standby[l] # NoPos => feedback <= feedback'
      <4> SUFFICES ASSUME ~force, NEW l \in Slots, standby[l] # NoPos
                   PROVE  feedback <= feedback'
        OBVIOUS
      <4>1. \A y \in S : feedback <= y
        BY DEF Checked, Told, Have, S
      <4>2. QED
        BY <2>1, <2>3, <2>4, <4>1
    <3>2. ASSUME NEW l \in Slots, standby[l] # NoPos, ~force, queue[l] \in Nat
          PROVE  vacuumed <= queue[l] \/ vacuumed <= feedback'
      BY <2>5, <3>1, <3>2 DEF Checked, Types
    <3>3. QED
      BY <2>1, <3>2 DEF Checked, primaryVars
  <2>10. QED
    BY <2>6, <2>7, <2>8, <2>9
<1>3. QED
  BY <1>1, <1>2

LEMMA ThreadSafe ==
  ASSUME LogicalInv, SyncSlot \/ \E l \in Slots : PickSlot(l)
  PROVE  LogicalInv' /\ (Rows => Rows')
<1> USE DEF LogicalInv, Rows
<1>1. CASE \E l \in Slots : PickSlot(l)
  <2>1. PICK l \in Slots : /\ advancing' = <<l, scheduled[l]>>
           /\ UNCHANGED <<primaryVars, replicaVars, scheduled, copySlots, force, queue,
                task>>
    BY <1>1 DEF PickSlot
  <2>2. scheduled[l] \in Nat
    BY DEF Types
  <2>3. Types'
    BY <2>1, <2>2 DEF Types, primaryVars, replicaVars
  <2>4. Behind'
    BY <2>1 DEF Behind, Upto, primaryVars, replicaVars
  <2>5. Rows => Rows'
    BY <2>1 DEF Told, Kept, Checked, primaryVars, replicaVars
  <2>6. QED
    BY <2>3, <2>4, <2>5
<1>2. CASE SyncSlot
  <2> DEFINE l == advancing[1]
             lsn == advancing[2]
  <2>1. advancing # <<>> /\ l \in Slots /\ lsn \in Nat /\ Upto(lsn, l) /\ lsn <= replay
    BY <1>2 DEF SyncSlot, Types, Behind
  <2>2. UNCHANGED <<primaryVars, feedback, replay, running, reported, force, queue, task>>
    BY <1>2 DEF SyncSlot
  <2>3. \E copy \in BOOLEAN : Reconcile(l, lsn, copy)
    BY <1>2 DEF SyncSlot
  <2>4. /\ advancing' = <<>> /\ copySlots' \in SUBSET Slots
        /\ scheduled' = scheduled \/ scheduled' = [scheduled EXCEPT ![l] = NoPos]
    BY <2>1, <2>3 DEF Reconcile, Types
  <2>5. \/ standby' = standby
        \/ /\ standby[l] # NoPos /\ standby[l] <= lsn
           /\ standby' = [standby EXCEPT ![l] = Min({lsn, replay})]
    BY <1>2 DEF SyncSlot, Have
  <2>6. Min({lsn, replay}) = lsn
    <3>1. {lsn, replay} \in SUBSET Nat
      BY <2>1 DEF Types
    <3>2. Min({lsn, replay}) \in {lsn, replay} /\ Min({lsn, replay}) <= lsn
      BY <3>1, LeastOf
    <3>3. QED
      BY <2>1, <3>2 DEF Types
  <2> HIDE DEF l, lsn
  <2>7. ASSUME NEW m \in Slots
        PROVE  /\ standby'[m] \in Nat /\ standby[m] <= standby'[m]
               /\ standby'[m] # NoPos => standby[m] # NoPos
               /\ standby'[m] = standby[m] \/ (m = l /\ standby'[m] = lsn)
               /\ scheduled'[m] \in {NoPos, scheduled[m]}
    <3>1. standby[m] \in Nat
      BY DEF Types
    <3>2. scheduled'[m] \in {NoPos, scheduled[m]}
      BY <2>4 DEF Types
    <3>3. CASE standby' = standby
      BY <3>1, <3>2, <3>3
    <3>4. CASE standby[l] # NoPos /\ standby[l] <= lsn /\
               standby' = [standby EXCEPT ![l] = lsn]
      <4>1. standby'[m] = IF m = l THEN lsn ELSE standby[m]
        BY <3>4 DEF Types
      <4>2. QED
        BY <2>1, <3>1, <3>2, <3>4, <4>1
    <3>5. QED
      BY <2>5, <2>6, <3>3, <3>4
  <2>8. Types'
    <3>0. standby \in [Slots -> Nat] /\ scheduled \in [Slots -> Nat] /\ NoPos \in Nat
      BY DEF Types, NoPos
    <3>1. standby' \in [Slots -> Nat]
      BY <2>1, <2>5, <2>6, <3>0
    <3>2. scheduled' \in [Slots -> Nat]
      BY <2>4, <3>0
    <3>3. QED
      BY <2>2, <2>4, <3>1, <3>2 DEF Types, primaryVars
  <2>9. Behind'
    <3>1. ASSUME NEW m \in Slots
          PROVE  Upto(standby[m], m)' /\ Upto(scheduled[m], m)' /\ scheduled'[m] <= replay
      <4>0. Upto(standby[m], m) /\ Upto(scheduled[m], m) /\ scheduled[m] <= replay /\
            Upto(NoPos, m) /\ NoPos <= replay
        BY DEF Behind, Upto, NoPos, Types
      <4>1. Upto(standby'[m], m) /\ Upto(scheduled'[m], m) /\ scheduled'[m] <= replay
        BY <2>1, <2>7, <4>0
      <4>2. QED
        BY <2>2, <4>1 DEF Upto, primaryVars
    <3>2. QED
      BY <2>2, <2>4, <3>1 DEF Behind, Upto, primaryVars
  <2>10. Rows => Told'
    <3> SUFFICES ASSUME Rows PROVE Told'
      OBVIOUS
    <3>1. ASSUME NEW m \in Slots, reported, standby'[m] # NoPos
          PROVE  feedback # NoPos /\ feedback <= standby'[m]
      <4>1. feedback \in Nat /\ standby[m] \in Nat /\ standby'[m] \in Nat
        BY <2>7 DEF Types
      <4>2. QED
        BY <2>7, <3>1, <4>1 DEF Told
    <3>2. QED
      BY <2>2, <3>1 DEF Told
  <2>11. Rows => Kept' /\ Checked'
    <3> SUFFICES ASSUME Rows PROVE Kept' /\ Checked'
      OBVIOUS
    <3>1. Kept'
      BY <2>2 DEF Kept, primaryVars
    <3>2. ASSUME NEW m \in Slots, standby'[m] # NoPos, ~force
          PROVE  /\ queue[m] = NotQueued => vacuumed <= standby'[m]
                 /\ queue[m] \in Nat => vacuumed <= queue[m] \/ vacuumed <= feedback
      <4>1. vacuumed \in Nat /\ standby[m] \in Nat /\ standby'[m] \in Nat
        BY <2>7 DEF Types
      <4>2. QED
        BY <2>7, <3>2, <4>1 DEF Checked
    <3>3. Checked'
      BY <2>2, <3>2 DEF Checked, primaryVars
    <3>4. QED
      BY <3>1, <3>3
  <2>12. QED
    BY <2>8, <2>9, <2>10, <2>11
<1>3. QED
  BY <1>1, <1>2

LEMMA CopySafe ==
  ASSUME LogicalInv, CopyRead \/ CopyStop \/ CopyWrite \/ PromoteReplica
  PROVE  LogicalInv' /\ (Rows => Rows')
<1> USE DEF LogicalInv, Rows
<1>1. CASE CopyRead
  <2> DEFINE copy == [l \in Slots |-> IF task.slots[l] # NoPos /\
               l \in config THEN primary[l] ELSE NoPos]
  <2>1. UNCHANGED <<primaryVars, replicaVars, threadVars, force, queue>>
    BY <1>1 DEF CopyRead
  <2>2. task' = IF copy = Nothing THEN Idle ELSE [step |-> "stop", slots |-> copy]
    BY <1>1 DEF CopyRead
  <2>3. \A l \in Slots : task'.slots[l] \in {NoPos, primary[l]}
    BY <2>2 DEF Idle, Nothing
  <2>4. task' \in [step : {"idle", "read", "stop", "write"}, slots : [Slots -> Nat]]
    BY <2>2 DEF Idle, Nothing, NoPos, Types
  <2> HIDE DEF copy
  <2>5. Types'
    BY <2>1, <2>4 DEF Types, primaryVars, replicaVars, threadVars
  <2>6. \A l \in Slots : Upto(task'.slots[l], l)
    <3>1. ASSUME NEW l \in Slots
          PROVE  Upto(NoPos, l) /\ Upto(primary[l], l)
      BY DEF Upto, Types, Behind, NoPos
    <3>2. QED
      BY <2>3, <3>1
  <2>7. Behind'
    BY <2>1, <2>6 DEF Behind, Upto, primaryVars, replicaVars, threadVars
  <2>8. Rows => Rows'
    BY <2>1 DEF Told, Kept, Checked, primaryVars, replicaVars
  <2>9. QED
    BY <2>5, <2>7, <2>8
<1>2. CASE CopyStop
  <2>1. /\ running' = FALSE /\ task' = [task EXCEPT !.step = "write"]
        /\ UNCHANGED <<primaryVars, feedback, replay, standby, reported,
             threadVars, force, queue>>
    BY <1>2 DEF CopyStop
  <2>2. Types' /\ task'.slots = task.slots
    BY <2>1 DEF Types, primaryVars, threadVars
  <2>3. Behind'
    BY <2>1, <2>2 DEF Behind, Upto, primaryVars, threadVars
  <2>4. Rows => Rows'
    BY <2>1 DEF Told, Kept, Checked, primaryVars
  <2>5. QED
    BY <2>2, <2>3, <2>4
<1>3. CASE CopyWrite
  <2>1. /\ scheduled' = Nothing /\ copySlots' = {}
        /\ standby' = [l \in Slots |-> IF task.slots[l] # NoPos THEN task.slots[l]
             ELSE standby[l]]
        /\ queue' = [l \in Slots |-> IF task.slots[l] # NoPos THEN Unknown
             ELSE queue[l]]
        /\ running' = TRUE /\ reported' = FALSE /\ force' = TRUE /\ task' = Idle
        /\ UNCHANGED <<primaryVars, feedback, replay, advancing>>
    BY <1>3 DEF CopyWrite, CleanThread
  <2>2. Types'
    BY <2>1 DEF Types, primaryVars, Nothing, NoPos, Idle
  <2>3. \A l \in Slots : Upto(standby'[l], l) /\ Upto(scheduled'[l], l) /\
        Upto(task'.slots[l], l) /\ scheduled'[l] <= replay
    BY <2>1 DEF Behind, Upto, Types, Nothing, Idle, NoPos
  <2>4. Behind'
    BY <2>1, <2>3 DEF Behind, Upto, primaryVars
  <2>5. Rows => Rows'
    BY <2>1 DEF Told, Kept, Checked, primaryVars
  <2>6. QED
    BY <2>2, <2>4, <2>5
<1>4. CASE PromoteReplica
  <2>1. scheduled' = Nothing /\ copySlots' = {} /\
        UNCHANGED <<primaryVars, replicaVars, advancing, force, queue, task>>
    BY <1>4 DEF PromoteReplica, CleanThread
  <2>2. Types'
    BY <2>1 DEF Types, primaryVars, replicaVars, Nothing, NoPos
  <2>3. \A l \in Slots : Upto(scheduled'[l], l) /\ scheduled'[l] <= replay
    BY <2>1 DEF Upto, Types, Nothing, NoPos
  <2>4. Behind'
    BY <2>1, <2>3 DEF Behind, Upto, primaryVars, replicaVars
  <2>5. Rows => Rows'
    BY <2>1 DEF Told, Kept, Checked, primaryVars, replicaVars
  <2>6. QED
    BY <2>2, <2>4, <2>5
<1>5. QED
  BY <1>1, <1>2, <1>3, <1>4

\* What a cycle leaves in the queue.
LEMMA CheckedQueue ==
  ASSUME LogicalInv, Rows, reported, NEW l \in config, standby[l] # NoPos
  PROVE  LET q == CheckReadiness(LoadedQueue,
           Have(standby) \cap config).queue
         IN  /\ q[l] = NotQueued => vacuumed <= standby[l]
             /\ q[l] \in Nat => vacuumed <= q[l] \/ vacuumed <= feedback
<1> DEFINE there == Have(standby) \cap config
           L == LoadedQueue
           K == UpdatePending(L)
           queued == {m \in Slots : L[m] # NotQueued}
           ready == {m \in queued : IsReady(K, m, m \in there)}
           broken == \E m \in queued : K[m] = Unknown /\ m \in there
           q == CheckReadiness(L, there).queue
<1>0. l \in Slots /\ l \in there
  BY DEF LogicalInv, Types, Have
<1>1. feedback \in Nat /\ vacuumed \in Nat /\ standby[l] \in Nat /\ primary[l] \in Nat
  BY <1>0 DEF LogicalInv, Types
<1>2. feedback # NoPos /\ feedback <= standby[l]
  BY <1>0 DEF Rows, Told
<1>3. L[l] = IF ~force THEN queue[l] ELSE Unknown
  BY <1>0 DEF LoadedQueue
<1>4. K[l] = IF L[l] = Unknown /\ primary[l] # NoPos THEN primary[l] ELSE L[l]
  BY <1>0 DEF UpdatePending
<1>5. /\ L[l] = NotQueued => vacuumed <= standby[l]
      /\ K[l] \in Nat => vacuumed <= K[l] \/ vacuumed <= feedback
      /\ K[l] = NotQueued => L[l] = NotQueued
  BY <1>0, <1>1, <1>3, <1>4 DEF Rows, Checked, Kept, Unknown, NotQueued
<1>6. L[l] \in Nat \cup {Unknown, NotQueued} /\
      K[l] \in Nat \cup {Unknown, NotQueued}
  BY <1>0, <1>1, <1>3, <1>4 DEF LogicalInv, Types
<1>7. q = IF broken THEN K ELSE [m \in Slots |-> IF m \in ready THEN NotQueued ELSE K[m]]
  BY <1>2 DEF CheckReadiness
<1>8. l \in ready /\ ~broken => vacuumed <= standby[l]
  <2>1. l \in ready /\ ~broken =>
        K[l] <= feedback /\ K[l] # Unknown /\ L[l] # NotQueued
    BY <1>0 DEF IsReady
  <2> HIDE DEF L, K, ready, broken
  <2>2. l \in ready /\ ~broken => K[l] \in Nat
    BY <1>5, <1>6, <2>1
  <2>3. QED
    BY <1>1, <1>2, <1>5, <2>1, <2>2
<1>9. q[l] = K[l] \/ (q[l] = NotQueued /\ l \in ready /\ ~broken)
  <2> HIDE DEF K, ready, broken, q
  <2>1. QED
    BY <1>0, <1>7
<1> HIDE DEF K, ready, broken, q, L
<1>10. (q[l] = NotQueued => vacuumed <= standby[l]) /\
       (q[l] \in Nat => vacuumed <= q[l] \/ vacuumed <= feedback)
  BY <1>5, <1>8, <1>9 DEF NotQueued
<1>11. QED
  BY <1>10 DEF q, L

LEMMA QueueType ==
  ASSUME LogicalInv
  PROVE  CheckReadiness(LoadedQueue, Have(standby) \cap config).queue \in
           [Slots -> Nat \cup {Unknown, NotQueued}]
<1>1. LoadedQueue \in [Slots -> Nat \cup {Unknown, NotQueued}]
  BY DEF LoadedQueue, LogicalInv, Types
<1>2. UpdatePending(LoadedQueue) \in [Slots -> Nat \cup {Unknown,
        NotQueued}]
  BY <1>1 DEF UpdatePending, LogicalInv, Types
<1>3. QED
  BY <1>1, <1>2 DEF CheckReadiness

LEMMA CycleSafe ==
  ASSUME LogicalInv, ReplicaCycle
  PROVE  LogicalInv' /\ (Rows /\ PromptFeedback => Rows')
<1> DEFINE there == Have(standby) \cap config
           checked == CheckReadiness(LoadedQueue, there)
           create == {l \in config \ there : published[l] # NoPos}
           targets == [l \in Slots |-> IF l \in there THEN Target(l) ELSE NoPos]
<1>1. /\ standby' = [l \in Slots |-> IF l \in config THEN standby[l] ELSE NoPos]
      /\ force' = FALSE /\ queue' = checked.queue /\ (PromptFeedback => reported)
      /\ UNCHANGED <<primaryVars, feedback, replay, running, reported>>
      /\ \/ /\ Schedule(targets)
            /\ task' = IF create \cup copySlots = {} THEN Idle
                       ELSE [step |-> "read",
                             slots |-> [l \in Slots |-> IF l \in create \cup copySlots THEN 1
                                                        ELSE NoPos]]
         \/ UNCHANGED <<threadVars, task>>
  BY DEF ReplicaCycle
<1>2. queue' \in [Slots -> Nat \cup {Unknown, NotQueued}]
  BY <1>1, QueueType
<1>3. \A l \in Slots : Upto(NoPos, l) /\ Upto(1, l) /\ NoPos <= replay /\
      NoPos \in Nat
  BY DEF LogicalInv, Types, Behind, Upto, NoPos
<1>4. ASSUME NEW l \in Slots
      PROVE  targets[l] \in Nat /\ Upto(targets[l], l) /\ targets[l] <= replay
  <2> DEFINE to == Min({published[l], replay})
  <2>1. published[l] \in Nat /\ replay \in Nat /\ Upto(published[l], l) /\ walEnd \in Nat /\
        primary[l] \in Nat
    BY DEF LogicalInv, Types, Behind
  <2>2. to \in Nat /\ to <= published[l] /\ to <= replay
    <3>1. {published[l], replay} \in SUBSET Nat /\ {published[l], replay} # {}
      BY <2>1
    <3>2. QED
      BY <3>1, LeastOf
  <2>3. Target(l) \in {to, NoPos}
    BY DEF Target
  <2> HIDE DEF to
  <2>4. Upto(to, l)
    BY <2>1, <2>2 DEF Upto
  <2>5. QED
    BY <1>3, <2>2, <2>3, <2>4
<1> HIDE DEF checked, create, targets
<1>5. /\ advancing' = advancing /\ copySlots' \in SUBSET Slots
      /\ scheduled' \in [Slots -> Nat]
      /\ \A l \in Slots : Upto(scheduled'[l], l) /\ scheduled'[l] <= replay
  <2>1. CASE Schedule(targets)
    BY <1>4, <2>1 DEF Schedule, LogicalInv, Types, Behind
  <2>2. CASE UNCHANGED <<threadVars, task>>
    BY <2>2 DEF threadVars, LogicalInv, Types, Behind
  <2>3. QED
    BY <1>1, <2>1, <2>2
<1>6. /\ task' \in [step : {"idle", "read", "stop", "write"}, slots : [Slots -> Nat]]
      /\ \A l \in Slots : Upto(task'.slots[l], l)
  <2>1. CASE task' = task
    BY <2>1 DEF LogicalInv, Types, Behind
  <2>2. CASE task' = Idle
    BY <1>3, <2>2 DEF Idle, Nothing
  <2>3. CASE task' = [step |-> "read",
                       slots |-> [l \in Slots |-> IF l \in create \cup copySlots THEN 1
                                                  ELSE NoPos]]
    BY <1>3, <2>3
  <2>4. QED
    BY <1>1, <2>1, <2>2, <2>3
<1>7. standby' \in [Slots -> Nat] /\ \A l \in Slots : Upto(standby'[l], l)
  BY <1>1, <1>3 DEF LogicalInv, Types, Behind
<1>8. LogicalInv'
  <2>1. Types'
    BY <1>1, <1>2, <1>5, <1>6, <1>7 DEF LogicalInv, Types, primaryVars
  <2>2. Behind'
    BY <1>1, <1>5, <1>6, <1>7 DEF LogicalInv, Behind, Upto, primaryVars
  <2>3. QED
    BY <2>1, <2>2 DEF LogicalInv
<1>9. ASSUME Rows, PromptFeedback
      PROVE  Rows'
  <2>1. Told' /\ Kept'
    BY <1>1, <1>9 DEF Rows, Told, Kept, primaryVars
  <2>2. ASSUME NEW l \in Slots, standby'[l] # NoPos
        PROVE  /\ queue'[l] = NotQueued => vacuumed <= standby'[l]
               /\ queue'[l] \in Nat => vacuumed <= queue'[l] \/ vacuumed <= feedback
    <3>1. l \in config /\ standby[l] # NoPos /\ standby'[l] = standby[l]
      BY <1>1, <2>2
    <3>2. QED
      BY <1>1, <1>9, <3>1, CheckedQueue DEF checked
  <2>3. Checked'
    BY <1>1, <1>9, <2>2 DEF Checked, primaryVars
  <2>4. QED
    BY <2>1, <2>3 DEF Rows
<1>10. QED
  BY <1>8, <1>9

LEMMA LogicalStep ==
  ASSUME LogicalInv, [LogicalNext]_logicalVars
  PROVE  LogicalInv' /\ (Rows /\ PromptFeedback => Rows')
<1>1. CASE UNCHANGED logicalVars
  BY <1>1 DEF logicalVars, primaryVars, replicaVars, threadVars, LogicalInv,
     Types, Behind, Upto, Rows, Told, Kept, Checked
<1>2. CASE WriteWal \/ Vacuum \/ PrimaryCycle \/
           \E l \in Slots : Consume(l) \/ Configure(l)
  BY <1>2, PrimaryBehind, PrimarySafe
<1>3. CASE Replay \/ Feedback
  BY <1>3, ReplicaServer
<1>4. CASE SyncSlot \/ \E l \in Slots : PickSlot(l)
  BY <1>4, ThreadSafe
<1>5. CASE CopyRead \/ CopyStop \/ CopyWrite \/ PromoteReplica
  BY <1>5, CopySafe
<1>6. CASE ReplicaCycle
  BY <1>6, CycleSafe
<1>7. QED
  BY <1>1, <1>2, <1>3, <1>4, <1>5, <1>6 DEF LogicalNext

\* The copy of a logical slot never gets ahead of its consumer, for any slots, changes of the
\* configuration and failures of the thread, whenever the replica reports.
THEOREM CopiesStayBehind == LogicalSpec => []NeverAhead
<1>1. LogicalInv => NeverAhead
  BY DEF LogicalInv, Behind, Upto, NeverAhead, Have
<1>2. LogicalInit => LogicalInv
  BY LogicalStart
<1>3. LogicalInv /\ [LogicalNext]_logicalVars => LogicalInv'
  BY LogicalStep
<1>4. QED
  BY <1>1, <1>2, <1>3, PTL DEF LogicalSpec

\* A copy that Patroni calls ready has its catalog rows, if a replica that starts reports
\* its slots before its next cycle.
THEOREM ReadyCopiesHaveTheirRows == PromptFeedback => (LogicalSpec => []ReadyIsSafe)
<1> SUFFICES ASSUME PromptFeedback
             PROVE  LogicalSpec => []ReadyIsSafe
  OBVIOUS
<1>1. LogicalInv /\ Rows => ReadyIsSafe
  BY DEF Rows, Checked, ReadyIsSafe, Have
<1>2. LogicalInit => LogicalInv /\ Rows
  BY LogicalStart
<1>3. LogicalInv /\ Rows /\ [LogicalNext]_logicalVars => (LogicalInv /\ Rows)'
  BY LogicalStep
<1>4. QED
  BY <1>1, <1>2, <1>3, PTL DEF LogicalSpec

=============================================================================
