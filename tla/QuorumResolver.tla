--------------------------- MODULE QuorumResolver ---------------------------
(***************************************************************************)
(* QuorumStateResolver: from the state of synchronous replication in       *)
(* PostgreSQL ("ANY numsync OF sync") and in the DCS (the quorum and the   *)
(* voters of /sync) to the list of single changes that lead to the wanted  *)
(* state.  Nodes are numbers, in the order of their names.                 *)
(*                                                                         *)
(* A resolver is a record: the attributes of the Python object, out, the   *)
(* list that __iter__ makes of the transitions yielded so far, and failed, *)
(* which is set for good when an exception leaves it.                      *)
(***************************************************************************)
EXTENDS Integers, Sequences, FiniteSets

NoLeader == 0

Least(S, k)   == {x \in S : Cardinality({y \in S : y < x}) < k}
Largest(S, k) == {x \in S : Cardinality({y \in S : y > x}) < k}
Lower(a, b)  == IF a < b THEN a ELSE b
Higher(a, b) == IF a > b THEN a ELSE b

Resolver(leader, quorum, voters, numsync, sync, confirmed, active, wanted, leaderWanted) ==
  [leader |-> leader, quorum |-> quorum, voters |-> voters,
   numsync |-> Lower(numsync, Cardinality(sync)), sync |-> sync, confirmed |-> confirmed,
   active |-> active, wanted |-> wanted, leaderWanted |-> leaderWanted,
   out |-> <<>>, failed |-> FALSE]

\* check_invariants: who can acknowledge a commit overlaps with who can elect a leader, and
\* one of the two sets of nodes contains the other.
Overlap(r) ==
  LET voters == r.voters \cup {r.leader}
      sync == r.sync \cup {r.leaderWanted}
  IN /\ r.voters # {} => Cardinality(voters \cup sync) <= r.quorum + r.numsync + 1
     /\ voters \subseteq sync \/ sync \subseteq voters

Transition(type, num, names, leader) == [type |-> type, num |-> num, names |-> names, leader |-> leader]
Fail(r) == [r EXCEPT !.failed = TRUE]

\* __iter__: of several changes of one kind in a row only the last counts, and nothing
\* after a restart does.
Merged(out, t) ==
  IF out = <<>> THEN <<t>>
  ELSE IF out[Len(out)].type = "restart" THEN out
  ELSE IF out[Len(out)].type = t.type THEN [out EXCEPT ![Len(out)] = t]
  ELSE Append(out, t)

Yield(r, t) == IF Overlap(r) THEN [r EXCEPT !.out = Merged(@, t)] ELSE Fail(r)

\* /sync becomes q of v under l, or a restart is asked for if that is what it says already.
YieldKey(r, q, v, l) ==
  LET same == <<l, q, v>> = <<r.leader, r.quorum, r.voters>>
      out == IF same THEN Merged(r.out, Transition("restart", q, v, l)) ELSE r.out
  IN IF same /\ v # {} THEN r
     ELSE Yield([r EXCEPT !.leader = l, !.quorum = q, !.voters = v, !.out = out],
                Transition("quorum", q, v, l))

\* quorum_update; leader = NoLeader keeps the leader.
QuorumUpdate(r, quorum, voters, leader, adjust) ==
  LET l  == IF leader # NoLeader THEN leader ELSE r.leader
      none == leader = NoLeader /\ r.confirmed = 0 /\ r.voters = {}
      v  == IF none THEN {} ELSE voters
      q  == IF none THEN 0
            ELSE IF leader = NoLeader /\ adjust THEN quorum + Higher(r.numsync - r.confirmed, 0)
            ELSE quorum
  IN IF r.failed THEN r
     ELSE IF quorum < 0 \/ (quorum > 0 /\ quorum >= Cardinality(voters)) THEN Fail(r)
     ELSE YieldKey(r, q, v, l)

\* sync_update
SyncUpdate(r, numsync, sync) ==
  IF r.failed THEN r
  ELSE IF numsync < 0 \/ numsync > Cardinality(sync) THEN Fail(r)
  ELSE Yield([r EXCEPT !.numsync = numsync, !.sync = sync], Transition("sync", numsync, sync, r.leader))

-----------------------------------------------------------------------------
(* __handle_non_steady_cases *)

\* voters is larger than sync: forget voters that are in neither, add the others to sync.
ShrinkVoters(r) ==
  LET gone == r.voters \ (r.sync \cup r.active)
      r1 == IF gone = {} THEN r
            ELSE QuorumUpdate(r, Cardinality(r.voters) - Cardinality(gone) - r.numsync, r.voters \ gone,
                              NoLeader, r.sync \subseteq r.active)
      add == (r1.voters \cap r1.active) \ r1.sync
  IN IF add = {} THEN r1 ELSE SyncUpdate(r1, r1.numsync, r1.sync \cup add)

\* sync is larger than voters: drop who is gone, add the active ones to voters, drop the rest.
ShrinkSync(r) ==
  LET gone == r.sync \ r.active
      sync == r.sync \ gone
      r1 == IF gone # {} /\ sync # {} /\ (r.voters = {} \/ sync \cap r.voters # {})
            THEN SyncUpdate(r, Lower(r.numsync, Cardinality(sync)), sync) ELSE r
      add == (r1.sync \ r1.voters) \cap r1.active
      r2 == IF add = {} THEN r1
            ELSE QuorumUpdate(r1, Cardinality(r1.voters \cup add) - r1.numsync, r1.voters \cup add, NoLeader, TRUE)
      rest == r2.sync \ r2.voters
  IN IF rest = {} THEN r2
     ELSE SyncUpdate(r2, Lower(r2.numsync, Cardinality(r2.sync \ rest)), r2.sync \ rest)

\* Mutant: an interrupted change of the replication factor is left as it is.
FactorLeftAlone(r) == r

\* voters = sync: a change of the replication factor was interrupted.
RestoreFactor(r) ==
  LET all == Cardinality(r.voters \cup r.sync)
      margin == r.quorum + Lower(r.numsync, r.confirmed) - all
  IN IF r.failed THEN r
     ELSE IF r.voters # r.sync THEN Fail(r)
     ELSE IF margin > 0
       THEN IF r.numsync > r.wanted
              THEN SyncUpdate(r, Higher(r.wanted, Cardinality(r.voters) - r.quorum), r.sync)
              ELSE QuorumUpdate(r, Cardinality(r.sync) - r.numsync, r.voters, NoLeader, TRUE)
     ELSE IF r.numsync = r.wanted /\ r.quorum + r.numsync > all /\ r.numsync > r.confirmed
       THEN QuorumUpdate(r, Cardinality(r.sync) - r.numsync, r.voters, NoLeader, TRUE)
     ELSE r

NonSteady(r) ==
  RestoreFactor(CASE r.sync \subseteq r.voters /\ r.sync # r.voters -> ShrinkVoters(r)
                  [] r.voters \subseteq r.sync /\ r.sync # r.voters -> ShrinkSync(r)
                  [] OTHER -> r)

-----------------------------------------------------------------------------
\* __remove_gone_nodes
RemoveGone(r) ==
  LET gone == r.sync \ r.active
      \* by reducing the quorum
      remove == Largest(gone, r.quorum)
      sync == r.sync \ remove
      r1 == SyncUpdate(r, Lower(IF r.wanted > r.numsync THEN r.wanted ELSE r.numsync, Cardinality(sync)), sync)
      left == gone \cap r1.sync
      r2 == IF r.quorum = 0 THEN r
            ELSE QuorumUpdate(r1, Cardinality(r1.voters \ remove) - r1.numsync, r1.voters \ remove,
                              NoLeader, left = {})
      rest == IF r.quorum = 0 THEN gone ELSE left
      \* by reducing numsync
      numsync == r2.numsync - Cardinality(rest)
      sync2 == r2.sync \ rest
      voters2 == r2.voters \ rest
      less == numsync - Lower(r.wanted, Cardinality(sync2))
  IN IF r.failed \/ gone = {} THEN r
     ELSE IF gone = r.sync
       THEN SyncUpdate(QuorumUpdate(r, 0, {}, NoLeader, FALSE), 0, {})
     ELSE IF rest = {} \/ r2.failed THEN r2
     ELSE IF r2.quorum # 0 THEN Fail(r2)
     ELSE SyncUpdate(QuorumUpdate(r2, IF less # 0 THEN Lower(less, Cardinality(voters2) - 1) ELSE 0,
                                  voters2, NoLeader, FALSE),
                     numsync, sync2)

\* __add_new_nodes
AddNew(r) ==
  LET new == r.active \ r.sync
      wanted == Lower(r.wanted, Cardinality(r.sync \cup new))
      more == wanted - r.numsync
      add == IF r.sync # {} THEN Least(new, more) ELSE new
      by  == IF r.sync # {} THEN Cardinality(add) ELSE more
      r1 == IF more <= 0 THEN r
            ELSE LET s == SyncUpdate(r, r.numsync + by, r.sync \cup add)
                 IN QuorumUpdate(s, Cardinality(s.voters \cup add) - wanted, s.voters \cup add, NoLeader, TRUE)
      rest == IF more <= 0 THEN new ELSE new \ r1.sync
  IN IF r.failed \/ new = {} THEN r
     ELSE IF rest = {} THEN r1
     ELSE LET q == QuorumUpdate(r1, Cardinality(r1.voters \cup rest) - wanted, r1.voters \cup rest,
                                NoLeader, wanted > r1.confirmed)
          IN SyncUpdate(q, wanted, q.sync \cup rest)

\* __handle_replication_factor_change
ChangeFactor(r) ==
  LET increase == Lower(r.wanted, Cardinality(r.sync)) - r.numsync
      up == SyncUpdate(r, r.numsync + increase, r.sync)
      down == IF r.quorum - increase < Cardinality(r.voters)
              THEN QuorumUpdate(r, Cardinality(r.voters) - r.numsync - increase, r.voters,
                                NoLeader, r.wanted > r.confirmed)
              ELSE r
  IN IF r.failed \/ increase = 0 THEN r
     ELSE IF increase > 0
       THEN QuorumUpdate(up, Cardinality(up.voters) - up.numsync, up.voters, NoLeader, TRUE)
       ELSE SyncUpdate(down, down.numsync + increase, down.sync)

-----------------------------------------------------------------------------
\* Mutant: the new leader stays among the voters it takes over.
TakeOverWithSelf(r) == QuorumUpdate(r, r.quorum, r.voters \cup {r.leader}, r.leaderWanted, TRUE)

\* The first part of _generate_transitions: a new leader takes /sync over.
TakeOver(r) ==
  LET voters == (r.voters \ {r.leaderWanted}) \cup {r.leader}
      r1 == IF r.sync = {} THEN SyncUpdate(r, Cardinality(voters) - r.quorum, voters) ELSE r
  IN QuorumUpdate(r1, r.quorum, voters, r.leaderWanted, TRUE)

\* _generate_transitions
Generate(r) ==
  LET failover == r.leader # r.leaderWanted
      taken == IF failover THEN TakeOver(r) ELSE IF Overlap(r) THEN r ELSE Fail(r)
      \* the handler of QuorumError
      fixed == IF ~taken.failed THEN taken
               ELSE LET t == [taken EXCEPT !.failed = FALSE]
                    IN QuorumUpdate(t, Cardinality(t.sync) - t.numsync, t.sync, NoLeader, TRUE)
      known == fixed.sync \cap fixed.active
      confirmed == IF fixed.confirmed = 0 /\ known # {}
                   THEN Lower(Cardinality(known), Cardinality(fixed.voters) - fixed.quorum)
                   ELSE fixed.confirmed
  IN IF failover /\ ~taken.failed /\ known = {} THEN taken
     ELSE IF fixed.failed THEN fixed
     ELSE IF fixed.leader # r.leaderWanted THEN Fail(fixed)
     ELSE ChangeFactor(AddNew(RemoveGone(NonSteady([fixed EXCEPT !.confirmed = confirmed]))))

\* Mutant: a change of /sync is always made before the one of synchronous_standby_names.
TransitionsKeyFirst(r) ==
  LET g == Generate(r)
      out == IF g.failed THEN <<>> ELSE g.out
  IN SelectSeq(out, LAMBDA t : t.type = "quorum") \o SelectSeq(out, LAMBDA t : t.type # "quorum")

Transitions(r) ==
  LET g == Generate(r) IN IF g.failed THEN <<>> ELSE g.out
=============================================================================
