---------------------------- MODULE PgDistGroup ----------------------------
(***************************************************************************)
(* PgDistGroup.transition: how the rows of one Citus group in pg_dist_node *)
(* are changed from one topology to another.  A topology maps the hosts of *)
(* the group to their role and to the id of their row (None when it is not *)
(* known); it has at most one primary.                                     *)
(***************************************************************************)
EXTENDS Integers, Sequences, FiniteSets, Functions

NoId == 0
NoHost == "none"

Node(role, id) == [role |-> role, id |-> id]
IsPrimary(node) == node.role \in {"primary", "demoted"}

\* primary: the host that is, or NoHost
Primary(nodes) ==
  IF \E h \in DOMAIN nodes : IsPrimary(nodes[h])
  THEN CHOOSE h \in DOMAIN nodes : IsPrimary(nodes[h]) ELSE NoHost

\* equals, without the ids
SameTopology(a, b) == [h \in DOMAIN a |-> a[h].role] = [h \in DOMAIN b |-> b[h].role]

With(nodes, h, node) == [x \in DOMAIN nodes \cup {h} |-> IF x = h THEN node ELSE nodes[x]]

\* set.pop takes any element: the first one in some order of the hosts
Pop(S, order) == CHOOSE h \in S : \A x \in S : order[h] <= order[x]

\* What is yielded: a row to be written.
Yield(nodes, h) == [host |-> h, role |-> nodes[h].role, id |-> nodes[h].id]

\* The transition so far: both topologies, which the code changes in place, the gone and the added
\* hosts that are still to be dealt with, what has been yielded, and whether a primary was updated.
\* (As a mutant of Start: the row of the old primary is up for reuse when it is gone.)
StartAllGone(new, old, failover) ==
  [new |-> new, old |-> old, failover |-> failover, out |-> <<>>,
   gone |-> DOMAIN old \ DOMAIN new,
   added |-> (DOMAIN new \ DOMAIN old) \ {Primary(new)}]

Start(new, old, failover) ==
  [new |-> new, old |-> old, failover |-> failover, out |-> <<>>,
   gone |-> (DOMAIN old \ DOMAIN new) \ {Primary(old)},
   added |-> (DOMAIN new \ DOMAIN old) \ {Primary(new)}]

Emit(t, nodes, h) == [t EXCEPT !.out = Append(@, Yield(nodes, h))]

\* Put host h into row id of the new topology.
Place(t, h, id) ==
  LET new == [t.new EXCEPT ![h].id = id] IN Emit([t EXCEPT !.new = new], new, h)

\* A switchover with the same primary: its row is written, as <host>-demoted to pause the clients.
\* (As a mutant of SamePrimary: the row is written to pause the clients, but not to resume them.)
SamePrimaryPauseOnly(t, p) ==
  LET same == [t EXCEPT !.new[p].id = t.old[p].id] IN
  IF t.new[p].role # "demoted" THEN same
  ELSE Emit([same EXCEPT !.failover = TRUE], same.new, p)

SamePrimary(t, p) ==
  LET same == [t EXCEPT !.new[p].id = t.old[p].id] IN
  IF t.old[p].role = t.new[p].role THEN same
  ELSE Emit([same EXCEPT !.failover = TRUE], same.new, p)

\* The new primary was a secondary: its row is needed for another host before it takes that of the
\* old primary q.
FreeRow(t, p, q, order) ==
  LET row == t.old[p].id IN
  IF q \notin DOMAIN t.new /\ t.added # {}
  THEN LET n == Pop(t.added, order)
           placed == Place(t, n, row)
       IN [placed EXCEPT !.added = @ \ {n}, !.old[q].role = "secondary"]
  ELSE LET renamed == [t EXCEPT !.old[q].role = "demoted"]
           paused == IF t.old[q].role = "primary" THEN Emit(renamed, renamed.old, q) ELSE t
           kept == IF q \in DOMAIN t.new THEN paused
                   ELSE [paused EXCEPT !.new = With(@, q, Node(t.old[p].role, NoId))]
       IN Place(kept, q, row)

\* The new primary was not registered: the row of a secondary that is gone may take the old one.
KeepOldPrimary(t, q, order) ==
  LET back == q \notin DOMAIN t.new /\ t.old[q].role = "demoted"
                /\ Cardinality(t.gone) > Cardinality(t.added)
      kept == IF back THEN [t EXCEPT !.new = With(@, q, Node("secondary", NoId))] ELSE t
      g == Pop(t.gone, order)
  IN IF t.gone = {} \/ q \notin DOMAIN kept.new THEN kept
     ELSE [Place(kept, q, t.old[g].id) EXCEPT !.gone = @ \ {g}]

ChangePrimary(t, p, q, order) ==
  LET registered == p \in DOMAIN t.old
      freed == IF registered THEN FreeRow(t, p, q, order) ELSE t
      placed == Place([freed EXCEPT !.failover = TRUE], p, t.old[q].id)
  IN IF registered THEN placed ELSE KeepOldPrimary(placed, q, order)

Primaries(t, order) ==
  LET p == Primary(t.new) q == Primary(t.old) IN
  IF q = NoHost THEN Emit(t, t.new, p)
  ELSE IF p = q THEN SamePrimary(t, p)
  ELSE ChangePrimary(t, p, q, order)

\* Standbys that stay keep their rows.
FillIds(t) ==
  [t EXCEPT !.new = [h \in DOMAIN @ |->
     IF ~IsPrimary(@[h]) /\ @[h].id = NoId /\ h \in DOMAIN t.old /\ ~IsPrimary(t.old[h])
     THEN [@[h] EXCEPT !.id = t.old[h].id] ELSE @[h]]]

\* Rows of standbys that are gone are reused for added ones.
ReuseRows(t, order) ==
  LET pairs == IF Cardinality(t.gone) < Cardinality(t.added) THEN Cardinality(t.gone) ELSE Cardinality(t.added)
      step[i \in 0..pairs] ==
        IF i = 0 THEN t
        ELSE LET r == step[i - 1] a == Pop(r.added, order) g == Pop(r.gone, order)
             IN [Place(r, a, r.old[g].id) EXCEPT !.added = @ \ {a}, !.gone = @ \ {g}]
  IN step[pairs]

\* The rows that are left over are removed and added.
RemoveAndAdd(t, order) ==
  [t EXCEPT !.out = @ \o [i \in 1..Cardinality(t.gone) |->
                            [host |-> CHOOSE h \in t.gone : Cardinality({x \in t.gone : order[x] <= order[h]}) = i,
                             role |-> "", id |-> NoId]]
                      \o [i \in 1..Cardinality(t.added) |->
                            Yield(t.new, CHOOSE h \in t.added : Cardinality({x \in t.added : order[x] <= order[h]}) = i)]]

\* Nodes are only removed and added when the metadata is in sync: not after an update of the primary.
AddRemove(t, order) ==
  IF ~t.failover THEN RemoveAndAdd(t, order)
  ELSE [t EXCEPT !.new = [h \in (DOMAIN @ \ t.added) \cup t.gone |-> IF h \in t.gone THEN t.old[h] ELSE @[h]]]

transition(new, old, failover, order) ==
  AddRemove(ReuseRows(FillIds(Primaries(Start(new, old, failover), order)), order), order)
=============================================================================
