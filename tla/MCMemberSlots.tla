---- MODULE MCMemberSlots ----
(* Model checking of MemberSlots: the nodes are interchangeable. *)
EXTENDS MemberSlots, TLC

Symmetry == Permutations(Nodes)
====
