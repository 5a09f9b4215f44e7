----------------------------- MODULE LeaderLease -----------------------------
(***************************************************************************)
(* What every DCS backend of Patroni promises about the leader key: the    *)
(* key names one owner, an owner that was told so trusts it for less than  *)
(* a ttl, and the key changes hands only when nobody trusts it any more.   *)
(*                                                                         *)
(* The contract is the one of AbstractDCS.attempt_to_acquire_leader and    *)
(* AbstractDCS._update_leader (patroni/dcs/__init__.py): both must be      *)
(* compare-and-swap operations and return True only when the key is held.  *)
(***************************************************************************)
CONSTANTS Clients, None

VARIABLES owner,    \* the client the leader key names, or None
          trust     \* the clients that believe, within their ttl, they own it

vars == <<owner, trust>>

Init == owner = None /\ trust = {}

\* The key is written for c, by a create or by a swap; c has no answer yet.
Take(c) ==
  /\ trust \subseteq {c}
  /\ owner' = c
  /\ UNCHANGED trust

\* The answer reaches the owner.
Confirm(c) ==
  /\ owner = c
  /\ trust' = {c}
  /\ UNCHANGED owner

\* c learns that the call failed, steps down, or its ttl has passed.
Lapse(c) ==
  /\ trust' = trust \ {c}
  /\ UNCHANGED owner

\* The key expires or is deleted; no client trusts it then.
Free ==
  /\ trust = {}
  /\ owner' = None
  /\ UNCHANGED trust

\* The write and its answer in one step.
Hold(c) ==
  /\ trust \subseteq {c}
  /\ owner' = c
  /\ trust' = {c}

Next ==
  \/ Free
  \/ \E c \in Clients : Take(c) \/ Confirm(c) \/ Lapse(c) \/ Hold(c)

Spec == Init /\ [][Next]_vars

TypeOK == owner \in Clients \cup {None} /\ trust \subseteq Clients

\* Whoever trusts the key is the client it names.
TrustedOwns == trust \subseteq {owner}

\* At most one client at a time trusts that it holds the leader key.
Exclusive == \A c, d \in trust : c = d
===============================================================================
