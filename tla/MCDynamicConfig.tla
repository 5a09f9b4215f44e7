-------------------------- MODULE MCDynamicConfig --------------------------
(* Two nodes.  The configuration begins with a max_connections that fails its validator; edits set *)
(* one that passes, and timeouts of which retry_timeout and loop_wait have to be reduced.          *)
EXTENDS DynamicConfig

T(lw, rt, ttl) == [loop_wait |-> lw, retry_timeout |-> rt, ttl |-> ttl]
First       == [t |-> T(10, 10, 30), conns |-> 10]
Tight       == {T(10, 10, 20)}
Connections == {200}
=============================================================================
