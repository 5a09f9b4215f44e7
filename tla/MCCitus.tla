------------------------------ MODULE MCCitus ------------------------------
\* A coordinator of one host, whose leader stays, and a worker group of three, which changes its own.
EXTENDS Citus

MCHosts == [g \in {0, 1} |-> IF g = 0 THEN {"c1"} ELSE {"w1", "w2", "w3"}]
=============================================================================
