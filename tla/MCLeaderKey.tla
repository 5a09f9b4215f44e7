------------------------------ MODULE MCLeaderKey ------------------------------
\* LeaderKey with two clients.  A handover takes etcd v3 and Kubernetes three
\* writes of the key, and etcd v2 and Raft, whose owner rewrites it to renew
\* it, one more.
EXTENDS LeaderKey

MCMaxRev == [b \in All |-> IF b \in {"etcd3", "kubernetes"} THEN 3 ELSE 4]

=============================================================================
