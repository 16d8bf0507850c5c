----------------------------- MODULE MCRedisHA ------------------------------
(* Small instances of Sentinel and Cluster for their safety properties; one   *)
(* of them runs in a behaviour.                                              *)
EXTENDS MCSentinel, MCCluster

VARIABLE part   \* the component that runs

RedisHAInit ==
    /\ part \in {"sentinel", "cluster"}
    /\ SnInit
    /\ ClInit
    /\ part # "cluster" => Cardinality(ClNode) = 3 /\ clBudget["force"] = 0

RedisHANext ==
    /\ part' = part
    /\ \/ part = "sentinel" /\ SnNext /\ UNCHANGED clVars
       \/ part = "cluster" /\ ClNext /\ UNCHANGED snVars

RedisHASpec == RedisHAInit /\ [][RedisHANext]_<<part, snVars, clVars>>

\* Both are well typed.
RedisHATypeOK == SnTypeOK /\ ClTypeOK

=============================================================================
