---------------------------- MODULE MCRedisData -----------------------------
(* Small instances of Keyspace and Streams for their safety properties; one   *)
(* of them runs in a behaviour.                                              *)
EXTENDS MCKeyspace, MCStreams

VARIABLE part   \* the component that runs

RedisDataInit ==
    /\ part \in {"keyspace", "streams"}
    /\ KsInit
    /\ XsInit

RedisDataNext ==
    /\ part' = part
    /\ \/ part = "keyspace" /\ KsNext /\ UNCHANGED xsVars
       \/ part = "streams" /\ XsNext /\ UNCHANGED ksVars

RedisDataSpec == RedisDataInit /\ [][RedisDataNext]_<<part, ksVars, xsVars>>

\* Both are well typed.
RedisDataTypeOK == KsTypeOK /\ XsTypeOK

=============================================================================
