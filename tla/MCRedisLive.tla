---------------------------- MODULE MCRedisLive -----------------------------
(* Small instances of Psync, Sentinel and Cluster for their liveness          *)
(* properties, and of Dict; one of them runs in a behaviour.                 *)
EXTENDS MCPsync, MCSentinel, MCCluster, MCDict

VARIABLE part   \* the component that runs

RedisLiveInit ==
    /\ part \in {"psync", "sentinel", "cluster", "dict"}
    /\ PsInit
    /\ SnInit
    /\ ClInit
    /\ DictInit
    /\ part # "dict" => ht0 = NoTable

RedisLiveNext ==
    /\ part' = part
    /\ \/ part = "psync" /\ PsNext /\ UNCHANGED <<snVars, clVars, dictVars>>
       \/ part = "sentinel" /\ SnNext /\ UNCHANGED <<psVars, clVars, dictVars>>
       \/ part = "cluster" /\ ClNext /\ UNCHANGED <<psVars, snVars, dictVars>>
       \/ part = "dict" /\ DictNextStep /\ UNCHANGED <<psVars, snVars, clVars>>

\* PsFairness, SnFairness and ClFairness, each while its component runs.
Fairly(name, A) == part = name /\ A

RedisLiveSpec ==
    /\ RedisLiveInit
    /\ [][RedisLiveNext]_<<part, psVars, snVars, clVars, dictVars>>
    /\ \A n \in PsServer :
        /\ WF_psVars(Fairly("psync", PsProtocol(n)))
        /\ WF_psVars(Fairly("psync", updateFailoverStatus(n)))
    /\ \A s \in SnSentinel : WF_snVars(Fairly("sentinel", sentinelHandleRedisInstance(s)))
    /\ \A p \in Links :
        WF_snVars(Fairly("sentinel", sentinelProcessHelloMessage(p[1], p[2])))
    /\ \A s \in SnSentinel, i \in SnServer :
        WF_snVars(Fairly("sentinel", sentinelRefreshInstanceInfo(s, i)))
    /\ \A p \in ClPairs : WF_clVars(Fairly("cluster", Heartbeat(p[1], p[2])))
    /\ WF_clVars(Fairly("cluster", \E n \in ClNode : ClRestart(n) \/ Rejoin(n)))

\* Replication and the hash table are well typed, and the table holds what it
\* should: its representation invariant.
RedisLiveTypeOK == PsTypeOK /\ DictTypeOK /\ DictHoldsWhatWasAdded

=============================================================================
