---------------------------- MODULE MCRedisCore -----------------------------
(* Small instances of Aof and Psync for their safety properties; one of them *)
(* runs in a behaviour, the append only file in one of two ways.             *)
EXTENDS MCAof, MCPsync

VARIABLE part   \* the component that runs

RedisCoreInit ==
    /\ part \in {"files", "clients", "psync"}
    /\ AofInit
    /\ PsInit
    /\ part # "files" => afPolicy = "always" /\ afNoFsync
    /\ part = "files" /\ afPolicy = "always" => ~afNoFsync

RedisCoreNext ==
    /\ part' = part
    /\ \/ part = "files" /\ FilesNext /\ UNCHANGED psVars
       \/ part = "clients" /\ ClientsNext /\ UNCHANGED psVars
       \/ part = "psync" /\ TwoNewIds /\ UNCHANGED afVars

RedisCoreSpec == RedisCoreInit /\ [][RedisCoreNext]_<<part, afVars, psVars>>

CoreSymm == {p @@ q : p \in PsSymm, q \in AfSymm}

=============================================================================
