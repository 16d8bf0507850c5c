------------------------------ MODULE MCPsync -------------------------------
(* Three servers: a master with two replicas, or a chain.                    *)
EXTENDS Psync, TLC
CONSTANTS pa, pb, pc

Star == (pa :> NoServer) @@ (pb :> pa) @@ (pc :> pa)
Chain == (pa :> NoServer) @@ (pb :> pa) @@ (pc :> pb)
MCFirstIds == {(pa :> 1) @@ (pb :> 2) @@ (pc :> 3)}
MCTopologies == {Star}
\* At most two replication IDs beside the first ones.
TwoNewIds == PsNext /\ psIds' <= Cardinality(PsServer) + 3
PsSymm == Permutations({pb, pc})
=============================================================================
