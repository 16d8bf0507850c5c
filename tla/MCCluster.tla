----------------------------- MODULE MCCluster ------------------------------
(* Small clusters.                                                           *)
EXTENDS Cluster, TLC

Budget(f) == f @@ [e \in ClEvent |-> 0]
Masters(n, k) == [i \in 1 .. k |-> IF i > n THEN 1 ELSE NoNode]

\* Three masters vote on the replica of one that crashes, or nodes are cut off.
Automatic(events) == [master |-> Masters(3, 4), owner |-> <<1, 2, 3>>,
                      budget |-> Budget(events)]
MasterCrashes == Automatic("crash" :> 1 @@ "election" :> 1)
Partition == Automatic("cut" :> 1 @@ "election" :> 2)
\* Two replicas of a master are told to fail over.
Forced == [master |-> Masters(1, 3), owner |-> <<1>>,
           budget |-> Budget("force" :> 2 @@ "election" :> 2)]
\* Both take over.
TakenOver == [master |-> Masters(1, 3), owner |-> <<1>>,
              budget |-> Budget("takeover" :> 2)]
\* Two replicas are told to fail over, and votes may come late.
Late == [master |-> Masters(1, 3), owner |-> <<1>>,
         budget |-> Budget("force" :> 2 @@ "late" :> 1 @@ "election" :> 3)]

MCClInstances == {MasterCrashes, Partition, Forced, TakenOver}
MCClFair == {TakenOver}
MCClLate == {Late}
=============================================================================
