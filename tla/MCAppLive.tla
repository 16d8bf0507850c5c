------------------------------ MODULE MCAppLive ------------------------------
(* Small instances of the flash sale, the shop cache and scrolling for their  *)
(* liveness properties; one of the three runs in a behaviour.                *)
EXTENDS MCSeckill, FeedScroll, ShopCache

VARIABLE part   \* the component that runs

AppLiveInit ==
    /\ part \in {"sale", "scroll", "shop"}
    /\ Init
    /\ ScrollInit
    /\ ShopInit
    /\ part # "shop" => row = NoShop

AppLiveNext ==
    /\ part' = part
    /\ \/ part = "sale" /\ Next /\ UNCHANGED <<scrollVars, shopVars>>
       \/ part = "scroll" /\ ScrollNext /\ UNCHANGED <<vars, shopVars>>
       \/ part = "shop" /\ ShopNext /\ UNCHANGED <<vars, scrollVars>>

\* Fairness, ScrollFairness and ShopFairness.  Where a component begins it owes
\* no step but the creation of the group, so that one that does not run is asked
\* for nothing.
AppLiveSpec ==
    /\ AppLiveInit
    /\ [][AppLiveNext]_<<part, vars, scrollVars, shopVars>>
    /\ \A i \in Instances : WF_vars(Worker(i)) /\ WF_vars(Restart(i))
    /\ \A v \in Vouchers : WF_vars(PublishStock(v) \/ CommitVoucher(v))
    /\ WF_vars(part = "sale" /\ CreateGroup)
    /\ ScrollFairness
    /\ ShopFairness

=============================================================================
