-------------------------------- MODULE MCApp --------------------------------
(* Small instances of the shop cache, the likes, the inbox and the follow     *)
(* requests with the fan-out beside them.  They share no key and no row, so   *)
(* one of them runs in a behaviour and the others stay where they began.     *)
EXTENDS Feed, BlogLike, FeedScroll, ShopCache, TLC

CONSTANTS u1, u2, a1, r1, r2, b1, v1, v2

VARIABLE part   \* the component that runs

AppInit ==
    /\ part \in {"follow", "like", "scroll", "shop"}
    /\ Init
    /\ LikeInit
    /\ ScrollInit
    /\ ShopInit
    /\ part # "shop" => row = NoShop
    /\ part # "follow" => \A b \in Blogs : author[b] = a1

AppNext ==
    /\ part' = part
    /\ \/ part = "follow" /\ Next /\ UNCHANGED <<likeVars, scrollVars, shopVars>>
       \/ part = "like" /\ LikeNext /\ UNCHANGED <<allVars, scrollVars, shopVars>>
       \/ part = "scroll" /\ ScrollNext /\ UNCHANGED <<allVars, likeVars, shopVars>>
       \/ part = "shop" /\ ShopNext /\ UNCHANGED <<allVars, likeVars, scrollVars>>

AppSpec == AppInit /\ [][AppNext]_<<part, allVars, likeVars, scrollVars, shopVars>>

\* Safety run only: users are interchangeable, and so are requests.
Symm == Permutations({u1, u2}) \cup Permutations({r1, r2})

\* All of them are well typed.
AppTypeOK == FeedTypeOK /\ FollowTypeOK /\ LikeTypeOK /\ ScrollTypeOK /\ ShopTypeOK

=============================================================================
