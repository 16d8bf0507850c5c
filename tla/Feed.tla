-------------------------------- MODULE Feed --------------------------------
(***************************************************************************)
(* Publishing a blog (BlogService.SaveBlog) beside the follow requests: store *)
(* the row, read the author's followers in one query, then push the id into   *)
(* the inbox of each, one Redis call after the other.                        *)
(***************************************************************************)
EXTENDS Follow

CONSTANT Blogs   \* one for each call of SaveBlog

VARIABLES
    step,    \* where the call of SaveBlog for a blog is
    author,  \* the user who published it
    fans,    \* the users the query found and the loop has yet to push to
    inbox,   \* Redis: the members of feed:<userId>
    loyal,   \* history: fans with a row from the call until the query, throughout
    ever     \* history: ... and at some time

feedVars == <<step, author, fans, inbox, loyal, ever>>
allVars == <<followVars, feedVars>>

FeedTypeOK ==
    /\ step \in [Blogs -> {"new", "add", "query", "push", "done", "failed"}]
    /\ author \in [Blogs -> Authors]
    /\ fans \in [Blogs -> SUBSET Fans]
    /\ inbox \in [Fans -> SUBSET Blogs]
    /\ loyal \in [Blogs -> SUBSET Fans]
    /\ ever \in [Blogs -> SUBSET Fans]

FeedInit ==
    /\ step = [b \in Blogs |-> "new"]
    /\ author \in [Blogs -> Authors]
    /\ fans = [b \in Blogs |-> {}]
    /\ inbox = [u \in Fans |-> {}]
    /\ loyal = [b \in Blogs |-> {}]
    /\ ever = [b \in Blogs |-> {}]

-----------------------------------------------------------------------------
FollowersOf(a) == {u \in Fans : IsFollow(<<u, a>>)}

At(b, s, t) ==
    /\ step[b] = s
    /\ step' = [step EXCEPT ![b] = t]
    /\ UNCHANGED <<author, followVars>>

\* SaveBlog(blog) is called.
Publish(b) ==
    /\ At(b, "new", "add")
    /\ loyal' = [loyal EXCEPT ![b] = FollowersOf(author[b])]
    /\ ever' = [ever EXCEPT ![b] = FollowersOf(author[b])]
    /\ UNCHANGED <<fans, inbox>>

\* base.Add(blog)
AddBlog(b) ==
    /\ At(b, "add", "query")
    /\ UNCHANGED <<fans, inbox, loyal, ever>>

\* Mutant of Found: the followers according to the sets in Redis.
FoundInRedis(b) == {u \in Fans : author[b] \in follows[u]}

\* Query(x => x.followUserId == user.id)
Found(b) == FollowersOf(author[b])

QueryFans(b) ==
    /\ At(b, "query", IF Found(b) = {} THEN "done" ELSE "push")
    /\ fans' = [fans EXCEPT ![b] = Found(b)]
    /\ UNCHANGED <<inbox, loyal, ever>>

\* One turn of the loop; a follower with two rows gets the same member twice.
PushTo(b, u) ==
    /\ u \in fans[b]
    /\ At(b, "push", IF fans[b] = {u} THEN "done" ELSE "push")
    /\ fans' = [fans EXCEPT ![b] = @ \ {u}]
    /\ inbox' = [inbox EXCEPT ![u] = @ \cup {b}]
    /\ UNCHANGED <<loyal, ever>>

\* A call throws or the process dies: the other fans are never pushed to.
SaveFails(b) ==
    /\ step[b] \in {"add", "query", "push"}
    /\ failures < MaxFailures
    /\ failures' = failures + 1
    /\ step' = [step EXCEPT ![b] = "failed"]
    /\ fans' = [fans EXCEPT ![b] = {}]
    /\ UNCHANGED <<rows, follows, pc, pair, isFollow, overlapped, wanted, unsettled>>
    /\ UNCHANGED <<author, inbox, loyal, ever>>

\* A step of the follow requests; the history of the blogs under way follows it.
FollowStep ==
    /\ FollowNext
    /\ UNCHANGED <<step, author, fans, inbox>>
    /\ loyal' = [b \in Blogs |-> IF step[b] \in {"add", "query"}
                                 THEN loyal[b] \cap FollowersOf(author[b])' ELSE loyal[b]]
    /\ ever' = [b \in Blogs |-> IF step[b] \in {"add", "query"}
                                THEN ever[b] \cup FollowersOf(author[b])' ELSE ever[b]]

Next ==
    \/ FollowStep
    \/ \E b \in Blogs :
         \/ Publish(b)
         \/ AddBlog(b)
         \/ QueryFans(b)
         \/ \E u \in Fans : PushTo(b, u)
         \/ SaveFails(b)

Init == FollowInit /\ FeedInit

Spec == Init /\ [][Next]_allVars

-----------------------------------------------------------------------------
(***************************************************************************)
(* SaveBlog pushes to all fans (BlogService.cs:133): when the call returned,  *)
(* everyone who followed the author from its beginning until the followers    *)
(* were read has the blog, whatever the other requests did meanwhile.        *)
(***************************************************************************)
LoyalFansServed == \A b \in Blogs : step[b] = "done" => \A u \in loyal[b] : b \in inbox[u]

(***************************************************************************)
(* ... and nobody has it who did not follow the author at any moment of the    *)
(* call up to that reading.                                                 *)
(***************************************************************************)
OnlyFansServed == \A b \in Blogs, u \in Fans : b \in inbox[u] => u \in ever[b]

(* Publishing serves the right fans: those two together.                     *)
FansServed == LoyalFansServed /\ OnlyFansServed

=============================================================================
