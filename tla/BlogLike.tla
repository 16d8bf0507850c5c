------------------------------ MODULE BlogLike ------------------------------
(***************************************************************************)
(* Likes of blogs: BlogService.LikeBlog toggles a user's like, which is      *)
(* kept twice, as a number in tb_blog.liked (MySQL) and as a member of the   *)
(* sorted set blog:like:<id> (Redis).  LikeBlog reads the whole blog row,    *)
(* changes `liked' in memory and writes the whole row back, without lock or  *)
(* transaction.  The scores of the sorted set are left out.                  *)
(***************************************************************************)
EXTENDS Integers, FiniteSets

CONSTANTS
    Users,         \* logged-in users
    LikeBlogs,     \* blogs that exist
    Clicks,        \* concurrent LikeBlog requests
    Width,         \* number of values of the unsigned column and property `liked'
    MaxLikeFaults  \* bound on the failed calls of a behaviour

ASSUME UsersAssumption == IsFiniteSet(Users) /\ Users # {}
ASSUME LikeBlogsAssumption == LikeBlogs # {}
ASSUME WidthAssumption == Width \in Nat /\ Cardinality(Users) < Width
ASSUME MaxLikeFaultsAssumption == MaxLikeFaults \in Nat

VARIABLES
    liked,      \* MySQL: tb_blog.liked
    likers,     \* Redis: the members of blog:like:<id>
    likePc,     \* next step of each request
    click,      \* the user and the blog of each request
    copy,       \* `liked' of the row a request has read
    raced,      \* history: blogs with overlapping requests or a failed call
    likeFaults  \* number of failed calls so far

likeVars == <<liked, likers, likePc, click, copy, raced, likeFaults>>

Click == [user : Users, blog : LikeBlogs]

LikeTypeOK ==
    /\ liked \in [LikeBlogs -> 0 .. Width - 1]
    /\ likers \in [LikeBlogs -> SUBSET Users]
    /\ likePc \in [Clicks -> {"idle", "like", "unlike", "write+", "write-", "zadd", "zrem"}]
    /\ click \in [Clicks -> Click]
    /\ copy \in [Clicks -> 0 .. Width - 1]
    /\ raced \subseteq LikeBlogs
    /\ likeFaults \in 0 .. MaxLikeFaults

LikeInit ==
    /\ liked = [b \in LikeBlogs |-> 0]
    /\ likers = [b \in LikeBlogs |-> {}]
    /\ likePc = [r \in Clicks |-> "idle"]
    /\ click = [r \in Clicks |-> CHOOSE c \in Click : TRUE]   \* no request yet
    /\ copy = [r \in Clicks |-> 0]
    /\ raced = {}
    /\ likeFaults = 0

Likes(u, b) == u \in likers[b]
LikeGoto(r, l) == likePc' = [likePc EXCEPT ![r] = l]

-----------------------------------------------------------------------------
\* ZSCORE of the user decides the branch.
ToggleFrom(u, b) == IF Likes(u, b) THEN "unlike" ELSE "like"

CheckScore(r, u, b) ==
    /\ likePc[r] = "idle"
    /\ click' = [click EXCEPT ![r] = [user |-> u, blog |-> b]]
    /\ LikeGoto(r, ToggleFrom(u, b))
    /\ raced' = IF \E o \in Clicks : likePc[o] # "idle" /\ click[o].blog = b
                THEN raced \cup {b}
                ELSE raced
    /\ UNCHANGED <<liked, likers, copy, likeFaults>>

ReadBlog(r) ==
    /\ likePc[r] \in {"like", "unlike"}
    /\ copy' = [copy EXCEPT ![r] = liked[click[r].blog]]
    /\ LikeGoto(r, IF likePc[r] = "like" THEN "write+" ELSE "write-")
    /\ UNCHANGED <<liked, likers, click, raced, likeFaults>>

\* Mutant of NewCount: both branches count up.
NewCountUp(r) == (copy[r] + 1) % Width

\* Mutant of NewCount: the property is signed.
NewCountSigned(r) == IF likePc[r] = "write+" THEN copy[r] + 1 ELSE copy[r] - 1

\* liked += 1 and liked -= 1 on an unsigned property, unchecked.
NewCount(r) == IF likePc[r] = "write+" THEN (copy[r] + 1) % Width
                                   ELSE (copy[r] - 1) % Width

WriteBlog(r) ==
    /\ likePc[r] \in {"write+", "write-"}
    /\ liked' = [liked EXCEPT ![click[r].blog] = NewCount(r)]
    /\ LikeGoto(r, IF likePc[r] = "write+" THEN "zadd" ELSE "zrem")
    /\ UNCHANGED <<likers, click, copy, raced, likeFaults>>

\* ZADD or ZREM of the user.
NewLikers(r) ==
    IF likePc[r] = "zadd" THEN likers[click[r].blog] \cup {click[r].user}
                      ELSE likers[click[r].blog] \ {click[r].user}

WriteSet(r) ==
    /\ likePc[r] \in {"zadd", "zrem"}
    /\ likers' = [likers EXCEPT ![click[r].blog] = NewLikers(r)]
    /\ copy' = [copy EXCEPT ![r] = 0]
    /\ LikeGoto(r, "idle")
    /\ UNCHANGED <<liked, click, raced, likeFaults>>

(***************************************************************************)
(* A call of the request fails, carried out or not (or the process ends):    *)
(* nothing undoes what was done before.                                     *)
(***************************************************************************)
LikeFails(r) ==
    /\ likeFaults < MaxLikeFaults
    /\ likeFaults' = likeFaults + 1
    /\ likePc[r] # "idle"
    /\ \/ UNCHANGED <<liked, likers>>
       \/ /\ likePc[r] \in {"write+", "write-"}
          /\ liked' = [liked EXCEPT ![click[r].blog] = NewCount(r)]
          /\ UNCHANGED likers
       \/ /\ likePc[r] \in {"zadd", "zrem"}
          /\ likers' = [likers EXCEPT ![click[r].blog] = NewLikers(r)]
          /\ UNCHANGED liked
    /\ raced' = raced \cup {click[r].blog}
    /\ copy' = [copy EXCEPT ![r] = 0]
    /\ LikeGoto(r, "idle")
    /\ UNCHANGED click

LikeNext ==
    \E r \in Clicks :
        \/ \E u \in Users, b \in LikeBlogs : CheckScore(r, u, b)
        \/ ReadBlog(r) \/ WriteBlog(r) \/ WriteSet(r)
        \/ LikeFails(r)

LikeSpec == LikeInit /\ [][LikeNext]_likeVars

-----------------------------------------------------------------------------
Quiet(b) == \A r \in Clicks : likePc[r] # "idle" => click[r].blog # b

(***************************************************************************)
(* The number of likes shown with a blog is the number of users who like it: *)
(* it can go wrong only for a blog on which requests overlapped or a call    *)
(* failed, however many requests run on other blogs at the same time.       *)
(***************************************************************************)
CountWrongOnlyIfRaced ==
    \A b \in LikeBlogs : Quiet(b) /\ b \notin raced => liked[b] = Cardinality(likers[b])

=============================================================================
