----------------------------- MODULE FeedScroll -----------------------------
(***************************************************************************)
(* One user's inbox, the sorted set feed:<id> of blog ids scored by the time *)
(* of the push (BlogService.SaveBlog), and the user scrolling through it     *)
(* page by page (BlogService.QueryBlogOfFollow) while blogs keep arriving.   *)
(* The client passes minTime and offset of a page on to the next request.   *)
(***************************************************************************)
EXTENDS Integers, Sequences, SequencesExt, FiniteSets

CONSTANTS
    ScrollBlogs,  \* blog ids
    PageSize,     \* entries per page (2 in the code)
    MaxTime,      \* bound on the clock, in milliseconds
    MaxTies       \* bound on the entries of one millisecond

ASSUME ScrollBlogsAssumption == ScrollBlogs \subseteq Nat /\ IsFiniteSet(ScrollBlogs)
ASSUME ScrollBoundsAssumption == {PageSize, MaxTime} \subseteq Nat \ {0} /\ MaxTies \in Nat

VARIABLES
    scrollInbox,  \* Redis: the members of feed:<id> with their scores
    now,          \* the clock
    phase,        \* the scroll: not begun, under way or at its end
    lastId,      \* the lastId of the next request
    offset,       \* the offset of the next request
    seen,         \* history: the blogs the scroll has shown,
    again,        \* ... and those it has shown more than once
    owed,         \* history: entries there when the scroll began, not moved since
    disturbed,    \* history: blogs that came to or left the millisecond it stood on
    stuck         \* history: a page started inside a millisecond and ended in it

scrollVars == <<scrollInbox, now, phase, lastId, offset, seen, again, owed, disturbed, stuck>>

Times == 1 .. MaxTime
Scored == [id : ScrollBlogs, time : Times]

ScrollTypeOK ==
    /\ scrollInbox \subseteq Scored
    /\ \A e, f \in scrollInbox : e.id = f.id => e = f
    /\ now \in Times
    /\ phase \in {"none", "scrolling", "end"}
    /\ lastId \in Times \cup {0}
    /\ offset \in Nat
    /\ seen \subseteq ScrollBlogs
    /\ again \subseteq seen
    /\ owed \subseteq scrollInbox
    /\ disturbed \subseteq ScrollBlogs
    /\ stuck \in BOOLEAN

ScrollInit ==
    /\ scrollInbox = {}
    /\ now = 1
    /\ phase = "none"
    /\ lastId = 0
    /\ offset = 0
    /\ seen = {}
    /\ again = {}
    /\ owed = {}
    /\ disturbed = {}
    /\ stuck = FALSE

-----------------------------------------------------------------------------
Tick ==
    /\ now < MaxTime
    /\ now' = now + 1
    /\ UNCHANGED <<scrollInbox, phase, lastId, offset, seen, again, owed, disturbed, stuck>>

(***************************************************************************)
(* SortedSetAdd of SaveBlog.  A blog that is pushed again (the follower has  *)
(* two rows in tb_follow) moves to its new time.                             *)
(***************************************************************************)
Added(b) == {e \in scrollInbox : e.id # b} \cup {[id |-> b, time |-> now]}

Push(b) ==
    /\ Cardinality({e \in scrollInbox : e.time = now}) < MaxTies
    /\ scrollInbox' = Added(b)
    /\ owed' = {e \in owed : e.id # b}
    /\ disturbed' = IF phase = "scrolling" /\ (now = lastId \/ \E e \in scrollInbox : e.id = b /\ e.time = lastId)
                    THEN disturbed \cup {b}
                    ELSE disturbed
    /\ UNCHANGED <<now, phase, lastId, offset, seen, again, stuck>>

-----------------------------------------------------------------------------
\* The order of ZREVRANGEBYSCORE: by score, ties by member.
Newer(e, f) == e.time > f.time \/ (e.time = f.time /\ e.id > f.id)

NewestFirst(entries) ==
    CHOOSE s \in [1 .. Cardinality(entries) -> entries] :
        \A j, k \in DOMAIN s : j < k => Newer(s[j], s[k])

Slice(s) ==
    SubSeq(s, offset + 1, IF offset + PageSize < Len(s) THEN offset + PageSize ELSE Len(s))

\* Mutant of Page: the time of the last entry is excluded as well as skipped.
PageExclusive == Slice(NewestFirst({e \in scrollInbox : e.time < lastId}))

\* ZREVRANGEBYSCORE feed:<id> max (0 LIMIT offset PageSize
Page == Slice(NewestFirst({e \in scrollInbox : e.time <= lastId}))

\* Mutant of Cursor: the count of ties begins at zero.
CursorFromZero(page) ==
    FoldLeft(LAMBDA c, e : IF e.time = c.minTime
                           THEN [c EXCEPT !.os = @ + 1]
                           ELSE [minTime |-> e.time, os |-> 0],
             [minTime |-> 0, os |-> 0], page)

\* The loop of step 4: time of the last entry, and how many of the page share it.
CountTie(c, e) == IF e.time = c.minTime THEN [c EXCEPT !.os = @ + 1]
                  ELSE [minTime |-> e.time, os |-> 1]

Cursor(page) == FoldLeft(CountTie, [minTime |-> 0, os |-> 1], page)

\* Step 5: WHERE id IN (...); the order of the answer is left out.
Answer(page) == {page[k].id : k \in DOMAIN page}

\* The client asks for the newest entries, the first time or afresh.
BeginScroll ==
    /\ phase \in {"none", "end"}
    /\ phase' = "scrolling"
    /\ lastId' = now
    /\ offset' = 0
    /\ seen' = {}
    /\ again' = {}
    /\ owed' = scrollInbox
    /\ disturbed' = {}
    /\ stuck' = FALSE
    /\ UNCHANGED <<scrollInbox, now>>

\* QueryBlogOfFollow(max, offset) with entries left ...
NextPage ==
    /\ phase = "scrolling"
    /\ Page # <<>>
    /\ seen' = seen \cup Answer(Page)
    /\ again' = again \cup (seen \cap Answer(Page))
    /\ lastId' = Cursor(Page).minTime
    /\ offset' = Cursor(Page).os
    /\ stuck' = (stuck \/ (offset # 0 /\ Cursor(Page).minTime = lastId))
    /\ UNCHANGED <<scrollInbox, now, phase, owed, disturbed>>

\* ... and with none: the answer has no data and the client stops.
LastPage ==
    /\ phase = "scrolling"
    /\ Page = <<>>
    /\ phase' = "end"
    /\ UNCHANGED <<scrollInbox, now, lastId, offset, seen, again, owed, disturbed, stuck>>

ScrollNext == Tick \/ (\E b \in ScrollBlogs : Push(b)) \/ BeginScroll \/ NextPage \/ LastPage

ScrollSpec == ScrollInit /\ [][ScrollNext]_scrollVars

\* The user goes on scrolling.
ScrollFairness == WF_scrollVars(NextPage \/ LastPage)

-----------------------------------------------------------------------------
(***************************************************************************)
(* Scrolling by (minTime, offset) shows no blog twice, whatever arrives in    *)
(* between, unless an entry comes to or leaves the very millisecond the       *)
(* scroll stands on, or a page that starts inside a millisecond also ends in  *)
(* it: os then counts the ties of that page only, and the next one starts    *)
(* among entries already shown.                                              *)
(***************************************************************************)
NothingShownTwice == disturbed = {} /\ ~stuck => again = {}

(***************************************************************************)
(* ... and leaves none out: at the end of the scroll every blog that was in   *)
(* the inbox when it began, and was not moved by another push, was shown.     *)
(***************************************************************************)
NothingLeftOut == phase = "end" /\ disturbed = {} => \A e \in owed : e.id \in seen

(* Scrolling shows each blog once: those two together.                       *)
ShownOnce == NothingShownTwice /\ NothingLeftOut

(***************************************************************************)
(* Scrolling comes to an end: the cursor gets past the entries but for *)
(* that one case.                                                           *)
(***************************************************************************)
ScrollEnds == (phase = "scrolling") ~> (phase = "end" \/ stuck)

=============================================================================
