------------------------------- MODULE Follow -------------------------------
(***************************************************************************)
(* Following a user (FollowService.Follow): a row of tb_follow in MySQL and a *)
(* member of the set follows:<userId> in Redis, written one after the other   *)
(* by concurrent requests.  IsFollow reads the table, FollowCommons the sets. *)
(***************************************************************************)
EXTENDS Naturals, FiniteSets

CONSTANTS
    Fans,         \* the users who ask
    Authors,      \* the users they ask about; the two sets may overlap
    Requests,     \* calls of Follow that may be under way at a time
    MaxRows,      \* bound on the rows of one pair
    MaxFailures   \* bound on the failed calls

ASSUME FollowBounds == MaxRows \in Nat /\ MaxFailures \in Nat

VARIABLES
    rows,        \* MySQL: how many rows of tb_follow a pair has
    follows,     \* Redis: the sets follows:<userId>
    pc,          \* where a request is
    pair,        \* ... its user and the user it is about
    isFollow,    \* ... and what it asks for
    failures,
    overlapped,  \* history: requests that met another one on their pair
    wanted,      \* history: pairs whose last request was to follow
    unsettled    \* history: pairs that saw an overlap or a failure since the
                 \* last completed request to follow that ran alone

followVars == <<rows, follows, pc, pair, isFollow, failures, overlapped, wanted, unsettled>>

Pairs == Fans \X Authors

FollowTypeOK ==
    /\ rows \in [Pairs -> Nat]
    /\ follows \in [Fans -> SUBSET Authors]
    /\ pc \in [Requests -> {"idle", "table", "set"}]
    /\ pair \in [Requests -> Pairs]
    /\ isFollow \in [Requests -> {"follow", "unfollow"}]
    /\ failures \in 0 .. MaxFailures
    /\ overlapped \subseteq Requests
    /\ wanted \subseteq Pairs
    /\ unsettled \subseteq Pairs

FollowInit ==
    /\ rows = [p \in Pairs |-> 0]
    /\ follows = [u \in Fans |-> {}]
    /\ pc = [r \in Requests |-> "idle"]
    /\ pair \in {[r \in Requests |-> p] : p \in Pairs}
    /\ isFollow = [r \in Requests |-> "follow"]
    /\ failures = 0
    /\ overlapped = {}
    /\ wanted = {}
    /\ unsettled = {}

-----------------------------------------------------------------------------
ActiveOn(p) == {r \in Requests : pc[r] # "idle" /\ pair[r] = p}

Goto(r, l) == pc' = [pc EXCEPT ![r] = l]

(***************************************************************************)
(* Follow(followUserId, isFollow) is called.  No bound but MaxRows is put on  *)
(* how often a user asks for the same.                                       *)
(***************************************************************************)
Ask(r, p, w) ==
    /\ pc[r] = "idle"
    /\ w = "follow" => rows[p] + Cardinality(ActiveOn(p)) < MaxRows
    /\ Goto(r, "table")
    /\ pair' = [pair EXCEPT ![r] = p]
    /\ isFollow' = [isFollow EXCEPT ![r] = w]
    /\ overlapped' = IF ActiveOn(p) = {} THEN overlapped \ {r}
                                         ELSE overlapped \cup ActiveOn(p) \cup {r}
    /\ unsettled' = IF ActiveOn(p) = {} THEN unsettled ELSE unsettled \cup {p}
    /\ wanted' = IF w = "follow" THEN wanted \cup {p} ELSE wanted \ {p}
    /\ UNCHANGED <<rows, follows, failures>>

(***************************************************************************)
(* AddAndIgnoreColumns: INSERT with a key of its own.  The table has no unique *)
(* index on the pair, a second request adds a second row.                    *)
(***************************************************************************)
InsertRow(r) ==
    /\ pc[r] = "table"
    /\ isFollow[r] = "follow"
    /\ rows' = [rows EXCEPT ![pair[r]] = @ + 1]
    /\ Goto(r, "set")
    /\ UNCHANGED <<follows, pair, isFollow, failures, overlapped, wanted, unsettled>>

\* Mutant of Left: DELETE ... LIMIT 1.
LeftOne(n) == IF n = 0 THEN 0 ELSE n - 1

\* What DELETE ... WHERE user_id = ? AND follow_user_id = ? leaves of n rows.
Left(n) == 0

(***************************************************************************)
(* DeleteNoEntity: it succeeds only if there was a row; else the set is left  *)
(* alone and the call answers success all the same.                         *)
(***************************************************************************)
DeleteRows(r) ==
    /\ pc[r] = "table"
    /\ isFollow[r] = "unfollow"
    /\ rows' = [rows EXCEPT ![pair[r]] = Left(@)]
    /\ Goto(r, IF rows[pair[r]] > 0 THEN "set" ELSE "idle")
    /\ UNCHANGED <<follows, pair, isFollow, failures, overlapped, wanted, unsettled>>

WithMember(p) == [follows EXCEPT ![p[1]] = @ \cup {p[2]}]

\* SetAddAsync: a request to follow that ran alone puts the pair in order.
AddMember(r) ==
    /\ pc[r] = "set"
    /\ isFollow[r] = "follow"
    /\ follows' = WithMember(pair[r])
    /\ Goto(r, "idle")
    /\ unsettled' = IF r \in overlapped THEN unsettled ELSE unsettled \ {pair[r]}
    /\ UNCHANGED <<rows, pair, isFollow, failures, overlapped, wanted>>

WithoutMember(p) == [follows EXCEPT ![p[1]] = @ \ {p[2]}]

\* SetRemoveAsync
RemoveMember(r) ==
    /\ pc[r] = "set"
    /\ isFollow[r] = "unfollow"
    /\ follows' = WithoutMember(pair[r])
    /\ Goto(r, "idle")
    /\ UNCHANGED <<rows, pair, isFollow, failures, overlapped, wanted, unsettled>>

(***************************************************************************)
(* A call to MySQL or Redis throws: the handler answers Fail.  The command of *)
(* Redis may have been carried out; that of MySQL is InsertRow or DeleteRows, *)
(* then this.                                                               *)
(***************************************************************************)
FollowFails(r) ==
    /\ pc[r] # "idle"
    /\ failures < MaxFailures
    /\ failures' = failures + 1
    /\ Goto(r, "idle")
    /\ unsettled' = unsettled \cup {pair[r]}
    /\ follows' \in IF pc[r] = "table" THEN {follows}
                    ELSE {follows, IF isFollow[r] = "follow" THEN WithMember(pair[r])
                                                             ELSE WithoutMember(pair[r])}
    /\ UNCHANGED <<rows, pair, isFollow, overlapped, wanted>>

FollowNext ==
    \E r \in Requests :
        \/ \E p \in Pairs, w \in {"follow", "unfollow"} : Ask(r, p, w)
        \/ InsertRow(r)
        \/ DeleteRows(r)
        \/ AddMember(r)
        \/ RemoveMember(r)
        \/ FollowFails(r)

FollowSpec == FollowInit /\ [][FollowNext]_followVars

-----------------------------------------------------------------------------
\* IsFollow(followUserId) of user p[1]: the table has a row.
IsFollow(p) == rows[p] > 0

\* FollowCommons(v) of user u: the intersection of two sets of Redis.
FollowCommons(u, v) == follows[u] \cap follows[v]

Settled(p) == ActiveOn(p) = {} /\ p \notin unsettled

(***************************************************************************)
(* The table and the set tell what the user last asked for, for every pair    *)
(* that saw no overlapping requests and no failure since a request to follow  *)
(* last ran through alone: asking to follow again repairs whatever went       *)
(* wrong before.  The two stores are read by different operations.           *)
(***************************************************************************)
SettledAsAsked ==
    \A p \in Pairs : Settled(p) =>
        /\ IsFollow(p) <=> p \in wanted
        /\ p[2] \in follows[p[1]] <=> p \in wanted

(***************************************************************************)
(* Common follows, answered from Redis, are those the table would give.       *)
(***************************************************************************)
CommonsMatchTable ==
    \A u, v \in Fans :
        (\A f \in Authors : Settled(<<u, f>>) /\ Settled(<<v, f>>)) =>
            FollowCommons(u, v) = {f \in Authors : IsFollow(<<u, f>>) /\ IsFollow(<<v, f>>)}

=============================================================================
