------------------------------ MODULE Cluster -------------------------------
(* Redis Cluster (cluster.c): who owns a hash slot.  Every node keeps a view  *)
(* of all nodes, of their configuration epochs and of the slots; heartbeats   *)
(* and UPDATE messages carry the views around, a replica of a failed master   *)
(* is elected by the other masters for an epoch, and an operator may fail     *)
(* over by hand.  A heartbeat and the UPDATE that answers it are taken at     *)
(* once, the answer may be lost; requests for votes and votes travel, for     *)
(* ever if they are lost.  Time is not modelled: a timeout may always pass.   *)
EXTENDS Naturals, FiniteSets, FiniteSetsExt

CONSTANTS
    NoNode,         \* NULL
    ClInstances     \* the clusters to begin with, records of
                    \*   master: the master of each node, by their names in
                    \*     order; owner: of each hash slot (slots that no view
                    \*     tells apart are one); budget: how many elections,
                    \*     CLUSTER FAILOVERs, crashes and cuts, and whether (1)
                    \*     requests and votes outlast their election or sender

ClEvent == {"election", "force", "takeover", "crash", "cut", "late"}

ASSUME ClAssumption ==
    \A c \in ClInstances :
        LET nodes == DOMAIN c.master
        IN  /\ nodes \subseteq Nat /\ IsFiniteSet(nodes) /\ NoNode \notin nodes
            /\ c.master \in [nodes -> nodes \cup {NoNode}]
            /\ \A n \in nodes : c.master[n] # NoNode => c.master[c.master[n]] = NoNode
            /\ c.owner \in [DOMAIN c.owner -> {n \in nodes : c.master[n] = NoNode}]
            /\ c.budget \in [ClEvent -> Nat]

VARIABLES
    clN,        \* what each node keeps
    clUp,       \* of each node: "up", "down" or "cut" (reaches nobody)
    clNet,      \* requests for votes and votes on their way
    clVotes,    \* history: votes given, <<voter, epoch, replica>>
    clWon,      \* history: elections won, <<epoch, replica>>
    clBudget    \* what is left of its budget
clVars == <<clN, clUp, clNet, clVotes, clWon, clBudget>>

ClNode == DOMAIN clN

\* of, epoch, slots, fail: the view (slaveof, configEpoch, slots, FAIL flags);
\* cur, voted: currentEpoch, lastVoteEpoch; saved: the currentEpoch of
\* nodes.conf, which differs from the memory in nothing else; held: whom the
\* node voted for since it was started (voted_time); st, aepoch, count: the own
\* election (failover_auth_*); mf: a manual failover can start.
\* At first masters have the epochs 1, 2, ... (CLUSTER SET-CONFIG-EPOCH), and
\* all have heard of all: a replica shows the epoch of its master, its own is 0.
FirstEpoch(c, n) ==
    LET m == IF c.master[n] = NoNode THEN n ELSE c.master[n]
    IN  Cardinality({k \in DOMAIN c.master : k <= m /\ c.master[k] = NoNode})
FirstCur(c) == Max({FirstEpoch(c, n) : n \in DOMAIN c.master})
Node0(c, n) ==
    [cur |-> FirstCur(c), saved |-> FirstCur(c), voted |-> 0, of |-> c.master,
     epoch |-> [k \in DOMAIN c.master |->
                    IF k = n /\ c.master[n] # NoNode THEN 0 ELSE FirstEpoch(c, k)],
     slots |-> c.owner, fail |-> {}, held |-> {},
     st |-> "none", aepoch |-> 0, count |-> 0, mf |-> FALSE]

-----------------------------------------------------------------------------
(* The view of a node, r, and how it changes.                                *)

nodeIsMaster(r, x) == r.of[x] = NoNode
SlotsOf(r, x) == {s \in DOMAIN r.slots : r.slots[s] = x}
Voters(r) == {x \in DOMAIN r.of : nodeIsMaster(r, x) /\ SlotsOf(r, x) # {}}
NeededQuorum(r) == Cardinality(Voters(r)) \div 2 + 1

clusterSaveConfig(r) == [r EXCEPT !.saved = r.cur]

\* What n sends about itself; a replica speaks for the slots of its master.
clusterBuildMessageHdr(r, n) ==
    LET m == IF nodeIsMaster(r, n) THEN n ELSE r.of[n]
    IN  [from |-> n, cur |-> r.cur, epoch |-> r.epoch[m], of |-> r.of[n],
         slots |-> SlotsOf(r, m)]

clusterSetNodeAsMaster(r, x) ==
    IF nodeIsMaster(r, x) THEN r ELSE clusterSaveConfig([r EXCEPT !.of[x] = NoNode])

clusterSetMaster(r, n, x) == [r EXCEPT !.of[n] = x, !.mf = FALSE]

\* The slots x claims with epoch e that are to be bound to it.
Rebound(r, x, e, claimed) ==
    {s \in claimed : /\ r.slots[s] # x
                     /\ r.slots[s] # NoNode => r.epoch[r.slots[s]] < e}

\* The node (or the master) that loses its last slot so follows who took it.
clusterUpdateSlotsConfigWith(r, n, x, e, claimed) ==
    LET taken == Rebound(r, x, e, claimed)
        mine == IF nodeIsMaster(r, n) THEN n ELSE r.of[n]
        t == clusterSaveConfig(
                [r EXCEPT !.slots = [s \in DOMAIN @ |-> IF s \in taken THEN x ELSE @[s]]])
    IN  IF x = n \/ taken = {} THEN r
        ELSE IF taken \cap SlotsOf(r, mine) # {} /\ SlotsOf(t, mine) = {}
        THEN clusterSetMaster(t, n, x)
        ELSE t

\* The first part of clusterProcessPacket, for every message.
ReadHeader(r, h) ==
    LET t == [r EXCEPT !.cur = Max({@, h.cur})]
    IN  IF h.epoch <= r.epoch[h.from] THEN t
        ELSE clusterSaveConfig([t EXCEPT !.epoch[h.from] = h.epoch])

\* The sender is a master, or a replica: a master that became one has no slots.
RoleSwitch(r, h) ==
    CASE h.of = NoNode -> clusterSetNodeAsMaster(r, h.from)
      [] h.of # NoNode /\ h.of = r.of[h.from] -> r
      [] OTHER -> clusterSaveConfig([r EXCEPT !.of[h.from] = h.of,
            !.slots = [s \in DOMAIN @ |-> IF @[s] = h.from /\ nodeIsMaster(r, h.from)
                                      THEN NoNode ELSE @[s]]])

\* Mutant: two masters with one epoch keep it.
CollisionsIgnored(r, n, h) == r

\* Two masters with one epoch: the one with the smaller name takes a new one.
clusterHandleConfigEpochCollision(r, n, h) ==
    IF /\ nodeIsMaster(r, n) /\ nodeIsMaster(r, h.from)
       /\ h.epoch = r.epoch[n] /\ r.epoch[h.from] = r.epoch[n] /\ h.from > n
    THEN clusterSaveConfig([r EXCEPT !.cur = @ + 1, !.epoch[n] = r.cur + 1])
    ELSE r

-----------------------------------------------------------------------------
(* Messages.                                                                 *)

Happens(e) == clBudget[e] > 0 /\ clBudget' = [clBudget EXCEPT ![e] = @ - 1]
ClBecomes(n, r) == clN' = [clN EXCEPT ![n] = r]
Talk(m, n) == {m, n} \subseteq ClNode /\ m # n /\ clUp[m] = "up" /\ clUp[n] = "up"

\* n takes an UPDATE about node o.
ReceiveUpdate(r, n, h, o, e, claimed) ==
    LET t == ReadHeader(r, h)
        u == clusterSaveConfig([clusterSetNodeAsMaster(t, o) EXCEPT !.epoch[o] = e])
    IN  IF t.epoch[o] >= e THEN t ELSE clusterUpdateSlotsConfigWith(u, n, o, e, claimed)

\* The sender claims other slots than r says it has, or its master; those of a
\* master are looked at.
Dirty(r, h) ==
    h.slots # SlotsOf(r, IF nodeIsMaster(r, h.from) THEN h.from ELSE r.of[h.from])
ClaimsRead(r, n, h) ==
    IF Dirty(r, h) /\ nodeIsMaster(r, h.from)
    THEN clusterUpdateSlotsConfigWith(r, n, h.from, h.epoch, h.slots)
    ELSE r

\* n takes a PING or PONG of m.  A PONG clears the FAIL flag of m if it is a
\* replica or has no slots, or else when the flag is old
\* (clearNodeFailureIfNeeded).  If m claims slots of an owner with a greater
\* epoch, n tells it of the owner with an UPDATE.
Heartbeat(m, n) ==
    /\ Talk(m, n)
    /\ \E h \in {clusterBuildMessageHdr(clN[m], m)} :
       \E r \in {RoleSwitch(ReadHeader(clN[n], h), h)} :
       \E t \in {ClaimsRead(r, n, h)} : \E u \in {clusterHandleConfigEpochCollision(t, n, h)} :
       \E f \in {u.fail \ {m}} \cup (IF m \in Voters(u) THEN {u.fail} ELSE {}) :
            \/ ClBecomes(n, [u EXCEPT !.fail = f])
            \/ /\ Dirty(r, h)
               /\ \E o \in {t.slots[s] : s \in h.slots} \ {m, NoNode} :
                    /\ t.epoch[o] > h.epoch
                    /\ clN' = [clN EXCEPT
                        ![n] = [u EXCEPT !.fail = f],
                        ![m] = ReceiveUpdate(@, m, clusterBuildMessageHdr(t, n),
                                             o, t.epoch[o], SlotsOf(t, o))]
    /\ UNCHANGED <<clUp, clNet, clVotes, clWon, clBudget>>

\* Something reaches node msg.to: its connection is up.
Arrives(msg) == msg \in clNet /\ Talk(msg.h.from, msg.to)

\* One vote per epoch, for a replica of a master that failed, whose slots
\* have no newer owner, and none until the time of the last election about
\* that master is over (node timeout * 2 since the vote, and an election
\* lasts no longer).
MayBeVotedFor(r, n, msg) ==
    /\ n \in Voters(r) /\ msg.h.cur >= r.cur /\ r.voted # r.cur
    /\ ~nodeIsMaster(r, msg.h.from)
    /\ r.of[msg.h.from] \in r.fail \/ msg.force
    /\ \A x \in r.held \ {msg.h.from} :
        r.of[x] = r.of[msg.h.from] => clN[x].st # "sent"
    /\ \A s \in msg.h.slots :
        r.slots[s] # NoNode => r.epoch[r.slots[s]] <= msg.h.epoch

clusterSendFailoverAuthIfNeeded(msg) ==
    /\ Arrives(msg) /\ msg.type = "request"
    /\ LET n == msg.to
           r == ReadHeader(clN[n], msg.h)
           t == clusterSaveConfig([r EXCEPT !.voted = r.cur,
                                           !.held = @ \cup {msg.h.from}])
           ack == [type |-> "ack", to |-> msg.h.from,
                   h |-> clusterBuildMessageHdr(t, n)]
       IN  IF MayBeVotedFor(r, n, msg)
           THEN /\ ClBecomes(n, t)
                /\ clNet' = (clNet \ {msg}) \cup {ack}
                /\ clVotes' = clVotes \cup {<<n, t.cur, msg.h.from>>}
           ELSE /\ ClBecomes(n, r)
                /\ clNet' = clNet \ {msg}
                /\ UNCHANGED clVotes
    /\ UNCHANGED <<clUp, clWon, clBudget>>

-----------------------------------------------------------------------------
(* Failure detection and failover.                                           *)

\* A majority of the masters n knows is there to report x, which is not
\* (PFAIL flags and their gossip, or the FAIL message of another node).
markNodeAsFailingIfNeeded(n, x) ==
    /\ clUp[n] = "up" /\ clUp[x] # "up" /\ x \notin clN[n].fail
    /\ Cardinality({k \in ClNode : nodeIsMaster(clN[n], k) /\ clUp[k] = "up"})
            >= NeededQuorum(clN[n])
    /\ ClBecomes(n, clusterSaveConfig([clN[n] EXCEPT !.fail = @ \cup {x}]))
    /\ UNCHANGED <<clUp, clNet, clVotes, clWon, clBudget>>

\* The conditions clusterHandleSlaveFailover begins with.
MayFailover(r, n) ==
    /\ ~nodeIsMaster(r, n)
    /\ r.of[n] \in r.fail \/ r.mf
    /\ SlotsOf(r, r.of[n]) # {}

ScheduleElection(n) ==
    /\ clUp[n] # "down" /\ clN[n].st = "none" /\ MayFailover(clN[n], n)
    /\ ClBecomes(n, [clN[n] EXCEPT !.st = "scheduled", !.count = 0])
    /\ UNCHANGED <<clUp, clNet, clVotes, clWon, clBudget>>

\* The election's epoch is in the file before the requests leave.
clusterRequestFailoverAuth(n) ==
    /\ clUp[n] # "down" /\ clN[n].st = "scheduled" /\ MayFailover(clN[n], n)
    /\ Happens("election")
    /\ LET r == clN[n]
           t == clusterSaveConfig([r EXCEPT !.cur = @ + 1, !.aepoch = r.cur + 1,
                                            !.st = "sent"])
           asked == {k \in ClNode : Talk(n, k) /\ k \in Voters(clN[k])}
       IN  /\ ClBecomes(n, t)
           /\ clNet' = clNet \cup {[type |-> "request", to |-> k, force |-> r.mf,
                                    h |-> clusterBuildMessageHdr(t, n)] : k \in asked}
    /\ UNCHANGED <<clUp, clVotes, clWon>>

\* What is on its way when n's election or n's process ends: everything if
\* messages may be late, or else nothing from n or to n.
InTime(n) == IF clBudget["late"] > 0 THEN clNet
             ELSE {msg \in clNet : n \notin {msg.to, msg.h.from}}

\* Neither asked nor won any more; the next election is scheduled later.
ElectionExpires(n) ==
    /\ clUp[n] # "down" /\ clN[n].st = "sent"
    /\ ClBecomes(n, [clN[n] EXCEPT !.st = "none"])
    /\ clNet' = InTime(n)
    /\ UNCHANGED <<clUp, clVotes, clWon, clBudget>>

clusterFailoverReplaceYourMaster(r, n) ==
    clusterSaveConfig([r EXCEPT !.of[n] = NoNode, !.mf = FALSE,
        !.slots = [s \in DOMAIN @ |-> IF @[s] = r.of[n] THEN n ELSE @[s]]])

\* The last part of clusterHandleSlaveFailover: n has the votes and is master.
WinElection(n, r) ==
    /\ clWon' = clWon \cup {<<r.aepoch, n>>}
    /\ ClBecomes(n, clusterFailoverReplaceYourMaster(
                        [r EXCEPT !.epoch[n] = Max({@, r.aepoch})], n))

Wins(r, n) == r.st = "sent" /\ MayFailover(r, n) /\ r.count >= NeededQuorum(r)

\* A vote counts if the voter is not behind the epoch of the election; the
\* result is looked at before the process waits for more.
CountVote(msg) ==
    /\ Arrives(msg) /\ msg.type = "ack"
    /\ clNet' = clNet \ {msg}
    /\ LET n == msg.to
           r == ReadHeader(clN[n], msg.h)
           t == IF msg.h.from \in Voters(r) /\ msg.h.cur >= r.aepoch
                THEN [r EXCEPT !.count = @ + 1] ELSE r
       IN  IF t # r /\ Wins(t, n) THEN WinElection(n, t)
           ELSE ClBecomes(n, t) /\ UNCHANGED clWon
    /\ UNCHANGED <<clUp, clVotes, clBudget>>

\* clusterCron looks again.
LookAgain(n) ==
    /\ clUp[n] # "down" /\ Wins(clN[n], n)
    /\ WinElection(n, clN[n])
    /\ UNCHANGED <<clUp, clNet, clVotes, clBudget>>

\* Mutant: the greatest epoch a node knows is taken instead of the next.
clusterBumpConfigEpochSame(r, n) ==
    clusterSaveConfig([r EXCEPT !.epoch[n] = Max({r.epoch[k] : k \in ClNode})])

clusterBumpConfigEpochWithoutConsensus(r, n) ==
    IF r.epoch[n] # 0 /\ r.epoch[n] = Max({r.cur} \cup {r.epoch[k] : k \in ClNode})
    THEN r
    ELSE clusterSaveConfig([r EXCEPT !.cur = @ + 1, !.epoch[n] = r.cur + 1])

-----------------------------------------------------------------------------
(* The operator, and faults.                                                 *)

\* CLUSTER FAILOVER TAKEOVER
TakeOver(n) ==
    /\ Happens("takeover") /\ clUp[n] # "down"
    /\ ~nodeIsMaster(clN[n], n)
    /\ ClBecomes(n, clusterFailoverReplaceYourMaster(
                        clusterBumpConfigEpochWithoutConsensus(clN[n], n), n))
    /\ UNCHANGED <<clUp, clNet, clVotes, clWon>>

\* CLUSTER FAILOVER FORCE; without FORCE the replica first waits for the
\* offset of its paused master, and comes to the same state.
ForceFailover(n) ==
    /\ Happens("force") /\ clUp[n] # "down"
    /\ ~nodeIsMaster(clN[n], n)
    /\ ClBecomes(n, [clN[n] EXCEPT !.mf = TRUE])
    /\ UNCHANGED <<clUp, clNet, clVotes, clWon>>

manualFailoverCheckTimeout(n) ==
    /\ clUp[n] # "down" /\ clN[n].mf /\ ClBecomes(n, [clN[n] EXCEPT !.mf = FALSE])
    /\ UNCHANGED <<clUp, clNet, clVotes, clWon, clBudget>>

ClCrash(n) ==
    /\ Happens("crash") /\ clUp[n] # "down"
    /\ clUp' = [clUp EXCEPT ![n] = "down"]
    /\ clNet' = {msg \in InTime(n) : msg.to # n}
    /\ UNCHANGED <<clN, clVotes, clWon>>

\* clusterLoadConfig reads the file.
ClRestart(n) ==
    /\ clUp[n] = "down"
    /\ clUp' = [clUp EXCEPT ![n] = "up"]
    /\ LET r == clN[n]
       IN  ClBecomes(n, [r EXCEPT !.st = "none", !.aepoch = 0, !.count = 0,
                !.mf = FALSE, !.held = {},
                !.cur = Max({r.saved} \cup {r.epoch[k] : k \in ClNode})])
    /\ UNCHANGED <<clNet, clVotes, clWon, clBudget>>

Isolate(n) ==
    /\ Happens("cut") /\ clUp[n] = "up"
    /\ clUp' = [clUp EXCEPT ![n] = "cut"]
    /\ UNCHANGED <<clN, clNet, clVotes, clWon>>

Rejoin(n) ==
    /\ clUp[n] = "cut"
    /\ clUp' = [clUp EXCEPT ![n] = "up"]
    /\ UNCHANGED <<clN, clNet, clVotes, clWon, clBudget>>

-----------------------------------------------------------------------------
ClInit ==
    /\ \E c \in ClInstances :
        /\ clN = [n \in DOMAIN c.master |-> Node0(c, n)]
        /\ clUp = [n \in DOMAIN c.master |-> "up"]
        /\ clBudget = c.budget
    /\ clNet = {} /\ clVotes = {} /\ clWon = {}

ClNext ==
    \/ \E n, x \in ClNode : Heartbeat(x, n) \/ markNodeAsFailingIfNeeded(n, x)
    \/ \E msg \in clNet : CountVote(msg) \/ clusterSendFailoverAuthIfNeeded(msg)
    \/ \E n \in ClNode :
        \/ ScheduleElection(n) \/ clusterRequestFailoverAuth(n)
        \/ ElectionExpires(n) \/ LookAgain(n)
        \/ TakeOver(n) \/ ForceFailover(n) \/ manualFailoverCheckTimeout(n)
        \/ ClCrash(n) \/ ClRestart(n) \/ Isolate(n) \/ Rejoin(n)

ClSpec == ClInit /\ [][ClNext]_clVars

\* Nodes that are there ping each other, and who is not comes back.
ClPairs == {p \in UNION {(DOMAIN c.master) \X (DOMAIN c.master) : c \in ClInstances} :
                p[1] # p[2]}
ClFairness ==
    /\ \A p \in ClPairs : WF_clVars(Heartbeat(p[1], p[2]))
    /\ WF_clVars(\E n \in ClNode : ClRestart(n) \/ Rejoin(n))

-----------------------------------------------------------------------------
(* Properties.                                                               *)

\* Type invariant; a slot belongs to a node that is a master in the same view,
\* and no node is behind the epochs it has seen, not even after a restart.
ClTypeOK ==
    \A n \in ClNode :
        LET r == clN[n]
        IN  /\ r.of \in [ClNode -> ClNode \cup {NoNode}]
            /\ r.of[n] # n
            /\ \A s \in DOMAIN r.slots : r.slots[s] # NoNode => nodeIsMaster(r, r.slots[s])
            /\ \A k \in ClNode : r.epoch[k] <= r.cur
            /\ r.voted <= r.cur
            /\ r.st \in {"none", "scheduled", "sent"}

\* No master votes for two replicas in one epoch, restarts included
\* (clusterSendFailoverAuthIfNeeded, clusterSaveConfig).
OneVotePerClEpoch ==
    \A v, w \in clVotes : v[1] = w[1] /\ v[2] = w[2] => v[3] = w[3]

\* "It is not possible that different slaves get the same config epoch during
\* a failover election, because the slaves need to get voted by a majority"
\* (cluster.c:1127, before clusterHandleConfigEpochCollision).
OneWinnerPerEpoch == \A v, w \in clWon : v[1] = w[1] => v[2] = w[2]

\* In no view does a slot go from one owner to another with an epoch that is
\* not greater, nor does a configuration epoch go back
\* (clusterUpdateSlotsConfigWith, clusterFailoverReplaceYourMaster).
SlotsFollowEpochs ==
    [][\A n \in ClNode :
        LET r == clN[n]
            t == clN'[n]
        IN  /\ \A s \in DOMAIN r.slots :
                NoNode \notin {r.slots[s], t.slots[s]} /\ r.slots[s] # t.slots[s]
                    => t.epoch[t.slots[s]] > r.epoch[r.slots[s]]
            /\ \A k \in ClNode : t.epoch[k] >= r.epoch[k]]_clVars

\* When the faults and the operator have come to an end, all nodes agree on
\* one owner of every slot, who knows it: heartbeats, UPDATEs and the handling
\* of equal epochs get there from any split.
SlotsSettle ==
    <>[](\A s \in UNION {DOMAIN clN[n].slots : n \in ClNode} : \E o \in ClNode :
            \A n \in ClNode : clN[n].slots[s] = o /\ nodeIsMaster(clN[o], o))

=============================================================================
