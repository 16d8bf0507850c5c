------------------------------ MODULE Sentinel ------------------------------
(* Redis Sentinel (sentinel.c): the Sentinels that watch one master agree    *)
(* that it is down, elect one of them for an epoch, and the elected one      *)
(* promotes a replica; the new configuration spreads with hello messages.    *)
(* Time is not modelled: a timeout may pass whenever its condition holds.    *)
EXTENDS Integers, FiniteSets

CONSTANTS
    SnSentinel,     \* the Sentinels
    SnServer,       \* the Redis servers
    FirstMaster,    \* the server that is the master at first
    Nobody,         \* no server, no Sentinel
    Quorum,         \* sentinel monitor ... <quorum>
    ParallelSyncs,  \* sentinel parallel-syncs
    MaxEpoch,       \* bound: current_epoch and faults together
    MaxFaults       \* bound: crashes, restarts, lost links and answers

ASSUME SnAssumption ==
    /\ IsFiniteSet(SnSentinel)
    /\ FirstMaster \in SnServer
    /\ Nobody \notin SnServer \cup SnSentinel
    /\ Quorum \in 1 .. Cardinality(SnSentinel)
    /\ ParallelSyncs \in Nat \ {0}
    /\ {MaxEpoch, MaxFaults} \subseteq Nat

VARIABLES
    snR,        \* what each Sentinel keeps about itself and the master
    snServers,  \* the servers: up or down, and whom they replicate
    snCut,      \* pairs of a Sentinel and a server it cannot reach
    snVotes,    \* history: all votes, <<voter, epoch, leader>>
    snWon,      \* history: elections won, <<epoch, leader>>
    snFaults    \* what is left of MaxFaults
snVars == <<snR, snServers, snCut, snVotes, snWon, snFaults>>

NoVote == [id |-> Nobody, epoch |-> 0]
Others(s) == SnSentinel \ {s}
Links == {p \in SnSentinel \X SnSentinel : p[1] # p[2]}

\* A Sentinel that has read its configuration file f.  rec: the RECONF flags
\* of the replicas; vote: the leader that each of the others has answered;
\* delay: failover_start_time is set.
Loaded(f) ==
    [cur |-> f.cur, addr |-> f.addr, cepoch |-> f.cepoch, lead |-> Nobody,
     lepoch |-> f.lepoch, st |-> "none", fepoch |-> 0,
     prom |-> Nobody, delay |-> FALSE, rec |-> [i \in SnServer |-> "none"],
     vote |-> [t \in SnSentinel |-> NoVote], file |-> f]

SnWorld == [r |-> snR, sv |-> snServers, votes |-> snVotes, won |-> snWon]
SnBecomes(w) == \E v \in {w} : /\ snR' = v.r /\ snServers' = v.sv
                               /\ snVotes' = v.votes /\ snWon' = v.won

Reachable(s, i) == snServers[i].up /\ <<s, i>> \notin snCut
IsMaster(i) == snServers[i].of = Nobody

\* sentinelCheckSubjectivelyDown: the master is not reachable, or it claims to
\* be a replica.  The time this takes is time in which s takes no step.
SDown(s) == ~(Reachable(s, snR[s].addr) /\ IsMaster(snR[s].addr))

sentinelGetCurrentMasterAddress(r) == IF r.st = "reconf" THEN r.prom ELSE r.addr

sentinelFlushConfig(r) ==
    [r EXCEPT !.file = [cur |-> r.cur, cepoch |-> r.cepoch, lepoch |-> r.lepoch,
                        addr |-> sentinelGetCurrentMasterAddress(r)]]

\* Mutant: the new address is kept in memory only.
sentinelResetMasterAndChangeAddressNoFlush(r, a) ==
    [r EXCEPT !.addr = a, !.lead = Nobody, !.st = "none", !.prom = Nobody,
              !.delay = FALSE, !.rec = [i \in SnServer |-> "none"]]

sentinelResetMaster(r) ==
    [r EXCEPT !.lead = Nobody, !.st = "none", !.fepoch = 0, !.prom = Nobody,
              !.delay = FALSE, !.rec = [i \in SnServer |-> "none"]]

sentinelResetMasterAndChangeAddress(r, a) ==
    sentinelFlushConfig([sentinelResetMaster(r) EXCEPT !.addr = a])

\* MULTI, SLAVEOF, CONFIG REWRITE, EXEC; the connection may break before.
sentinelSendSlaveOf(w, s, i, a) ==
    IF Reachable(s, i) THEN [w EXCEPT !.sv[i].of = a] ELSE w

-----------------------------------------------------------------------------
(* Votes.                                                                    *)

\* Answers for an epoch before current_epoch never count: they are dropped here.
InEpoch(r, e) == [r EXCEPT !.cur = e,
                           !.vote = [t \in SnSentinel |-> IF r.vote[t].epoch < e
                                                          THEN NoVote ELSE r.vote[t]]]
NewEpoch(r, e) == IF e > r.cur THEN sentinelFlushConfig(InEpoch(r, e)) ELSE r
MayVote(r, e) == r.lepoch < e /\ r.cur <= e

\* Mutant: the vote is not written to the configuration file.
sentinelVoteLeaderNoFlush(w, t, e, id) ==
    LET r == NewEpoch(w.r[t], e)
    IN  IF ~MayVote(r, e) THEN [w EXCEPT !.r[t] = r]
        ELSE [w EXCEPT !.r[t] = [r EXCEPT !.lead = id, !.lepoch = r.cur,
                                          !.delay = @ \/ id # t],
                       !.votes = @ \cup {<<t, r.cur, id>>}]

sentinelVoteLeader(w, t, e, id) ==
    LET r == NewEpoch(w.r[t], e)
    IN  IF ~MayVote(r, e) THEN [w EXCEPT !.r[t] = r]
        ELSE [w EXCEPT !.r[t] = sentinelFlushConfig([r EXCEPT !.lead = id,
                                      !.lepoch = r.cur, !.delay = @ \/ id # t]),
                       !.votes = @ \cup {<<t, r.cur, id>>}]

\* The others' votes are counted for current_epoch, the own one for the epoch
\* of this failover.
OthersFor(r, s, id) == Cardinality({t \in Others(s) :
                           r.vote[t].epoch = r.cur /\ r.vote[t].id = id})
Favourites(r, s) ==
    LET best == {id \in SnSentinel : /\ OthersFor(r, s, id) > 0
                                     /\ \A j \in SnSentinel :
                                            OthersFor(r, s, j) <= OthersFor(r, s, id)}
    IN  IF best = {} THEN {s} ELSE best
\* Mutant: the quorum is enough to win.
EnoughQuorumOnly(votes) == votes >= Quorum

Enough(votes) == votes >= Cardinality(SnSentinel) \div 2 + 1 /\ votes >= Quorum

-----------------------------------------------------------------------------
(* The timer.                                                                *)

\* sentinelCheckObjectivelyDown, with the answers that the others (SRI_MASTER_DOWN)
\* would give now.
Knows(s, t) == snR[t].addr = snR[s].addr
ODown(s) ==
    /\ SDown(s)
    /\ 1 + Cardinality({t \in Others(s) : Knows(s, t) /\ SDown(t)}) >= Quorum

sentinelStartFailover(r) ==
    [InEpoch(r, r.cur + 1) EXCEPT !.st = "wait", !.fepoch = r.cur + 1, !.delay = TRUE]

NobodyWaits == \A s \in SnSentinel : snR[s].st # "wait"

\* sentinelStartFailoverIfNeeded.  Two failover timeouts after the last start
\* every election that was going on then is over.
StartedIfNeeded(s) ==
    LET r == snR[s]
    IN  IF ~(ODown(s) /\ r.st = "none" /\ r.cur < MaxEpoch - (MaxFaults - snFaults)) THEN {r}
        ELSE IF ~r.delay THEN {sentinelStartFailover(r)}
        ELSE IF NobodyWaits THEN {r, sentinelStartFailover(r)} ELSE {r}

\* Mutant: the selected replica stays selected.
sentinelAbortFailoverKeeping(r) == [r EXCEPT !.st = "none", !.fepoch = 0]

sentinelAbortFailover(r) == [r EXCEPT !.st = "none", !.fepoch = 0, !.prom = Nobody]

\* sentinelGetLeader, when v is the world after the own vote for the favourite.
sentinelGetLeader(w, v, s, favourite) ==
    LET old == OthersFor(w.r[s], s, favourite)
        own == v.r[s].lead
        new == OthersFor(w.r[s], s, own) + 1
    IN  IF own # Nobody /\ v.r[s].lepoch = w.r[s].fepoch /\ new > old
        THEN IF Enough(new) THEN own ELSE Nobody
        ELSE IF Enough(old) THEN favourite ELSE Nobody

WaitStart(w, s) ==
    \E favourite \in Favourites(w.r[s], s) :
        LET e == w.r[s].fepoch
            v == sentinelVoteLeader(w, s, e, favourite)
        IN  IF sentinelGetLeader(w, v, s, favourite) = s
            THEN SnBecomes([v EXCEPT !.r[s].st = "select", !.won = @ \cup {<<e, s>>}])
            ELSE \E r \in {v.r[s], sentinelAbortFailover(v.r[s])} :
                     SnBecomes([v EXCEPT !.r[s] = r])

\* sentinelSelectSlave takes the best one that can be reached.
SelectSlave(w, s) ==
    LET r == w.r[s]
        good == {i \in SnServer \ {r.addr} : Reachable(s, i)}
    IN  \/ good = {} /\ SnBecomes([w EXCEPT !.r[s] = sentinelAbortFailover(r)])
        \/ \E i \in good :
               SnBecomes([w EXCEPT !.r[s] = [r EXCEPT !.st = "noone", !.prom = i]])

SendSlaveOfNoOne(w, s) ==
    LET r == w.r[s]
    IN  IF Reachable(s, r.prom)
        THEN SnBecomes(sentinelSendSlaveOf([w EXCEPT !.r[s].st = "waitprom"],
                                         s, r.prom, Nobody))
        ELSE \E r2 \in {r, sentinelAbortFailover(r)} : SnBecomes([w EXCEPT !.r[s] = r2])

WaitPromotion(w, s) ==
    \E r \in {w.r[s], sentinelAbortFailover(w.r[s])} : SnBecomes([w EXCEPT !.r[s] = r])

\* sentinelFailoverReconfNextSlave: the loop over the replicas is not entered
\* when ParallelSyncs of them are on their way.
InProgress(r) == {i \in SnServer : r.rec[i] \in {"sent", "inprog"}}
Waiting(r, s) == {i \in SnServer \ {r.addr, r.prom} :
                     r.rec[i] = "none" /\ Reachable(s, i)}
Least(n, m) == IF n < m THEN n ELSE m
NextSlaves(r, s) ==
    LET room == ParallelSyncs - Cardinality(InProgress(r))
    IN  IF room <= 0 THEN {{}}
        ELSE {is \in SUBSET Waiting(r, s) :
                 Cardinality(is) = Least(room, Cardinality(Waiting(r, s)))}
Reconfigured(w, s, is) ==
    [w EXCEPT !.sv = [i \in SnServer |-> IF i \in is
                         THEN [w.sv[i] EXCEPT !.of = w.r[s].prom] ELSE w.sv[i]],
              !.r[s].rec = [i \in SnServer |-> IF i \in is THEN "sent"
                                               ELSE w.r[s].rec[i]]]
NotReconfigured(r, s) == {i \in SnServer \ {r.addr, r.prom} :
                             r.rec[i] # "done" /\ Reachable(s, i)}

\* The switch follows in the same run of the timer.
SwitchToPromotedSlave(w, s) ==
    [w EXCEPT !.r[s] = sentinelResetMasterAndChangeAddress(@, @.prom)]

ReconfNextSlave(w, s) ==
    \E is \in NextSlaves(w.r[s], s) :
        LET v == Reconfigured(w, s, is)
            r == v.r[s]
        IN  \/ /\ ~Reachable(s, r.prom) \/ NotReconfigured(r, s) # {}
               /\ SnBecomes(v)
            \/ /\ Reachable(s, r.prom) /\ NotReconfigured(r, s) = {}
               /\ SnBecomes(SwitchToPromotedSlave(v, s))
            \/ /\ Reachable(s, r.prom)                      \* failover_timeout
               /\ SnBecomes(SwitchToPromotedSlave(
                      Reconfigured(v, s, Waiting(r, s)), s))

sentinelHandleRedisInstance(s) ==
    \E r \in StartedIfNeeded(s) :
        LET w == [SnWorld EXCEPT !.r[s] = r]
        IN  /\ \/ r.st = "none" /\ SnBecomes(w)
               \/ r.st = "wait" /\ WaitStart(w, s)
               \/ r.st = "select" /\ SelectSlave(w, s)
               \/ r.st = "noone" /\ SendSlaveOfNoOne(w, s)
               \/ r.st = "waitprom" /\ WaitPromotion(w, s)
               \/ r.st = "reconf" /\ ReconfNextSlave(w, s)
            /\ UNCHANGED <<snCut, snFaults>>

-----------------------------------------------------------------------------
(* Messages.                                                                 *)

\* SENTINEL IS-MASTER-DOWN-BY-ADDR of s at t, about the master address of s
\* with its own name: t votes.
IsMasterDownByAddr(s, t) ==
    IF Knows(s, t) THEN sentinelVoteLeader(SnWorld, t, snR[s].cur, s) ELSE SnWorld

sentinelReceiveIsMasterDownReply(s, t, w) ==
    IF ~Knows(s, t) \/ w.r[t].lead = Nobody \/ w.r[t].lepoch < w.r[s].cur THEN w
    ELSE [w EXCEPT !.r[s].vote[t] = [id |-> w.r[t].lead, epoch |-> w.r[t].lepoch]]

\* sentinelAskMasterStateToOtherSentinels during a failover, and the answer.
AskMasterState(s, t) ==
    /\ SDown(s) /\ snR[s].st # "none"
    /\ SnBecomes(sentinelReceiveIsMasterDownReply(s, t, IsMasterDownByAddr(s, t)))
    /\ UNCHANGED <<snCut, snFaults>>

NewerConfig(r, h) == r.cepoch < h.cepoch

\* The hello message of s reaches t.
sentinelProcessHelloMessage(s, t) ==
    LET h == snR[s]
        a == sentinelGetCurrentMasterAddress(h)
        r == NewEpoch(snR[t], h.cur)
        c == [r EXCEPT !.cepoch = h.cepoch]
    IN  /\ snR' = [snR EXCEPT ![t] =
               IF ~NewerConfig(r, h) THEN r
               ELSE IF a = r.addr THEN c
               ELSE sentinelResetMasterAndChangeAddress(c, a)]
        /\ UNCHANGED <<snServers, snCut, snVotes, snWon, snFaults>>

\* sentinelMasterLooksSane, with an INFO that is up to date.
LooksSane(s) == ~SDown(s)

\* Mutant: a replica that claims to be a master is left alone.
RoleChangeUnseen(w, s, i) ==
    LET r == w.r[s]
    IN  IF IsMaster(i) /\ i = r.prom /\ r.st = "waitprom"
        THEN [w EXCEPT !.r[s] = sentinelFlushConfig(
                 [r EXCEPT !.cepoch = r.fepoch, !.st = "reconf"])]
        ELSE w

\* The INFO output of replica i reaches s.
RoleChange(w, s, i) ==
    LET r == w.r[s]
    IN  IF ~IsMaster(i) THEN w
        ELSE IF i = r.prom /\ r.st = "waitprom"
        THEN [w EXCEPT !.r[s] = sentinelFlushConfig(
                 [r EXCEPT !.cepoch = r.fepoch, !.st = "reconf"])]
        ELSE IF i # r.prom /\ LooksSane(s)          \* +convert-to-slave
        THEN sentinelSendSlaveOf(w, s, i, r.addr)
        ELSE w
FixSlaveConfig(w, s, i) ==
    IF ~IsMaster(i) /\ snServers[i].of # w.r[s].addr /\ LooksSane(s)
    THEN sentinelSendSlaveOf(w, s, i, w.r[s].addr) ELSE w
ReconfProgress(w, s, i) ==
    LET of == snServers[i].of
        rec == w.r[s].rec[i]
        now == IF rec = "sent" /\ of = w.r[s].prom THEN "inprog" ELSE rec
    IN  IF IsMaster(i) THEN w
        ELSE [w EXCEPT !.r[s].rec[i] =
                 IF now = "inprog" /\ snServers[of].up THEN "done" ELSE now]

sentinelRefreshInstanceInfo(s, i) ==
    /\ i # snR[s].addr /\ Reachable(s, i)
    /\ SnBecomes(ReconfProgress(FixSlaveConfig(RoleChange(SnWorld, s, i), s, i), s, i))
    /\ UNCHANGED <<snCut, snFaults>>

-----------------------------------------------------------------------------
(* What happens a bounded number of times.                                   *)

Fault == /\ snFaults > 0 /\ snFaults' = snFaults - 1
         /\ \A s \in SnSentinel : snR[s].cur < MaxEpoch - (MaxFaults - snFaults)

\* sentinelHandleConfiguration reads what the last flush has written.
RestartSentinel(s) ==
    /\ Fault
    /\ snR' = [snR EXCEPT ![s] = Loaded(snR[s].file)]
    /\ UNCHANGED <<snServers, snCut, snVotes, snWon>>

ServerFails(i) ==
    /\ Fault /\ snServers[i].up
    /\ snServers' = [snServers EXCEPT ![i].up = FALSE]
    /\ UNCHANGED <<snR, snCut, snVotes, snWon>>

ServerReturns(i) ==
    /\ ~snServers[i].up
    /\ snServers' = [snServers EXCEPT ![i].up = TRUE]
    /\ UNCHANGED <<snR, snCut, snVotes, snWon, snFaults>>

LinkBreaks(s, i) ==
    /\ Fault /\ <<s, i>> \notin snCut
    /\ snCut' = snCut \cup {<<s, i>>}
    /\ UNCHANGED <<snR, snServers, snVotes, snWon>>

LinkHeals(p) ==
    /\ snCut' = snCut \ {p}
    /\ UNCHANGED <<snR, snServers, snVotes, snWon, snFaults>>

\* The question reached t, but the answer is lost.
ReplyLost(s, t) ==
    /\ Fault /\ SDown(s) /\ snR[s].st # "none"
    /\ SnBecomes(IsMasterDownByAddr(s, t))
    /\ UNCHANGED snCut

-----------------------------------------------------------------------------

SnInit ==
    /\ snR = [s \in SnSentinel |-> Loaded([cur |-> 0, addr |-> FirstMaster,
                                           cepoch |-> 0, lepoch |-> 0])]
    /\ snServers = [i \in SnServer |-> [up |-> i # FirstMaster, of |->
                        IF i = FirstMaster THEN Nobody ELSE FirstMaster]]
    /\ snCut = {} /\ snVotes = {} /\ snWon = {}
    /\ snFaults = MaxFaults

SnProtocol ==
    \/ \E s \in SnSentinel : sentinelHandleRedisInstance(s)
    \/ \E p \in Links : \/ AskMasterState(p[1], p[2])
                        \/ sentinelProcessHelloMessage(p[1], p[2])
    \/ \E s \in SnSentinel, i \in SnServer : sentinelRefreshInstanceInfo(s, i)

SnNext ==
    \/ SnProtocol
    \/ \E s \in SnSentinel : RestartSentinel(s)
    \/ \E i \in SnServer : ServerFails(i) \/ ServerReturns(i)
    \/ \E s \in SnSentinel, i \in SnServer : LinkBreaks(s, i)
    \/ \E p \in snCut : LinkHeals(p)
    \/ \E p \in Links : ReplyLost(p[1], p[2])

SnSpec == SnInit /\ [][SnNext]_snVars

\* The timer runs ten times a second, and hello messages and INFO are repeated
\* for ever.
SnFairness ==
    /\ \A s \in SnSentinel : WF_snVars(sentinelHandleRedisInstance(s))
    /\ \A p \in Links : WF_snVars(sentinelProcessHelloMessage(p[1], p[2]))
    /\ \A s \in SnSentinel, i \in SnServer :
        WF_snVars(sentinelRefreshInstanceInfo(s, i))

SnFairSpec == SnSpec /\ SnFairness

-----------------------------------------------------------------------------
(* Properties.                                                               *)

SnFiles == [cur: 0 .. MaxEpoch, addr: SnServer, cepoch: 0 .. MaxEpoch,
            lepoch: 0 .. MaxEpoch]

\* Epochs in memory are never behind those in the file, a vote and a
\* configuration are not from the future, and there is a promoted replica
\* exactly while a failover has chosen one.
SnTypeOK ==
    /\ \A s \in SnSentinel : LET r == snR[s] IN
        /\ r.file \in SnFiles /\ r.addr \in SnServer
        /\ r.lead \in SnSentinel \cup {Nobody}
        /\ r.file.cur <= r.cur /\ r.cur <= MaxEpoch
        /\ r.file.lepoch <= r.lepoch /\ r.file.cepoch <= r.cepoch
        /\ {r.lepoch, r.cepoch, r.fepoch} \subseteq 0 .. r.cur
        /\ r.st \in {"none", "wait", "select", "noone", "waitprom", "reconf"}
        /\ (r.prom # Nobody) = (r.st \in {"noone", "waitprom", "reconf"})
        /\ r.prom # r.addr /\ r.delay \in BOOLEAN
        /\ r.rec \in [SnServer -> {"none", "sent", "inprog", "done"}]
    /\ snServers \in [SnServer -> [up: BOOLEAN, of: SnServer \cup {Nobody}]]
    /\ snCut \subseteq SnSentinel \X SnServer
    /\ snFaults \in 0 .. MaxFaults

\* A Sentinel votes once in an epoch, and so it does after a restart: the vote
\* is in its configuration file before it is in an answer.
OneVotePerEpoch ==
    \A v, u \in snVotes : v[1] = u[1] /\ v[2] = u[2] => v = u

\* "no failover can be performed in minority" (sentinel.conf): a winner has
\* the votes of a majority, from its epoch on.
NoFailoverInMinority ==
    \A l \in snWon :
        2 * Cardinality({t \in SnSentinel : \E v \in snVotes :
                            v[1] = t /\ v[2] >= l[1] /\ v[3] = l[2]})
            > Cardinality(SnSentinel)

\* "Update master info if received configuration is newer" (comment in
\* sentinelProcessHelloMessage): two Sentinels whose configurations have the
\* same epoch name the same master.
SameEpochSameMaster ==
    \A s, t \in SnSentinel : snR[s].cepoch = snR[t].cepoch =>
        sentinelGetCurrentMasterAddress(snR[s]) = sentinelGetCurrentMasterAddress(snR[t])

\* A Sentinel replaces its master only by the one of a newer configuration, or
\* by the replica it promotes in a failover it was elected for, whose epoch the
\* configuration then has; neither a restart nor a late message takes it back.
MasterChangesWithEpoch ==
    [][\A s \in SnSentinel :
          sentinelGetCurrentMasterAddress(snR'[s]) # sentinelGetCurrentMasterAddress(snR[s])
              => snR'[s].cepoch > snR[s].cepoch \/ <<snR'[s].cepoch, s>> \in snWon']_snVars

\* In the end every server that a Sentinel reaches replicates the master of its
\* configuration: the old master that returns, replicas that missed SLAVEOF,
\* and Sentinels that missed the failover.
EveryoneFollowsMaster ==
    <>[](\A s \in SnSentinel : ~SDown(s) =>
            \A i \in SnServer \ {snR[s].addr} :
                Reachable(s, i) => snServers[i].of = snR[s].addr)

\* "To be a leader for a given epoch, we should have the majority of the
\* Sentinels we know that reported the same instance as leader for the same
\* epoch" (comment of sentinelGetLeader).
LeaderHasMajorityInEpoch ==
    \A l \in snWon :
        2 * Cardinality({v \in snVotes : v[2] = l[1] /\ v[3] = l[2]})
            > Cardinality(SnSentinel)

=============================================================================
