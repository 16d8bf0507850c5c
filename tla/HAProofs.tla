------------------------------ MODULE HAProofs ------------------------------
(* Proofs about Sentinel, Cluster and both side by side (MCRedisHA).         *)
EXTENDS MCRedisHA, FiniteSetTheorems, WellFoundedInduction, TLAPS
-----------------------------------------------------------------------------
(* Sentinel: its type invariant, that a Sentinel votes once in an epoch, that *)
(* an elected Sentinel has the votes of a majority, and when a Sentinel may  *)
(* replace its master.                                                       *)

States == {"none", "wait", "select", "noone", "waitprom", "reconf"}
Elected == {"select", "noone", "waitprom", "reconf"}
Promoting == {"noone", "waitprom", "reconf"}

SnFile == [cur : Nat, addr : SnServer, cepoch : Nat, lepoch : Nat]
SnView ==
    [cur : Nat, addr : SnServer, cepoch : Nat, lead : SnSentinel \cup {Nobody},
     lepoch : Nat, st : States, fepoch : Nat, prom : SnServer \cup {Nobody},
     delay : BOOLEAN, rec : [SnServer -> {"none", "sent", "inprog", "done"}],
     vote : [SnSentinel -> [id : SnSentinel \cup {Nobody}, epoch : Nat]],
     file : SnFile]
SnWorlds ==
    [r : [SnSentinel -> SnView],
     sv : [SnServer -> [up : BOOLEAN, of : SnServer \cup {Nobody}]],
     votes : SUBSET (SnSentinel \X Nat \X SnSentinel),
     won : SUBSET (Nat \X SnSentinel)]

\* No vote, configuration or failover is newer than current_epoch, and there is
\* a promoted replica exactly while a failover has chosen one.
Ordered(r) ==
    /\ r.cur <= MaxEpoch
    /\ r.lepoch <= r.cur /\ r.cepoch <= r.cur /\ r.fepoch <= r.cur
    /\ (r.prom # Nobody) = (r.st \in Promoting)
    /\ r.prom # r.addr

\* The file is not newer than the memory, and names the same master.
FileOK(r) ==
    /\ r.file.lepoch <= r.file.cur /\ r.file.cepoch <= r.file.cur
    /\ r.file.cur <= r.cur
    /\ r.file.lepoch <= r.lepoch /\ r.file.cepoch <= r.cepoch
    /\ r.file.addr = sentinelGetCurrentMasterAddress(r)

\* What s keeps about votes and elections is in the history: its own vote, the
\* answers of the others and the election it has won.
Backed(r, s, votes, won) ==
    /\ r.lead # Nobody => <<s, r.lepoch, r.lead>> \in votes
    /\ \A t \in SnSentinel :
        r.vote[t].id # Nobody => <<t, r.vote[t].epoch, r.vote[t].id>> \in votes
    /\ r.st \in Elected => <<r.fepoch, s>> \in won

ViewOK(r, s, votes, won) ==
    r \in SnView /\ Ordered(r) /\ FileOK(r) /\ Backed(r, s, votes, won)

\* The Sentinels that voted for s in the epoch e or a later one.
VotersFor(votes, e, s) ==
    {t \in SnSentinel : \E v \in votes : v[1] = t /\ v[2] >= e /\ v[3] = s}

\* No vote is newer than the one in its voter's file.
VotesOK(w) ==
    /\ \A v \in w.votes : v[2] <= w.r[v[1]].file.lepoch
    /\ \A v, u \in w.votes : v[1] = u[1] /\ v[2] = u[2] => v = u

WonOK(w) ==
    \A l \in w.won : 2 * Cardinality(VotersFor(w.votes, l[1], l[2]))
                        > Cardinality(SnSentinel)

WorldOK(w) ==
    /\ w \in SnWorlds
    /\ \A s \in SnSentinel : ViewOK(w.r[s], s, w.votes, w.won)
    /\ VotesOK(w) /\ WonOK(w)

\* The inductive invariant.
SnInv ==
    /\ WorldOK(SnWorld)
    /\ snCut \subseteq SnSentinel \X SnServer
    /\ snFaults \in 0 .. MaxFaults

\* No Sentinel of w2 names another master than in w.
SameMasters(w, w2) ==
    \A s \in SnSentinel : sentinelGetCurrentMasterAddress(w2.r[s])
                            = sentinelGetCurrentMasterAddress(w.r[s])

-----------------------------------------------------------------------------
(* One Sentinel.                                                             *)

(* Writing the file brings it up to date and changes nothing else.           *)
LEMMA FlushOK ==
    ASSUME NEW s, NEW votes, NEW won, NEW r \in SnView,
           Ordered(r), Backed(r, s, votes, won)
    PROVE  LET x == sentinelFlushConfig(r)
           IN  /\ ViewOK(x, s, votes, won)
               /\ x.file.lepoch = r.lepoch
               /\ x.cur = r.cur /\ x.addr = r.addr /\ x.cepoch = r.cepoch
               /\ x.lead = r.lead /\ x.lepoch = r.lepoch /\ x.st = r.st
               /\ x.fepoch = r.fepoch /\ x.prom = r.prom /\ x.delay = r.delay
               /\ x.rec = r.rec /\ x.vote = r.vote
               /\ sentinelGetCurrentMasterAddress(x) = sentinelGetCurrentMasterAddress(r)
<1> DEFINE a == sentinelGetCurrentMasterAddress(r)
           x == sentinelFlushConfig(r)
           file == [cur |-> r.cur, cepoch |-> r.cepoch, lepoch |-> r.lepoch, addr |-> a]
<1>1. a \in SnServer
    BY DEF sentinelGetCurrentMasterAddress, SnView, Ordered, Promoting
<1>2. file \in SnFile
    BY <1>1 DEF SnView, SnFile
<1>3. x = [r EXCEPT !.file = file]
    BY DEF sentinelFlushConfig
<1>4. x \in SnView
    BY <1>2, <1>3 DEF SnView
<1>5. /\ x.file = file /\ x.cur = r.cur /\ x.addr = r.addr /\ x.cepoch = r.cepoch
      /\ x.lead = r.lead /\ x.lepoch = r.lepoch /\ x.st = r.st /\ x.fepoch = r.fepoch
      /\ x.prom = r.prom /\ x.delay = r.delay /\ x.rec = r.rec /\ x.vote = r.vote
    BY <1>3 DEF SnView
<1>6. sentinelGetCurrentMasterAddress(x) = a
    BY <1>5 DEF sentinelGetCurrentMasterAddress
<1>7. Ordered(x) /\ Backed(x, s, votes, won)
    BY <1>5 DEF Ordered, Backed
<1>8. FileOK(x)
    BY <1>5, <1>6 DEF FileOK, Ordered, SnView
<1> QED
    BY <1>4, <1>5, <1>6, <1>7, <1>8 DEF ViewOK

(* A newer epoch that s hears of: its failover goes on, answers for older    *)
(* epochs are dropped.                                                       *)
LEMMA NewEpochOK ==
    ASSUME NEW s, NEW votes, NEW won, NEW r, ViewOK(r, s, votes, won),
           NEW e \in Nat, e <= MaxEpoch
    PROVE  LET x == NewEpoch(r, e)
           IN  /\ ViewOK(x, s, votes, won)
               /\ x.file.lepoch >= r.file.lepoch
               /\ x.cur >= e /\ x.cur >= r.cur
               /\ x.addr = r.addr /\ x.cepoch = r.cepoch /\ x.lepoch = r.lepoch
               /\ x.st = r.st /\ x.fepoch = r.fepoch /\ x.prom = r.prom
               /\ sentinelGetCurrentMasterAddress(x) = sentinelGetCurrentMasterAddress(r)
<1> DEFINE x == NewEpoch(r, e)
           y == InEpoch(r, e)
<1>1. CASE e <= r.cur
    <2>1. x = r
        BY <1>1 DEF NewEpoch, ViewOK, SnView
    <2> QED
        BY <1>1, <2>1 DEF ViewOK, SnView, SnFile
<1>2. CASE e > r.cur
    <2>1. /\ y \in SnView
          /\ y.cur = e /\ y.addr = r.addr /\ y.cepoch = r.cepoch /\ y.lead = r.lead
          /\ y.lepoch = r.lepoch /\ y.st = r.st /\ y.fepoch = r.fepoch
          /\ y.prom = r.prom
          /\ \A t \in SnSentinel : y.vote[t] \in {NoVote, r.vote[t]}
        BY DEF InEpoch, NoVote, ViewOK, SnView
    <2>2. Ordered(y)
        BY <1>2, <2>1 DEF Ordered, ViewOK, SnView
    <2>3. Backed(y, s, votes, won)
        BY <2>1 DEF Backed, ViewOK, NoVote
    <2>4. x = sentinelFlushConfig(y)
        BY <1>2 DEF NewEpoch
    <2>5. sentinelGetCurrentMasterAddress(y) = sentinelGetCurrentMasterAddress(r)
        BY <2>1 DEF sentinelGetCurrentMasterAddress
    <2>6. r.file.lepoch <= r.lepoch /\ r.cur <= e
        BY <1>2 DEF ViewOK, FileOK, SnView
    <2> HIDE DEF x, y
    <2>7. ViewOK(x, s, votes, won)
        BY <2>1, <2>2, <2>3, <2>4, FlushOK
    <2>8. /\ x.file.lepoch = y.lepoch /\ x.cur = y.cur /\ x.addr = y.addr
          /\ x.cepoch = y.cepoch /\ x.lepoch = y.lepoch /\ x.st = y.st
          /\ x.fepoch = y.fepoch /\ x.prom = y.prom
          /\ sentinelGetCurrentMasterAddress(x) = sentinelGetCurrentMasterAddress(y)
        BY <2>1, <2>2, <2>3, <2>4, FlushOK
    <2>9. r.lepoch \in Nat /\ r.file.lepoch \in Nat /\ r.cur \in Nat
        BY DEF ViewOK, SnView, SnFile
    <2> QED
        BY <2>1, <2>5, <2>6, <2>7, <2>8, <2>9 DEF x
<1>3. r.cur \in Nat
    BY DEF ViewOK, SnView
<1> QED
    BY <1>1, <1>2, <1>3

(* A failover that begins, and one that is given up before the promotion.    *)
LEMMA StartOK ==
    ASSUME NEW s, NEW votes, NEW won, NEW r, ViewOK(r, s, votes, won),
           MaxEpoch \in Nat, r.st = "none", r.cur < MaxEpoch
    PROVE  LET x == sentinelStartFailover(r)
           IN  /\ ViewOK(x, s, votes, won)
               /\ x.file = r.file /\ x.st = "wait" /\ x.addr = r.addr
               /\ sentinelGetCurrentMasterAddress(x) = sentinelGetCurrentMasterAddress(r)
<1> DEFINE x == sentinelStartFailover(r)
           e == r.cur + 1
           y == InEpoch(r, e)
<1>e. e \in Nat
    BY DEF ViewOK, SnView
<1> HIDE DEF e
<1>0. /\ y \in SnView
      /\ y.cur = e /\ y.addr = r.addr /\ y.cepoch = r.cepoch
      /\ y.lead = r.lead /\ y.lepoch = r.lepoch /\ y.prom = r.prom /\ y.file = r.file
      /\ \A t \in SnSentinel : y.vote[t] \in {NoVote, r.vote[t]}
    BY <1>e DEF InEpoch, NoVote, ViewOK, SnView
<1>1. /\ x \in SnView
      /\ x.cur = r.cur + 1 /\ x.addr = r.addr /\ x.cepoch = r.cepoch
      /\ x.lead = r.lead /\ x.lepoch = r.lepoch /\ x.st = "wait"
      /\ x.fepoch = r.cur + 1 /\ x.prom = r.prom /\ x.file = r.file
      /\ \A t \in SnSentinel : x.vote[t] \in {NoVote, r.vote[t]}
    <2> HIDE DEF y
    <2>1. x = [y EXCEPT !.st = "wait", !.fepoch = e, !.delay = TRUE]
        BY DEF sentinelStartFailover, y, e
    <2> QED
        BY <1>e, <1>0, <2>1 DEF SnView, States, e
<1>2. r.cur \in Nat /\ r.lepoch \in Nat /\ r.cepoch \in Nat /\ r.file.cur \in Nat
    BY DEF ViewOK, SnView, SnFile
<1>3. Ordered(x)
    BY <1>1, <1>2 DEF Ordered, ViewOK, Promoting
<1>4. sentinelGetCurrentMasterAddress(x) = sentinelGetCurrentMasterAddress(r)
    BY <1>1 DEF sentinelGetCurrentMasterAddress
<1>5. FileOK(x)
    BY <1>1, <1>2, <1>4 DEF FileOK, ViewOK
<1>6. Backed(x, s, votes, won)
    BY <1>1 DEF Backed, ViewOK, NoVote, Elected
<1> QED
    BY <1>1, <1>3, <1>4, <1>5, <1>6 DEF ViewOK

LEMMA AbortOK ==
    ASSUME NEW s, NEW votes, NEW won, NEW r, ViewOK(r, s, votes, won),
           r.st # "reconf"
    PROVE  LET x == sentinelAbortFailover(r)
           IN  /\ ViewOK(x, s, votes, won)
               /\ x.file = r.file
               /\ sentinelGetCurrentMasterAddress(x) = sentinelGetCurrentMasterAddress(r)
<1> DEFINE x == sentinelAbortFailover(r)
<1>1. /\ x \in SnView
      /\ x.cur = r.cur /\ x.addr = r.addr /\ x.cepoch = r.cepoch
      /\ x.lead = r.lead /\ x.lepoch = r.lepoch /\ x.st = "none"
      /\ x.fepoch = 0 /\ x.prom = Nobody /\ x.file = r.file /\ x.vote = r.vote
    BY DEF sentinelAbortFailover, ViewOK, SnView, States
<1>2. r.cur \in Nat /\ r.addr \in SnServer
    BY DEF ViewOK, SnView
<1>3. Ordered(x)
    BY <1>1, <1>2, SnAssumption DEF Ordered, ViewOK, Promoting
<1>4. sentinelGetCurrentMasterAddress(x) = sentinelGetCurrentMasterAddress(r)
    BY <1>1 DEF sentinelGetCurrentMasterAddress
<1>5. FileOK(x)
    BY <1>1, <1>4 DEF FileOK, ViewOK
<1>6. Backed(x, s, votes, won)
    BY <1>1 DEF Backed, ViewOK, Elected
<1> QED
    BY <1>1, <1>3, <1>4, <1>5, <1>6 DEF ViewOK

(* The master is replaced by a, and the file says so.                        *)
LEMMA ResetOK ==
    ASSUME NEW s, NEW votes, NEW won, NEW r \in SnView, Ordered(r),
           Backed(r, s, votes, won), NEW a \in SnServer
    PROVE  LET x == sentinelResetMasterAndChangeAddress(r, a)
           IN  /\ ViewOK(x, s, votes, won)
               /\ x.file.lepoch = r.lepoch /\ x.cepoch = r.cepoch
               /\ sentinelGetCurrentMasterAddress(x) = a
<1> DEFINE y == [sentinelResetMaster(r) EXCEPT !.addr = a]
           x == sentinelResetMasterAndChangeAddress(r, a)
<1>1. /\ y \in SnView
      /\ y.cur = r.cur /\ y.addr = a /\ y.cepoch = r.cepoch
      /\ y.lead = Nobody /\ y.lepoch = r.lepoch /\ y.st = "none"
      /\ y.fepoch = 0 /\ y.prom = Nobody /\ y.vote = r.vote
    BY DEF sentinelResetMaster, SnView, States
<1>2. Ordered(y)
    BY <1>1, SnAssumption DEF Ordered, Promoting, SnView
<1>3. Backed(y, s, votes, won)
    BY <1>1 DEF Backed, Elected
<1>4. x = sentinelFlushConfig(y)
    BY DEF sentinelResetMasterAndChangeAddress
<1>5. sentinelGetCurrentMasterAddress(y) = a
    BY <1>1 DEF sentinelGetCurrentMasterAddress
<1> HIDE DEF x, y
<1>6. /\ ViewOK(x, s, votes, won)
      /\ x.file.lepoch = y.lepoch /\ x.cepoch = y.cepoch
      /\ sentinelGetCurrentMasterAddress(x) = sentinelGetCurrentMasterAddress(y)
    BY <1>1, <1>2, <1>3, <1>4, FlushOK
<1> QED
    BY <1>1, <1>5, <1>6 DEF x

(* A Sentinel that restarts names the master it named before.                *)
LEMMA LoadedOK ==
    ASSUME NEW s, NEW votes, NEW won, NEW r, ViewOK(r, s, votes, won)
    PROVE  LET x == Loaded(r.file)
           IN  /\ ViewOK(x, s, votes, won)
               /\ x.file = r.file
               /\ sentinelGetCurrentMasterAddress(x) = sentinelGetCurrentMasterAddress(r)
<1> DEFINE x == Loaded(r.file)
<1>1. /\ r.file \in SnFile /\ r.cur \in Nat /\ r.file.cur \in Nat
      /\ r.file.lepoch \in Nat /\ r.file.cepoch \in Nat /\ r.file.addr \in SnServer
    BY DEF ViewOK, SnView, SnFile
<1>2. /\ x \in SnView
      /\ x.cur = r.file.cur /\ x.addr = r.file.addr /\ x.cepoch = r.file.cepoch
      /\ x.lead = Nobody /\ x.lepoch = r.file.lepoch /\ x.st = "none"
      /\ x.fepoch = 0 /\ x.prom = Nobody /\ x.file = r.file
      /\ \A t \in SnSentinel : x.vote[t] = NoVote
    BY <1>1 DEF Loaded, NoVote, SnView, States
<1>3. Ordered(x)
    BY <1>1, <1>2, SnAssumption DEF Ordered, ViewOK, FileOK, Promoting
<1>4. sentinelGetCurrentMasterAddress(x) = r.file.addr
    BY <1>2 DEF sentinelGetCurrentMasterAddress
<1>5. FileOK(x)
    BY <1>1, <1>2, <1>4 DEF FileOK, ViewOK
<1>6. Backed(x, s, votes, won)
    BY <1>2 DEF Backed, NoVote, Elected
<1>7. r.file.addr = sentinelGetCurrentMasterAddress(r)
    BY DEF ViewOK, FileOK
<1> QED
    BY <1>2, <1>3, <1>4, <1>5, <1>6, <1>7 DEF ViewOK

-----------------------------------------------------------------------------
(* All of them.                                                              *)

(* One view of an orderly world is replaced by one that is in order, and     *)
(* whose file knows of no fewer votes.                                       *)
LEMMA ReplaceOK ==
    ASSUME NEW w, WorldOK(w), NEW s \in SnSentinel, NEW x,
           ViewOK(x, s, w.votes, w.won), x.file.lepoch >= w.r[s].file.lepoch,
           NEW sv \in [SnServer -> [up : BOOLEAN, of : SnServer \cup {Nobody}]],
           NEW w2, w2 = [r |-> [w.r EXCEPT ![s] = x], sv |-> sv,
                         votes |-> w.votes, won |-> w.won]
    PROVE  /\ WorldOK(w2)
           /\ sentinelGetCurrentMasterAddress(x) = sentinelGetCurrentMasterAddress(w.r[s])
                => SameMasters(w, w2)
<1>1. /\ w2 \in SnWorlds
      /\ w2.r[s] = x /\ \A t \in SnSentinel \ {s} : w2.r[t] = w.r[t]
      /\ w2.votes = w.votes /\ w2.won = w.won
    BY DEF WorldOK, SnWorlds, ViewOK
<1>2. \A t \in SnSentinel : ViewOK(w2.r[t], t, w2.votes, w2.won)
    BY <1>1 DEF WorldOK
<1>3. \A t \in SnSentinel : /\ w2.r[t].file.lepoch \in Nat /\ w.r[t].file.lepoch \in Nat
                            /\ w2.r[t].file.lepoch >= w.r[t].file.lepoch
    BY <1>1 DEF WorldOK, ViewOK, SnView, SnFile
<1>4. ASSUME NEW v \in w.votes
      PROVE  v[2] <= w2.r[v[1]].file.lepoch
    <2>1. v[1] \in SnSentinel /\ v[2] \in Nat
        BY DEF WorldOK, SnWorlds
    <2>2. v[2] <= w.r[v[1]].file.lepoch
        BY DEF WorldOK, VotesOK
    <2> QED
        BY <1>3, <2>1, <2>2
<1>5. VotesOK(w2) /\ WonOK(w2)
    BY <1>1, <1>4 DEF WorldOK, VotesOK, WonOK
<1> QED
    BY <1>1, <1>2, <1>5 DEF WorldOK, SameMasters

(* A vote is the first of its voter in its epoch, and is in the file before  *)
(* it is told.                                                               *)
LEMMA VoteOK ==
    ASSUME NEW w, WorldOK(w), NEW t \in SnSentinel, NEW id \in SnSentinel,
           NEW e \in Nat, e <= MaxEpoch
    PROVE  LET w2 == sentinelVoteLeader(w, t, e, id)
           IN  /\ WorldOK(w2) /\ SameMasters(w, w2)
               /\ w.votes \subseteq w2.votes /\ w2.won = w.won /\ w2.sv = w.sv
               /\ \A s \in SnSentinel \ {t} : w2.r[s] = w.r[s]
               /\ w2.r[t].st = w.r[t].st /\ w2.r[t].fepoch = w.r[t].fepoch
               /\ w2.r[t].addr = w.r[t].addr
<1> DEFINE w2 == sentinelVoteLeader(w, t, e, id)
           r == NewEpoch(w.r[t], e)
           p == <<t, r.cur, id>>
           y == [r EXCEPT !.lead = id, !.lepoch = r.cur, !.delay = @ \/ id # t]
           x == sentinelFlushConfig(y)
<1>1. ViewOK(w.r[t], t, w.votes, w.won)
    BY DEF WorldOK
<1>2. /\ ViewOK(r, t, w.votes, w.won)
      /\ r.file.lepoch >= w.r[t].file.lepoch
      /\ r.cur >= e /\ r.addr = w.r[t].addr /\ r.lepoch = w.r[t].lepoch
      /\ r.st = w.r[t].st /\ r.fepoch = w.r[t].fepoch
      /\ sentinelGetCurrentMasterAddress(r) = sentinelGetCurrentMasterAddress(w.r[t])
    BY <1>1, NewEpochOK
<1>3. w \in SnWorlds
    BY DEF WorldOK
<1>4. r \in SnView /\ r.cur \in Nat /\ r.lepoch \in Nat /\ r.file.lepoch \in Nat
    BY <1>2 DEF ViewOK, SnView, SnFile
<1>5. CASE ~MayVote(r, e)
    <2> HIDE DEF r
    <2>1. w2 = [w EXCEPT !.r[t] = r]
        BY <1>5 DEF sentinelVoteLeader, r
    <2>2. w2 = [r |-> [w.r EXCEPT ![t] = r], sv |-> w.sv, votes |-> w.votes, won |-> w.won]
        BY <1>3, <2>1 DEF SnWorlds
    <2>3. w.sv \in [SnServer -> [up : BOOLEAN, of : SnServer \cup {Nobody}]]
        BY <1>3 DEF SnWorlds
    <2>4. WorldOK(w2) /\ SameMasters(w, w2)
        BY <1>2, <2>2, <2>3, ReplaceOK
    <2>5. w2.r[t] = r /\ \A s \in SnSentinel \ {t} : w2.r[s] = w.r[s]
        BY <1>3, <2>2 DEF SnWorlds
    <2> QED
        BY <1>2, <2>2, <2>4, <2>5
<1>6. CASE MayVote(r, e)
    <2>1. r.lepoch < e /\ r.cur = e
        BY <1>2, <1>4, <1>6 DEF MayVote
    <2> HIDE DEF r
    <2>2. /\ y \in SnView
          /\ y.cur = r.cur /\ y.addr = r.addr /\ y.cepoch = r.cepoch
          /\ y.lead = id /\ y.lepoch = r.cur /\ y.st = r.st
          /\ y.fepoch = r.fepoch /\ y.prom = r.prom /\ y.vote = r.vote
        BY <1>4 DEF SnView
    <2>3. Ordered(y)
        BY <1>2, <1>4, <2>2 DEF ViewOK, Ordered
    <2>4. Backed(y, t, w.votes \cup {p}, w.won)
        BY <1>2, <2>2 DEF ViewOK, Backed
    <2>5. sentinelGetCurrentMasterAddress(y) = sentinelGetCurrentMasterAddress(w.r[t])
        BY <1>2, <2>2 DEF sentinelGetCurrentMasterAddress
    <2>6. w2 = [r |-> [w.r EXCEPT ![t] = x], sv |-> w.sv,
                votes |-> w.votes \cup {p}, won |-> w.won]
        BY <1>3, <1>6 DEF sentinelVoteLeader, r, SnWorlds
    <2> HIDE DEF x, y
    <2>7. /\ ViewOK(x, t, w.votes \cup {p}, w.won)
          /\ x.file.lepoch = y.lepoch /\ x.addr = y.addr /\ x.st = y.st
          /\ x.fepoch = y.fepoch
          /\ sentinelGetCurrentMasterAddress(x) = sentinelGetCurrentMasterAddress(y)
        BY <2>2, <2>3, <2>4, FlushOK DEF x
    <2> HIDE DEF w2
    <2>8. /\ w2.r[t] = x /\ \A s \in SnSentinel \ {t} : w2.r[s] = w.r[s]
          /\ w2.votes = w.votes \cup {p} /\ w2.won = w.won /\ w2.sv = w.sv
        BY <1>3, <2>6 DEF SnWorlds
    <2>9. p \in SnSentinel \X Nat \X SnSentinel
        BY <1>4
    <2>10. w2 \in SnWorlds
        BY <1>3, <2>6, <2>7, <2>9 DEF SnWorlds, ViewOK
    <2>11. \A s \in SnSentinel : ViewOK(w2.r[s], s, w2.votes, w2.won)
        BY <2>7, <2>8 DEF WorldOK, ViewOK, Backed
    <2>12. \A v \in w.votes : v[1] \in SnSentinel /\ v[2] \in Nat
                                /\ v[2] <= w.r[v[1]].file.lepoch
        BY <1>3 DEF WorldOK, VotesOK, SnWorlds
    <2>13. \A v \in w.votes : v[1] = t => v[2] < r.cur
        <3>1. w.r[t].file.lepoch \in Nat /\ w.r[t].file.lepoch <= w.r[t].lepoch
            BY <1>1 DEF ViewOK, FileOK, SnView, SnFile
        <3> QED
            BY <1>2, <1>4, <2>1, <2>12, <3>1
    <2>14. p[1] = t /\ p[2] = r.cur
        OBVIOUS
    <2> HIDE DEF p
    <2>15. VotesOK(w2)
        <3>1. \A v \in w2.votes : v[2] <= w2.r[v[1]].file.lepoch
            BY <1>4, <2>2, <2>7, <2>8, <2>12, <2>13, <2>14
        <3>2. \A v, u \in w2.votes : v[1] = u[1] /\ v[2] = u[2] => v = u
            BY <1>4, <2>8, <2>12, <2>13, <2>14 DEF WorldOK, VotesOK
        <3> QED
            BY <3>1, <3>2 DEF VotesOK
    <2>16. WonOK(w2)
        <3> SUFFICES ASSUME NEW l \in w.won
                     PROVE  2 * Cardinality(VotersFor(w2.votes, l[1], l[2]))
                                > Cardinality(SnSentinel)
            BY <2>8 DEF WonOK
        <3> DEFINE A == VotersFor(w.votes, l[1], l[2])
                   B == VotersFor(w2.votes, l[1], l[2])
        <3>1. A \subseteq B /\ B \subseteq SnSentinel
            BY <2>8 DEF VotersFor
        <3>2. 2 * Cardinality(A) > Cardinality(SnSentinel)
            BY DEF WorldOK, WonOK
        <3>3. IsFiniteSet(B) /\ IsFiniteSet(A) /\ IsFiniteSet(SnSentinel)
            BY <3>1, SnAssumption, FS_Subset
        <3> HIDE DEF A, B
        <3>4. Cardinality(A) <= Cardinality(B)
            BY <3>1, <3>3, FS_Subset
        <3>5. /\ Cardinality(A) \in Nat /\ Cardinality(B) \in Nat
              /\ Cardinality(SnSentinel) \in Nat
            BY <3>3, FS_CardinalityType
        <3> QED
            BY <3>2, <3>4, <3>5 DEF B
    <2>17. SameMasters(w, w2)
        BY <2>5, <2>7, <2>8 DEF SameMasters
    <2> QED
        BY <1>2, <2>2, <2>7, <2>8, <2>10, <2>11, <2>15, <2>16, <2>17 DEF WorldOK, w2
<1> QED
    BY <1>5, <1>6

LEMMA BecomesOK ==
    ASSUME NEW w \in SnWorlds, SnBecomes(w)
    PROVE  SnWorld' = w
BY DEF SnBecomes, SnWorld, SnWorlds

-----------------------------------------------------------------------------
(* Elections.                                                                *)

(* Whoever is the leader has, from the epoch of its failover on, the votes   *)
(* of a majority: the others' are in the history when they are counted, and  *)
(* the own one is there when it is added.                                    *)
LEMMA LeaderHasMajority ==
    ASSUME NEW w, WorldOK(w), NEW v, WorldOK(v), w.votes \subseteq v.votes,
           NEW s \in SnSentinel, NEW favourite,
           sentinelGetLeader(w, v, s, favourite) = s
    PROVE  2 * Cardinality(VotersFor(v.votes, w.r[s].fepoch, s)) > Cardinality(SnSentinel)
<1> DEFINE r == w.r[s]
           A == {t \in Others(s) : r.vote[t].epoch = r.cur /\ r.vote[t].id = s}
           V == VotersFor(v.votes, r.fepoch, s)
           N == Cardinality(SnSentinel)
<1>1. ViewOK(r, s, w.votes, w.won) /\ ViewOK(v.r[s], s, v.votes, v.won)
    BY DEF WorldOK
<1>2. s # Nobody
    BY SnAssumption
<1>3. A \subseteq V
    <2> SUFFICES ASSUME NEW t \in A  PROVE t \in V
        OBVIOUS
    <2>1. <<t, r.cur, s>> \in v.votes /\ t \in SnSentinel
        BY <1>1, <1>2 DEF ViewOK, Backed, Others
    <2>2. r.cur >= r.fepoch
        BY <1>1 DEF ViewOK, Ordered, SnView
    <2> QED
        BY <2>1, <2>2 DEF VotersFor
<1>4. s \notin A
    BY DEF Others
<1>5. IsFiniteSet(V) /\ IsFiniteSet(A) /\ V \subseteq SnSentinel /\ IsFiniteSet(SnSentinel)
    BY <1>3, SnAssumption, FS_Subset DEF VotersFor
<1>6. N \in Nat /\ Cardinality(A) \in Nat /\ Cardinality(V) \in Nat
    BY <1>5, FS_CardinalityType
<1>7. \A n \in Nat : Enough(n) => 2 * n > N
    BY <1>6 DEF Enough
<1>8. OthersFor(r, s, s) = Cardinality(A)
    BY DEF OthersFor
<1>9. CASE favourite = s /\ Enough(OthersFor(r, s, s))
    <2> HIDE DEF A, V, N
    <2>1. Cardinality(A) <= Cardinality(V)
        BY <1>3, <1>5, FS_Subset
    <2> QED
        BY <1>6, <1>7, <1>8, <1>9, <2>1 DEF N, V
<1>10. CASE /\ v.r[s].lead = s /\ v.r[s].lepoch = r.fepoch
            /\ Enough(OthersFor(r, s, s) + 1)
    <2>1. <<s, r.fepoch, s>> \in v.votes
        BY <1>1, <1>2, <1>10 DEF ViewOK, Backed
    <2>2. r.fepoch \in Nat
        BY <1>1 DEF ViewOK, SnView
    <2>3. A \cup {s} \subseteq V
        BY <1>3, <2>1, <2>2 DEF VotersFor
    <2> HIDE DEF A, V, N
    <2>4. Cardinality(A \cup {s}) = Cardinality(A) + 1
        BY <1>4, <1>5, FS_AddElement
    <2>5. Cardinality(A \cup {s}) <= Cardinality(V)
        BY <1>5, <2>3, FS_Subset
    <2> QED
        BY <1>6, <1>7, <1>8, <1>10, <2>4, <2>5 DEF N, V
<1> QED
    BY <1>2, <1>9, <1>10 DEF sentinelGetLeader

(* s is elected: the world with its votes and its victory.                   *)
LEMMA ElectedOK ==
    ASSUME NEW v, WorldOK(v), NEW s \in SnSentinel, v.r[s].st = "wait",
           2 * Cardinality(VotersFor(v.votes, v.r[s].fepoch, s)) > Cardinality(SnSentinel)
    PROVE  LET w2 == [v EXCEPT !.r[s].st = "select",
                               !.won = @ \cup {<<v.r[s].fepoch, s>>}]
           IN  WorldOK(w2) /\ SameMasters(v, w2)
<1> DEFINE r == v.r[s]
           l == <<r.fepoch, s>>
           x == [r EXCEPT !.st = "select"]
           w2 == [v EXCEPT !.r[s].st = "select", !.won = @ \cup {<<r.fepoch, s>>}]
<1>1. v \in SnWorlds /\ ViewOK(r, s, v.votes, v.won)
    BY DEF WorldOK
<1>2. /\ x \in SnView
      /\ x.cur = r.cur /\ x.addr = r.addr /\ x.cepoch = r.cepoch /\ x.lead = r.lead
      /\ x.lepoch = r.lepoch /\ x.st = "select" /\ x.fepoch = r.fepoch
      /\ x.prom = r.prom /\ x.file = r.file /\ x.vote = r.vote
    BY <1>1 DEF ViewOK, SnView, States
<1>3. sentinelGetCurrentMasterAddress(x) = sentinelGetCurrentMasterAddress(r)
    BY <1>2 DEF sentinelGetCurrentMasterAddress
<1>4. ViewOK(x, s, v.votes, v.won \cup {l})
    BY <1>1, <1>2, <1>3 DEF ViewOK, Ordered, FileOK, Backed, Promoting
<1>5. l \in Nat \X SnSentinel
    BY <1>1 DEF ViewOK, SnView
<1>6. w2 = [r |-> [v.r EXCEPT ![s] = x], sv |-> v.sv, votes |-> v.votes,
            won |-> v.won \cup {l}]
    <2>1. w2 = [v EXCEPT !.r = [v.r EXCEPT ![s] = x], !.won = v.won \cup {l}]
        OBVIOUS
    <2> HIDE DEF w2, x, l
    <2> QED
        BY <1>1, <2>1 DEF SnWorlds
<1>7. l[1] = r.fepoch /\ l[2] = s
    OBVIOUS
<1> HIDE DEF w2, x, l
<1>8. /\ w2 \in SnWorlds
      /\ w2.r[s] = x /\ \A t \in SnSentinel \ {s} : w2.r[t] = v.r[t]
      /\ w2.votes = v.votes /\ w2.won = v.won \cup {l}
    BY <1>1, <1>2, <1>5, <1>6 DEF SnWorlds
<1>9. \A t \in SnSentinel : ViewOK(w2.r[t], t, w2.votes, w2.won)
    BY <1>4, <1>8 DEF WorldOK, ViewOK, Backed
<1>10. \A t \in SnSentinel : w2.r[t].file = v.r[t].file
    BY <1>2, <1>8
<1>11. VotesOK(w2)
    BY <1>1, <1>8, <1>10 DEF WorldOK, VotesOK, SnWorlds
<1>12. WonOK(w2)
    BY <1>7, <1>8 DEF WorldOK, WonOK
<1>13. SameMasters(v, w2)
    BY <1>3, <1>8 DEF SameMasters
<1> QED
    BY <1>8, <1>9, <1>11, <1>12, <1>13 DEF WorldOK, w2, l

-----------------------------------------------------------------------------
(* The timer.                                                                *)

(* One view is replaced, and nothing else.                                   *)
LEMMA ViewSetOK ==
    ASSUME NEW w, WorldOK(w), NEW s \in SnSentinel, NEW x,
           ViewOK(x, s, w.votes, w.won), x.file.lepoch >= w.r[s].file.lepoch
    PROVE  LET w2 == [w EXCEPT !.r[s] = x]
           IN  /\ WorldOK(w2) /\ w2.r[s] = x
               /\ w2.sv = w.sv /\ w2.votes = w.votes /\ w2.won = w.won
               /\ \A t \in SnSentinel \ {s} : w2.r[t] = w.r[t]
               /\ sentinelGetCurrentMasterAddress(x)
                    = sentinelGetCurrentMasterAddress(w.r[s]) => SameMasters(w, w2)
<1> DEFINE w2 == [w EXCEPT !.r[s] = x]
<1>1. w \in SnWorlds
    BY DEF WorldOK
<1>2. w2 = [r |-> [w.r EXCEPT ![s] = x], sv |-> w.sv, votes |-> w.votes, won |-> w.won]
    BY <1>1 DEF SnWorlds
<1>3. w.sv \in [SnServer -> [up : BOOLEAN, of : SnServer \cup {Nobody}]]
    BY <1>1 DEF SnWorlds
<1> HIDE DEF w2
<1>4. /\ WorldOK(w2)
      /\ sentinelGetCurrentMasterAddress(x) = sentinelGetCurrentMasterAddress(w.r[s])
            => SameMasters(w, w2)
    BY <1>2, <1>3, ReplaceOK
<1>5. /\ w2.r[s] = x /\ w2.sv = w.sv /\ w2.votes = w.votes /\ w2.won = w.won
      /\ \A t \in SnSentinel \ {s} : w2.r[t] = w.r[t]
    BY <1>1, <1>2 DEF SnWorlds
<1> QED
    BY <1>4, <1>5 DEF w2

(* What is sent to a server changes no view.                                 *)
LEMMA SlaveOfOK ==
    ASSUME NEW w, WorldOK(w), NEW s, NEW i \in SnServer,
           NEW a \in SnServer \cup {Nobody}
    PROVE  LET w2 == sentinelSendSlaveOf(w, s, i, a)
           IN  WorldOK(w2) /\ w2.r = w.r /\ w2.won = w.won /\ SameMasters(w, w2)
<1> DEFINE w2 == sentinelSendSlaveOf(w, s, i, a)
           sv == [w.sv EXCEPT ![i].of = a]
<1>1. w \in SnWorlds
    BY DEF WorldOK
<1>2. CASE Reachable(s, i)
    <2>1. w2 = [w EXCEPT !.sv = sv]
        BY <1>2 DEF sentinelSendSlaveOf
    <2>2. sv \in [SnServer -> [up : BOOLEAN, of : SnServer \cup {Nobody}]]
        BY <1>1 DEF SnWorlds
    <2> HIDE DEF w2, sv
    <2>3. /\ w2.r = w.r /\ w2.votes = w.votes /\ w2.won = w.won
          /\ w2 \in SnWorlds
        BY <1>1, <2>1, <2>2 DEF SnWorlds
    <2> QED
        BY <2>3 DEF WorldOK, VotesOK, WonOK, SameMasters, w2
<1>3. CASE ~Reachable(s, i)
    BY <1>3 DEF sentinelSendSlaveOf, SameMasters
<1> QED
    BY <1>2, <1>3

(* The timer of s, with the election still to be decided.                    *)
LEMMA WaitStartOK ==
    ASSUME NEW w, WorldOK(w), NEW s \in SnSentinel, w.r[s].st = "wait", WaitStart(w, s)
    PROVE  WorldOK(SnWorld') /\ SameMasters(w, SnWorld')
<1>1. PICK favourite \in Favourites(w.r[s], s) :
        LET e == w.r[s].fepoch
            v == sentinelVoteLeader(w, s, e, favourite)
        IN  IF sentinelGetLeader(w, v, s, favourite) = s
            THEN SnBecomes([v EXCEPT !.r[s].st = "select", !.won = @ \cup {<<e, s>>}])
            ELSE \E r \in {v.r[s], sentinelAbortFailover(v.r[s])} :
                     SnBecomes([v EXCEPT !.r[s] = r])
    BY DEF WaitStart
<1> DEFINE e == w.r[s].fepoch
           v == sentinelVoteLeader(w, s, e, favourite)
<1>2. favourite \in SnSentinel
    BY DEF Favourites
<1>3. e \in Nat /\ e <= MaxEpoch
    BY SnAssumption DEF WorldOK, ViewOK, Ordered, SnView
<1>4. /\ WorldOK(v) /\ SameMasters(w, v)
      /\ w.votes \subseteq v.votes /\ v.won = w.won /\ v.sv = w.sv
      /\ v.r[s].st = "wait" /\ v.r[s].fepoch = e
    BY <1>2, <1>3, VoteOK
<1> HIDE DEF v
<1>5. CASE sentinelGetLeader(w, v, s, favourite) = s
    <2> DEFINE w2 == [v EXCEPT !.r[s].st = "select", !.won = @ \cup {<<e, s>>}]
    <2>1. 2 * Cardinality(VotersFor(v.votes, e, s)) > Cardinality(SnSentinel)
        BY <1>4, <1>5, LeaderHasMajority
    <2>2. w2 = [v EXCEPT !.r[s].st = "select", !.won = @ \cup {<<v.r[s].fepoch, s>>}]
        BY <1>4
    <2> HIDE DEF w2
    <2>3. WorldOK(w2) /\ SameMasters(v, w2)
        BY <1>4, <2>1, <2>2, ElectedOK
    <2>4. SnBecomes(w2)
        BY <1>1, <1>5 DEF v, w2
    <2>5. SnWorld' = w2
        BY <2>3, <2>4, BecomesOK DEF WorldOK
    <2> QED
        BY <1>4, <2>3, <2>5 DEF SameMasters
<1>6. CASE sentinelGetLeader(w, v, s, favourite) # s
    <2>1. PICK r \in {v.r[s], sentinelAbortFailover(v.r[s])} :
            SnBecomes([v EXCEPT !.r[s] = r])
        BY <1>1, <1>6 DEF v
    <2>2. ViewOK(v.r[s], s, v.votes, v.won) /\ v.r[s].file.lepoch \in Nat
        BY <1>4 DEF WorldOK, ViewOK, SnView, SnFile
    <2>3. /\ ViewOK(r, s, v.votes, v.won) /\ r.file = v.r[s].file
          /\ sentinelGetCurrentMasterAddress(r) = sentinelGetCurrentMasterAddress(v.r[s])
        BY <1>4, <2>1, <2>2, AbortOK
    <2> DEFINE w2 == [v EXCEPT !.r[s] = r]
    <2>4. WorldOK(w2) /\ SameMasters(v, w2)
        BY <1>4, <2>2, <2>3, ViewSetOK
    <2> HIDE DEF w2
    <2>5. SnWorld' = w2
        BY <2>1, <2>4, BecomesOK DEF WorldOK, w2
    <2> QED
        BY <1>4, <2>4, <2>5 DEF SameMasters
<1> QED
    BY <1>5, <1>6

(* One view is replaced by another of the same Sentinel: the shape of the    *)
(* steps below.                                                              *)
LEMMA ViewStepOK ==
    ASSUME NEW w, WorldOK(w), NEW s \in SnSentinel, NEW x,
           ViewOK(x, s, w.votes, w.won), x.file = w.r[s].file,
           sentinelGetCurrentMasterAddress(x) = sentinelGetCurrentMasterAddress(w.r[s]),
           SnBecomes([w EXCEPT !.r[s] = x])
    PROVE  WorldOK(SnWorld') /\ SameMasters(w, SnWorld')
<1> DEFINE w2 == [w EXCEPT !.r[s] = x]
<1>1. w.r[s].file.lepoch \in Nat
    BY DEF WorldOK, ViewOK, SnView, SnFile
<1>2. WorldOK(w2) /\ SameMasters(w, w2)
    BY <1>1, ViewSetOK
<1> HIDE DEF w2
<1>3. SnWorld' = w2
    BY <1>2, BecomesOK DEF WorldOK, w2
<1> QED
    BY <1>2, <1>3

LEMMA SelectSlaveOK ==
    ASSUME NEW w, WorldOK(w), NEW s \in SnSentinel, w.r[s].st = "select",
           SelectSlave(w, s)
    PROVE  WorldOK(SnWorld') /\ SameMasters(w, SnWorld')
<1> DEFINE r == w.r[s]
<1>1. ViewOK(r, s, w.votes, w.won)
    BY DEF WorldOK
<1>2. CASE SnBecomes([w EXCEPT !.r[s] = sentinelAbortFailover(r)])
    BY <1>1, <1>2, AbortOK, ViewStepOK
<1>3. CASE \E i \in SnServer \ {r.addr} :
            SnBecomes([w EXCEPT !.r[s] = [r EXCEPT !.st = "noone", !.prom = i]])
    <2>1. PICK i \in SnServer \ {r.addr} :
            SnBecomes([w EXCEPT !.r[s] = [r EXCEPT !.st = "noone", !.prom = i]])
        BY <1>3
    <2> DEFINE x == [r EXCEPT !.st = "noone", !.prom = i]
    <2>2. i # Nobody
        BY SnAssumption
    <2>3. /\ x \in SnView
          /\ x.cur = r.cur /\ x.addr = r.addr /\ x.cepoch = r.cepoch /\ x.lead = r.lead
          /\ x.lepoch = r.lepoch /\ x.st = "noone" /\ x.fepoch = r.fepoch
          /\ x.prom = i /\ x.file = r.file /\ x.vote = r.vote
        BY <1>1 DEF ViewOK, SnView, States
    <2>4. sentinelGetCurrentMasterAddress(x) = sentinelGetCurrentMasterAddress(r)
        BY <2>3 DEF sentinelGetCurrentMasterAddress
    <2>5. ViewOK(x, s, w.votes, w.won)
        BY <1>1, <2>2, <2>3, <2>4
        DEF ViewOK, Ordered, FileOK, Backed, Promoting, Elected
    <2> QED
        BY <2>1, <2>3, <2>4, <2>5, ViewStepOK
<1> QED
    BY <1>2, <1>3 DEF SelectSlave

LEMMA SendSlaveOfNoOneOK ==
    ASSUME NEW w, WorldOK(w), NEW s \in SnSentinel, w.r[s].st = "noone",
           SendSlaveOfNoOne(w, s)
    PROVE  WorldOK(SnWorld') /\ SameMasters(w, SnWorld')
<1> DEFINE r == w.r[s]
<1>1. ViewOK(r, s, w.votes, w.won)
    BY DEF WorldOK
<1>2. CASE Reachable(s, r.prom)
    <2> DEFINE x == [r EXCEPT !.st = "waitprom"]
               v == [w EXCEPT !.r[s] = x]
               w2 == sentinelSendSlaveOf(v, s, r.prom, Nobody)
    <2>1. v = [w EXCEPT !.r[s].st = "waitprom"]
        OBVIOUS
    <2>2. /\ x \in SnView
          /\ x.cur = r.cur /\ x.addr = r.addr /\ x.cepoch = r.cepoch /\ x.lead = r.lead
          /\ x.lepoch = r.lepoch /\ x.st = "waitprom" /\ x.fepoch = r.fepoch
          /\ x.prom = r.prom /\ x.file = r.file /\ x.vote = r.vote
        BY <1>1 DEF ViewOK, SnView, States
    <2>3. sentinelGetCurrentMasterAddress(x) = sentinelGetCurrentMasterAddress(r)
        BY <2>2 DEF sentinelGetCurrentMasterAddress
    <2>4. ViewOK(x, s, w.votes, w.won) /\ r.file.lepoch \in Nat
        BY <1>1, <2>2, <2>3
        DEF ViewOK, Ordered, FileOK, Backed, Promoting, Elected, SnView, SnFile
    <2>5. r.prom \in SnServer
        BY <1>1 DEF ViewOK, Ordered, Promoting, SnView
    <2> HIDE DEF x
    <2>6. WorldOK(v) /\ SameMasters(w, v)
        BY <2>2, <2>3, <2>4, ViewSetOK
    <2>7. SnBecomes(w2)
        BY <1>2, <2>1 DEF SendSlaveOfNoOne
    <2> HIDE DEF v
    <2>8. WorldOK(w2) /\ SameMasters(v, w2)
        BY <2>5, <2>6, SlaveOfOK
    <2> HIDE DEF w2
    <2>9. SnWorld' = w2
        BY <2>7, <2>8, BecomesOK DEF WorldOK
    <2> QED
        BY <2>6, <2>8, <2>9 DEF SameMasters
<1>3. CASE ~Reachable(s, r.prom)
    <2>1. PICK x \in {r, sentinelAbortFailover(r)} : SnBecomes([w EXCEPT !.r[s] = x])
        BY <1>3 DEF SendSlaveOfNoOne
    <2>2. /\ ViewOK(x, s, w.votes, w.won) /\ x.file = r.file
          /\ sentinelGetCurrentMasterAddress(x) = sentinelGetCurrentMasterAddress(r)
        BY <1>1, <2>1, AbortOK
    <2> QED
        BY <2>1, <2>2, ViewStepOK
<1> QED
    BY <1>2, <1>3

LEMMA WaitPromotionOK ==
    ASSUME NEW w, WorldOK(w), NEW s \in SnSentinel, w.r[s].st = "waitprom",
           WaitPromotion(w, s)
    PROVE  WorldOK(SnWorld') /\ SameMasters(w, SnWorld')
<1> DEFINE r == w.r[s]
<1>1. ViewOK(r, s, w.votes, w.won)
    BY DEF WorldOK
<1>2. PICK x \in {r, sentinelAbortFailover(r)} : SnBecomes([w EXCEPT !.r[s] = x])
    BY DEF WaitPromotion
<1>3. /\ ViewOK(x, s, w.votes, w.won) /\ x.file = r.file
      /\ sentinelGetCurrentMasterAddress(x) = sentinelGetCurrentMasterAddress(r)
    BY <1>1, <1>2, AbortOK
<1> QED
    BY <1>2, <1>3, ViewStepOK

(* Replicas that are told of the promoted one, or have told of themselves:   *)
(* only their flags in the view change.                                      *)
Flagged(w, s, sv, rec) == [w EXCEPT !.sv = sv, !.r[s].rec = rec]

LEMMA FlagsOK ==
    ASSUME NEW w, WorldOK(w), NEW s \in SnSentinel,
           NEW sv \in [SnServer -> [up : BOOLEAN, of : SnServer \cup {Nobody}]],
           NEW rec \in [SnServer -> {"none", "sent", "inprog", "done"}]
    PROVE  LET w2 == Flagged(w, s, sv, rec)
           IN  /\ WorldOK(w2) /\ SameMasters(w, w2) /\ w2.r[s].st = w.r[s].st
               /\ w2.won = w.won
               /\ \A t \in SnSentinel : w2.r[t].cepoch = w.r[t].cepoch
<1> DEFINE r == w.r[s]
           x == [r EXCEPT !.rec = rec]
           w2 == Flagged(w, s, sv, rec)
<1>1. w \in SnWorlds /\ ViewOK(r, s, w.votes, w.won)
    BY DEF WorldOK
<1>2. /\ x \in SnView
      /\ x.cur = r.cur /\ x.addr = r.addr /\ x.cepoch = r.cepoch /\ x.lead = r.lead
      /\ x.lepoch = r.lepoch /\ x.st = r.st /\ x.fepoch = r.fepoch
      /\ x.prom = r.prom /\ x.file = r.file /\ x.vote = r.vote
    BY <1>1 DEF ViewOK, SnView
<1>3. sentinelGetCurrentMasterAddress(x) = sentinelGetCurrentMasterAddress(r)
    BY <1>2 DEF sentinelGetCurrentMasterAddress
<1>4. ViewOK(x, s, w.votes, w.won) /\ r.file.lepoch \in Nat
    BY <1>1, <1>2, <1>3 DEF ViewOK, Ordered, FileOK, Backed, SnView, SnFile
<1>5. w2 = [r |-> [w.r EXCEPT ![s] = x], sv |-> sv, votes |-> w.votes, won |-> w.won]
    <2>1. w2 = [w EXCEPT !.sv = sv, !.r = [w.r EXCEPT ![s] = x]]
        BY DEF Flagged
    <2> HIDE DEF w2, x
    <2> QED
        BY <1>1, <2>1 DEF SnWorlds
<1> HIDE DEF w2, x
<1>6. /\ w2.r[s].st = r.st /\ w2.won = w.won
      /\ \A t \in SnSentinel : w2.r[t].cepoch = w.r[t].cepoch
    BY <1>1, <1>2, <1>5 DEF SnWorlds
<1>7. WorldOK(w2) /\ SameMasters(w, w2)
    BY <1>2, <1>3, <1>4, <1>5, ReplaceOK
<1> QED
    BY <1>6, <1>7 DEF w2

LEMMA ReconfiguredOK ==
    ASSUME NEW w, WorldOK(w), NEW s \in SnSentinel, w.r[s].st = "reconf", NEW is
    PROVE  LET w2 == Reconfigured(w, s, is)
           IN  WorldOK(w2) /\ SameMasters(w, w2) /\ w2.r[s].st = "reconf"
<1> DEFINE r == w.r[s]
           w2 == Reconfigured(w, s, is)
           sv == [i \in SnServer |-> IF i \in is
                    THEN [w.sv[i] EXCEPT !.of = r.prom] ELSE w.sv[i]]
           rec == [i \in SnServer |-> IF i \in is THEN "sent" ELSE r.rec[i]]
<1>1. w \in SnWorlds /\ ViewOK(r, s, w.votes, w.won)
    BY DEF WorldOK
<1>2. sv \in [SnServer -> [up : BOOLEAN, of : SnServer \cup {Nobody}]]
    <2>1. r.prom \in SnServer \cup {Nobody}
        BY <1>1 DEF ViewOK, SnView
    <2> QED
        BY <1>1, <2>1 DEF SnWorlds
<1>3. rec \in [SnServer -> {"none", "sent", "inprog", "done"}]
    BY <1>1 DEF ViewOK, SnView
<1>4. w2 = Flagged(w, s, sv, rec)
    BY DEF Reconfigured, Flagged
<1> HIDE DEF w2, sv, rec
<1>5. WorldOK(w2) /\ SameMasters(w, w2) /\ w2.r[s].st = r.st
    BY <1>2, <1>3, <1>4, FlagsOK
<1> QED
    BY <1>5 DEF w2

(* The switch keeps the master that s has named since the promotion.         *)
LEMMA SwitchOK ==
    ASSUME NEW w, WorldOK(w), NEW s \in SnSentinel, w.r[s].st = "reconf"
    PROVE  LET w2 == SwitchToPromotedSlave(w, s)
           IN  WorldOK(w2) /\ SameMasters(w, w2)
<1> DEFINE r == w.r[s]
           x == sentinelResetMasterAndChangeAddress(r, r.prom)
           w2 == SwitchToPromotedSlave(w, s)
<1>1. /\ ViewOK(r, s, w.votes, w.won) /\ r \in SnView /\ Ordered(r)
      /\ Backed(r, s, w.votes, w.won)
    BY DEF WorldOK, ViewOK
<1>2. r.prom \in SnServer /\ r.file.lepoch <= r.lepoch
    BY <1>1 DEF ViewOK, FileOK, Ordered, Promoting, SnView
<1>3. /\ ViewOK(x, s, w.votes, w.won) /\ x.file.lepoch = r.lepoch
      /\ sentinelGetCurrentMasterAddress(x) = r.prom
    BY <1>1, <1>2, ResetOK
<1>4. r.file.lepoch \in Nat /\ r.lepoch \in Nat
    BY <1>1 DEF SnView, SnFile
<1>5. sentinelGetCurrentMasterAddress(r) = r.prom
    BY DEF sentinelGetCurrentMasterAddress
<1>6. w2 = [w EXCEPT !.r[s] = x]
    BY DEF SwitchToPromotedSlave
<1> HIDE DEF x, w2
<1>7. WorldOK(w2) /\ SameMasters(w, w2)
    BY <1>2, <1>3, <1>4, <1>5, <1>6, ViewSetOK
<1> QED
    BY <1>7 DEF w2

LEMMA ReconfNextSlaveOK ==
    ASSUME NEW w, WorldOK(w), NEW s \in SnSentinel, w.r[s].st = "reconf",
           ReconfNextSlave(w, s)
    PROVE  WorldOK(SnWorld') /\ SameMasters(w, SnWorld')
<1>1. PICK is \in NextSlaves(w.r[s], s) :
        LET v == Reconfigured(w, s, is)
            r == v.r[s]
        IN  \/ SnBecomes(v)
            \/ SnBecomes(SwitchToPromotedSlave(v, s))
            \/ SnBecomes(SwitchToPromotedSlave(Reconfigured(v, s, Waiting(r, s)), s))
    BY DEF ReconfNextSlave
<1> DEFINE v == Reconfigured(w, s, is)
           u == Reconfigured(v, s, Waiting(v.r[s], s))
<1>2. WorldOK(v) /\ SameMasters(w, v) /\ v.r[s].st = "reconf"
    BY ReconfiguredOK
<1> HIDE DEF v
<1>3. WorldOK(u) /\ SameMasters(v, u) /\ u.r[s].st = "reconf"
    BY <1>2, ReconfiguredOK
<1> HIDE DEF u
<1> DEFINE v2 == SwitchToPromotedSlave(v, s)
           u2 == SwitchToPromotedSlave(u, s)
<1>4. WorldOK(v2) /\ SameMasters(v, v2)
    BY <1>2, SwitchOK
<1>5. WorldOK(u2) /\ SameMasters(u, u2)
    BY <1>3, SwitchOK
<1>6. SnBecomes(v) \/ SnBecomes(v2) \/ SnBecomes(u2)
    BY <1>1 DEF v, u
<1> HIDE DEF v2, u2
<1>7. SnWorld' \in {v, v2, u2}
    BY <1>2, <1>4, <1>5, <1>6, BecomesOK DEF WorldOK
<1> QED
    BY <1>2, <1>3, <1>4, <1>5, <1>7 DEF SameMasters

(* A whole run of the timer names no new master.                             *)
LEMMA TimerOK ==
    ASSUME SnInv, NEW s \in SnSentinel, sentinelHandleRedisInstance(s)
    PROVE  SnInv' /\ SameMasters(SnWorld, SnWorld')
<1>1. PICK r \in StartedIfNeeded(s) :
        LET w == [SnWorld EXCEPT !.r[s] = r]
        IN  /\ \/ r.st = "none" /\ SnBecomes(w)
               \/ r.st = "wait" /\ WaitStart(w, s)
               \/ r.st = "select" /\ SelectSlave(w, s)
               \/ r.st = "noone" /\ SendSlaveOfNoOne(w, s)
               \/ r.st = "waitprom" /\ WaitPromotion(w, s)
               \/ r.st = "reconf" /\ ReconfNextSlave(w, s)
            /\ UNCHANGED <<snCut, snFaults>>
    BY DEF sentinelHandleRedisInstance
<1> DEFINE w == [SnWorld EXCEPT !.r[s] = r]
<1>2. /\ WorldOK(SnWorld) /\ SnWorld.r[s] = snR[s]
      /\ ViewOK(snR[s], s, SnWorld.votes, SnWorld.won)
      /\ snR[s].file.lepoch \in Nat /\ snR[s].cur \in Nat
    BY DEF SnInv, WorldOK, SnWorld, ViewOK, SnView, SnFile
<1>3. /\ ViewOK(r, s, SnWorld.votes, SnWorld.won) /\ r.file = snR[s].file
      /\ sentinelGetCurrentMasterAddress(r) = sentinelGetCurrentMasterAddress(snR[s])
    <2>1. r = snR[s] \/ /\ r = sentinelStartFailover(snR[s]) /\ snR[s].st = "none"
                        /\ snR[s].cur < MaxEpoch - (MaxFaults - snFaults)
        BY <1>1 DEF StartedIfNeeded
    <2>2. snR[s].cur < MaxEpoch - (MaxFaults - snFaults) => snR[s].cur < MaxEpoch
        BY <1>2, SnAssumption DEF SnInv
    <2>3. MaxEpoch \in Nat
        BY SnAssumption
    <2> QED
        BY <1>2, <2>1, <2>2, <2>3, StartOK
<1>4. WorldOK(w) /\ SameMasters(SnWorld, w) /\ w.r[s] = r
    BY <1>2, <1>3, ViewSetOK
<1> HIDE DEF w
<1>5. \/ r.st = "none" /\ SnBecomes(w)
      \/ r.st = "wait" /\ WaitStart(w, s)
      \/ r.st = "select" /\ SelectSlave(w, s)
      \/ r.st = "noone" /\ SendSlaveOfNoOne(w, s)
      \/ r.st = "waitprom" /\ WaitPromotion(w, s)
      \/ r.st = "reconf" /\ ReconfNextSlave(w, s)
    BY <1>1 DEF w
<1>6. SnBecomes(w) => SnWorld' = w
    BY <1>4, BecomesOK DEF WorldOK
<1>7. WorldOK(SnWorld') /\ SameMasters(w, SnWorld')
    BY <1>4, <1>5, <1>6, WaitStartOK, SelectSlaveOK, SendSlaveOfNoOneOK,
       WaitPromotionOK, ReconfNextSlaveOK DEF SameMasters
<1>8. snCut' = snCut /\ snFaults' = snFaults
    BY <1>1
<1>9. SameMasters(SnWorld, SnWorld')
    BY <1>4, <1>7 DEF SameMasters
<1> QED
    BY <1>7, <1>8, <1>9 DEF SnInv

-----------------------------------------------------------------------------
(* Messages.                                                                 *)

(* An answer tells of a vote that has been cast.                             *)
LEMMA ReplyOK ==
    ASSUME NEW w, WorldOK(w), NEW s \in SnSentinel, NEW t \in SnSentinel
    PROVE  LET w2 == sentinelReceiveIsMasterDownReply(s, t, w)
           IN  WorldOK(w2) /\ SameMasters(w, w2)
<1> DEFINE r == w.r[s]
           vote == [id |-> w.r[t].lead, epoch |-> w.r[t].lepoch]
           x == [r EXCEPT !.vote[t] = vote]
           w2 == sentinelReceiveIsMasterDownReply(s, t, w)
<1>1. ViewOK(r, s, w.votes, w.won) /\ ViewOK(w.r[t], t, w.votes, w.won)
    BY DEF WorldOK
<1>2. CASE w2 = w
    BY <1>2 DEF SameMasters
<1>3. CASE w.r[t].lead # Nobody /\ w2 = [w EXCEPT !.r[s].vote[t] = vote]
    <2>1. w2 = [w EXCEPT !.r[s] = x]
        BY <1>3
    <2>2. vote \in [id : SnSentinel \cup {Nobody}, epoch : Nat]
        BY <1>1 DEF ViewOK, SnView
    <2>3. <<t, vote.epoch, vote.id>> \in w.votes
        BY <1>1, <1>3 DEF ViewOK, Backed
    <2> HIDE DEF vote
    <2>4. /\ x \in SnView
          /\ x.cur = r.cur /\ x.addr = r.addr /\ x.cepoch = r.cepoch /\ x.lead = r.lead
          /\ x.lepoch = r.lepoch /\ x.st = r.st /\ x.fepoch = r.fepoch
          /\ x.prom = r.prom /\ x.file = r.file
          /\ x.vote = [r.vote EXCEPT ![t] = vote]
        BY <1>1, <2>2 DEF ViewOK, SnView
    <2>5. sentinelGetCurrentMasterAddress(x) = sentinelGetCurrentMasterAddress(r)
        BY <2>4 DEF sentinelGetCurrentMasterAddress
    <2>6. \A u \in SnSentinel : x.vote[u] = IF u = t THEN vote ELSE r.vote[u]
        BY <1>1, <2>4 DEF ViewOK, SnView
    <2>7. Backed(x, s, w.votes, w.won)
        BY <1>1, <2>3, <2>4, <2>6 DEF ViewOK, Backed
    <2>8. ViewOK(x, s, w.votes, w.won) /\ r.file.lepoch \in Nat
        BY <1>1, <2>4, <2>5, <2>7 DEF ViewOK, Ordered, FileOK, SnView, SnFile
    <2> HIDE DEF x, w2
    <2>9. WorldOK(w2) /\ SameMasters(w, w2)
        BY <2>1, <2>4, <2>5, <2>8, ViewSetOK
    <2> QED
        BY <2>9 DEF w2
<1>4. CASE ~Knows(s, t) \/ w.r[t].lead = Nobody \/ w.r[t].lepoch < w.r[s].cur
    BY <1>2, <1>4 DEF sentinelReceiveIsMasterDownReply
<1>5. CASE ~(~Knows(s, t) \/ w.r[t].lead = Nobody \/ w.r[t].lepoch < w.r[s].cur)
    BY <1>3, <1>5 DEF sentinelReceiveIsMasterDownReply
<1> QED
    BY <1>4, <1>5

(* A question is answered with the vote that t has, or casts now.            *)
LEMMA QuestionOK ==
    ASSUME SnInv, NEW s \in SnSentinel, NEW t \in SnSentinel
    PROVE  LET w2 == IsMasterDownByAddr(s, t)
           IN  WorldOK(w2) /\ SameMasters(SnWorld, w2)
<1>1. WorldOK(SnWorld) /\ SnWorld.r = snR
    BY DEF SnInv, SnWorld
<1>2. snR[s].cur \in Nat /\ snR[s].cur <= MaxEpoch
    BY <1>1 DEF WorldOK, ViewOK, Ordered, SnView
<1>3. LET w2 == sentinelVoteLeader(SnWorld, t, snR[s].cur, s)
      IN  WorldOK(w2) /\ SameMasters(SnWorld, w2)
    BY <1>1, <1>2, VoteOK
<1> QED
    BY <1>1, <1>3 DEF IsMasterDownByAddr, SameMasters

LEMMA AskOK ==
    ASSUME SnInv, NEW s \in SnSentinel, NEW t \in SnSentinel, AskMasterState(s, t)
    PROVE  SnInv' /\ SameMasters(SnWorld, SnWorld')
<1> DEFINE v == IsMasterDownByAddr(s, t)
           w2 == sentinelReceiveIsMasterDownReply(s, t, v)
<1>1. WorldOK(v) /\ SameMasters(SnWorld, v)
    BY QuestionOK
<1>2. SnBecomes(w2) /\ snCut' = snCut /\ snFaults' = snFaults
    BY DEF AskMasterState
<1> HIDE DEF v
<1>3. WorldOK(w2) /\ SameMasters(v, w2)
    BY <1>1, ReplyOK
<1> HIDE DEF w2
<1>4. SnWorld' = w2
    BY <1>2, <1>3, BecomesOK DEF WorldOK
<1> QED
    BY <1>1, <1>2, <1>3, <1>4 DEF SameMasters, SnInv

LEMMA ReplyLostOK ==
    ASSUME SnInv, NEW s \in SnSentinel, NEW t \in SnSentinel, ReplyLost(s, t)
    PROVE  SnInv' /\ SameMasters(SnWorld, SnWorld')
<1> DEFINE v == IsMasterDownByAddr(s, t)
<1>1. WorldOK(v) /\ SameMasters(SnWorld, v)
    BY QuestionOK
<1>2. /\ SnBecomes(v) /\ snCut' = snCut
      /\ snFaults > 0 /\ snFaults' = snFaults - 1
    BY DEF ReplyLost, Fault
<1> HIDE DEF v
<1>3. SnWorld' = v
    BY <1>1, <1>2, BecomesOK DEF WorldOK
<1> QED
    BY <1>1, <1>2, <1>3, SnAssumption DEF SameMasters, SnInv

\* A master is replaced by the one of a newer configuration, or by the replica
\* of a failover that was won.
MastersReplaced(w, w2) ==
    \A s \in SnSentinel :
        sentinelGetCurrentMasterAddress(w2.r[s]) # sentinelGetCurrentMasterAddress(w.r[s])
            => w2.r[s].cepoch > w.r[s].cepoch \/ <<w2.r[s].cepoch, s>> \in w2.won

(* A hello message: a newer configuration replaces the master.               *)
LEMMA HelloOK ==
    ASSUME SnInv, NEW s \in SnSentinel, NEW t \in SnSentinel,
           sentinelProcessHelloMessage(s, t)
    PROVE  SnInv' /\ MastersReplaced(SnWorld, SnWorld')
<1> DEFINE h == snR[s]
           a == sentinelGetCurrentMasterAddress(h)
           q == snR[t]
           r == NewEpoch(q, h.cur)
           c == [r EXCEPT !.cepoch = h.cepoch]
           x == IF ~NewerConfig(r, h) THEN r
                ELSE IF a = r.addr THEN c
                ELSE sentinelResetMasterAndChangeAddress(c, a)
           w2 == [SnWorld EXCEPT !.r[t] = x]
<1>1. /\ WorldOK(SnWorld) /\ SnWorld.r = snR
      /\ ViewOK(h, s, SnWorld.votes, SnWorld.won)
      /\ ViewOK(q, t, SnWorld.votes, SnWorld.won)
    BY DEF SnInv, WorldOK, SnWorld
<1>2. /\ h.cur \in Nat /\ h.cur <= MaxEpoch /\ h.cepoch \in Nat
      /\ h.cepoch <= h.cur /\ a \in SnServer
      /\ q.file.lepoch \in Nat /\ q.cepoch \in Nat
    BY <1>1 DEF ViewOK, Ordered, Promoting, SnView, SnFile,
                sentinelGetCurrentMasterAddress
<1> HIDE DEF a
<1>3. /\ ViewOK(r, t, SnWorld.votes, SnWorld.won)
      /\ r.file.lepoch >= q.file.lepoch /\ r.cur >= h.cur /\ r.cepoch = q.cepoch
      /\ sentinelGetCurrentMasterAddress(r) = sentinelGetCurrentMasterAddress(q)
    BY <1>1, <1>2, NewEpochOK
<1> HIDE DEF r
<1>4. /\ r \in SnView /\ r.cur \in Nat /\ r.cepoch \in Nat /\ r.lepoch \in Nat
      /\ r.file.lepoch \in Nat /\ r.file.cepoch \in Nat /\ r.file.lepoch <= r.lepoch
    BY <1>3 DEF ViewOK, FileOK, SnView, SnFile
<1>5. /\ c \in SnView
      /\ c.cur = r.cur /\ c.addr = r.addr /\ c.cepoch = h.cepoch /\ c.lead = r.lead
      /\ c.lepoch = r.lepoch /\ c.st = r.st /\ c.fepoch = r.fepoch
      /\ c.prom = r.prom /\ c.file = r.file /\ c.vote = r.vote
    BY <1>2, <1>4 DEF SnView
<1>6. sentinelGetCurrentMasterAddress(c) = sentinelGetCurrentMasterAddress(r)
    BY <1>5 DEF sentinelGetCurrentMasterAddress
<1> HIDE DEF c
<1>7. Ordered(c) /\ Backed(c, t, SnWorld.votes, SnWorld.won)
    BY <1>2, <1>3, <1>4, <1>5 DEF ViewOK, Ordered, Backed
<1>8. /\ ViewOK(x, t, SnWorld.votes, SnWorld.won)
      /\ x.file.lepoch >= q.file.lepoch
      /\ sentinelGetCurrentMasterAddress(x) # sentinelGetCurrentMasterAddress(q)
            => x.cepoch > q.cepoch
    <2>1. CASE ~NewerConfig(r, h)
        BY <1>3, <2>1
    <2>2. CASE NewerConfig(r, h) /\ a = r.addr
        <3>1. r.cepoch < h.cepoch
            BY <2>2 DEF NewerConfig
        <3>2. FileOK(c)
            BY <1>2, <1>3, <1>4, <1>5, <1>6, <3>1 DEF FileOK, ViewOK
        <3> QED
            BY <1>3, <1>5, <1>6, <1>7, <2>2, <3>2 DEF ViewOK
    <2>3. CASE NewerConfig(r, h) /\ a # r.addr
        <3> DEFINE y == sentinelResetMasterAndChangeAddress(c, a)
        <3>1. /\ ViewOK(y, t, SnWorld.votes, SnWorld.won)
              /\ y.file.lepoch = r.lepoch /\ y.cepoch = h.cepoch
            BY <1>2, <1>5, <1>7, ResetOK
        <3>2. x = y
            BY <2>3
        <3> HIDE DEF x, y
        <3> QED
            BY <1>2, <1>3, <1>4, <2>3, <3>1, <3>2 DEF NewerConfig
    <2> QED
        BY <2>1, <2>2, <2>3
<1>9. SnWorld' = w2 /\ snCut' = snCut /\ snFaults' = snFaults
    BY DEF sentinelProcessHelloMessage, SnWorld, c, r, a
<1> HIDE DEF x
<1>10. /\ WorldOK(w2) /\ w2.r[t] = x
       /\ \A u \in SnSentinel \ {t} : w2.r[u] = SnWorld.r[u]
    BY <1>1, <1>8, ViewSetOK
<1> HIDE DEF w2
<1>11. MastersReplaced(SnWorld, w2)
    BY <1>1, <1>8, <1>10 DEF MastersReplaced
<1> QED
    BY <1>9, <1>10, <1>11 DEF SnInv

(* INFO: the replica promoted becomes the master; other servers are told     *)
(* whom to follow.                                                           *)
LEMMA RoleChangeOK ==
    ASSUME NEW w, WorldOK(w), NEW s \in SnSentinel, NEW i \in SnServer
    PROVE  LET w2 == RoleChange(w, s, i)
           IN  WorldOK(w2) /\ MastersReplaced(w, w2)
<1> DEFINE r == w.r[s]
           y == [r EXCEPT !.cepoch = r.fepoch, !.st = "reconf"]
           x == sentinelFlushConfig(y)
           w2 == RoleChange(w, s, i)
<1>1. ViewOK(r, s, w.votes, w.won)
    BY DEF WorldOK
<1>2. CASE IsMaster(i) /\ i = r.prom /\ r.st = "waitprom"
    <2>1. /\ y \in SnView
          /\ y.cur = r.cur /\ y.addr = r.addr /\ y.cepoch = r.fepoch /\ y.lead = r.lead
          /\ y.lepoch = r.lepoch /\ y.st = "reconf" /\ y.fepoch = r.fepoch
          /\ y.prom = r.prom /\ y.vote = r.vote
        BY <1>1 DEF ViewOK, SnView, States
    <2>2. Ordered(y) /\ Backed(y, s, w.votes, w.won)
        BY <1>1, <1>2, <2>1 DEF ViewOK, Ordered, Backed, Promoting, Elected
    <2>3. <<r.fepoch, s>> \in w.won
        BY <1>1, <1>2 DEF ViewOK, Backed, Elected
    <2>4. /\ r.file.lepoch \in Nat /\ r.lepoch \in Nat /\ r.file.lepoch <= r.lepoch
        BY <1>1 DEF ViewOK, FileOK, SnView, SnFile
    <2>5. w2 = [w EXCEPT !.r[s] = x]
        BY <1>2 DEF RoleChange
    <2> HIDE DEF w2, y
    <2>6. /\ ViewOK(x, s, w.votes, w.won) /\ x.file.lepoch = y.lepoch
          /\ x.cepoch = y.cepoch
        BY <2>1, <2>2, FlushOK
    <2> HIDE DEF x
    <2>7. /\ WorldOK(w2) /\ w2.r[s] = x /\ w2.won = w.won
          /\ \A t \in SnSentinel \ {s} : w2.r[t] = w.r[t]
        BY <2>1, <2>4, <2>5, <2>6, ViewSetOK
    <2>8. MastersReplaced(w, w2)
        BY <2>1, <2>3, <2>6, <2>7 DEF MastersReplaced
    <2> QED
        BY <2>7, <2>8 DEF w2
<1>3. CASE ~(IsMaster(i) /\ i = r.prom /\ r.st = "waitprom")
    <2>1. r.addr \in SnServer
        BY <1>1 DEF ViewOK, SnView
    <2>2. WorldOK(w) /\ SameMasters(w, w)
        BY DEF SameMasters
    <2>3. w2 \in {w, sentinelSendSlaveOf(w, s, i, r.addr)}
        <3>1. CASE ~IsMaster(i)
            BY <3>1 DEF RoleChange
        <3>2. CASE IsMaster(i)
            BY <1>3, <3>2 DEF RoleChange
        <3> QED
            BY <3>1, <3>2
    <2> HIDE DEF w2
    <2>4. WorldOK(w2) /\ SameMasters(w, w2)
        BY <2>1, <2>2, <2>3, SlaveOfOK
    <2> QED
        BY <2>4 DEF MastersReplaced, SameMasters, w2
<1> QED
    BY <1>2, <1>3

LEMMA InfoOK ==
    ASSUME SnInv, NEW s \in SnSentinel, NEW i \in SnServer,
           sentinelRefreshInstanceInfo(s, i)
    PROVE  SnInv' /\ MastersReplaced(SnWorld, SnWorld')
<1> DEFINE u == RoleChange(SnWorld, s, i)
           v == FixSlaveConfig(u, s, i)
           w2 == ReconfProgress(v, s, i)
<1>1. WorldOK(SnWorld)
    BY DEF SnInv
<1>2. WorldOK(u) /\ MastersReplaced(SnWorld, u)
    BY <1>1, RoleChangeOK
<1>3. SnBecomes(w2) /\ snCut' = snCut /\ snFaults' = snFaults
    BY DEF sentinelRefreshInstanceInfo
<1> HIDE DEF u
<1>4. WorldOK(v) /\ v.r = u.r /\ v.won = u.won
    <2>1. u.r[s].addr \in SnServer
        BY <1>2 DEF WorldOK, ViewOK, SnView
    <2>2. v \in {u, sentinelSendSlaveOf(u, s, i, u.r[s].addr)}
        BY DEF FixSlaveConfig
    <2> HIDE DEF v
    <2> QED
        BY <1>2, <2>1, <2>2, SlaveOfOK
<1> HIDE DEF v
<1>5. /\ WorldOK(w2) /\ SameMasters(v, w2) /\ w2.won = v.won
      /\ \A t \in SnSentinel : w2.r[t].cepoch = v.r[t].cepoch
    <2>1. CASE IsMaster(i)
        BY <1>4, <2>1 DEF ReconfProgress, SameMasters
    <2>2. CASE ~IsMaster(i)
        <3> DEFINE now == IF v.r[s].rec[i] = "sent" /\ snServers[i].of = v.r[s].prom
                          THEN "inprog" ELSE v.r[s].rec[i]
                   new == IF now = "inprog" /\ snServers[snServers[i].of].up
                          THEN "done" ELSE now
                   rec == [v.r[s].rec EXCEPT ![i] = new]
        <3>1. v \in SnWorlds /\ ViewOK(v.r[s], s, v.votes, v.won)
            BY <1>4 DEF WorldOK
        <3>2. v.r[s].rec \in [SnServer -> {"none", "sent", "inprog", "done"}]
            BY <3>1 DEF ViewOK, SnView
        <3>3. rec \in [SnServer -> {"none", "sent", "inprog", "done"}]
            BY <3>2
        <3>4. w2 = [v EXCEPT !.r[s].rec[i] = new]
            BY <2>2 DEF ReconfProgress
        <3> HIDE DEF new
        <3>5. [v EXCEPT !.r[s].rec[i] = new] = [v EXCEPT !.r[s].rec = rec]
            OBVIOUS
        <3>6. w2 = Flagged(v, s, v.sv, rec)
            <4>1. Flagged(v, s, v.sv, rec) = [v EXCEPT !.r[s].rec = rec]
                <5> HIDE DEF rec
                <5> QED
                    BY <3>1 DEF SnWorlds, Flagged
            <4> QED
                BY <3>4, <3>5, <4>1
        <3>7. v.sv \in [SnServer -> [up : BOOLEAN, of : SnServer \cup {Nobody}]]
            BY <3>1 DEF SnWorlds
        <3> HIDE DEF rec, w2
        <3> QED
            BY <1>4, <3>3, <3>6, <3>7, FlagsOK
    <2> QED
        BY <2>1, <2>2
<1> HIDE DEF w2
<1>6. SnWorld' = w2
    BY <1>3, <1>5, BecomesOK DEF WorldOK
<1>7. MastersReplaced(SnWorld, w2)
    BY <1>2, <1>4, <1>5 DEF MastersReplaced, SameMasters
<1> QED
    BY <1>3, <1>5, <1>6, <1>7 DEF SnInv

(* A Sentinel reads its file, which names the master it named before.        *)
LEMMA RestartOK ==
    ASSUME SnInv, NEW s \in SnSentinel, RestartSentinel(s)
    PROVE  SnInv' /\ SameMasters(SnWorld, SnWorld')
<1> DEFINE r == snR[s]
           x == Loaded(r.file)
           w2 == [SnWorld EXCEPT !.r[s] = x]
<1>1. /\ WorldOK(SnWorld) /\ SnWorld.r = snR
      /\ ViewOK(r, s, SnWorld.votes, SnWorld.won)
    BY DEF SnInv, WorldOK, SnWorld
<1>2. r.file.lepoch \in Nat
    BY <1>1 DEF ViewOK, SnView, SnFile
<1>3. /\ ViewOK(x, s, SnWorld.votes, SnWorld.won) /\ x.file = r.file
      /\ sentinelGetCurrentMasterAddress(x) = sentinelGetCurrentMasterAddress(r)
    BY <1>1, LoadedOK
<1>4. /\ SnWorld' = w2 /\ snCut' = snCut
      /\ snFaults > 0 /\ snFaults' = snFaults - 1
    BY DEF RestartSentinel, Fault, SnWorld
<1> HIDE DEF x
<1>5. WorldOK(w2) /\ SameMasters(SnWorld, w2)
    BY <1>1, <1>2, <1>3, ViewSetOK
<1> HIDE DEF w2
<1> QED
    BY <1>1, <1>4, <1>5, SnAssumption DEF SnInv

-----------------------------------------------------------------------------
(* The specification.                                                        *)

(* What the servers and the links do is no matter of the Sentinels.          *)
LEMMA SurroundingsOK ==
    ASSUME SnInv, UNCHANGED <<snR, snVotes, snWon>>,
           snServers' \in [SnServer -> [up : BOOLEAN, of : SnServer \cup {Nobody}]],
           snCut' \subseteq SnSentinel \X SnServer, snFaults' \in 0 .. MaxFaults
    PROVE  SnInv' /\ SameMasters(SnWorld, SnWorld')
<1>1. /\ WorldOK(SnWorld) /\ SnWorld \in SnWorlds
      /\ SnWorld.r = snR /\ SnWorld.votes = snVotes /\ SnWorld.won = snWon
    BY DEF SnInv, WorldOK, SnWorld
<1>2. /\ SnWorld'.r = snR /\ SnWorld'.votes = snVotes /\ SnWorld'.won = snWon
      /\ SnWorld' \in SnWorlds
    BY <1>1 DEF SnWorld, SnWorlds
<1>3. WorldOK(SnWorld')
    <2> DEFINE w == SnWorld
               w2 == SnWorld'
    <2>1. /\ WorldOK(w) /\ w2 \in SnWorlds
          /\ w2.r = w.r /\ w2.votes = w.votes /\ w2.won = w.won
        BY <1>1, <1>2
    <2> HIDE DEF w, w2
    <2>2. WorldOK(w2)
        BY <2>1 DEF WorldOK, VotesOK, WonOK
    <2> QED
        BY <2>2 DEF w2
<1>4. SameMasters(SnWorld, SnWorld')
    BY <1>1, <1>2 DEF SameMasters
<1> QED
    BY <1>3, <1>4 DEF SnInv

LEMMA SnInitOK == SnInit => SnInv
<1> SUFFICES ASSUME SnInit
             PROVE  SnInv
    OBVIOUS
<1> DEFINE f == [cur |-> 0, addr |-> FirstMaster, cepoch |-> 0, lepoch |-> 0]
           x == Loaded(f)
<1>1. f \in SnFile /\ FirstMaster \in SnServer
    BY SnAssumption DEF SnFile
<1>2. /\ x \in SnView
      /\ x.cur = 0 /\ x.addr = FirstMaster /\ x.cepoch = 0 /\ x.lead = Nobody
      /\ x.lepoch = 0 /\ x.st = "none" /\ x.fepoch = 0 /\ x.prom = Nobody
      /\ x.file = f /\ \A t \in SnSentinel : x.vote[t] = NoVote
    BY <1>1 DEF Loaded, NoVote, SnView, States
<1>3. snR = [s \in SnSentinel |-> x]
    BY DEF SnInit
<1>4. /\ f.cur = 0 /\ f.addr = FirstMaster /\ f.cepoch = 0 /\ f.lepoch = 0
    OBVIOUS
<1> HIDE DEF x, f
<1>5. \A s \in SnSentinel : ViewOK(x, s, {}, {})
    BY <1>1, <1>2, <1>4, SnAssumption
    DEF ViewOK, Ordered, FileOK, Backed, Promoting, Elected, NoVote,
        sentinelGetCurrentMasterAddress
<1>6. snServers \in [SnServer -> [up : BOOLEAN, of : SnServer \cup {Nobody}]]
    BY <1>1 DEF SnInit
<1>7. snVotes = {} /\ snWon = {} /\ snCut = {} /\ snFaults = MaxFaults
    BY DEF SnInit
<1>8. /\ SnWorld \in SnWorlds /\ SnWorld.r = snR
      /\ SnWorld.votes = {} /\ SnWorld.won = {}
    BY <1>2, <1>3, <1>6, <1>7 DEF SnWorld, SnWorlds
<1>9. WorldOK(SnWorld)
    BY <1>3, <1>5, <1>8 DEF WorldOK, VotesOK, WonOK
<1> QED
    BY <1>7, <1>9, SnAssumption DEF SnInv

LEMMA SnStepOK == SnInv /\ [SnNext]_snVars => SnInv' /\ MastersReplaced(SnWorld, SnWorld')
<1> SUFFICES ASSUME SnInv, [SnNext]_snVars
             PROVE  SnInv' /\ MastersReplaced(SnWorld, SnWorld')
    OBVIOUS
<1>1. SnWorld.sv = snServers /\ SnWorld \in SnWorlds
    BY DEF SnWorld, SnInv, WorldOK
<1>2. /\ snServers \in [SnServer -> [up : BOOLEAN, of : SnServer \cup {Nobody}]]
      /\ snCut \subseteq SnSentinel \X SnServer /\ snFaults \in 0 .. MaxFaults
    BY <1>1 DEF SnInv, SnWorlds
<1>3. SameMasters(SnWorld, SnWorld') => MastersReplaced(SnWorld, SnWorld')
    BY DEF SameMasters, MastersReplaced
<1>4. CASE UNCHANGED snVars
    BY <1>2, <1>3, <1>4, SurroundingsOK DEF snVars
<1>5. ASSUME NEW s \in SnSentinel, sentinelHandleRedisInstance(s)
      PROVE  SnInv' /\ MastersReplaced(SnWorld, SnWorld')
    BY <1>3, <1>5, TimerOK
<1>6. ASSUME NEW p \in Links,
             \/ AskMasterState(p[1], p[2])
             \/ sentinelProcessHelloMessage(p[1], p[2])
             \/ ReplyLost(p[1], p[2])
      PROVE  SnInv' /\ MastersReplaced(SnWorld, SnWorld')
    <2>1. p[1] \in SnSentinel /\ p[2] \in SnSentinel
        BY DEF Links
    <2> QED
        BY <1>3, <1>6, <2>1, AskOK, HelloOK, ReplyLostOK
<1>7. ASSUME NEW s \in SnSentinel, NEW i \in SnServer, sentinelRefreshInstanceInfo(s, i)
      PROVE  SnInv' /\ MastersReplaced(SnWorld, SnWorld')
    BY <1>7, InfoOK
<1>8. ASSUME NEW s \in SnSentinel, RestartSentinel(s)
      PROVE  SnInv' /\ MastersReplaced(SnWorld, SnWorld')
    BY <1>3, <1>8, RestartOK
<1>9. ASSUME NEW i \in SnServer, ServerFails(i) \/ ServerReturns(i)
      PROVE  SnInv' /\ MastersReplaced(SnWorld, SnWorld')
    <2>1. snServers' \in [SnServer -> [up : BOOLEAN, of : SnServer \cup {Nobody}]]
        BY <1>2, <1>9 DEF ServerFails, ServerReturns
    <2>2. /\ UNCHANGED <<snR, snVotes, snWon>>
          /\ snCut' = snCut /\ snFaults' \in 0 .. MaxFaults
        BY <1>2, <1>9, SnAssumption DEF ServerFails, ServerReturns, Fault
    <2> QED
        BY <1>2, <1>3, <2>1, <2>2, SurroundingsOK
<1>10. ASSUME NEW s \in SnSentinel, NEW i \in SnServer, LinkBreaks(s, i)
       PROVE  SnInv' /\ MastersReplaced(SnWorld, SnWorld')
    <2>1. /\ UNCHANGED <<snR, snVotes, snWon, snServers>>
          /\ snCut' \subseteq SnSentinel \X SnServer /\ snFaults' \in 0 .. MaxFaults
        BY <1>2, <1>10, SnAssumption DEF LinkBreaks, Fault
    <2> QED
        BY <1>2, <1>3, <2>1, SurroundingsOK
<1>11. ASSUME NEW p, LinkHeals(p)
       PROVE  SnInv' /\ MastersReplaced(SnWorld, SnWorld')
    BY <1>2, <1>3, <1>11, SurroundingsOK DEF LinkHeals
<1> QED
    BY <1>4, <1>5, <1>6, <1>7, <1>8, <1>9, <1>10, <1>11 DEF SnNext, SnProtocol

(* The invariant holds in every reachable state, for any number of Sentinels *)
(* and servers and any number of faults.                                     *)
THEOREM SentinelInvariant == SnSpec => []SnInv
<1>1. SnInit => SnInv
    BY SnInitOK
<1>2. SnInv /\ [SnNext]_snVars => SnInv'
    BY SnStepOK
<1> QED
    BY <1>1, <1>2, PTL DEF SnSpec

LEMMA SnInvTypes == SnInv => SnTypeOK
<1> SUFFICES ASSUME SnInv  PROVE SnTypeOK
    OBVIOUS
<1>1. /\ \A s \in SnSentinel : ViewOK(snR[s], s, snVotes, snWon)
      /\ snServers \in [SnServer -> [up : BOOLEAN, of : SnServer \cup {Nobody}]]
    BY DEF SnInv, WorldOK, SnWorld, SnWorlds
<1>2. ASSUME NEW s \in SnSentinel
      PROVE  LET r == snR[s] IN
        /\ r.file \in SnFiles /\ r.addr \in SnServer
        /\ r.lead \in SnSentinel \cup {Nobody}
        /\ r.file.cur <= r.cur /\ r.cur <= MaxEpoch
        /\ r.file.lepoch <= r.lepoch /\ r.file.cepoch <= r.cepoch
        /\ {r.lepoch, r.cepoch, r.fepoch} \subseteq 0 .. r.cur
        /\ r.st \in {"none", "wait", "select", "noone", "waitprom", "reconf"}
        /\ (r.prom # Nobody) = (r.st \in {"noone", "waitprom", "reconf"})
        /\ r.prom # r.addr /\ r.delay \in BOOLEAN
        /\ r.rec \in [SnServer -> {"none", "sent", "inprog", "done"}]
    <2> DEFINE r == snR[s]
    <2>1. r \in SnView /\ Ordered(r) /\ FileOK(r)
        BY <1>1 DEF ViewOK
    <2> HIDE DEF r
    <2>2. /\ r.file \in SnFile /\ r.cur \in Nat /\ r.lepoch \in Nat
          /\ r.cepoch \in Nat /\ r.fepoch \in Nat
          /\ r.file.cur \in Nat /\ r.file.lepoch \in Nat /\ r.file.cepoch \in Nat
        BY <2>1 DEF SnView, SnFile
    <2>3. MaxEpoch \in Nat
        BY SnAssumption
    <2>4. r.file \in SnFiles
        <3>1. /\ r.file.cur \in 0 .. MaxEpoch /\ r.file.lepoch \in 0 .. MaxEpoch
              /\ r.file.cepoch \in 0 .. MaxEpoch
            BY <2>1, <2>2, <2>3 DEF Ordered, FileOK
        <3> QED
            BY <2>2, <3>1 DEF SnFile, SnFiles
    <2>5. {r.lepoch, r.cepoch, r.fepoch} \subseteq 0 .. r.cur
        BY <2>1, <2>2 DEF Ordered
    <2> QED
        BY <2>1, <2>4, <2>5 DEF SnView, Ordered, FileOK, Promoting, States, r
<1> QED
    BY <1>1, <1>2 DEF SnTypeOK, SnInv

(* Type correctness: what a Sentinel keeps is never newer than its epoch, its *)
(* file never newer than its memory.                                         *)
THEOREM SentinelTypes == SnSpec => []SnTypeOK
BY SentinelInvariant, SnInvTypes, PTL

(* A Sentinel votes at most once in an epoch, through any number of restarts. *)
THEOREM SentinelVotesOnce == SnSpec => []OneVotePerEpoch
<1>1. SnInv => OneVotePerEpoch
    BY DEF SnInv, WorldOK, VotesOK, SnWorld, OneVotePerEpoch
<1> QED
    BY <1>1, SentinelInvariant, PTL

(* No failover without a majority, whatever quorum is configured.            *)
THEOREM SentinelMajority == SnSpec => []NoFailoverInMinority
<1>1. SnInv => NoFailoverInMinority
    BY DEF SnInv, WorldOK, WonOK, VotersFor, SnWorld, NoFailoverInMinority
<1> QED
    BY <1>1, SentinelInvariant, PTL

(* A Sentinel names another master only with a newer configuration or after  *)
(* a failover it was elected for.                                            *)
THEOREM SentinelMasterChanges == SnSpec => MasterChangesWithEpoch
<1>1. SnInv /\ [SnNext]_snVars =>
        [\A s \in SnSentinel :
            sentinelGetCurrentMasterAddress(snR'[s]) # sentinelGetCurrentMasterAddress(snR[s])
              => snR'[s].cepoch > snR[s].cepoch \/ <<snR'[s].cepoch, s>> \in snWon']_snVars
    BY SnStepOK DEF MastersReplaced, SnWorld
<1> QED
    BY <1>1, SentinelInvariant, PTL DEF SnSpec, MasterChangesWithEpoch
-----------------------------------------------------------------------------
(* Cluster: its type invariant, that a master votes once in an epoch, and how *)
(* the view of a node may change from one step to the next.                  *)

ClView(N, D) ==
    [cur : Nat, saved : Nat, voted : Nat, of : [N -> N \cup {NoNode}],
     epoch : [N -> Nat], slots : [D -> N \cup {NoNode}],
     fail : SUBSET N, held : SUBSET N,
     st : {"none", "scheduled", "sent"}, aepoch : Nat, count : Nat, mf : BOOLEAN]

\* The view of n: a slot belongs to a master, nothing is newer than the own
\* epoch, and the vote is in the file.
NodeOK(r, n, N, D) ==
    /\ r \in ClView(N, D)
    /\ r.of[n] # n
    /\ \A s \in D : r.slots[s] # NoNode => r.of[r.slots[s]] = NoNode
    /\ \A k \in N : r.epoch[k] <= r.cur
    /\ r.voted <= r.saved /\ r.saved <= r.cur /\ r.aepoch <= r.cur

\* A node claims no epoch that is newer than its currentEpoch.
HeaderOK(h, N, D) ==
    /\ h \in [from : N, cur : Nat, epoch : Nat, of : N \cup {NoNode}, slots : SUBSET D]
    /\ h.epoch <= h.cur

Nodes(N) == N \subseteq Nat /\ NoNode \notin N

\* Nodes and slots stay what they are; no vote is newer than the last of its
\* voter, which is in the voter's file.
ClInv(N, D) ==
    /\ Nodes(N)
    /\ DOMAIN clN = N /\ clN = [n \in N |-> clN[n]]
    /\ \A n \in N : NodeOK(clN[n], n, N, D)
    /\ \A msg \in clNet : msg.to \in N /\ HeaderOK(msg.h, N, D)
    /\ clVotes \subseteq N \X Nat \X N
    /\ \A v \in clVotes : v[2] <= clN[v[1]].voted
    /\ OneVotePerClEpoch

\* What a step may do to the view r of n: no epoch goes back, and a slot passes
\* to another owner only with a greater epoch, or when n takes over from its
\* own master.
ViewStep(r, t, n, N, D) ==
    /\ t.voted >= r.voted
    /\ \A k \in N : t.epoch[k] >= r.epoch[k]
    /\ \A s \in D : NoNode \notin {r.slots[s], t.slots[s]} /\ r.slots[s] # t.slots[s]
                        => \/ t.epoch[t.slots[s]] > r.epoch[r.slots[s]]
                           \/ t.slots[s] = n /\ r.slots[s] = r.of[n]

ViewsStep(N, D) == \A n \in N : ViewStep(clN[n], clN'[n], n, N, D)

\* t differs from r in neither slots nor roles.
SameOwners(r, t) == t.slots = r.slots /\ t.of = r.of

\* t knows the epochs of the header h.
Heard(r, t, h) ==
    t.voted = r.voted /\ t.cur >= h.cur /\ t.epoch[h.from] >= h.epoch

\* t differs from r in the role of x; who is no master owns no slot.
Switched(r, t, n, x) ==
    /\ nodeIsMaster(t, x) => t.slots = r.slots
    /\ t.epoch = r.epoch /\ t.of[n] = r.of[n]

-----------------------------------------------------------------------------
(* Greatest elements.                                                        *)

(* A bounded set of naturals has a greatest element: the least of its bounds. *)
LEMMA MaxOfNats ==
    ASSUME NEW S \in SUBSET Nat, S # {}, NEW b \in Nat, \A x \in S : x <= b
    PROVE  Max(S) \in S /\ \A x \in S : x <= Max(S)
<1> DEFINE U == {u \in Nat : \A x \in S : x <= u}
<1>1. PICK u \in U : \A v \in U : ~(<<v, u>> \in OpToRel(<, Nat))
    BY b \in U, NatLessThanWellFounded, WFMin, U \subseteq Nat
<1>2. \A v \in U : ~(v < u)
    BY <1>1 DEF OpToRel
<1>3. u \in Nat /\ \A x \in S : x <= u
    BY <1>1
<1>4. \A v \in Nat : (\A x \in S : x <= v) => ~(v < u)
    BY <1>2
<1> HIDE DEF U
<1>5. u \in S
  <2> SUFFICES ASSUME u \notin S PROVE FALSE
      OBVIOUS
  <2>1. \A x \in S : x \in Nat /\ x # u
      OBVIOUS
  <2>2. \A x \in S : x <= u - 1
      BY <1>3, <2>1
  <2>3. PICK x \in S : TRUE
      BY S # {}
  <2>4. u - 1 \in Nat
      BY <1>3, <2>1, <2>2, <2>3
  <2> QED BY <1>3, <1>4, <2>2, <2>4
<1>6. \E m \in S : \A x \in S : x <= m
    BY <1>3, <1>5
<1> QED
    BY <1>6 DEF Max

LEMMA MaxOfTwo ==
    ASSUME NEW a \in Nat, NEW b \in Nat
    PROVE  /\ Max({a, b}) \in Nat
           /\ a <= Max({a, b}) /\ b <= Max({a, b})
           /\ Max({a, b}) \in {a, b}
<1>1. \E m \in {a, b} : \A x \in {a, b} : x <= m
    OBVIOUS
<1> QED
    BY <1>1 DEF Max

-----------------------------------------------------------------------------
(* The operators on a view.                                                  *)

(* What a node sends about itself is in its view.                            *)
LEMMA HeaderSent ==
    ASSUME NEW N, NEW D, Nodes(N), NEW n \in N, NEW r, NodeOK(r, n, N, D)
    PROVE  /\ HeaderOK(clusterBuildMessageHdr(r, n), N, D)
           /\ clusterBuildMessageHdr(r, n).cur = r.cur
           /\ clusterBuildMessageHdr(r, n).from = n
<1> DEFINE m == IF nodeIsMaster(r, n) THEN n ELSE r.of[n]
<1>1. m \in N
    BY DEF nodeIsMaster, NodeOK, ClView
<1>2. SlotsOf(r, m) \subseteq D
    BY DEF SlotsOf, NodeOK, ClView
<1> HIDE DEF m
<1>3. clusterBuildMessageHdr(r, n)
        = [from |-> n, cur |-> r.cur, epoch |-> r.epoch[m], of |-> r.of[n],
           slots |-> SlotsOf(r, m)]
    BY DEF clusterBuildMessageHdr, m
<1> QED
    BY <1>1, <1>2, <1>3 DEF HeaderOK, NodeOK, ClView

LEMMA ReadHeaderOK ==
    ASSUME NEW N, NEW D, Nodes(N), NEW n \in N, NEW r, NodeOK(r, n, N, D),
           NEW h, HeaderOK(h, N, D)
    PROVE  LET t == ReadHeader(r, h)
           IN  /\ NodeOK(t, n, N, D) /\ ViewStep(r, t, n, N, D) /\ SameOwners(r, t)
               /\ Heard(r, t, h)
<1> DEFINE c == Max({r.cur, h.cur})
<1>1. c \in Nat /\ r.cur <= c /\ h.cur <= c
    BY MaxOfTwo DEF NodeOK, ClView, HeaderOK
<1> HIDE DEF c
<1>2. CASE h.epoch <= r.epoch[h.from]
  <2>1. ReadHeader(r, h) = [r EXCEPT !.cur = c]
      BY <1>2 DEF ReadHeader, c
  <2> QED
      BY <1>1, <1>2, <2>1 DEF NodeOK, ClView, HeaderOK, ViewStep, SameOwners, Heard
<1>3. CASE ~(h.epoch <= r.epoch[h.from])
  <2>1. ReadHeader(r, h)
            = [r EXCEPT !.cur = c, !.epoch = [r.epoch EXCEPT ![h.from] = h.epoch],
                        !.saved = c]
      BY <1>3 DEF ReadHeader, clusterSaveConfig, c, NodeOK, ClView
  <2>2. [r.epoch EXCEPT ![h.from] = h.epoch] \in [N -> Nat]
      BY DEF NodeOK, ClView, HeaderOK
  <2> DEFINE t == ReadHeader(r, h)
  <2>3. /\ t \in ClView(N, D) /\ t.of = r.of /\ t.slots = r.slots /\ t.cur = c
        /\ t.saved = c /\ t.voted = r.voted /\ t.aepoch = r.aepoch
        /\ t.epoch = [r.epoch EXCEPT ![h.from] = h.epoch]
      BY <1>1, <2>1, <2>2 DEF NodeOK, ClView
  <2>4. \A k \in N : t.epoch[k] = IF k = h.from THEN h.epoch ELSE r.epoch[k]
      BY <2>3 DEF NodeOK, ClView
  <2> HIDE DEF t
  <2>5. NodeOK(t, n, N, D)
      BY <1>1, <2>3, <2>4 DEF NodeOK, HeaderOK, ClView
  <2>6. ViewStep(r, t, n, N, D) /\ Heard(r, t, h)
      BY <1>1, <1>3, <2>3, <2>4 DEF ViewStep, NodeOK, ClView, HeaderOK, Heard
  <2> QED
      BY <1>1, <2>3, <2>5, <2>6 DEF SameOwners, t
<1> QED
    BY <1>2, <1>3

(* Two changes one after the other, of which one leaves the slots alone.     *)
LEMMA ThenOwners ==
    ASSUME NEW N, NEW D, Nodes(N), NEW n \in N, NEW r, NEW t, NEW u,
           NodeOK(r, n, N, D), NodeOK(t, n, N, D), NodeOK(u, n, N, D),
           ViewStep(r, t, n, N, D), ViewStep(t, u, n, N, D),
           t.slots = r.slots /\ t.of[n] = r.of[n]
    PROVE  ViewStep(r, u, n, N, D)
<1> DEFINE Nats == N \cup {NoNode}
<1>1. /\ r.epoch \in [N -> Nat] /\ t.epoch \in [N -> Nat] /\ u.epoch \in [N -> Nat]
      /\ r.slots \in [D -> Nats] /\ u.slots \in [D -> Nats]
      /\ r.voted \in Nat /\ t.voted \in Nat /\ u.voted \in Nat
    BY DEF NodeOK, ClView
<1> QED
    BY <1>1 DEF ViewStep

LEMMA OwnersThen ==
    ASSUME NEW N, NEW D, Nodes(N), NEW n \in N, NEW r, NEW t, NEW u,
           NodeOK(r, n, N, D), NodeOK(t, n, N, D), NodeOK(u, n, N, D),
           ViewStep(r, t, n, N, D), ViewStep(t, u, n, N, D), u.slots = t.slots
    PROVE  ViewStep(r, u, n, N, D)
<1> DEFINE Nats == N \cup {NoNode}
<1>1. /\ r.epoch \in [N -> Nat] /\ t.epoch \in [N -> Nat] /\ u.epoch \in [N -> Nat]
      /\ r.slots \in [D -> Nats] /\ u.slots \in [D -> Nats]
      /\ r.voted \in Nat /\ t.voted \in Nat /\ u.voted \in Nat
    BY DEF NodeOK, ClView
<1> QED
    BY <1>1 DEF ViewStep

LEMMA SetMasterOK ==
    ASSUME NEW N, NEW D, Nodes(N), NEW n \in N, NEW r, NodeOK(r, n, N, D),
           NEW x \in N
    PROVE  LET t == clusterSetNodeAsMaster(r, x)
           IN  /\ NodeOK(t, n, N, D) /\ ViewStep(r, t, n, N, D)
               /\ nodeIsMaster(t, x) /\ (x # n => t.of[n] = r.of[n])
               /\ t.slots = r.slots /\ t.epoch = r.epoch
               /\ t.voted = r.voted /\ t.cur = r.cur
<1>1. CASE nodeIsMaster(r, x)
    BY <1>1 DEF clusterSetNodeAsMaster, ViewStep, NodeOK, ClView
<1>2. CASE ~nodeIsMaster(r, x)
  <2> DEFINE t == clusterSetNodeAsMaster(r, x)
  <2>1. t = [r EXCEPT !.of = [r.of EXCEPT ![x] = NoNode], !.saved = r.cur]
      BY <1>2 DEF clusterSetNodeAsMaster, clusterSaveConfig, NodeOK, ClView
  <2>2. [r.of EXCEPT ![x] = NoNode] \in [N -> N \cup {NoNode}]
      BY DEF NodeOK, ClView
  <2>3. /\ t \in ClView(N, D) /\ t.of = [r.of EXCEPT ![x] = NoNode]
        /\ t.slots = r.slots /\ t.epoch = r.epoch /\ t.voted = r.voted
        /\ t.cur = r.cur /\ t.saved = r.cur /\ t.aepoch = r.aepoch
      BY <2>1, <2>2 DEF NodeOK, ClView
  <2>4. \A k \in N : t.of[k] = IF k = x THEN NoNode ELSE r.of[k]
      BY <2>3 DEF NodeOK, ClView
  <2> HIDE DEF t
  <2>5. t.of[n] # n
      BY <2>4 DEF NodeOK, Nodes
  <2>6. \A s \in D : t.slots[s] # NoNode => t.of[t.slots[s]] = NoNode
      BY <2>3, <2>4 DEF NodeOK, ClView
  <2>7. NodeOK(t, n, N, D)
      BY <2>3, <2>5, <2>6 DEF NodeOK, ClView
  <2>8. ViewStep(r, t, n, N, D)
      BY <2>3 DEF ViewStep, NodeOK, ClView
  <2> QED
      BY <2>3, <2>4, <2>7, <2>8 DEF t, nodeIsMaster
<1> QED
    BY <1>1, <1>2

(* What a header says of the role of its sender; who is no master any more   *)
(* loses its slots, which nobody owns then.                                  *)
LEMMA RoleSwitchOK ==
    ASSUME NEW N, NEW D, Nodes(N), NEW n \in N, NEW r, NodeOK(r, n, N, D),
           NEW h, HeaderOK(h, N, D), h.from # n
    PROVE  LET t == RoleSwitch(r, h)
           IN  /\ NodeOK(t, n, N, D) /\ ViewStep(r, t, n, N, D)
               /\ Switched(r, t, n, h.from)
<1>1. CASE h.of = NoNode
    BY <1>1, SetMasterOK DEF RoleSwitch, HeaderOK, Switched
<1>2. CASE h.of # NoNode /\ h.of = r.of[h.from]
    BY <1>2 DEF RoleSwitch, ViewStep, NodeOK, ClView, Switched
<1>3. CASE h.of # NoNode /\ h.of # r.of[h.from]
  <2> DEFINE t == RoleSwitch(r, h)
             x == h.from
             f == [r.of EXCEPT ![x] = h.of]
             g == [s \in D |-> IF r.slots[s] = x /\ nodeIsMaster(r, x)
                               THEN NoNode ELSE r.slots[s]]
  <2>1. t = [r EXCEPT !.of = f, !.slots = g, !.saved = r.cur]
      BY <1>3 DEF RoleSwitch, clusterSaveConfig, NodeOK, ClView
  <2>2. f \in [N -> N \cup {NoNode}] /\ g \in [D -> N \cup {NoNode}]
      BY DEF NodeOK, ClView, HeaderOK
  <2>3. \A k \in N : f[k] = IF k = x THEN h.of ELSE r.of[k]
      BY DEF NodeOK, ClView
  <2>4. \A s \in D : g[s] = r.slots[s] \/ g[s] = NoNode
      OBVIOUS
  <2>5. \A s \in D : g[s] # x
      BY DEF NodeOK, nodeIsMaster, HeaderOK, Nodes
  <2> HIDE DEF f, g
  <2>6. /\ t \in ClView(N, D) /\ t.of = f /\ t.slots = g /\ t.epoch = r.epoch
        /\ t.voted = r.voted /\ t.cur = r.cur /\ t.saved = r.cur /\ t.aepoch = r.aepoch
      BY <2>1, <2>2 DEF NodeOK, ClView
  <2> HIDE DEF t
  <2>7. NodeOK(t, n, N, D)
    <3>1. t.of[n] # n
        BY <2>3, <2>6 DEF NodeOK
    <3>2. \A s \in D : t.slots[s] # NoNode => t.of[t.slots[s]] = NoNode
        BY <2>2, <2>3, <2>4, <2>5, <2>6 DEF NodeOK
    <3> QED
        BY <3>1, <3>2, <2>6 DEF NodeOK, ClView
  <2>8. ViewStep(r, t, n, N, D)
      BY <2>4, <2>6 DEF ViewStep, NodeOK, ClView
  <2>9. ~nodeIsMaster(t, x) /\ t.of[n] = r.of[n]
      BY <1>3, <2>3, <2>6 DEF nodeIsMaster, HeaderOK
  <2> QED
      BY <2>6, <2>7, <2>8, <2>9 DEF t, Switched
<1> QED
    BY <1>1, <1>2, <1>3

(* Slots are bound to x, a master whose epoch is at least e, if their owners *)
(* have smaller ones; n follows x if it, or its master, has none left.       *)
LEMMA UpdateSlotsOK ==
    ASSUME NEW N, NEW D, Nodes(N), NEW n \in N, NEW r, NodeOK(r, n, N, D),
           NEW x \in N, nodeIsMaster(r, x), NEW e \in Nat, r.epoch[x] >= e,
           NEW claimed \in SUBSET D
    PROVE  LET t == clusterUpdateSlotsConfigWith(r, n, x, e, claimed)
           IN  /\ NodeOK(t, n, N, D) /\ ViewStep(r, t, n, N, D)
               /\ t.epoch = r.epoch /\ t.cur = r.cur
<1> DEFINE taken == Rebound(r, x, e, claimed)
           mine == IF nodeIsMaster(r, n) THEN n ELSE r.of[n]
           g == [s \in D |-> IF s \in taken THEN x ELSE r.slots[s]]
           u == [r EXCEPT !.slots = g, !.saved = r.cur]
           f == [r.of EXCEPT ![n] = x]
           v == [u EXCEPT !.of = f, !.mf = FALSE]
           t == clusterUpdateSlotsConfigWith(r, n, x, e, claimed)
<1>1. CASE x = n \/ taken = {}
  <2>1. t = r
      BY <1>1 DEF clusterUpdateSlotsConfigWith
  <2> QED
      BY <2>1 DEF ViewStep, NodeOK, ClView
<1>2. CASE ~(x = n \/ taken = {})
  <2>1. clusterSaveConfig([r EXCEPT !.slots = [s \in DOMAIN @ |-> IF s \in taken THEN x ELSE @[s]]])
            = u
      BY DEF clusterSaveConfig, NodeOK, ClView
  <2>2. \/ t = u
        \/ /\ t = clusterSetMaster(u, n, x)
           /\ SlotsOf(u, mine) = {}
      BY <1>2, <2>1 DEF clusterUpdateSlotsConfigWith
  <2>3. g \in [D -> N \cup {NoNode}]
      BY DEF NodeOK, ClView
  <2>4. \A s \in D : g[s] # NoNode => r.of[g[s]] = NoNode
      BY DEF NodeOK, nodeIsMaster
  <2>5. \A s \in D : g[s] = r.slots[s] \/
            (g[s] = x /\ (r.slots[s] # NoNode => r.epoch[r.slots[s]] < e))
      BY DEF Rebound
  <2> HIDE DEF g
  <2>6. /\ u \in ClView(N, D) /\ u.slots = g /\ u.of = r.of /\ u.epoch = r.epoch
        /\ u.cur = r.cur /\ u.saved = r.cur /\ u.voted = r.voted /\ u.aepoch = r.aepoch
      BY <2>3 DEF NodeOK, ClView
  <2> HIDE DEF u
  <2>7. NodeOK(u, n, N, D)
      BY <2>4, <2>6 DEF NodeOK, ClView
  <2>8. ViewStep(r, u, n, N, D)
    <3>1. /\ r.epoch \in [N -> Nat] /\ r.slots \in [D -> N \cup {NoNode}]
          /\ r.voted \in Nat
        BY DEF NodeOK, ClView
    <3> QED
        BY <2>5, <2>6, <3>1 DEF ViewStep
  <2>9. CASE t = u
      BY <2>6, <2>7, <2>8, <2>9
  <2>10. CASE t = clusterSetMaster(u, n, x) /\ SlotsOf(u, mine) = {}
    <3>1. t = v
        BY <2>6, <2>10 DEF clusterSetMaster, ClView
    <3>2. f \in [N -> N \cup {NoNode}] /\ \A k \in N : f[k] = IF k = n THEN x ELSE r.of[k]
        BY DEF NodeOK, ClView
    <3> HIDE DEF f
    <3>3. /\ t \in ClView(N, D) /\ t.slots = g /\ t.of = f /\ t.epoch = r.epoch
          /\ t.cur = r.cur /\ t.saved = r.cur /\ t.voted = r.voted /\ t.aepoch = r.aepoch
        BY <2>6, <3>1, <3>2 DEF ClView
    <3>4. \A s \in D : g[s] # n
        BY <2>3, <2>4, <2>6, <2>10, n # NoNode DEF SlotsOf, nodeIsMaster, Nodes
    <3>5. NodeOK(t, n, N, D)
        BY <1>2, <2>3, <2>4, <3>2, <3>3, <3>4 DEF NodeOK, ClView
    <3>6. ViewStep(r, t, n, N, D)
        BY <2>6, <2>8, <3>3 DEF ViewStep
    <3> QED
        BY <3>3, <3>5, <3>6
  <2> QED
      BY <2>2, <2>9, <2>10
<1> QED
    BY <1>1, <1>2

(* A new epoch for n itself.                                                 *)
LEMMA NewEpochTaken ==
    ASSUME NEW N, NEW D, Nodes(N), NEW n \in N, NEW r, NodeOK(r, n, N, D)
    PROVE  LET t == clusterSaveConfig([r EXCEPT !.cur = @ + 1, !.epoch[n] = r.cur + 1])
           IN  NodeOK(t, n, N, D) /\ ViewStep(r, t, n, N, D) /\ SameOwners(r, t)
<1> DEFINE c == r.cur + 1
           f == [r.epoch EXCEPT ![n] = c]
           t == [r EXCEPT !.cur = c, !.epoch = f, !.saved = c]
<1>1. clusterSaveConfig([r EXCEPT !.cur = @ + 1, !.epoch[n] = r.cur + 1]) = t
    BY DEF clusterSaveConfig, NodeOK, ClView
<1>2. r.cur \in Nat /\ c \in Nat /\ r.cur <= c
    BY DEF NodeOK, ClView
<1>3. f \in [N -> Nat] /\ \A k \in N : f[k] = IF k = n THEN c ELSE r.epoch[k]
    BY DEF NodeOK, ClView
<1> HIDE DEF c, f
<1>4. /\ t \in ClView(N, D) /\ t.of = r.of /\ t.slots = r.slots /\ t.cur = c
      /\ t.saved = c /\ t.voted = r.voted /\ t.aepoch = r.aepoch /\ t.epoch = f
    BY <1>2, <1>3 DEF NodeOK, ClView
<1> HIDE DEF t
<1>5. NodeOK(t, n, N, D)
    BY <1>2, <1>3, <1>4 DEF NodeOK, ClView
<1>6. ViewStep(r, t, n, N, D)
    BY <1>2, <1>3, <1>4 DEF ViewStep, NodeOK, ClView
<1> QED
    BY <1>1, <1>4, <1>5, <1>6 DEF SameOwners

LEMMA NothingChanges ==
    ASSUME NEW N, NEW D, NEW n \in N, NEW r, NodeOK(r, n, N, D)
    PROVE  ViewStep(r, r, n, N, D) /\ SameOwners(r, r)
BY DEF ViewStep, SameOwners, NodeOK, ClView

LEMMA CollisionOK ==
    ASSUME NEW N, NEW D, Nodes(N), NEW n \in N, NEW r, NodeOK(r, n, N, D), NEW h
    PROVE  LET t == clusterHandleConfigEpochCollision(r, n, h)
           IN  NodeOK(t, n, N, D) /\ ViewStep(r, t, n, N, D) /\ SameOwners(r, t)
BY NewEpochTaken, NothingChanges DEF clusterHandleConfigEpochCollision

LEMMA BumpOK ==
    ASSUME NEW N, NEW D, Nodes(N), ClNode = N, NEW n \in N, NEW r, NodeOK(r, n, N, D)
    PROVE  LET t == clusterBumpConfigEpochWithoutConsensus(r, n)
           IN  NodeOK(t, n, N, D) /\ ViewStep(r, t, n, N, D) /\ SameOwners(r, t)
BY NewEpochTaken, NothingChanges DEF clusterBumpConfigEpochWithoutConsensus

(* n takes an UPDATE about o, of which its sender knows the epoch e.         *)
LEMMA ReceiveUpdateOK ==
    ASSUME NEW N, NEW D, Nodes(N), NEW n \in N, NEW r, NodeOK(r, n, N, D),
           NEW h, HeaderOK(h, N, D), NEW o \in N, o # n, NEW e \in Nat, e <= h.cur,
           NEW claimed \in SUBSET D
    PROVE  LET t == ReceiveUpdate(r, n, h, o, e, claimed)
           IN  NodeOK(t, n, N, D) /\ ViewStep(r, t, n, N, D)
<1> DEFINE t == ReadHeader(r, h)
           m == clusterSetNodeAsMaster(t, o)
           f == [m.epoch EXCEPT ![o] = e]
           u == [m EXCEPT !.epoch = f, !.saved = m.cur]
           w == clusterUpdateSlotsConfigWith(u, n, o, e, claimed)
<1>1. /\ NodeOK(t, n, N, D) /\ ViewStep(r, t, n, N, D) /\ SameOwners(r, t)
      /\ t.cur >= h.cur
    BY ReadHeaderOK DEF Heard
<1>2. CASE t.epoch[o] >= e
    BY <1>1, <1>2 DEF ReceiveUpdate
<1>3. CASE ~(t.epoch[o] >= e)
  <2> HIDE DEF t
  <2>1. /\ NodeOK(m, n, N, D) /\ ViewStep(t, m, n, N, D)
        /\ nodeIsMaster(m, o) /\ m.of[n] = t.of[n]
        /\ m.slots = t.slots /\ m.epoch = t.epoch
        /\ m.voted = t.voted /\ m.cur = t.cur
      BY <1>1, SetMasterOK
  <2> HIDE DEF m
  <2>2. clusterSaveConfig([clusterSetNodeAsMaster(t, o) EXCEPT !.epoch[o] = e]) = u
      BY <2>1 DEF clusterSaveConfig, NodeOK, ClView, m
  <2>3. f \in [N -> Nat] /\ \A k \in N : f[k] = IF k = o THEN e ELSE m.epoch[k]
      BY <2>1 DEF NodeOK, ClView
  <2> HIDE DEF f
  <2>4. /\ u \in ClView(N, D) /\ u.of = m.of /\ u.slots = m.slots /\ u.cur = m.cur
        /\ u.saved = m.cur /\ u.voted = m.voted /\ u.aepoch = m.aepoch /\ u.epoch = f
      BY <2>1, <2>3 DEF NodeOK, ClView
  <2> HIDE DEF u
  <2>5. /\ m.cur \in Nat /\ h.cur \in Nat /\ m.epoch \in [N -> Nat] /\ m.voted \in Nat
        /\ m.saved \in Nat
      BY <2>1 DEF NodeOK, ClView, HeaderOK
  <2>6. NodeOK(u, n, N, D)
      BY <1>1, <2>1, <2>3, <2>4, <2>5 DEF NodeOK
  <2>7. ViewStep(m, u, n, N, D)
      BY <1>3, <2>1, <2>3, <2>4, <2>5 DEF ViewStep
  <2>8. u.slots = r.slots /\ u.of[n] = r.of[n] /\ nodeIsMaster(u, o) /\ u.epoch[o] >= e
      BY <1>1, <2>1, <2>3, <2>4 DEF SameOwners, nodeIsMaster
  <2>9. ViewStep(r, m, n, N, D) /\ m.slots = r.slots /\ m.of[n] = r.of[n]
      BY <1>1, <2>1, ThenOwners DEF SameOwners
  <2>10. ViewStep(r, u, n, N, D)
      BY <2>1, <2>4, <2>6, <2>7, <2>9, ThenOwners
  <2>11. NodeOK(w, n, N, D) /\ ViewStep(u, w, n, N, D)
      BY <2>6, <2>8, UpdateSlotsOK
  <2> HIDE DEF w
  <2>12. ViewStep(r, w, n, N, D)
      BY <2>6, <2>8, <2>10, <2>11, ThenOwners
  <2>13. ReceiveUpdate(r, n, h, o, e, claimed) = w
      BY <1>3, <2>2 DEF ReceiveUpdate, w, t
  <2> QED
      BY <2>11, <2>12, <2>13
<1> QED
    BY <1>2, <1>3

(* n becomes master in the place of its master, whose slots it takes.        *)
LEMMA ReplaceMasterOK ==
    ASSUME NEW N, NEW D, Nodes(N), NEW n \in N, NEW r, NodeOK(r, n, N, D),
           ~nodeIsMaster(r, n)
    PROVE  LET t == clusterFailoverReplaceYourMaster(r, n)
           IN  NodeOK(t, n, N, D) /\ ViewStep(r, t, n, N, D)
<1> DEFINE t == clusterFailoverReplaceYourMaster(r, n)
           f == [r.of EXCEPT ![n] = NoNode]
           g == [s \in D |-> IF r.slots[s] = r.of[n] THEN n ELSE r.slots[s]]
<1>1. t = [r EXCEPT !.of = f, !.mf = FALSE, !.slots = g, !.saved = r.cur]
    BY DEF clusterFailoverReplaceYourMaster, clusterSaveConfig, NodeOK, ClView
<1>2. f \in [N -> N \cup {NoNode}] /\ \A k \in N : f[k] = IF k = n THEN NoNode ELSE r.of[k]
    BY DEF NodeOK, ClView
<1>3. g \in [D -> N \cup {NoNode}]
    BY DEF NodeOK, ClView
<1>4. \A s \in D : g[s] = IF r.slots[s] = r.of[n] THEN n ELSE r.slots[s]
    OBVIOUS
<1> HIDE DEF f, g
<1>5. /\ t \in ClView(N, D) /\ t.of = f /\ t.slots = g /\ t.epoch = r.epoch
      /\ t.voted = r.voted /\ t.cur = r.cur /\ t.saved = r.cur /\ t.aepoch = r.aepoch
    BY <1>1, <1>2, <1>3 DEF NodeOK, ClView
<1> HIDE DEF t
<1>6. t.of[n] # n
    BY <1>2, <1>5 DEF Nodes
<1>7. \A s \in D : t.slots[s] # NoNode => t.of[t.slots[s]] = NoNode
    BY <1>2, <1>3, <1>4, <1>5 DEF NodeOK, ClView
<1>8. NodeOK(t, n, N, D)
    BY <1>5, <1>6, <1>7 DEF NodeOK, ClView
<1>9. ViewStep(r, t, n, N, D)
    BY <1>4, <1>5 DEF ViewStep, NodeOK, ClView
<1> QED
    BY <1>8, <1>9 DEF t

(* n becomes master with the epoch of its election.                          *)
LEMMA WonOverOK ==
    ASSUME NEW N, NEW D, Nodes(N), NEW n \in N, NEW r, NodeOK(r, n, N, D),
           ~nodeIsMaster(r, n)
    PROVE  LET t == clusterFailoverReplaceYourMaster(
                        [r EXCEPT !.epoch[n] = Max({@, r.aepoch})], n)
           IN  NodeOK(t, n, N, D) /\ ViewStep(r, t, n, N, D)
<1> DEFINE c == Max({r.epoch[n], r.aepoch})
           f == [r.epoch EXCEPT ![n] = c]
           u == [r EXCEPT !.epoch = f]
<1>1. c \in Nat /\ r.epoch[n] <= c /\ c <= r.cur
    BY MaxOfTwo DEF NodeOK, ClView
<1>2. [r EXCEPT !.epoch[n] = Max({@, r.aepoch})] = u
    BY DEF NodeOK, ClView
<1> HIDE DEF c
<1>3. f \in [N -> Nat] /\ \A k \in N : f[k] = IF k = n THEN c ELSE r.epoch[k]
    BY <1>1 DEF NodeOK, ClView
<1> HIDE DEF f
<1>4. /\ u \in ClView(N, D) /\ u.of = r.of /\ u.slots = r.slots /\ u.cur = r.cur
      /\ u.saved = r.saved /\ u.voted = r.voted /\ u.aepoch = r.aepoch /\ u.epoch = f
    BY <1>3 DEF NodeOK, ClView
<1> HIDE DEF u
<1>5. NodeOK(u, n, N, D)
    BY <1>1, <1>3, <1>4 DEF NodeOK, ClView
<1>6. ViewStep(r, u, n, N, D)
    BY <1>1, <1>3, <1>4 DEF ViewStep, NodeOK, ClView
<1>7. ~nodeIsMaster(u, n)
    BY <1>4 DEF nodeIsMaster
<1> DEFINE t == clusterFailoverReplaceYourMaster(u, n)
<1>8. NodeOK(t, n, N, D) /\ ViewStep(u, t, n, N, D)
    BY <1>5, <1>7, ReplaceMasterOK
<1> HIDE DEF t
<1>9. ViewStep(r, t, n, N, D)
    BY <1>4, <1>5, <1>6, <1>8, ThenOwners
<1> QED
    BY <1>2, <1>8, <1>9 DEF t

-----------------------------------------------------------------------------
(* Steps.                                                                    *)

MessagesOK(net, N, D) == \A msg \in net : msg.to \in N /\ HeaderOK(msg.h, N, D)

(* A step that gives no vote.                                                *)
LEMMA ViewsOK ==
    ASSUME NEW N, NEW D, ClInv(N, D), clN' = [n \in N |-> clN'[n]],
           \A n \in N : NodeOK(clN'[n], n, N, D) /\ ViewStep(clN[n], clN'[n], n, N, D),
           MessagesOK(clNet', N, D), clVotes' = clVotes
    PROVE  ClInv(N, D)' /\ ViewsStep(N, D)
<1>1. DOMAIN clN' = N
    OBVIOUS
<1>2. \A v \in clVotes : v[2] \in Nat /\ v[1] \in N
    BY DEF ClInv
<1>3. \A n \in N : clN[n].voted \in Nat /\ clN'[n].voted \in Nat
    BY DEF ClInv, NodeOK, ClView
<1>4. \A v \in clVotes' : v[2] <= clN'[v[1]].voted
    BY <1>2, <1>3 DEF ClInv, ViewStep
<1>5. OneVotePerClEpoch'
    BY DEF ClInv, OneVotePerClEpoch
<1> QED
    BY <1>1, <1>4, <1>5 DEF ClInv, ViewsStep, MessagesOK

LEMMA OneViewOK ==
    ASSUME NEW N, NEW D, ClInv(N, D), NEW n \in N, NEW t, ClBecomes(n, t),
           NodeOK(t, n, N, D), ViewStep(clN[n], t, n, N, D),
           MessagesOK(clNet', N, D), clVotes' = clVotes
    PROVE  ClInv(N, D)' /\ ViewsStep(N, D)
<1>1. clN' = [k \in N |-> IF k = n THEN t ELSE clN[k]]
    BY DEF ClInv, ClBecomes
<1>2. \A k \in N : NodeOK(clN'[k], k, N, D) /\ ViewStep(clN[k], clN'[k], k, N, D)
    BY <1>1, NothingChanges DEF ClInv
<1>3. clN' = [k \in N |-> clN'[k]]
    BY <1>1
<1> QED
    BY <1>2, <1>3, ViewsOK

(* Nothing changes but who is there, and messages get lost.                  *)
LEMMA NoViewOK ==
    ASSUME NEW N, NEW D, ClInv(N, D), clN' = clN, clNet' \subseteq clNet,
           clVotes' = clVotes
    PROVE  ClInv(N, D)' /\ ViewsStep(N, D)
<1>1. \A k \in N : NodeOK(clN'[k], k, N, D) /\ ViewStep(clN[k], clN'[k], k, N, D)
    BY NothingChanges DEF ClInv
<1>2. MessagesOK(clNet', N, D) /\ clN' = [n \in N |-> clN'[n]]
    BY DEF ClInv, MessagesOK
<1> QED
    BY <1>1, <1>2, ViewsOK

\* n has heard from m; t is its view when it may answer, and u after that.
HeardOf(m, n, h, t, u) ==
    \E f \in {u.fail \ {m}, u.fail} :
        \/ ClBecomes(n, [u EXCEPT !.fail = f])
        \/ \E o \in {t.slots[s] : s \in h.slots} \ {m, NoNode} :
                clN' = [clN EXCEPT
                    ![n] = [u EXCEPT !.fail = f],
                    ![m] = ReceiveUpdate(@, m, clusterBuildMessageHdr(t, n),
                                         o, t.epoch[o], SlotsOf(t, o))]

LEMMA HeartbeatOK ==
    ASSUME NEW N, NEW D, ClInv(N, D), NEW n \in N, NEW m \in N, Heartbeat(m, n)
    PROVE  ClInv(N, D)' /\ ViewsStep(N, D)
<1>1. m # n /\ clVotes' = clVotes /\ clNet' = clNet
    BY DEF Heartbeat, Talk
<1>2. Nodes(N) /\ NodeOK(clN[n], n, N, D) /\ NodeOK(clN[m], m, N, D)
    BY DEF ClInv
<1>4. \E h \in {clusterBuildMessageHdr(clN[m], m)} :
       \E r \in {RoleSwitch(ReadHeader(clN[n], h), h)} : \E t \in {ClaimsRead(r, n, h)} :
       \E u \in {clusterHandleConfigEpochCollision(t, n, h)} : HeardOf(m, n, h, t, u)
    BY DEF Heartbeat, HeardOf
<1> DEFINE h == clusterBuildMessageHdr(clN[m], m)
           q == ReadHeader(clN[n], h)
           r == RoleSwitch(q, h)
           t == ClaimsRead(r, n, h)
           u == clusterHandleConfigEpochCollision(t, n, h)
           v(f) == [u EXCEPT !.fail = f]
           hdr == clusterBuildMessageHdr(t, n)
           w(o) == ReceiveUpdate(clN[m], m, hdr, o, t.epoch[o], SlotsOf(t, o))
<1>13. HeardOf(m, n, h, t, u)
    BY <1>4
<1>3. HeaderOK(h, N, D) /\ h.from = m
    BY <1>2, HeaderSent
<1> HIDE DEF h
<1>5. /\ NodeOK(q, n, N, D) /\ ViewStep(clN[n], q, n, N, D) /\ SameOwners(clN[n], q)
      /\ Heard(clN[n], q, h)
    BY <1>2, <1>3, ReadHeaderOK
<1> HIDE DEF q
<1>6. /\ NodeOK(r, n, N, D) /\ ViewStep(q, r, n, N, D)
      /\ Switched(q, r, n, h.from)
  <2>1. h.from # n
      BY <1>1, <1>3
  <2> QED
      BY <1>2, <1>3, <1>5, <2>1, RoleSwitchOK
<1> HIDE DEF r
<1>7. ViewStep(clN[n], r, n, N, D)
    BY <1>2, <1>5, <1>6, ThenOwners DEF SameOwners
<1>8. NodeOK(t, n, N, D) /\ ViewStep(clN[n], t, n, N, D)
  <2>1. CASE nodeIsMaster(r, m)
    <3> DEFINE x == clusterUpdateSlotsConfigWith(r, n, m, h.epoch, h.slots)
    <3>1. h.epoch \in Nat /\ h.slots \in SUBSET D /\ r.epoch[m] >= h.epoch
        BY <1>3, <1>5, <1>6 DEF HeaderOK, Heard, Switched
    <3>2. NodeOK(x, n, N, D) /\ ViewStep(r, x, n, N, D)
        BY <1>2, <1>6, <2>1, <3>1, UpdateSlotsOK
    <3>3. r.slots = clN[n].slots /\ r.of[n] = clN[n].of[n]
        BY <1>3, <1>5, <1>6, <2>1 DEF SameOwners, Switched
    <3> HIDE DEF x
    <3>4. ViewStep(clN[n], x, n, N, D)
        BY <1>2, <1>6, <1>7, <3>2, <3>3, ThenOwners
    <3> QED
        BY <1>3, <1>6, <1>7, <3>2, <3>4 DEF ClaimsRead, x
  <2>2. CASE ~nodeIsMaster(r, m)
      BY <1>3, <1>6, <1>7, <2>2 DEF ClaimsRead
  <2> QED
      BY <2>1, <2>2
<1> HIDE DEF t
<1>9. NodeOK(u, n, N, D) /\ ViewStep(clN[n], u, n, N, D)
    BY <1>2, <1>8, CollisionOK, OwnersThen DEF SameOwners
<1> HIDE DEF u
<1> SUFFICES ASSUME NEW f \in {u.fail \ {m}, u.fail},
                    \/ ClBecomes(n, v(f))
                    \/ \E o \in {t.slots[s] : s \in h.slots} \ {m, NoNode} :
                            clN' = [clN EXCEPT ![n] = v(f), ![m] = ReceiveUpdate(@, m, hdr, o, t.epoch[o], SlotsOf(t, o))]
             PROVE  ClInv(N, D)' /\ ViewsStep(N, D)
    BY <1>13 DEF HeardOf
<1>10. NodeOK(v(f), n, N, D) /\ ViewStep(clN[n], v(f), n, N, D)
  <2>1. f \in SUBSET N
      BY <1>9 DEF NodeOK, ClView
  <2> QED
      BY <1>9, <2>1 DEF NodeOK, ClView, ViewStep
<1>11. CASE ClBecomes(n, v(f))
  <2> HIDE DEF v
  <2>1. MessagesOK(clNet', N, D)
      BY <1>1 DEF ClInv, MessagesOK
  <2> QED
      BY <1>1, <1>10, <1>11, <2>1, OneViewOK
<1>12. ASSUME NEW o \in {t.slots[s] : s \in h.slots} \ {m, NoNode},
              clN' = [clN EXCEPT ![n] = v(f), ![m] = ReceiveUpdate(@, m, hdr, o, t.epoch[o], SlotsOf(t, o))]
       PROVE  ClInv(N, D)' /\ ViewsStep(N, D)
  <2> HIDE DEF v, hdr
  <2>1. clN' = [k \in N |-> IF k = m THEN w(o) ELSE IF k = n THEN v(f) ELSE clN[k]]
      BY <1>1, <1>12 DEF ClInv
  <2>2. o \in N /\ t.epoch[o] \in Nat /\ t.epoch[o] <= t.cur /\ SlotsOf(t, o) \in SUBSET D
      BY <1>3, <1>8 DEF NodeOK, ClView, HeaderOK, SlotsOf
  <2>3. HeaderOK(hdr, N, D) /\ hdr.cur = t.cur
      BY <1>2, <1>8, HeaderSent DEF hdr
  <2>4. NodeOK(w(o), m, N, D) /\ ViewStep(clN[m], w(o), m, N, D)
      BY <1>2, <2>2, <2>3, ReceiveUpdateOK
  <2> HIDE DEF w
  <2>5. \A k \in N : NodeOK(clN'[k], k, N, D) /\ ViewStep(clN[k], clN'[k], k, N, D)
      BY <1>10, <2>1, <2>4, NothingChanges DEF ClInv
  <2>6. MessagesOK(clNet', N, D) /\ clN' = [k \in N |-> clN'[k]]
      BY <1>1, <2>1 DEF ClInv, MessagesOK
  <2> QED
      BY <1>1, <2>5, <2>6, ViewsOK
<1> QED
    BY <1>11, <1>12

(* A vote is newer than all votes of the voter before it.                    *)
LEMMA FailoverAuthOK ==
    ASSUME NEW N, NEW D, ClInv(N, D), NEW msg \in clNet,
           clusterSendFailoverAuthIfNeeded(msg)
    PROVE  ClInv(N, D)' /\ ViewsStep(N, D)
<1> DEFINE n == msg.to
           r == ReadHeader(clN[n], msg.h)
           t == clusterSaveConfig([r EXCEPT !.voted = r.cur, !.held = @ \cup {msg.h.from}])
           ack == [type |-> "ack", to |-> msg.h.from, h |-> clusterBuildMessageHdr(t, n)]
           vote == <<n, t.cur, msg.h.from>>
<1>1. n \in N /\ HeaderOK(msg.h, N, D) /\ Nodes(N) /\ NodeOK(clN[n], n, N, D)
    BY DEF ClInv
<1>2. /\ NodeOK(r, n, N, D) /\ ViewStep(clN[n], r, n, N, D) /\ SameOwners(clN[n], r)
      /\ Heard(clN[n], r, msg.h)
    BY <1>1, ReadHeaderOK
<1>3. CASE /\ MayBeVotedFor(r, n, msg) /\ ClBecomes(n, t)
           /\ clNet' = (clNet \ {msg}) \cup {ack}
           /\ clVotes' = clVotes \cup {vote}
  <2>1. r.voted # r.cur
      BY <1>3 DEF MayBeVotedFor
  <2> HIDE DEF r
  <2>20. msg.h.from \in N /\ r.held \cup {msg.h.from} \in SUBSET N
      BY <1>1, <1>2 DEF NodeOK, ClView, HeaderOK
  <2>2. t = [r EXCEPT !.voted = r.cur, !.held = r.held \cup {msg.h.from}, !.saved = r.cur]
      BY <1>2 DEF clusterSaveConfig, NodeOK, ClView
  <2>3. /\ t \in ClView(N, D) /\ t.of = r.of /\ t.slots = r.slots /\ t.epoch = r.epoch
        /\ t.voted = r.cur /\ t.cur = r.cur /\ t.saved = r.cur /\ t.aepoch = r.aepoch
      BY <1>2, <2>2, <2>20 DEF NodeOK, ClView
  <2> HIDE DEF t
  <2>4. /\ r.voted \in Nat /\ r.cur \in Nat /\ r.voted < r.cur /\ r.epoch \in [N -> Nat]
        /\ r.saved \in Nat /\ r.saved <= r.cur
      BY <1>2, <2>1 DEF NodeOK, ClView
  <2>5. NodeOK(t, n, N, D)
      BY <1>2, <2>3, <2>4 DEF NodeOK
  <2>6. ViewStep(r, t, n, N, D)
      BY <2>3, <2>4 DEF ViewStep
  <2>7. ViewStep(clN[n], t, n, N, D)
      BY <1>1, <1>2, <2>3, <2>5, <2>6, OwnersThen
  <2>8. clN' = [k \in N |-> IF k = n THEN t ELSE clN[k]]
      BY <1>3 DEF ClInv, ClBecomes
  <2>9. \A k \in N : NodeOK(clN'[k], k, N, D) /\ ViewStep(clN[k], clN'[k], k, N, D)
      BY <1>1, <2>5, <2>7, <2>8, NothingChanges DEF ClInv
  <2>10. msg.h.from \in N /\ HeaderOK(clusterBuildMessageHdr(t, n), N, D)
      BY <1>1, <2>5, HeaderSent DEF HeaderOK
  <2>11. \A x \in clNet' : x.to \in N /\ HeaderOK(x.h, N, D)
      BY <1>3, <2>10 DEF ClInv
  <2>12. clVotes' \subseteq N \X Nat \X N
      BY <1>1, <1>3, <2>3, <2>4, <2>10 DEF ClInv
  <2>13. \A v \in clVotes : v[1] \in N /\ v[2] \in Nat /\ v[2] <= clN[v[1]].voted
      BY DEF ClInv
  <2>14. \A k \in N : clN[k].voted \in Nat /\ clN'[k].voted \in Nat
                      /\ clN[k].voted <= clN'[k].voted
      BY <2>9 DEF ClInv, NodeOK, ClView, ViewStep
  <2>15. clN'[n].voted = vote[2]
      BY <1>1, <2>3, <2>8
  <2>16. \A v \in clVotes' : v[2] <= clN'[v[1]].voted
    <3>1. \A v \in clVotes : v[2] <= clN'[v[1]].voted
        BY <2>13, <2>14
    <3>2. vote[2] <= clN'[vote[1]].voted
        BY <1>1, <2>14, <2>15
    <3> QED
        BY <1>3, <3>1, <3>2
  <2>17. \A v \in clVotes : v[1] = n => v[2] < vote[2]
      BY <1>1, <1>2, <2>3, <2>4, <2>13 DEF Heard
  <2>18. \A v \in clVotes : ~(v[1] = vote[1] /\ v[2] = vote[2])
      BY <2>12, <2>13, <2>17, <2>3, <2>4
  <2>19. OneVotePerClEpoch'
    <3> HIDE DEF vote
    <3> QED
        BY <1>3, <2>18 DEF ClInv, OneVotePerClEpoch
  <2> QED
      BY <1>1, <2>8, <2>9, <2>11, <2>12, <2>16, <2>19 DEF ClInv, ViewsStep
<1>4. CASE ClBecomes(n, r) /\ clNet' = clNet \ {msg} /\ clVotes' = clVotes
  <2>1. MessagesOK(clNet', N, D)
      BY <1>4 DEF ClInv, MessagesOK
  <2> HIDE DEF r
  <2> QED
      BY <1>1, <1>2, <1>4, <2>1, OneViewOK
<1> QED
    BY <1>3, <1>4 DEF clusterSendFailoverAuthIfNeeded

\* t is r but for its own election, its flags and a newer current epoch.
Kept(r, t, N, D) ==
    /\ t \in ClView(N, D)
    /\ t.of = r.of /\ t.slots = r.slots /\ t.epoch = r.epoch /\ t.voted = r.voted
    /\ r.cur <= t.cur /\ r.saved <= t.saved /\ t.saved <= t.cur /\ t.aepoch <= t.cur

LEMMA KeptOK ==
    ASSUME NEW N, NEW D, NEW n \in N, NEW r, NodeOK(r, n, N, D), NEW t, Kept(r, t, N, D)
    PROVE  NodeOK(t, n, N, D) /\ ViewStep(r, t, n, N, D) /\ SameOwners(r, t)
<1>1. /\ r \in ClView(N, D) /\ t \in ClView(N, D) /\ SameOwners(r, t)
      /\ t.of = r.of /\ t.slots = r.slots /\ t.epoch = r.epoch /\ t.voted = r.voted
      /\ r.cur <= t.cur /\ r.saved <= t.saved /\ t.saved <= t.cur /\ t.aepoch <= t.cur
    BY DEF NodeOK, Kept, SameOwners
<1>2. /\ r.epoch \in [N -> Nat] /\ r.voted \in Nat /\ r.saved \in Nat /\ r.cur \in Nat
      /\ t.saved \in Nat /\ t.cur \in Nat
    BY <1>1 DEF ClView
<1>3. NodeOK(t, n, N, D)
    BY <1>1, <1>2 DEF NodeOK
<1>4. ViewStep(r, t, n, N, D)
    BY <1>1, <1>2 DEF ViewStep
<1> QED
    BY <1>1, <1>3, <1>4

LEMMA KeptNetOK ==
    ASSUME NEW N, NEW D, ClInv(N, D), NEW net, net \subseteq clNet
    PROVE  MessagesOK(net, N, D)
BY DEF ClInv, MessagesOK

(* Steps of one node that leave its slots and roles alone and send nothing.  *)
LEMMA QuietOK ==
    ASSUME NEW N, NEW D, ClInv(N, D), NEW n \in N, NEW x \in N,
           \/ markNodeAsFailingIfNeeded(n, x)
           \/ ScheduleElection(n) \/ ElectionExpires(n)
           \/ ForceFailover(n) \/ manualFailoverCheckTimeout(n)
    PROVE  ClInv(N, D)' /\ ViewsStep(N, D)
<1> DEFINE r == clN[n]
<1>1. NodeOK(r, n, N, D)
    BY DEF ClInv
<1>2. r \in ClView(N, D) /\ r.saved <= r.cur /\ r.aepoch <= r.cur
    BY <1>1 DEF NodeOK
<1>3. clNet' \subseteq clNet /\ clVotes' = clVotes
    BY DEF markNodeAsFailingIfNeeded, ScheduleElection, ElectionExpires, ForceFailover,
           manualFailoverCheckTimeout, InTime
<1>4. SUFFICES ASSUME NEW t, ClBecomes(n, t), Kept(r, t, N, D)
               PROVE  ClInv(N, D)' /\ ViewsStep(N, D)
  <2> HIDE DEF r
  <2>1. r.saved \in Nat /\ r.cur \in Nat /\ r.fail \subseteq N
      BY <1>2 DEF ClView
  <2> DEFINE failing == [r EXCEPT !.fail = r.fail \cup {x}, !.saved = r.cur]
             scheduled == [r EXCEPT !.st = "scheduled", !.count = 0]
             forced(b) == [r EXCEPT !.mf = b]
  <2>2. Kept(r, failing, N, D)
    <3>1. r.fail \cup {x} \in SUBSET N
        BY <2>1
    <3>2. /\ failing \in ClView(N, D) /\ failing.of = r.of /\ failing.slots = r.slots
          /\ failing.epoch = r.epoch /\ failing.voted = r.voted
          /\ failing.cur = r.cur /\ failing.saved = r.cur /\ failing.aepoch = r.aepoch
        BY <1>2, <3>1 DEF ClView
    <3> HIDE DEF failing
    <3> QED
        BY <1>2, <2>1, <3>2 DEF Kept
  <2>3. Kept(r, scheduled, N, D)
    <3>1. /\ scheduled \in ClView(N, D) /\ scheduled.of = r.of /\ scheduled.slots = r.slots
          /\ scheduled.epoch = r.epoch /\ scheduled.voted = r.voted
          /\ scheduled.cur = r.cur /\ scheduled.saved = r.saved /\ scheduled.aepoch = r.aepoch
        BY <1>2 DEF ClView
    <3> HIDE DEF scheduled
    <3> QED
        BY <1>2, <2>1, <3>1 DEF Kept
  <2>4. Kept(r, [r EXCEPT !.st = "none"], N, D)
      BY <1>2, <2>1 DEF Kept, ClView
  <2>5. \A b \in BOOLEAN : Kept(r, forced(b), N, D)
    <3> TAKE b \in BOOLEAN
    <3>1. /\ forced(b) \in ClView(N, D) /\ forced(b).of = r.of /\ forced(b).slots = r.slots
          /\ forced(b).epoch = r.epoch /\ forced(b).voted = r.voted
          /\ forced(b).cur = r.cur /\ forced(b).saved = r.saved /\ forced(b).aepoch = r.aepoch
        BY <1>2 DEF ClView
    <3> HIDE DEF forced
    <3> QED
        BY <1>2, <2>1, <3>1 DEF Kept
  <2>6. clusterSaveConfig([r EXCEPT !.fail = @ \cup {x}])
            = [r EXCEPT !.fail = r.fail \cup {x}, !.saved = r.cur]
      BY <1>2 DEF clusterSaveConfig, ClView
  <2>7. CASE markNodeAsFailingIfNeeded(n, x)
      BY <1>4, <2>2, <2>6, <2>7 DEF markNodeAsFailingIfNeeded, r
  <2>8. CASE ScheduleElection(n)
      BY <1>4, <2>3, <2>8 DEF ScheduleElection, r
  <2>9. CASE ElectionExpires(n)
      BY <1>4, <2>4, <2>9 DEF ElectionExpires, r
  <2>10. CASE ForceFailover(n)
      BY <1>4, <2>5, <2>10 DEF ForceFailover, r
  <2>11. CASE manualFailoverCheckTimeout(n)
      BY <1>4, <2>5, <2>11 DEF manualFailoverCheckTimeout, r
  <2> QED
      BY <2>7, <2>8, <2>9, <2>10, <2>11
<1>5. NodeOK(t, n, N, D) /\ ViewStep(r, t, n, N, D)
    BY <1>1, <1>4, KeptOK
<1> QED
    BY <1>3, <1>4, <1>5, KeptNetOK, OneViewOK

LEMMA RequestFailoverAuthOK ==
    ASSUME NEW N, NEW D, ClInv(N, D), NEW n \in N, clusterRequestFailoverAuth(n)
    PROVE  ClInv(N, D)' /\ ViewsStep(N, D)
<1> DEFINE r == clN[n]
           t == clusterSaveConfig([r EXCEPT !.cur = @ + 1, !.aepoch = r.cur + 1, !.st = "sent"])
           asked == {k \in ClNode : Talk(n, k) /\ k \in Voters(clN[k])}
           request(k) == [type |-> "request", to |-> k, force |-> r.mf,
                          h |-> clusterBuildMessageHdr(t, n)]
<1>1. /\ ClBecomes(n, t) /\ clVotes' = clVotes
      /\ clNet' = clNet \cup {request(k) : k \in asked}
    BY DEF clusterRequestFailoverAuth
<1>2. NodeOK(r, n, N, D) /\ r \in ClView(N, D) /\ asked \subseteq N /\ Nodes(N)
    BY DEF ClInv, NodeOK, ClNode
<1> HIDE DEF r, asked
<1> DEFINE c == r.cur + 1
<1>3. t = [r EXCEPT !.cur = c, !.aepoch = c, !.st = "sent", !.saved = c]
    BY <1>2 DEF clusterSaveConfig, ClView
<1> HIDE DEF t
<1>4. Kept(r, t, N, D)
  <2>1. /\ r.cur \in Nat /\ r.saved \in Nat /\ r.saved <= r.cur
        /\ c \in Nat /\ r.cur <= c
      BY <1>2 DEF NodeOK, ClView
  <2> HIDE DEF c
  <2>2. t \in ClView(N, D)
      BY <1>2, <1>3, <2>1 DEF ClView
  <2>3. /\ t.of = r.of /\ t.slots = r.slots /\ t.epoch = r.epoch /\ t.voted = r.voted
        /\ t.cur = c /\ t.saved = c /\ t.aepoch = c
      BY <1>2, <1>3 DEF ClView
  <2> QED
      BY <2>1, <2>2, <2>3 DEF Kept
<1>5. NodeOK(t, n, N, D) /\ ViewStep(r, t, n, N, D)
    BY <1>2, <1>4, KeptOK
<1>6. HeaderOK(clusterBuildMessageHdr(t, n), N, D)
    BY <1>2, <1>5, HeaderSent
<1>7. MessagesOK(clNet', N, D)
  <2> SUFFICES ASSUME NEW msg \in clNet' PROVE msg.to \in N /\ HeaderOK(msg.h, N, D)
      BY DEF MessagesOK
  <2>1. CASE msg \in clNet
      BY <2>1 DEF ClInv
  <2>2. ASSUME NEW k \in asked, msg = request(k)
        PROVE  msg.to \in N /\ HeaderOK(msg.h, N, D)
      BY <1>2, <1>6, <2>2
  <2> QED
      BY <1>1, <2>1, <2>2
<1> QED
    BY <1>1, <1>5, <1>7, OneViewOK DEF r

LEMMA WinElectionOK ==
    ASSUME NEW N, NEW D, ClInv(N, D), NEW n \in N, NEW r, NodeOK(r, n, N, D),
           ViewStep(clN[n], r, n, N, D), SameOwners(clN[n], r),
           Wins(r, n), WinElection(n, r),
           clNet' \subseteq clNet, clVotes' = clVotes
    PROVE  ClInv(N, D)' /\ ViewsStep(N, D)
<1> DEFINE t == clusterFailoverReplaceYourMaster([r EXCEPT !.epoch[n] = Max({@, r.aepoch})], n)
<1>1. Nodes(N) /\ ~nodeIsMaster(r, n) /\ NodeOK(clN[n], n, N, D)
    BY DEF ClInv, Wins, MayFailover
<1>2. NodeOK(t, n, N, D) /\ ViewStep(r, t, n, N, D)
    BY <1>1, WonOverOK
<1>3. ClBecomes(n, t)
    BY DEF WinElection
<1> HIDE DEF t
<1>4. ViewStep(clN[n], t, n, N, D)
    BY <1>1, <1>2, ThenOwners DEF SameOwners
<1> QED
    BY <1>2, <1>3, <1>4, KeptNetOK, OneViewOK

LEMMA CountVoteOK ==
    ASSUME NEW N, NEW D, ClInv(N, D), NEW msg \in clNet, CountVote(msg)
    PROVE  ClInv(N, D)' /\ ViewsStep(N, D)
<1> DEFINE n == msg.to
           r == ReadHeader(clN[n], msg.h)
           t == IF msg.h.from \in Voters(r) /\ msg.h.cur >= r.aepoch
                THEN [r EXCEPT !.count = @ + 1] ELSE r
<1>1. n \in N /\ HeaderOK(msg.h, N, D) /\ Nodes(N) /\ NodeOK(clN[n], n, N, D)
    BY DEF ClInv
<1>2. /\ NodeOK(r, n, N, D) /\ ViewStep(clN[n], r, n, N, D) /\ SameOwners(clN[n], r)
    BY <1>1, ReadHeaderOK
<1>3. /\ (Wins(t, n) /\ WinElection(n, t)) \/ ClBecomes(n, t)
      /\ clNet' \subseteq clNet /\ clVotes' = clVotes
    BY DEF CountVote
<1> HIDE DEF r
<1>4. Kept(r, t, N, D)
    BY <1>2 DEF Kept, NodeOK, ClView
<1> HIDE DEF t
<1>5. NodeOK(t, n, N, D) /\ ViewStep(r, t, n, N, D) /\ SameOwners(r, t)
    BY <1>1, <1>2, <1>4, KeptOK
<1>6. ViewStep(clN[n], t, n, N, D) /\ SameOwners(clN[n], t)
    BY <1>1, <1>2, <1>5, ThenOwners DEF SameOwners
<1> QED
    BY <1>1, <1>3, <1>5, <1>6, WinElectionOK, KeptNetOK, OneViewOK

LEMMA LookAgainOK ==
    ASSUME NEW N, NEW D, ClInv(N, D), NEW n \in N, LookAgain(n)
    PROVE  ClInv(N, D)' /\ ViewsStep(N, D)
<1>1. NodeOK(clN[n], n, N, D)
    BY DEF ClInv
<1> QED
    BY <1>1, NothingChanges, WinElectionOK DEF LookAgain

LEMMA TakeOverOK ==
    ASSUME NEW N, NEW D, ClInv(N, D), NEW n \in N, TakeOver(n)
    PROVE  ClInv(N, D)' /\ ViewsStep(N, D)
<1> DEFINE r == clusterBumpConfigEpochWithoutConsensus(clN[n], n)
           t == clusterFailoverReplaceYourMaster(r, n)
<1>1. Nodes(N) /\ ClNode = N /\ NodeOK(clN[n], n, N, D) /\ ~nodeIsMaster(clN[n], n)
    BY DEF ClInv, ClNode, TakeOver
<1>2. NodeOK(r, n, N, D) /\ ViewStep(clN[n], r, n, N, D) /\ SameOwners(clN[n], r)
    BY <1>1, BumpOK
<1>3. ClBecomes(n, t) /\ clNet' \subseteq clNet /\ clVotes' = clVotes
    BY DEF TakeOver
<1> HIDE DEF r
<1>4. ~nodeIsMaster(r, n)
    BY <1>1, <1>2 DEF nodeIsMaster, SameOwners
<1>5. NodeOK(t, n, N, D) /\ ViewStep(r, t, n, N, D)
    BY <1>1, <1>2, <1>4, ReplaceMasterOK
<1> HIDE DEF t
<1>6. ViewStep(clN[n], t, n, N, D)
    BY <1>1, <1>2, <1>5, ThenOwners DEF SameOwners
<1> QED
    BY <1>3, <1>5, <1>6, KeptNetOK, OneViewOK

(* What the file holds is not behind the own vote, and a node is never       *)
(* behind the epochs of its view.                                            *)
LEMMA ClRestartOK ==
    ASSUME NEW N, NEW D, ClInv(N, D), NEW n \in N, ClRestart(n)
    PROVE  ClInv(N, D)' /\ ViewsStep(N, D)
<1> DEFINE r == clN[n]
           S == {r.saved} \cup {r.epoch[k] : k \in N}
           c == Max(S)
           t == [r EXCEPT !.st = "none", !.aepoch = 0, !.count = 0,
                          !.mf = FALSE, !.held = {}, !.cur = c]
<1>1. NodeOK(r, n, N, D) /\ ClNode = N
    BY DEF ClInv, ClNode
<1>2. ClBecomes(n, t) /\ clNet' \subseteq clNet /\ clVotes' = clVotes
    BY <1>1 DEF ClRestart
<1> HIDE DEF r
<1>3. /\ r \in ClView(N, D) /\ r.saved \in Nat /\ r.cur \in Nat /\ r.epoch \in [N -> Nat]
      /\ r.voted \in Nat /\ r.saved <= r.cur /\ \A k \in N : r.epoch[k] <= r.cur
    BY <1>1 DEF NodeOK, ClView
<1>4. c \in S /\ \A x \in S : x <= c
  <2>1. S \in SUBSET Nat /\ S # {} /\ \A x \in S : x <= r.cur
      BY <1>3
  <2> QED
      BY <1>3, <2>1, MaxOfNats
<1>5. c \in Nat /\ r.saved <= c /\ \A k \in N : r.epoch[k] <= c
    BY <1>3, <1>4
<1> HIDE DEF S, c
<1>6. /\ t \in ClView(N, D) /\ t.of = r.of /\ t.slots = r.slots /\ t.epoch = r.epoch
      /\ t.voted = r.voted /\ t.saved = r.saved /\ t.cur = c /\ t.aepoch = 0
    BY <1>3, <1>5 DEF ClView
<1> HIDE DEF t
<1>7. NodeOK(t, n, N, D)
    BY <1>1, <1>5, <1>6 DEF NodeOK
<1>8. ViewStep(r, t, n, N, D)
    BY <1>3, <1>6 DEF ViewStep
<1> QED
    BY <1>2, <1>7, <1>8, KeptNetOK, OneViewOK DEF r

LEMMA ClStepOK ==
    ASSUME NEW N, NEW D, ClInv(N, D), [ClNext]_clVars
    PROVE  ClInv(N, D)' /\ ViewsStep(N, D)
<1>1. ClNode = N
    BY DEF ClInv, ClNode
<1>2. CASE UNCHANGED clVars
    BY <1>2, NoViewOK DEF clVars
<1>3. ASSUME NEW n \in N, NEW x \in N, Heartbeat(x, n) \/ markNodeAsFailingIfNeeded(n, x)
      PROVE  ClInv(N, D)' /\ ViewsStep(N, D)
    BY <1>3, HeartbeatOK, QuietOK
<1>4. ASSUME NEW msg \in clNet, CountVote(msg) \/ clusterSendFailoverAuthIfNeeded(msg)
      PROVE  ClInv(N, D)' /\ ViewsStep(N, D)
    BY <1>4, CountVoteOK, FailoverAuthOK
<1>5. ASSUME NEW n \in N,
             \/ ScheduleElection(n) \/ clusterRequestFailoverAuth(n)
             \/ ElectionExpires(n) \/ LookAgain(n)
             \/ TakeOver(n) \/ ForceFailover(n) \/ manualFailoverCheckTimeout(n)
      PROVE  ClInv(N, D)' /\ ViewsStep(N, D)
    BY <1>5, QuietOK, RequestFailoverAuthOK, LookAgainOK, TakeOverOK
<1>6. ASSUME NEW n \in N, ClCrash(n) \/ Isolate(n) \/ Rejoin(n)
      PROVE  ClInv(N, D)' /\ ViewsStep(N, D)
    BY <1>6, NoViewOK DEF ClCrash, Isolate, Rejoin, InTime
<1>7. ASSUME NEW n \in N, ClRestart(n)
      PROVE  ClInv(N, D)' /\ ViewsStep(N, D)
    BY <1>7, ClRestartOK
<1> QED
    BY <1>1, <1>2, <1>3, <1>4, <1>5, <1>6, <1>7 DEF ClNext

(* The epochs to begin with are 1, 2, ... up to the number of masters.       *)
LEMMA FirstEpochs ==
    ASSUME NEW c \in ClInstances, NEW n \in DOMAIN c.master
    PROVE  /\ FirstCur(c) \in Nat
           /\ \A k \in DOMAIN c.master : FirstEpoch(c, k) \in Nat /\ FirstEpoch(c, k) <= FirstCur(c)
<1> DEFINE N == DOMAIN c.master
           upto(m) == {k \in N : k <= m /\ c.master[k] = NoNode}
           S == {FirstEpoch(c, k) : k \in N}
<1>1. IsFiniteSet(N)
    BY ClAssumption
<1>2. \A m : IsFiniteSet(upto(m)) /\ Cardinality(upto(m)) <= Cardinality(N)
    BY <1>1, FS_Subset, \A m : upto(m) \subseteq N
<1>3. Cardinality(N) \in Nat /\ \A m : Cardinality(upto(m)) \in Nat
    BY <1>1, <1>2, FS_CardinalityType
<1>4. \A k \in N : \E m : FirstEpoch(c, k) = Cardinality(upto(m))
    BY DEF FirstEpoch
<1> HIDE DEF upto
<1>5. \A k \in N : FirstEpoch(c, k) \in Nat /\ FirstEpoch(c, k) <= Cardinality(N)
    BY <1>2, <1>3, <1>4
<1>6. Max(S) \in S /\ \A x \in S : x <= Max(S)
  <2>1. S \in SUBSET Nat /\ S # {} /\ \A x \in S : x <= Cardinality(N)
      BY <1>5
  <2> HIDE DEF S
  <2> QED
      BY <1>3, <2>1, MaxOfNats
<1> QED
    BY <1>5, <1>6 DEF FirstCur

LEMMA ClInitOK == ClInit => \E N, D : ClInv(N, D)
<1> SUFFICES ASSUME NEW c \in ClInstances,
                    clN = [n \in DOMAIN c.master |-> Node0(c, n)],
                    clNet = {}, clVotes = {}
             PROVE  \E N, D : ClInv(N, D)
    BY DEF ClInit
<1> DEFINE N == DOMAIN c.master
           D == DOMAIN c.owner
<1>1. /\ Nodes(N)
      /\ c.master \in [N -> N \cup {NoNode}]
      /\ \A n \in N : c.master[n] # NoNode => c.master[c.master[n]] = NoNode
      /\ c.owner \in [D -> N]
      /\ \A s \in D : c.master[c.owner[s]] = NoNode
    BY ClAssumption DEF Nodes
<1>2. ASSUME NEW n \in N
      PROVE  NodeOK(clN[n], n, N, D)
  <2> DEFINE e == [k \in N |-> IF k = n /\ c.master[n] # NoNode THEN 0 ELSE FirstEpoch(c, k)]
  <2>1. FirstCur(c) \in Nat /\ \A k \in N : e[k] \in Nat /\ e[k] <= FirstCur(c)
      BY FirstEpochs
  <2>2. e = [k \in N |-> e[k]]
      OBVIOUS
  <2>3. clN[n] = [cur |-> FirstCur(c), saved |-> FirstCur(c), voted |-> 0, of |-> c.master,
                  epoch |-> e, slots |-> c.owner, fail |-> {}, held |-> {},
                  st |-> "none", aepoch |-> 0, count |-> 0, mf |-> FALSE]
      BY DEF Node0
  <2> HIDE DEF e
  <2>4. e \in [N -> Nat]
      BY <2>1, <2>2
  <2>5. c.master[n] # n
      BY <1>1 DEF Nodes
  <2>6. clN[n] \in ClView(N, D)
    <3> DEFINE m == c.master
               o == c.owner
               f == FirstCur(c)
    <3>1. /\ m \in [N -> N \cup {NoNode}] /\ o \in [D -> N \cup {NoNode}] /\ f \in Nat
          /\ {} \in SUBSET N
        BY <1>1, <2>1
    <3> HIDE DEF m, o, f, N, D
    <3>2. [cur |-> f, saved |-> f, voted |-> 0, of |-> m, epoch |-> e, slots |-> o,
           fail |-> {}, held |-> {}, st |-> "none", aepoch |-> 0, count |-> 0,
           mf |-> FALSE] \in ClView(N, D)
        BY <2>4, <3>1 DEF ClView
    <3> QED
        BY <2>3, <3>2 DEF m, o, f
  <2> QED
      BY <1>1, <2>1, <2>3, <2>4, <2>5, <2>6 DEF NodeOK
<1>3. DOMAIN clN = N /\ clN = [n \in N |-> clN[n]]
    OBVIOUS
<1>4. ClInv(N, D)
    BY <1>1, <1>2, <1>3 DEF ClInv, OneVotePerClEpoch
<1> QED
    BY <1>4

-----------------------------------------------------------------------------
(* The theorems about Cluster.                                               *)

ClusterInv == \E N, D : ClInv(N, D)

\* No node ever goes back to an older configuration epoch of another, and in no
\* view does a slot pass from one owner to another without a greater epoch,
\* except to the node itself when it takes the place of its master.
ViewsMoveForward ==
    [][\A n \in ClNode :
        LET r == clN[n]
            t == clN'[n]
        IN  /\ \A k \in ClNode : t.epoch[k] >= r.epoch[k]
            /\ \A s \in DOMAIN r.slots :
                NoNode \notin {r.slots[s], t.slots[s]} /\ r.slots[s] # t.slots[s]
                    => \/ t.epoch[t.slots[s]] > r.epoch[r.slots[s]]
                       \/ t.slots[s] = n /\ r.slots[s] = r.of[n]]_clVars

(* The inductive invariant: roles, slots and epochs of a view fit together,  *)
(* the own vote is in the file, and messages claim no epoch that is newer    *)
(* than the currentEpoch they carry (clusterProcessPacket, clusterLoadConfig, *)
(* clusterSaveConfig).                                                       *)
THEOREM ClusterInvariant == ClSpec => []ClusterInv
<1>1. ClInit => ClusterInv
    BY ClInitOK DEF ClusterInv
<1>2. ClusterInv /\ [ClNext]_clVars => ClusterInv'
    BY ClStepOK DEF ClusterInv
<1> QED
    BY <1>1, <1>2, PTL DEF ClSpec

LEMMA ClusterInvTypes == ClusterInv => ClTypeOK
<1> SUFFICES ASSUME NEW N, NEW D, ClInv(N, D) PROVE ClTypeOK
    BY DEF ClusterInv
<1>1. ClNode = N
    BY DEF ClInv, ClNode
<1>2. ASSUME NEW n \in N
      PROVE  /\ clN[n].of \in [N -> N \cup {NoNode}]
             /\ clN[n].of[n] # n
             /\ \A s \in DOMAIN clN[n].slots :
                    clN[n].slots[s] # NoNode => nodeIsMaster(clN[n], clN[n].slots[s])
             /\ \A k \in N : clN[n].epoch[k] <= clN[n].cur
             /\ clN[n].voted <= clN[n].cur
             /\ clN[n].st \in {"none", "scheduled", "sent"}
  <2> DEFINE r == clN[n]
  <2>1. NodeOK(r, n, N, D)
      BY DEF ClInv
  <2> HIDE DEF r
  <2> QED
      BY <2>1 DEF NodeOK, ClView, nodeIsMaster, r
<1> QED
    BY <1>1, <1>2 DEF ClTypeOK

(* ClTypeOK for all clusters: a slot belongs to a master of the same view    *)
(* and no node is behind the epochs it has seen, restarts included.          *)
THEOREM ClusterTypes == ClSpec => []ClTypeOK
BY ClusterInvariant, ClusterInvTypes, PTL

(* No master votes for two replicas in one epoch, crashes and requests that  *)
(* come late included (clusterSendFailoverAuthIfNeeded).                     *)
THEOREM ClusterVotesOnce == ClSpec => []OneVotePerClEpoch
<1>1. ClusterInv => OneVotePerClEpoch
    BY DEF ClusterInv, ClInv
<1> QED
    BY <1>1, ClusterInvariant, PTL

(* ViewsMoveForward for all clusters, operators who take over included       *)
(* (clusterUpdateSlotsConfigWith, clusterFailoverReplaceYourMaster).         *)
THEOREM ClusterViewsMoveForward == ClSpec => ViewsMoveForward
<1> DEFINE A == \A n \in ClNode :
        LET r == clN[n]
            t == clN'[n]
        IN  /\ \A k \in ClNode : t.epoch[k] >= r.epoch[k]
            /\ \A s \in DOMAIN r.slots :
                NoNode \notin {r.slots[s], t.slots[s]} /\ r.slots[s] # t.slots[s]
                    => \/ t.epoch[t.slots[s]] > r.epoch[r.slots[s]]
                       \/ t.slots[s] = n /\ r.slots[s] = r.of[n]
<1>1. ClusterInv /\ [ClNext]_clVars => [A]_clVars
  <2> SUFFICES ASSUME NEW N, NEW D, ClInv(N, D), [ClNext]_clVars PROVE A
      BY DEF ClusterInv
  <2>1. ClNode = N /\ ViewsStep(N, D)
      BY ClStepOK DEF ClInv, ClNode
  <2>2. \A n \in N : DOMAIN clN[n].slots = D
      BY DEF ClInv, NodeOK, ClView
  <2> QED
      BY <2>1, <2>2 DEF ViewsStep, ViewStep
<1> QED
    BY <1>1, ClusterInvariant, PTL DEF ClSpec, ViewsMoveForward

-----------------------------------------------------------------------------
(* The type invariant of the run that checks both.                           *)

THEOREM RedisHATypes == RedisHASpec => []RedisHATypeOK
<1> DEFINE Inv == SnInv /\ ClusterInv
<1>1. RedisHAInit => Inv
    BY SnInitOK, ClInitOK DEF RedisHAInit, ClusterInv
<1>2. Inv /\ [RedisHANext]_<<part, snVars, clVars>> => Inv'
  <2> SUFFICES ASSUME Inv, [RedisHANext]_<<part, snVars, clVars>> PROVE Inv'
      OBVIOUS
  <2>1. [SnNext]_snVars /\ [ClNext]_clVars
      BY DEF RedisHANext
  <2> QED
      BY <2>1, SnStepOK, ClStepOK DEF ClusterInv
<1>3. Inv => RedisHATypeOK
    BY SnInvTypes, ClusterInvTypes DEF RedisHATypeOK
<1> QED
    BY <1>1, <1>2, <1>3, PTL DEF RedisHASpec
=============================================================================
