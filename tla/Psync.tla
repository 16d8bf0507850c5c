------------------------------- MODULE Psync --------------------------------
(* Replication of Redis 6.2.6 (replication.c): the backlog, the two          *)
(* replication IDs, partial and full resynchronisation, chained replicas,    *)
(* REPLICAOF, restarts that resume from the ID in the RDB file, and the      *)
(* coordinated FAILOVER.  An offset counts commands instead of bytes.        *)
EXTENDS Integers, FiniteSets, SequencesExt

CONSTANTS
    PsServer,       \* the servers
    NoServer,       \* masterhost = NULL
    PsDb,           \* databases that are written to
    Topologies,     \* initial replicaof settings: [PsServer -> ...]
    FirstIds,       \* initial replication IDs
    BacklogSize,    \* repl_backlog_size
    MaxStream,      \* bound: writes and PINGs
    MaxOff,         \* bound: offsets
    MaxOps          \* bound: operator commands, restarts and lost links

\* Bound: at first a replica has a master, or its master has one.
InitialChainsEnd(top) ==
    \A n \in PsServer :
        /\ top[n] # n
        /\ top[n] # NoServer /\ top[top[n]] # NoServer =>
                top[top[top[n]]] = NoServer

ASSUME PsAssumption ==
    /\ IsFiniteSet(PsServer)
    /\ NoServer \notin PsServer
    /\ PsDb \subseteq Nat
    /\ Topologies \subseteq [PsServer -> PsServer \cup {NoServer}]
    /\ \A top \in Topologies : InitialChainsEnd(top)
    /\ FirstIds \subseteq Injection(PsServer, 1 .. Cardinality(PsServer))
    /\ BacklogSize \in Nat \ {0}
    /\ {MaxStream, MaxOff, MaxOps} \subseteq Nat

VARIABLES
    psS,        \* the servers
    psL,        \* each server's link to its master, as both ends see it
    psIds,      \* the next random replication ID
    psWrites,   \* writes and PINGs so far
    psOps,      \* what is left of MaxOps
    psHeir      \* history: the master that chose this server to take over when
                \* it was online and had everything, unless it was started
                \* again from older data or given another master since
psVars == <<psS, psL, psIds, psWrites, psOps, psHeir>>

NoDatabase == -1
NoId == 0
\* data: what the writes have made; db: the database selected by the master
\* client or the cached master, NoDatabase if there is neither; log, on: the
\* backlog; sel: slaveseldb; saved: the RDB file with its replication info.
Server0(master, id) ==
    [data |-> <<>>, id |-> id, id2 |-> NoId, upto |-> -1, off |-> 0,
     on |-> FALSE, log |-> <<>>, sel |-> NoDatabase, master |-> master,
     db |-> NoDatabase, fail |-> "none", force |-> FALSE, target |-> NoServer,
     saved |-> [data |-> <<>>, id |-> NoId, off |-> -1, db |-> NoDatabase]]
\* st: repl_state of the replica; sl: how its master treats it; open: the
\* master has not closed it; id, off, snap, db: the reply and the RDB file;
\* buf: the stream that is on its way; ack: repl_ack_off.
Link0(st) == [st |-> st, sl |-> "none", open |-> TRUE, id |-> NoId, off |-> 0,
              snap |-> <<>>, db |-> NoDatabase, buf |-> <<>>, ack |-> 0]

Sel(d) == <<"select", d>>
Wr(i) == <<"write", i>>
Ping == <<"ping", 0>>

PsWorld == [s |-> psS, l |-> psL, ids |-> psIds]
PsBecomes(w) == \E v \in {w} : psS' = v.s /\ psL' = v.l /\ psIds' = v.ids

IsReplica(w, n) == w.s[n].master # NoServer
Slaves(w, n) == {k \in PsServer : w.s[k].master = n /\ w.l[k].open /\
                                  w.l[k].sl \in {"start", "end", "send", "online"}}
Fed(w, n) == {k \in Slaves(w, n) : w.l[k].sl # "start"}

-----------------------------------------------------------------------------
(* The backlog and the stream.                                               *)

LastItems(log) == SubSeq(log, Len(log) - BacklogSize + 1, Len(log))

feedReplicationBacklog(r, items) ==
    LET log == r.log \o items
    IN  IF ~r.on THEN r
        ELSE [r EXCEPT !.off = @ + Len(items),
                       !.log = IF Len(log) > BacklogSize THEN LastItems(log)
                               ELSE log]

FeedSlaves(w, n, items) ==
    [w EXCEPT !.s[n] = feedReplicationBacklog(@, items),
              !.l = [k \in PsServer |->
                        IF k \in Fed(w, n) THEN [w.l[k] EXCEPT !.buf = @ \o items]
                        ELSE w.l[k]]]

\* A master without backlog has no replicas and does not count the command.
replicationFeedSlaves(w, n, d, item) ==
    IF ~w.s[n].on THEN w
    ELSE FeedSlaves([w EXCEPT !.s[n].sel = d], n,
                    IF w.s[n].sel # d THEN <<Sel(d), item>> ELSE <<item>>)

createReplicationBacklog(r) == [r EXCEPT !.on = TRUE, !.log = <<>>]
freeReplicationBacklog(r) == [r EXCEPT !.on = FALSE, !.log = <<>>]

changeReplicationId(w, n) == [w EXCEPT !.s[n].id = w.ids, !.ids = @ + 1]
clearReplicationId2(w, n) == [w EXCEPT !.s[n].id2 = NoId, !.s[n].upto = -1]

\* Mutant: the second ID is valid beyond what this server has.
shiftReplicationIdFar(w, n) ==
    changeReplicationId([w EXCEPT !.s[n].id2 = w.s[n].id,
                                  !.s[n].upto = w.s[n].off + 2], n)

\* Mutant: the server goes on with the ID of its master.
shiftReplicationIdSame(w, n) ==
    [w EXCEPT !.s[n].id2 = w.s[n].id, !.s[n].upto = w.s[n].off + 1]

shiftReplicationId(w, n) ==
    changeReplicationId([w EXCEPT !.s[n].id2 = w.s[n].id,
                                  !.s[n].upto = w.s[n].off + 1], n)

\* Closing(w, ks): the servers in ks are cut off from their masters.
Closing(w, ks) == [w EXCEPT !.l = [k \in PsServer |->
                        [w.l[k] EXCEPT !.open = @ /\ k \notin ks]]]

disconnectSlaves(w, n) == Closing(w, Slaves(w, n))

-----------------------------------------------------------------------------
(* Changing the role.                                                        *)

replicationUnsetMaster(w, n) ==
    LET a == [w EXCEPT !.s[n].master = NoServer, !.s[n].db = NoDatabase,
                       !.l[n] = Link0("none")]
    IN  IF ~IsReplica(w, n) THEN w
        ELSE [disconnectSlaves(shiftReplicationId(a, n), n)
                EXCEPT !.s[n].sel = NoDatabase]

\* A master caches itself; a replica keeps the master client it has cached.
replicationSetMaster(w, n, m) ==
    LET was_master == ~IsReplica(w, n)
        a == disconnectSlaves([w EXCEPT !.s[n].master = m,
                                        !.l[n] = Link0("connect")], n)
    IN  IF was_master THEN [a EXCEPT !.s[n].db = 0] ELSE a

clearFailoverState(w, n) ==
    [w EXCEPT !.s[n].fail = "none", !.s[n].force = FALSE,
              !.s[n].target = NoServer]

abortFailover(w, n) ==
    clearFailoverState(IF w.s[n].fail = "progress"
                       THEN replicationUnsetMaster(w, n) ELSE w, n)

-----------------------------------------------------------------------------
(* The master's side of a synchronisation.                                   *)

\* Is offset off of the history named id one that r has, too?
KnownHistory(r, id, off) ==
    \/ id = r.id
    \/ id = r.id2 /\ off <= r.upto

InBacklog(r, off) ==
    LET first == r.off - Len(r.log) + 1
    IN  r.on /\ off >= first /\ off <= first + Len(r.log)

\* The replica that asks has a cached master, or sends "?".
masterTryPartialResynchronization(w, m, n) ==
    LET off == w.s[n].off + 1
        r == w.s[m]
    IN  w.s[n].db # NoDatabase /\ KnownHistory(r, w.s[n].id, off)
            /\ InBacklog(r, off)

addReplyReplicationBacklog(r, off) ==
    SubSeq(r.log, off - (r.off - Len(r.log)), Len(r.log))

StreamDb(r) == IF r.master # NoServer THEN r.db
               ELSE IF r.sel = NoDatabase THEN 0 ELSE r.sel

\* The fork, and replicationSetupSlaveForFullResync for those that wait.
startBgsaveForReplication(w, m) ==
    [w EXCEPT !.s[m].sel = NoDatabase, !.l =
        [k \in PsServer |->
            IF k \in Slaves(w, m) \ Fed(w, m)
            THEN [w.l[k] EXCEPT !.sl = "end", !.id = w.s[m].id,
                    !.off = w.s[m].off, !.snap = w.s[m].data,
                    !.db = StreamDb(w.s[m])]
            ELSE w.l[k]]]

\* Another child may be active (busy): the replica then waits for the cron.
FullResync(w, m, n, busy) ==
    LET a == [w EXCEPT !.l[n].sl = "start"]
        b == IF w.s[m].on THEN a
             ELSE [clearReplicationId2(changeReplicationId(a, m), m)
                    EXCEPT !.s[m] = createReplicationBacklog(@)]
        dumped == {k \in Slaves(w, m) : w.l[k].sl = "end"}
    IN  IF dumped # {}
        THEN LET k == CHOOSE k \in dumped : TRUE
             IN  [b EXCEPT !.l[n] = [b.l[k] EXCEPT !.st = "psync", !.ack = 0],
                           !.s[m].sel = NoDatabase]
        ELSE IF busy THEN b ELSE startBgsaveForReplication(b, m)

\* PSYNC from n is handled by its master m.
syncCommand(w, m, n, busy) ==
    LET wanted == w.s[n].fail = "progress"
        a == IF wanted THEN replicationUnsetMaster(w, m) ELSE w
        off == a.s[n].off + 1
    IN  IF wanted /\ (~IsReplica(w, m) \/ w.s[m].id # w.s[n].id)
        THEN [w EXCEPT !.l[n].sl = "err"]
        ELSE IF a.s[m].fail # "none"
        THEN [a EXCEPT !.l[n].sl = "nolink"]
        ELSE IF IsReplica(a, m) /\ a.l[m].st # "online"
        THEN [a EXCEPT !.l[n].sl = "nolink"]
        ELSE IF masterTryPartialResynchronization(a, m, n)
        THEN [a EXCEPT !.l[n] = [@ EXCEPT !.sl = "online", !.id = a.s[m].id,
                            !.buf = addReplyReplicationBacklog(a.s[m], off)]]
        ELSE FullResync(a, m, n, busy)

\* Connecting, the handshake, and PSYNC with the cached offset, to the moment
\* the master handles it: nothing of n that matters can change meanwhile.
slaveTryPartialResynchronization(n) ==
    LET asked == [PsWorld EXCEPT !.l[n] = Link0("psync")]
    IN  /\ psL[n].st = "connect"
        /\ \E busy \in BOOLEAN :
                PsBecomes(syncCommand(asked, psS[n].master, n, busy))
        /\ UNCHANGED <<psWrites, psOps, psHeir>>

\* Mutant: it starts none while another replica is being fed.
replicationStartPendingForkAlone(m) ==
    /\ \E k \in Slaves(PsWorld, m) : psL[k].sl = "start"
    /\ Fed(PsWorld, m) = {}
    /\ PsBecomes(startBgsaveForReplication(PsWorld, m))
    /\ UNCHANGED <<psWrites, psOps, psHeir>>

\* The cron starts the child that replicas wait for.
replicationStartPendingFork(m) ==
    /\ \E k \in Slaves(PsWorld, m) : psL[k].sl = "start"
    /\ ~\E k \in Slaves(PsWorld, m) : psL[k].sl = "end"
    /\ PsBecomes(startBgsaveForReplication(PsWorld, m))
    /\ UNCHANGED <<psWrites, psOps, psHeir>>

\* The child has written the file.
updateSlavesWaitingBgsave(m) ==
    /\ \E k \in Slaves(PsWorld, m) : psL[k].sl = "end"
    /\ psL' = [k \in PsServer |->
                IF k \in Slaves(PsWorld, m) /\ psL[k].sl = "end"
                THEN [psL[k] EXCEPT !.sl = "send"] ELSE psL[k]]
    /\ UNCHANGED <<psS, psIds, psWrites, psOps, psHeir>>

-----------------------------------------------------------------------------
(* The replica's side.                                                       *)

\* The master has another ID now.
AdoptId(w, n) ==
    disconnectSlaves([w EXCEPT !.s[n].id2 = w.s[n].id,
                               !.s[n].upto = w.s[n].off + 1,
                               !.s[n].id = w.l[n].id], n)

ReadContinue(w, n) ==
    LET a == IF w.l[n].id # w.s[n].id THEN AdoptId(w, n) ELSE w
    IN  [a EXCEPT !.l[n].st = "online",
                  !.s[n] = IF @.on THEN @ ELSE createReplicationBacklog(@)]

\* The cached master goes, and so do the replicas and the backlog.
ReadFullResync(w, n) ==
    [disconnectSlaves(w, n) EXCEPT !.l[n].st = "transfer",
            !.s[n] = freeReplicationBacklog([@ EXCEPT !.db = NoDatabase])]

\* The reply to PSYNC is read.
syncWithMaster(n) ==
    LET w == PsWorld
        over == w.s[n].fail = "progress"
        cleared == IF over THEN clearFailoverState(w, n) ELSE w
    IN  /\ w.l[n].st = "psync"
        /\ \/ /\ w.l[n].sl = "online"
              /\ PsBecomes(ReadContinue(cleared, n))
           \/ /\ w.l[n].sl \in {"end", "send"}
              /\ PsBecomes(ReadFullResync(cleared, n))
           \/ /\ w.l[n].sl \in {"nolink", "err"}
              /\ PsBecomes(IF over THEN abortFailover(w, n)
                         ELSE [w EXCEPT !.l[n] = Link0("connect")])
        /\ UNCHANGED <<psWrites, psOps, psHeir>>

LoadedDb(l) == l.db

\* The RDB file has arrived and is loaded.
readSyncBulkPayload(n) ==
    LET l == psL[n]
        r == [psS[n] EXCEPT !.data = l.snap, !.id = l.id, !.id2 = NoId,
                !.upto = -1, !.off = l.off, !.db = LoadedDb(l),
                !.saved = [data |-> l.snap, id |-> l.id, off |-> l.off,
                           db |-> l.db]]
    IN  /\ l.st = "transfer" /\ l.sl = "send"
        /\ PsBecomes([PsWorld EXCEPT !.l[n].st = "online", !.l[n].sl = "online",
                                 !.s[n] = IF r.on THEN r
                                          ELSE createReplicationBacklog(r)])
        /\ UNCHANGED <<psWrites, psOps, psHeir>>

\* The old data are gone and the file cannot be loaded.
LoadingFails(n) ==
    /\ psL[n].st = "transfer" /\ psL[n].sl = "send" /\ psOps > 0
    /\ psS' = [psS EXCEPT ![n].data = <<>>]
    /\ psL' = [psL EXCEPT ![n] = Link0("connect")]
    /\ psOps' = psOps - 1
    /\ UNCHANGED <<psIds, psWrites, psHeir>>

\* A command of the stream is executed and passed on to the replicas
\* (replicationFeedSlavesFromMasterStream).
commandProcessed(n) ==
    LET item == Head(psL[n].buf)
        a == [PsWorld EXCEPT !.l[n].buf = Tail(@)]
        b == CASE item[1] = "select" -> [a EXCEPT !.s[n].db = item[2]]
               [] item[1] = "write" ->
                    [a EXCEPT !.s[n].data = Append(@, <<item[2], a.s[n].db>>)]
               [] OTHER -> a
    IN  /\ psL[n].st = "online" /\ psL[n].buf # <<>>
        /\ PsBecomes(FeedSlaves(b, n, <<item>>))
        /\ UNCHANGED <<psWrites, psOps, psHeir>>

\* REPLCONF ACK: those that come while the master waits to fail over.
replicationSendAck(n) ==
    /\ psL[n].st = "online" /\ psL[n].open /\ psL[n].ack # psS[n].off
    /\ psS[psS[n].master].fail = "wait"
    /\ psL' = [psL EXCEPT ![n].ack = psS[n].off]
    /\ UNCHANGED <<psS, psIds, psWrites, psOps, psHeir>>

\* The cached master goes as with a full resynchronisation; SYNC, which is
\* tried next, does not help on a broken link.
PsyncNotSupported(w, n) == [ReadFullResync(w, n) EXCEPT !.l[n] = Link0("connect")]

\* PSYNC cannot be sent, or its reply cannot be read.  Without a FAILOVER an
\* error of the former only closes the link.
syncWithMasterError(n) ==
    LET w == PsWorld
        over == w.s[n].fail = "progress"
    IN  /\ w.l[n].st \in IF over THEN {"connect", "psync"} ELSE {"psync"}
        /\ \/ ~w.l[n].open /\ UNCHANGED psOps
           \/ psOps > 0 /\ psOps' = psOps - 1
        /\ PsBecomes(IF over THEN abortFailover(w, n) ELSE PsyncNotSupported(w, n))
        /\ UNCHANGED <<psWrites, psHeir>>

\* The link ends at the replica: a time-out, or the end of what the socket
\* still had.  The master is cached if it was connected
\* (replicationCacheMaster, replicationHandleMasterDisconnection).
LoseMaster(n) ==
    /\ psL[n].st \in {"psync", "transfer", "online"}
    /\ \/ ~psL[n].open /\ UNCHANGED psOps
       \/ psOps > 0 /\ psOps' = psOps - 1
    /\ psL' = [psL EXCEPT ![n] = Link0("connect")]
    /\ UNCHANGED <<psS, psIds, psWrites, psHeir>>

\* The master closes the link (time-out, output buffer limit, failed BGSAVE).
freeSlave(n) ==
    /\ psL[n].sl # "none" /\ psL[n].open /\ psOps > 0
    /\ psL' = [psL EXCEPT ![n].open = FALSE]
    /\ psOps' = psOps - 1
    /\ UNCHANGED <<psS, psIds, psWrites, psHeir>>

-----------------------------------------------------------------------------
(* Clients, operators and the cron.                                          *)

\* A write; none is accepted while a FAILOVER has paused the clients.
PsWrite(n, d) ==
    /\ ~IsReplica(PsWorld, n) /\ psS[n].fail = "none"
    /\ psWrites < MaxStream /\ psS[n].off + 2 <= MaxOff
    /\ psWrites' = psWrites + 1
    /\ PsBecomes(replicationFeedSlaves(
            [PsWorld EXCEPT !.s[n].data = Append(@, <<psWrites + 1, d>>)],
            n, d, Wr(psWrites + 1)))
    /\ UNCHANGED <<psOps, psHeir>>

\* PING to the replicas, in whatever database the stream is.
CronPing(n) ==
    /\ ~IsReplica(PsWorld, n) /\ Slaves(PsWorld, n) # {}
    /\ psWrites < MaxStream /\ psS[n].off < MaxOff
    /\ psWrites' = psWrites + 1
    /\ PsBecomes(replicationFeedSlaves(PsWorld, n, psS[n].sel, Ping))
    /\ UNCHANGED <<psOps, psHeir>>

\* A master without replicas frees its backlog after a while.
CronFreeBacklog(n) ==
    /\ ~IsReplica(PsWorld, n) /\ psS[n].on /\ Slaves(PsWorld, n) = {} /\ psOps > 0
    /\ PsBecomes([clearReplicationId2(changeReplicationId(PsWorld, n), n)
                    EXCEPT !.s[n] = freeReplicationBacklog(@)])
    /\ psOps' = psOps - 1
    /\ UNCHANGED <<psWrites, psHeir>>

\* Bound: operators make no circles.
Below(n) == {k \in PsServer : \/ psS[k].master = n
                              \/ \E j \in PsServer : psS[k].master = j /\ psS[j].master = n}

replicaofCommand(n, m) ==
    /\ psOps > 0 /\ psS[n].fail = "none" /\ psS[n].master # m
    /\ m \notin Below(n) \cup {n}
    /\ PsBecomes(IF m = NoServer THEN replicationUnsetMaster(PsWorld, n)
               ELSE replicationSetMaster(PsWorld, n, m))
    /\ psOps' = psOps - 1
    /\ psHeir' = [psHeir EXCEPT ![n] = NoServer]
    /\ UNCHANGED psWrites

\* BGSAVE with rdbPopulateSaveInfo: no replication info for a master without
\* backlog and for a replica that has no master, not even a cached one.
rdbPopulateSaveInfo(n) ==
    LET r == psS[n]
        known == IF IsReplica(PsWorld, n) THEN r.db # NoDatabase ELSE r.on
    IN  /\ psOps > 0
        /\ psS' = [psS EXCEPT ![n].saved =
                [data |-> r.data, id |-> IF known THEN r.id ELSE NoId,
                 off |-> r.off,
                 db |-> IF known THEN StreamDb(r) ELSE NoDatabase]]
        /\ psOps' = psOps - 1
        /\ UNCHANGED <<psL, psIds, psWrites, psHeir>>

\* The process ends and starts again (loadDataFromDisk), as replica of the
\* server it was configured with or as a master.
loadDataFromDisk(n, m) ==
    LET f == psS[n].saved
        r == [Server0(m, psIds) EXCEPT !.data = f.data, !.saved = f]
        resumed == [r EXCEPT !.id = f.id, !.off = f.off, !.db = f.db]
        closed == Closing(PsWorld, {k \in PsServer : psS[k].master = n})
    IN  /\ psOps > 0 /\ m \in {psS[n].master, NoServer}
        /\ psS' = [psS EXCEPT ![n] = IF m # NoServer /\ f.id # NoId THEN resumed
                                     ELSE r]
        /\ psL' = [closed.l EXCEPT ![n] =
                    Link0(IF m = NoServer THEN "none" ELSE "connect")]
        /\ psIds' = psIds + 1
        /\ psOps' = psOps - 1
        /\ psHeir' = IF f.data = psS[n].data THEN psHeir
                     ELSE [psHeir EXCEPT ![n] = NoServer]
        /\ UNCHANGED psWrites

\* FAILOVER [TO t [FORCE]]
failoverCommand(n, t, force) ==
    /\ psOps > 0 /\ psS[n].fail = "none" /\ ~IsReplica(PsWorld, n)
    /\ Slaves(PsWorld, n) # {}
    /\ t # NoServer => t \in Slaves(PsWorld, n) /\ psL[t].sl \in {"send", "online"}
    /\ force => t # NoServer
    /\ psS' = [psS EXCEPT ![n].fail = "wait", ![n].force = force,
                          ![n].target = t]
    /\ psOps' = psOps - 1
    /\ UNCHANGED <<psL, psIds, psWrites, psHeir>>

\* Mutant: the replica that is to take over need not have everything.
CaughtUpAny(n, t) == t \in Slaves(PsWorld, n)

CaughtUp(n, t) == t \in Slaves(PsWorld, n) /\ psL[t].ack = psS[n].off

\* Cron: hand over to a replica that has everything; or the time is up.
updateFailoverStatus(n) ==
    /\ psS[n].fail = "wait"
    /\ \/ \E t \in PsServer :
            /\ psS[n].target \in {t, NoServer}
            /\ CaughtUp(n, t) \/ psS[n].force
            /\ PsBecomes(replicationSetMaster(
                [PsWorld EXCEPT !.s[n].fail = "progress", !.s[n].target = t], n, t))
            /\ psHeir' = [psHeir EXCEPT ![n] = NoServer, ![t] =
                    IF CaughtUp(n, t) /\ psL[t].sl = "online" THEN n ELSE NoServer]
       \/ PsBecomes(abortFailover(PsWorld, n)) /\ UNCHANGED psHeir
    /\ UNCHANGED <<psWrites, psOps>>

FailoverAbort(n) ==
    /\ psS[n].fail = "progress" /\ psOps > 0
    /\ PsBecomes(abortFailover(PsWorld, n))
    /\ psOps' = psOps - 1
    /\ UNCHANGED <<psWrites, psHeir>>

-----------------------------------------------------------------------------
\* Replicas that were configured as such are synchronised, nothing is written.
Root(top, n) == IF top[top[n]] = NoServer THEN top[n] ELSE top[top[n]]

PsInit ==
    /\ \E top \in Topologies, id \in FirstIds :
        /\ psS = [n \in PsServer |->
                    LET r == Server0(top[n], id[n])
                    IN  IF top[n] = NoServer
                        THEN [r EXCEPT !.on = \E k \in PsServer : top[k] = n]
                        ELSE [r EXCEPT !.id = id[Root(top, n)], !.on = TRUE,
                                !.db = 0, !.saved.id = id[Root(top, n)],
                                !.saved.off = 0, !.saved.db = 0]]
        /\ psL = [n \in PsServer |->
                    IF top[n] = NoServer THEN Link0("none")
                    ELSE [Link0("online") EXCEPT !.sl = "online",
                                                 !.id = id[Root(top, n)]]]
    /\ psIds = Cardinality(PsServer) + 1
    /\ psWrites = 0
    /\ psOps = MaxOps
    /\ psHeir = [n \in PsServer |-> NoServer]

\* What the servers do by themselves, again and again.
PsProtocol(n) ==
    \/ slaveTryPartialResynchronization(n) \/ replicationStartPendingFork(n)
    \/ updateSlavesWaitingBgsave(n)
    \/ syncWithMaster(n) \/ readSyncBulkPayload(n) \/ commandProcessed(n)
    \/ replicationSendAck(n)
    \/ ~psL[n].open /\ (LoseMaster(n) \/ syncWithMasterError(n))

PsNext ==
    \E n \in PsServer :
        \/ PsProtocol(n)
        \/ LoadingFails(n) \/ LoseMaster(n) \/ syncWithMasterError(n) \/ freeSlave(n)
        \/ \E d \in PsDb : PsWrite(n, d)
        \/ CronPing(n) \/ CronFreeBacklog(n)
        \/ \E m \in PsServer \cup {NoServer} :
                replicaofCommand(n, m) \/ loadDataFromDisk(n, m)
        \/ rdbPopulateSaveInfo(n)
        \/ \E t \in PsServer \cup {NoServer}, force \in BOOLEAN :
                failoverCommand(n, t, force)
        \/ updateFailoverStatus(n) \/ FailoverAbort(n)

PsSpec == PsInit /\ [][PsNext]_psVars

\* replicationCron and the event loop come back to this again and again.
PsFairness ==
    \A n \in PsServer : /\ WF_psVars(PsProtocol(n))
                        /\ WF_psVars(updateFailoverStatus(n))

PsFairSpec == PsSpec /\ PsFairness

-----------------------------------------------------------------------------
\* What a replica with data and database db makes of a stream.
Executed(data, db, items) ==
    FoldLeft(LAMBDA s, it :
                CASE it[1] = "select" -> [s EXCEPT !.db = it[2]]
                  [] it[1] = "write" ->
                        [s EXCEPT !.data = Append(@, <<it[2], s.db>>)]
                  [] OTHER -> s,
             [data |-> data, db |-> db], items).data

\* Types; a replica that is connected has a backlog, so that syncCommand never
\* gives it a new ID; a master client or a cached one has a database.
PsTypeOK ==
    \A n \in PsServer :
        /\ psS[n].off \in 0 .. MaxOff
        /\ Len(psS[n].log) <= BacklogSize /\ Len(psS[n].log) <= psS[n].off
        /\ psS[n].id \in 1 .. psIds - 1 /\ psS[n].id2 \in 0 .. psIds - 1
        /\ psL[n].st = "online" => psS[n].on /\ psS[n].db \in PsDb \cup {0}
        /\ psL[n].st = "none" <=> psS[n].master = NoServer
        /\ psS[n].fail = "progress" => psS[n].master = psS[n].target

\* What is on its way to a replica is what it still lacks of its master's
\* data, in the right databases and at the right offsets: after a partial or a
\* full resynchronisation, through chains, and whatever IDs, restarts, freed
\* backlogs and lost links came before (masterTryPartialResynchronization,
\* shiftReplicationId, disconnectSlaves, replicationFeedSlavesFromMasterStream).
StreamCompletesReplica ==
    \A n \in PsServer :
        LET l == psL[n]
            m == psS[n].master
            loading == l.sl \in {"end", "send"}
            from == IF loading THEN [data |-> l.snap, db |-> l.db, off |-> l.off]
                    ELSE psS[n]
        IN  l.open /\ l.sl \in {"end", "send", "online"} =>
                /\ Executed(from.data, from.db, l.buf) = psS[m].data
                /\ from.off + Len(l.buf) = psS[m].off

\* Servers that are at the same offset of the same history have the same data:
\* no PSYNC can make a replica of two different pasts (changeReplicationId
\* when a backlog is created or freed, shiftReplicationId).
OneHistoryPerId ==
    \A n, m \in PsServer :
        LET past(k) == psS[k].on /\ psL[k].st # "transfer"
        IN  past(n) /\ past(m) /\ psS[n].id = psS[m].id /\ psS[n].off = psS[m].off
                => psS[n].data = psS[m].data

\* A replica that was connected and had everything when it was chosen in a
\* FAILOVER takes over with every write of the old master, whatever links break,
\* replies are lost, operators abort and processes restart meanwhile
\* (updateFailoverStatus, syncCommand: "PSYNC FAILOVER replid must match my
\* replid").  psHeir leaves out what the code does not promise: a target that,
\* since it was chosen, was started again from an older RDB file or was given
\* another master; one that lagged behind and was forced; one that was still
\* being synchronised while all offsets were 0 (README, section 5).
FailoverKeepsWrites ==
    [][\A n, t \in PsServer :
            /\ psS[n].fail = "progress" /\ psS[n].master = t /\ psHeir[t] = n
            /\ psL[n].st = "connect" /\ psL'[n].sl \in {"start", "end", "online"}
            => psS[t].data = psS[n].data]_psVars

\* Unless links keep failing, every replica whose masters are connected ends
\* with its master's data (replicationCron, connectWithMaster).
ReplicasCatchUp ==
    <>[](\A n \in PsServer :
            LET m == psS[n].master
            IN  m # NoServer /\ psS[m].master = NoServer /\ psS[m].fail = "none"
                    => psS[n].data = psS[m].data)
=============================================================================
