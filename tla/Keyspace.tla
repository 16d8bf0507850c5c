------------------------------ MODULE Keyspace ------------------------------
(* The keyspace of one Redis 6.2.6 server as its clients share it: list and  *)
(* string keys with a time to live (db.c, expire.c, t_list.c, t_string.c),   *)
(* transactions with optimistic locking (multi.c), clients that block on     *)
(* lists (blocked.c, timeout.c), CLIENT PAUSE (networking.c), and the stream *)
(* of commands a replica is fed with (server.c: call, propagate).            *)
(*                                                                           *)
(* The server is single threaded: one action is one round of the event loop, *)
(* a whole command with everything it triggers.  A command is an operator on *)
(* the record "Server" builds from the variables; the replica runs the same  *)
(* operators on its own copy with "slave" set, as it runs the same code.     *)
EXTENDS Naturals, SequencesExt

CONSTANTS
    Names,        \* names of keys; a key is a name in one of two databases
    Val,          \* list elements
    Str,          \* the value of a key that holds a string
    Connections,  \* client connections
    Transactors,  \* those that use MULTI and WATCH
    Blockers,     \* those that send blocking commands; others send the rest
    Cmds,         \* the commands clients send outside of MULTI
    TxCmds,       \* the commands they queue
    Watches,      \* the sets of keys they WATCH together
    MaxQueue,     \* bound: commands queued by one MULTI
    MaxElements,  \* bound: elements of all the lists together
    MaxTtl        \* bound: ticks a deadline may lie ahead

ASSUME KeyspaceAssumption ==
    /\ Str \notin Seq(Val)
    /\ {MaxQueue, MaxElements, MaxTtl} \subseteq Nat \ {0}

Key == {0, 1} \X Names
Twin(k) == <<1 - k[1], k[2]>>     \* the same name in the other database
Never == MaxTtl + 1               \* no deadline; 0 is a deadline that passed
Deadline == 0 .. Never
Multi == [op |-> "multi"]
Exec == [op |-> "exec"]
Idle == [multi |-> FALSE, queue |-> <<>>, dirtyExec |-> FALSE,
         dirtyCas |-> FALSE, watched |-> {}, bpop |-> <<>>, timer |-> Never]

VARIABLES
    db,         \* [Key -> Seq(Val) or Str], <<>> for a key that is not there
    ttl,        \* [Key -> Deadline]
    conn,       \* [Connections -> flags, queue, watched keys, blocked state]
    waiting,    \* [Key -> Seq(Connections)], db->blocking_keys
    paused,     \* CLIENT PAUSE WRITE is in force
    aborted,    \* an assertion of propagate() failed
    replica,    \* what a replica made of the stream fed to it so far
    served,     \* <<client, key>> served by the last action, in order
    moved       \* history: watched keys whose content changed since WATCH

ksVars == <<db, ttl, conn, waiting, paused, aborted, replica, served, moved>>

Server == [db |-> db, ttl |-> ttl, conn |-> conn, waiting |-> waiting,
           ready |-> <<>>, out |-> <<>>, served |-> <<>>, paused |-> paused,
           aborted |-> aborted, pauseInTx |-> FALSE, inExec |-> FALSE,
           open |-> FALSE, slave |-> FALSE]

-----------------------------------------------------------------------------
(* Propagation, expiry and the primitives of db.c.                           *)

\* The first write of an EXEC is preceded by MULTI; nothing may be propagated
\* while clients are paused, save by the transaction that pauses them.
propagate(s, cmd) ==
    IF s.slave THEN s
    ELSE [s EXCEPT
            !.out = (IF s.inExec /\ ~s.open THEN Append(@, Multi) ELSE @)
                        \o <<cmd>>,
            !.open = s.inExec,
            !.aborted = @ \/ (s.paused /\ ~s.pauseInTx)]

signalModifiedKey(s, k) ==
    [s EXCEPT !.conn = [c \in Connections |->
        [@[c] EXCEPT !.dirtyCas = @ \/ k \in s.conn[c].watched]]]

dbSyncDelete(s, k) == [s EXCEPT !.db[k] = <<>>, !.ttl[k] = Never]

deleteExpiredKeyAndPropagate(s, k) ==
    propagate(signalModifiedKey(dbSyncDelete(s, k), k), [op |-> "del", k |-> k])

keyIsExpired(t, k) == t[k] = 0

expireIfNeeded(s, k) ==
    IF ~keyIsExpired(s.ttl, k) \/ s.slave \/ s.paused THEN s
    ELSE deleteExpiredKeyAndPropagate(s, k)

signalKeyAsReady(s, k) ==
    IF s.db[k] = Str \/ s.waiting[k] = <<>> \/ Contains(s.ready, k) THEN s
    ELSE [s EXCEPT !.ready = Append(@, k)]

\* signalled only for a new key: overwriting one signals nobody
dbAdd(s, k, o) == signalKeyAsReady([s EXCEPT !.db[k] = o], k)

IsList(o) == o # Str /\ o # <<>>
listTypePush(o, at, v) == IF at = "head" THEN <<v>> \o o ELSE Append(o, v)
Popped(o, at) == IF at = "head" THEN Head(o) ELSE Last(o)
Rest(o, at) == IF at = "head" THEN Tail(o) ELSE Front(o)

-----------------------------------------------------------------------------
(* The commands.  Each looks its key up for writing, which first deletes a   *)
(* key whose time has come; one that changed something is propagated by      *)
(* call() when it returns.                                                   *)

pushGenericCommand(s, cmd) ==
    LET t == expireIfNeeded(s, cmd.k)
        o == t.db[cmd.k]
    IN  IF o = Str \/ (o = <<>> /\ cmd.xx) THEN t
        ELSE propagate(signalModifiedKey(
                IF o = <<>> THEN dbAdd(t, cmd.k, <<cmd.v>>)
                ELSE [t EXCEPT !.db[cmd.k] = listTypePush(@, cmd.at, cmd.v)],
                cmd.k), cmd)

listElementsRemoved(s, k, rest) ==
    signalModifiedKey(
        IF rest = <<>> THEN dbSyncDelete(s, k) ELSE [s EXCEPT !.db[k] = rest],
        k)

popGenericCommand(s, cmd) ==
    LET t == expireIfNeeded(s, cmd.k)
    IN  IF ~IsList(t.db[cmd.k]) THEN t
        ELSE propagate(listElementsRemoved(t, cmd.k,
                                           Rest(t.db[cmd.k], cmd.at)), cmd)

\* "exists" tells whether the destination object is there: the source of a
\* move onto itself may be an empty list for a moment.
lmoveHandlePush(s, k, exists, v, at) ==
    signalModifiedKey(IF exists
                      THEN [s EXCEPT !.db[k] = listTypePush(@, at, v)]
                      ELSE dbAdd(s, k, <<v>>), k)

lmoveGenericCommand(s, cmd) ==
    LET t == expireIfNeeded(s, cmd.k)
        o == t.db[cmd.k]
        u == expireIfNeeded(t, cmd.dst)
        w == lmoveHandlePush([u EXCEPT !.db[cmd.k] = Rest(o, cmd.at)], cmd.dst,
                             u.db[cmd.dst] # <<>>, Popped(o, cmd.at), cmd.to)
    IN  IF ~IsList(o) THEN t
        ELSE IF u.db[cmd.dst] = Str THEN u
        ELSE propagate(listElementsRemoved(w, cmd.k, w.db[cmd.k]),
                       [cmd EXCEPT !.op = "lmove"])

delGenericCommand(s, cmd) ==
    LET t == expireIfNeeded(s, cmd.k)
    IN  IF t.db[cmd.k] = <<>> THEN t
        ELSE propagate(signalModifiedKey(dbSyncDelete(t, cmd.k), cmd.k),
                       [op |-> "del", k |-> cmd.k])

dbOverwrite(s, k, o) == [s EXCEPT !.db[k] = o]

genericSetKey(s, k, o) ==
    LET t == expireIfNeeded(s, k)
        u == IF t.db[k] = <<>> THEN dbAdd(t, k, o) ELSE dbOverwrite(t, k, o)
    IN  signalModifiedKey([u EXCEPT !.ttl[k] = Never], k)

setGenericCommand(s, cmd) == propagate(genericSetKey(s, cmd.k, Str), cmd)

\* A deadline that is not ahead deletes the key on a master, as a DEL.
expireGenericCommand(s, cmd) ==
    LET t == expireIfNeeded(s, cmd.k)
    IN  IF t.db[cmd.k] = <<>> THEN t
        ELSE IF cmd.ticks = 0 /\ ~s.slave THEN delGenericCommand(t, cmd)
        ELSE propagate(signalModifiedKey(
                [t EXCEPT !.ttl[cmd.k] = cmd.ticks], cmd.k), cmd)

persistCommand(s, cmd) ==
    LET t == expireIfNeeded(s, cmd.k)
    IN  IF t.ttl[cmd.k] = Never THEN t
        ELSE propagate(signalModifiedKey(
                [t EXCEPT !.ttl[cmd.k] = Never], cmd.k), cmd)

\* RENAME replaces the destination, MOVE gives up when there is one.
renameGenericCommand(s, cmd) ==
    LET t == expireIfNeeded(s, cmd.k)
        u == expireIfNeeded(t, cmd.dst)
        v == dbAdd(dbSyncDelete(u, cmd.dst), cmd.dst, u.db[cmd.k])
        w == dbSyncDelete([v EXCEPT !.ttl[cmd.dst] = u.ttl[cmd.k]], cmd.k)
    IN  IF t.db[cmd.k] = <<>> \/ cmd.k = cmd.dst THEN t
        ELSE IF cmd.op = "move" /\ u.db[cmd.dst] # <<>> THEN u
        ELSE propagate(signalModifiedKey(signalModifiedKey(w, cmd.k), cmd.dst),
                       cmd)

\* WATCHed keys are touched by a flush or a swap when they exist (there, or
\* in the database swapped in).
touchAllWatchedKeysInDb(s, keys, exists(_)) ==
    [s EXCEPT !.conn = [c \in Connections |->
        [@[c] EXCEPT !.dirtyCas = @ \/ \E k \in s.conn[c].watched \cap keys :
                                            exists(k)]]]

emptyDb(s, keys) ==
    [touchAllWatchedKeysInDb(s, keys, LAMBDA k : s.db[k] # <<>>) EXCEPT
        !.db = [k \in Key |-> IF k \in keys THEN <<>> ELSE @[k]],
        !.ttl = [k \in Key |-> IF k \in keys THEN Never ELSE @[k]]]

flushallCommand(s, cmd) == propagate(emptyDb(s, Key), cmd)

\* Mutant: a swap that does not look for clients waiting for what comes in.
dbSwapDatabasesNoScan(s) ==
    touchAllWatchedKeysInDb(
        [s EXCEPT !.db = [k \in Key |-> s.db[Twin(k)]],
                  !.ttl = [k \in Key |-> s.ttl[Twin(k)]]],
        Key, LAMBDA k : s.db[k] # <<>> \/ s.db[Twin(k)] # <<>>)

dbSwapDatabases(s) ==
    LET t == [s EXCEPT !.db = [k \in Key |-> s.db[Twin(k)]],
                       !.ttl = [k \in Key |-> s.ttl[Twin(k)]]]
        scan == SetToSeq({k \in Key : t.db[k] # <<>>})
    IN  touchAllWatchedKeysInDb(FoldLeft(signalKeyAsReady, t, scan), Key,
            LAMBDA k : s.db[k] # <<>> \/ t.db[k] # <<>>)

swapdbCommand(s, cmd) == propagate(dbSwapDatabases(s), cmd)

\* Inside EXEC the pause is remembered so that the rest still propagates.
pauseClients(s) == [s EXCEPT !.paused = TRUE, !.pauseInTx = s.inExec]

-----------------------------------------------------------------------------
(* Blocking operations.                                                      *)

blockForKeys(s, c, cmd, keys) ==
    [s EXCEPT
        !.waiting = [k \in Key |->
            IF k \in ToSet(keys) THEN Append(@[k], c) ELSE @[k]],
        !.conn[c].bpop = cmd,
        !.conn[c].timer = IF cmd.timeout = 0 THEN Never ELSE cmd.timeout]

\* Mutant: the client is taken off the queue of its first key only.
unblockClientOnce(s, c) ==
    LET b == s.conn[c].bpop
        first == IF b # <<>> /\ b.op = "blpop" THEN {b.keys[1]} ELSE Key
    IN  [s EXCEPT !.waiting = [k \in Key |->
                      IF k \in first THEN SelectSeq(@[k], LAMBDA d : d # c)
                      ELSE @[k]],
                  !.conn[c].bpop = <<>>, !.conn[c].timer = Never]

unblockClient(s, c) ==
    [s EXCEPT !.waiting = [k \in Key |-> SelectSeq(@[k], LAMBDA d : d # c)],
              !.conn[c].bpop = <<>>, !.conn[c].timer = Never]

\* The first key that exists decides; the rest are not looked at.
blockingPopGenericCommand(s, c, cmd) ==
    LET Try(a, k) ==
            IF a.done THEN a
            ELSE LET t == expireIfNeeded(a.s, k)
                 IN  IF t.db[k] = <<>> THEN [a EXCEPT !.s = t]
                     ELSE [done |-> TRUE,
                           s |-> popGenericCommand(t,
                                    [op |-> "pop", k |-> k, at |-> cmd.at])]
        r == FoldLeft(Try, [s |-> s, done |-> FALSE], cmd.keys)
    IN  IF r.done \/ s.inExec THEN r.s
        ELSE blockForKeys(r.s, c, cmd, cmd.keys)

blmoveGenericCommand(s, c, cmd) ==
    LET t == expireIfNeeded(s, cmd.k)
    IN  IF t.db[cmd.k] = <<>>
        THEN IF s.inExec THEN t ELSE blockForKeys(t, c, cmd, <<cmd.k>>)
        ELSE lmoveGenericCommand(t, cmd)

\* Mutant: the element of a BLMOVE that fails is not put back.
serveClientBlockedOnListNoUndo(s, k, c) ==
    LET b == s.conn[c].bpop
        v == Popped(s.db[k], b.at)
        t == [s EXCEPT !.db[k] = Rest(@, b.at),
                       !.served = Append(@, <<c, k>>)]
        u == expireIfNeeded(t, b.dst)
    IN  unblockClient(
            IF b.op = "blpop"
            THEN propagate(t, [op |-> "pop", k |-> k, at |-> b.at])
            ELSE IF u.db[b.dst] = Str THEN u
            ELSE propagate(lmoveHandlePush(u, b.dst,
                                b.dst = k \/ u.db[b.dst] # <<>>, v, b.to),
                           [b EXCEPT !.op = "lmove"]), c)

\* Serve one client with an element of k; a BLMOVE onto a string fails, the
\* element goes back and the client is unblocked with an error.
serveClientBlockedOnList(s, k, c) ==
    LET b == s.conn[c].bpop
        v == Popped(s.db[k], b.at)
        t == [s EXCEPT !.db[k] = Rest(@, b.at),
                       !.served = Append(@, <<c, k>>)]
        u == expireIfNeeded(t, b.dst)
        r == IF b.op = "blpop"
             THEN propagate(t, [op |-> "pop", k |-> k, at |-> b.at])
             ELSE IF u.db[b.dst] = Str
             THEN [u EXCEPT !.db[k] = listTypePush(@, b.at, v)]
             ELSE propagate(lmoveHandlePush(u, b.dst,
                                b.dst = k \/ u.db[b.dst] # <<>>, v, b.to),
                            [b EXCEPT !.op = "lmove"])
    IN  unblockClient(r, c)

\* Mutant: the client that blocked last is served first.
serveClientsBlockedOnListKeyLifo(s, k) ==
    LET t == FoldLeft(LAMBDA a, c : IF a.db[k] = <<>> THEN a
                                    ELSE serveClientBlockedOnList(a, k, c),
                      s, Reverse(s.waiting[k]))
    IN  IF t.db[k] = <<>> THEN dbSyncDelete(t, k) ELSE t

serveClientsBlockedOnListKey(s, k) ==
    LET t == FoldLeft(LAMBDA a, c : IF a.db[k] = <<>> THEN a
                                    ELSE serveClientBlockedOnList(a, k, c),
                      s, s.waiting[k])
    IN  IF t.db[k] = <<>> THEN dbSyncDelete(t, k) ELSE t

RECURSIVE handleClientsBlockedOnKeys(_)
handleClientsBlockedOnKeys(s) ==
    IF s.ready = <<>> THEN s
    ELSE LET k == Head(s.ready)
             t == expireIfNeeded([s EXCEPT !.ready = Tail(@)], k)
         IN  handleClientsBlockedOnKeys(
                IF IsList(t.db[k]) THEN serveClientsBlockedOnListKey(t, k)
                ELSE t)

-----------------------------------------------------------------------------
(* Executing commands; what the replica does with the stream.                *)

call(s, c, cmd) ==
    CASE cmd.op = "push"    -> pushGenericCommand(s, cmd)
      [] cmd.op = "pop"     -> popGenericCommand(s, cmd)
      [] cmd.op = "lmove"   -> lmoveGenericCommand(s, cmd)
      [] cmd.op = "del"     -> delGenericCommand(s, cmd)
      [] cmd.op = "set"     -> setGenericCommand(s, cmd)
      [] cmd.op = "expire"  -> expireGenericCommand(s, cmd)
      [] cmd.op = "persist" -> persistCommand(s, cmd)
      [] cmd.op \in {"rename", "move"} -> renameGenericCommand(s, cmd)
      [] cmd.op = "flushall" -> flushallCommand(s, cmd)
      [] cmd.op = "swapdb"  -> swapdbCommand(s, cmd)
      [] cmd.op = "pause"   -> pauseClients(s)
      [] cmd.op = "blpop"   -> blockingPopGenericCommand(s, c, cmd)
      [] cmd.op = "blmove"  -> blmoveGenericCommand(s, c, cmd)

NoReplicaTx == [multi |-> FALSE, queue |-> <<>>]

\* The replica applies one command on its copy: its own expiry never deletes.
Applied(r, cmd) ==
    LET s == call([Server EXCEPT
                    !.db = r.db, !.ttl = r.ttl, !.slave = TRUE,
                    !.conn = [c \in Connections |-> Idle],
                    !.waiting = [k \in Key |-> <<>>]],
                  CHOOSE c \in Connections : TRUE, cmd)
    IN  [r EXCEPT !.db = s.db, !.ttl = s.ttl]

ReplicaReads(r, cmd) ==
    CASE cmd.op = "multi" -> [r EXCEPT !.tx.multi = TRUE]
      [] cmd.op = "exec"  -> [FoldLeft(Applied, r, r.tx.queue)
                                EXCEPT !.tx = NoReplicaTx]
      [] OTHER -> IF r.tx.multi THEN [r EXCEPT !.tx.queue = Append(@, cmd)]
                  ELSE Applied(r, cmd)

-----------------------------------------------------------------------------
(* The actions.                                                              *)

KsInit ==
    /\ db = [k \in Key |-> <<>>]
    /\ ttl = [k \in Key |-> Never]
    /\ conn = [c \in Connections |-> Idle]
    /\ waiting = [k \in Key |-> <<>>]
    /\ paused = FALSE /\ aborted = FALSE
    /\ replica = [db |-> db, ttl |-> ttl, tx |-> NoReplicaTx]
    /\ served = <<>>
    /\ moved = [c \in Connections |-> {}]

\* What a client would see of a key.
Content(d, t, k) == IF keyIsExpired(t, k) \/ d[k] = <<>> THEN <<>>
                    ELSE <<d[k], t[k] # Never>>

Moved ==
    moved' = [c \in Connections |->
        {k \in conn'[c].watched :
            k \in moved[c] \/ Content(db', ttl', k) # Content(db, ttl, k)}]

\* The state after s, and the stream sent meanwhile applied by the replica.
Becomes(server) ==
    /\ \E s \in {server} :
        /\ db' = s.db /\ ttl' = s.ttl /\ conn' = s.conn /\ waiting' = s.waiting
        /\ paused' = s.paused /\ aborted' = s.aborted /\ served' = s.served
        /\ replica' = FoldLeft(ReplicaReads, replica, s.out)
    /\ Moved

\* processCommand after the call: a pause made by a transaction is over as an
\* exception, then the clients blocked on keys that got ready are served.
AfterCall(s) ==
    handleClientsBlockedOnKeys([s EXCEPT !.pauseInTx = FALSE])

Elements == FoldSet(LAMBDA k, n : n + (IF db[k] = Str THEN 0 ELSE Len(db[k])),
                    0, Key)
Fits(cmd) == cmd.op = "push" => Elements < MaxElements
Ready(c) == conn[c].bpop = <<>>
Sends(c, cmd) ==
    c \in IF cmd.op \in {"blpop", "blmove"} THEN Blockers
          ELSE Connections \ (Transactors \cup Blockers)
MayRun(cmd) == paused => cmd.op = "pause"

processCommand(c, cmd) ==
    /\ Ready(c) /\ ~conn[c].multi /\ MayRun(cmd) /\ Fits(cmd) /\ Sends(c, cmd)
    /\ Becomes(AfterCall(call(Server, c, cmd)))

queueMultiCommand(c, cmd) ==
    /\ conn[c].multi /\ MayRun(cmd) /\ Len(conn[c].queue) < MaxQueue
    /\ ~conn[c].dirtyExec
    /\ Becomes([Server EXCEPT !.conn[c].queue = Append(@, cmd)])

\* A command refused while queueing (unknown, arity, out of memory).
flagTransaction(c) ==
    /\ conn[c].multi
    /\ Becomes([Server EXCEPT !.conn[c].dirtyExec = TRUE])

multiCommand(c) ==
    /\ c \in Transactors /\ Ready(c) /\ ~conn[c].multi
    /\ Becomes([Server EXCEPT !.conn[c].multi = TRUE])

unwatchAllKeys(s, c) == [s EXCEPT !.conn[c].watched = {}]

discardTransaction(s, c) ==
    [unwatchAllKeys(s, c) EXCEPT
        !.conn[c].multi = FALSE, !.conn[c].queue = <<>>,
        !.conn[c].dirtyCas = FALSE, !.conn[c].dirtyExec = FALSE]

discardCommand(c) ==
    /\ conn[c].multi
    /\ Becomes(discardTransaction(Server, c))

watchCommand(c, keys) ==
    /\ c \in Transactors /\ Ready(c) /\ ~conn[c].multi
    /\ Becomes([Server EXCEPT !.conn[c].watched = @ \cup keys])

unwatchCommand(c) ==
    /\ c \in Transactors /\ Ready(c) /\ ~conn[c].multi
    /\ Becomes([unwatchAllKeys(Server, c) EXCEPT !.conn[c].dirtyCas = FALSE])

\* Mutant: EXEC does not look at the clock.
isWatchedKeyExpiredNever(c) == FALSE

isWatchedKeyExpired(c) == \E k \in conn[c].watched : keyIsExpired(ttl, k)

Refused(c) == conn[c].dirtyExec \/ conn[c].dirtyCas \/ isWatchedKeyExpired(c)

\* The queue runs as one command: nothing blocks in it, and the stream gets
\* it wrapped in MULTI and EXEC when there was something to send.
RunQueue(c) ==
    LET s == FoldLeft(LAMBDA a, cmd : call(a, c, cmd),
                      [unwatchAllKeys(Server, c) EXCEPT !.inExec = TRUE],
                      conn[c].queue)
        t == [discardTransaction(s, c) EXCEPT !.inExec = FALSE]
    IN  IF s.open THEN propagate(t, Exec) ELSE t

execCommand(c) ==
    /\ conn[c].multi /\ \A i \in DOMAIN conn[c].queue : Fits(conn[c].queue[i])
    /\ paused => \A i \in DOMAIN conn[c].queue : conn[c].queue[i].op = "pause"
    /\ Becomes(AfterCall(IF Refused(c) THEN discardTransaction(Server, c)
                         ELSE RunQueue(c)))

freeClient(c) ==
    /\ conn[c] # Idle
    /\ Becomes([unblockClient(Server, c) EXCEPT !.conn[c] = Idle])

checkBlockedClientTimeout(c) ==
    /\ conn[c].timer = 0
    /\ Becomes(unblockClient(Server, c))

unpauseClients == paused /\ Becomes([Server EXCEPT !.paused = FALSE])

activeExpireCycle(k) ==
    /\ keyIsExpired(ttl, k) /\ ~paused
    /\ Becomes(deleteExpiredKeyAndPropagate(Server, k))

\* Time passes for the deadlines of keys, here and on the replica, and of
\* blocked clients.
Sooner(n) == IF n \in 1 .. MaxTtl THEN n - 1 ELSE n
KsTick ==
    /\ \/ \E k \in Key : Sooner(ttl[k]) # ttl[k]
       \/ \E c \in Connections : Sooner(conn[c].timer) # conn[c].timer
    /\ ttl' = [k \in Key |-> Sooner(ttl[k])]
    /\ conn' = [c \in Connections |-> [conn[c] EXCEPT !.timer = Sooner(@)]]
    /\ replica' = [replica EXCEPT !.ttl = [k \in Key |-> Sooner(@[k])]]
    /\ served' = <<>>
    /\ UNCHANGED <<db, waiting, paused, aborted>>
    /\ Moved

KsNext ==
    /\ ~aborted
    /\ \/ \E c \in Connections :
            \/ \E cmd \in Cmds : processCommand(c, cmd)
            \/ \E cmd \in TxCmds : queueMultiCommand(c, cmd)
            \/ \E keys \in Watches : watchCommand(c, keys)
            \/ flagTransaction(c) \/ multiCommand(c) \/ discardCommand(c)
            \/ unwatchCommand(c) \/ execCommand(c) \/ freeClient(c)
            \/ checkBlockedClientTimeout(c)
       \/ \E k \in Key : activeExpireCycle(k)
       \/ unpauseClients
       \/ KsTick

KsSpec == KsInit /\ [][KsNext]_ksVars

-----------------------------------------------------------------------------
(* Properties.                                                               *)

\* Type invariant; the two sides of blocking (the queues of the keys and the
\* keys of a blocked client) agree, and only a key that exists has a deadline.
KsTypeOK ==
    /\ db \in [Key -> Seq(Val) \cup {Str}] /\ ttl \in [Key -> Deadline]
    /\ \A k \in Key : db[k] = <<>> => ttl[k] = Never
    /\ \A c \in Connections :
        /\ conn[c].watched \subseteq Key /\ conn[c].timer \in Deadline
        /\ \A k \in Key : Contains(waiting[k], c)
               <=> LET b == conn[c].bpop
                   IN  b # <<>> /\ k \in IF b.op = "blpop" THEN ToSet(b.keys)
                                         ELSE {b.k}

\* Between two rounds of the event loop nobody waits for a list that has
\* elements, however the list came about (push, BLMOVE, RENAME, MOVE, SWAPDB,
\* a transaction, another client served): signalKeyAsReady and
\* handleClientsBlockedOnKeys miss no one.
NobodyWaitsOnData ==
    ~aborted => \A k \in Key : IsList(db[k]) => waiting[k] = <<>>

\* A replica that applies the stream has the very keys, values and deadlines
\* of the master after every round: expired keys, blocked pops, moves that
\* fail, pops turned into plain ones and transactions included.
ReplicaConverges ==
    ~aborted => replica = [db |-> db, ttl |-> ttl, tx |-> NoReplicaTx]

\* propagate() is never reached while clients are paused and the dataset
\* must not change (the assertion of server.c:3585).
NothingPropagatedInPause == ~aborted

\* Optimistic locking: a client one of whose WATCHed keys has changed since
\* it was WATCHed (by another client, by expiry, by a flush or a swap, by
\* serving a blocked client) leaves MULTI without having written anything.
StaleExecWritesNothing ==
    [][\A c \in Connections :
        conn[c].multi /\ moved[c] # {} /\ ~conn'[c].multi
            => UNCHANGED <<db, ttl, replica>>]_ksVars

\* First blocked, first served: a client served with an element of a key
\* leaves nobody behind who was waiting for that key before it did.
ServedInOrder ==
    [][\A i \in DOMAIN served' :
        LET c == served'[i][1]
            k == served'[i][2]
        IN  \A m, n \in DOMAIN waiting[k] :
                m < n /\ waiting[k][n] = c
                    => ~Contains(waiting'[k], waiting[k][m])]_ksVars

=============================================================================
