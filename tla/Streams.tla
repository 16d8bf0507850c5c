------------------------------ MODULE Streams -------------------------------
(* One Redis 6.2.6 stream key with its consumer groups, the readers blocked  *)
(* on it, and the copy a replica keeps of it (t_stream.c, and the serving of *)
(* blocked readers in blocked.c).                                            *)
(*                                                                           *)
(* XREADGROUP, XCLAIM and XAUTOCLAIM are not fed to the replica as sent: each *)
(* pending entry they touch is propagated as an idempotent XCLAIM, and the   *)
(* replica has to reach the same pending lists from those.  As in Keyspace a *)
(* command is an operator on the record of a server; the replica runs the    *)
(* same operators with "slave" set.                                          *)
EXTENDS Naturals, FiniteSets, SequencesExt

CONSTANTS
    Group,       \* names of consumer groups
    Consumer,    \* names of consumers; each is used by one connection
    Nobody,      \* no group, or no consumer
    XCmds,       \* the commands of other clients
    XTxs,        \* the transactions of other clients: sequences of commands
    XReads,      \* the XREAD and XREADGROUP calls of the consumers
    MaxId,       \* the greatest ID an entry can have
    MaxCount,    \* bound: deliveries counted for one entry
    NodeSize     \* entries per node of the radix tree, here and at the replica

Id == 1 .. MaxId
Top == MaxId + 1                  \* "$" and ">": no ID, beyond all of them
NoNack == [owner |-> Nobody, count |-> 0, idle |-> FALSE]
NoGroup == [on |-> FALSE, last |-> 0, known |-> {},
            cpel |-> [c \in Consumer |-> {}], pel |-> [i \in Id |-> NoNack]]
NoStream == [on |-> FALSE, items |-> {}, last |-> 0,
             grp |-> [g \in Group |-> NoGroup]]
NoTrim == [by |-> "none"]
Trim == {NoTrim} \cup [by : {"maxlen", "minid"}, n : Nat, approx : BOOLEAN]

\* The arguments a command comes with.
XCommandOK(cmd) ==
    /\ cmd.op \in {"xadd", "xtrim", "xdel", "xsetid", "del", "xack", "xclaim",
                  "xautoclaim", "create", "setid", "destroy",
                  "createconsumer", "delconsumer"}
    /\ cmd.op \in {"xadd", "xtrim"} => cmd.trim \in Trim
    /\ cmd.op \in {"xadd", "xsetid"} => cmd.id \in 0 .. MaxId
    /\ cmd.op \in {"xdel", "xack"} => cmd.id \in Id
    /\ cmd.op \in {"create", "setid"} => cmd.id \in 0 .. Top
    /\ cmd.op \notin {"xadd", "xtrim", "xdel", "xsetid", "del"} => cmd.g \in Group
    /\ cmd.op \in {"createconsumer", "delconsumer", "xclaim", "xautoclaim"} =>
            cmd.c \in Consumer
    /\ cmd.op \in {"xclaim", "xautoclaim"} =>
            {cmd.minidle, cmd.justid} \subseteq BOOLEAN
    /\ cmd.op = "xclaim" => /\ cmd.ids \in Seq(Id)
                            /\ {cmd.force, cmd.idle} \subseteq BOOLEAN
                            /\ cmd.lastid \in 0 .. MaxId
                            /\ cmd.retry \in Nat
    /\ cmd.op = "xautoclaim" => {cmd.start, cmd.count} \subseteq Nat

XReadOK(r) ==
    /\ r.g \in Group \cup {Nobody}
    /\ r.c \in Consumer
    /\ {r.history, r.noack} \subseteq BOOLEAN
    /\ r.count \in Nat

ASSUME StreamsAssumption ==
    /\ Nobody \notin Group \cup Consumer
    /\ {MaxId, MaxCount} \subseteq Nat \ {0}
    /\ NodeSize \in [BOOLEAN -> Nat \ {0}]
    /\ \A cmd \in XCmds : XCommandOK(cmd)
    /\ XTxs \subseteq Seq(XCmds)
    /\ \A r \in XReads : XReadOK(r)

VARIABLES
    xs,         \* the stream here
    xr,         \* the stream at the replica
    xwait,      \* readers blocked on the key, in the order they came
    xnew        \* <<group, consumer, id>> handed out as new by the last action

xsVars == <<xs, xr, xwait, xnew>>

Host(st, slave) == [st |-> st, wait |-> IF slave THEN <<>> ELSE xwait,
                    ready |-> FALSE, out |-> <<>>, new |-> <<>>,
                    slave |-> slave]
xpropagate(s, cmd) == IF s.slave THEN s ELSE [s EXCEPT !.out = Append(@, cmd)]
\* Mutant: nobody is told that the key is ready.
streamSignalNobody(s) == s

streamSignalReady(s) == [s EXCEPT !.ready = @ \/ s.wait # <<>>]
streamLastValidID(st) == IF st.items = {} THEN 0 ELSE Max(st.items)

-----------------------------------------------------------------------------
(* Adding, deleting and trimming entries.                                    *)

streamAppendItem(st, id) == [st EXCEPT !.on = TRUE, !.items = @ \cup {id},
                                       !.last = id]

\* A trim removes entries from the head; an approximate one whole nodes only.
streamTrim(st, trim, size) ==
    LET node(i) == (i - 1) \div size
        edge(i) == Min({(node(i) + 1) * size, st.last})
        after(i) == {j \in st.items :
                        IF trim.approx THEN node(j) > node(i) ELSE j > i}
        keep(i) == CASE trim.by = "none" -> TRUE
                     [] trim.by = "maxlen" -> Cardinality(after(i)) < trim.n
                     [] OTHER -> (IF trim.approx THEN edge(i) ELSE i) >= trim.n
    IN  [st EXCEPT !.items = {i \in @ : keep(i)}]

\* Mutant: the trim is propagated as the client wrote it.
streamTrimArgumentAsGiven(st, trim) == trim

\* An approximate trim is propagated as the exact one with the same outcome.
streamRewriteTrimArgument(st, trim) ==
    IF trim = NoTrim \/ ~trim.approx THEN trim
    ELSE [by |-> trim.by, approx |-> FALSE,
          n |-> IF trim.by = "maxlen" THEN Cardinality(st.items)
                ELSE IF st.items = {} THEN Top ELSE Min(st.items)]

xaddCommand(s, cmd) ==
    LET id == IF cmd.id = 0 THEN s.st.last + 1 ELSE cmd.id
        st == streamTrim(streamAppendItem(s.st, id), cmd.trim,
                         NodeSize[s.slave])
    IN  IF s.st.last = MaxId \/ id <= s.st.last THEN s    \* exhausted, or used
        ELSE streamSignalReady(xpropagate([s EXCEPT !.st = st],
                [op |-> "xadd", id |-> id,
                 trim |-> streamRewriteTrimArgument(st, cmd.trim)]))

xtrimCommand(s, cmd) ==
    LET st == streamTrim(s.st, cmd.trim, NodeSize[s.slave])
    IN  IF st.items = s.st.items THEN s
        ELSE xpropagate([s EXCEPT !.st = st],
                [op |-> "xtrim",
                 trim |-> streamRewriteTrimArgument(st, cmd.trim)])

\* Pending entries stay pending when the entry itself is deleted.
xdelCommand(s, cmd) ==
    IF cmd.id \notin s.st.items THEN s
    ELSE xpropagate([s EXCEPT !.st.items = @ \ {cmd.id}], cmd)

xsetidCommand(s, cmd) ==
    IF ~s.st.on \/ cmd.id < streamLastValidID(s.st) THEN s
    ELSE xpropagate([s EXCEPT !.st.last = cmd.id], cmd)

delStream(s, cmd) ==
    IF ~s.st.on THEN s ELSE xpropagate([s EXCEPT !.st = NoStream], cmd)

-----------------------------------------------------------------------------
(* Consumer groups.  The NACK of a pending entry is reachable from the group *)
(* (pel) and from the consumer that owns it (cpel).                          *)

streamLookupConsumer(gr, c) == [gr EXCEPT !.known = @ \cup {c}]

Settle(gr, id) ==
    [gr EXCEPT !.cpel = [c \in Consumer |-> @[c] \ {id}], !.pel[id] = NoNack]

\* Mutant: the former owner keeps the entry in its list.
AssignKeepingOld(gr, id, c, count, idle) ==
    [gr EXCEPT !.cpel[c] = @ \cup {id},
               !.pel[id] = [owner |-> c, count |-> count, idle |-> idle]]

\* Makes c the owner of the NACK, taking it from its former owner.
Assign(gr, id, c, count, idle) ==
    [gr EXCEPT !.cpel = [d \in Consumer |-> IF d = c THEN @[d] \cup {id}
                                            ELSE @[d] \ {id}],
               !.pel[id] = [owner |-> c, count |-> count, idle |-> idle]]

streamPropagateXCLAIM(s, g, id) ==
    LET gr == s.st.grp[g]
    IN  xpropagate(s, [op |-> "xclaim", g |-> g, c |-> gr.pel[id].owner,
                       ids |-> <<id>>, minidle |-> FALSE, force |-> TRUE,
                       justid |-> TRUE, lastid |-> gr.last,
                       retry |-> gr.pel[id].count, idle |-> gr.pel[id].idle])

streamPropagateGroupID(s, g) ==
    xpropagate(s, [op |-> "setid", g |-> g, id |-> s.st.grp[g].last])

streamPropagateConsumerCreation(s, g, c) ==
    xpropagate(s, [op |-> "createconsumer", g |-> g, c |-> c])

\* Mutant: an entry handed out does not move the last ID of its group.
HandedOutAgain(gr, id) == gr

\* The group's last ID follows the entries it hands out.
HandedOut(gr, id) == [gr EXCEPT !.last = Max({@, id})]

\* The IDs of a set in their order.
Ascending(ids) ==
    CHOOSE s \in [1 .. Cardinality(ids) -> ids] :
        \A j, k \in DOMAIN s : j < k => s[j] < s[k]

\* Hands one entry out as new: it is pending for the consumer, unless NOACK.
Deliver(s, g, c, noack, id) ==
    LET u == [s EXCEPT !.st.grp[g] = HandedOut(@, id),
                       !.new = Append(@, <<g, c, id>>)]
    IN  IF noack THEN u
        ELSE streamPropagateXCLAIM([u EXCEPT
                !.st.grp[g] = Assign(@, id, c, 1, FALSE)], g, id)

DeliverAll(s, g, c, noack, ids) ==
    FoldLeft(LAMBDA t, id : Deliver(t, g, c, noack, id), s, ids)

\* The entries after "from" for a consumer of the group, at most count of
\* them (0: all).
streamReplyWithRange(s, g, c, from, count, noack) ==
    LET range == Ascending({i \in s.st.items : i > from})
        ids == IF count = 0 \/ count >= Len(range) THEN range
               ELSE SubSeq(range, 1, count)
        t == DeliverAll(s, g, c, noack, ids)
    IN  IF noack /\ t.st.grp[g].last # s.st.grp[g].last
        THEN streamPropagateGroupID(t, g) ELSE t

\* The history of a consumer: its own pending entries again.  The count and
\* the time of a delivery change here only: they are not propagated.
streamReplyWithRangeFromConsumerPEL(s, g, c) ==
    LET gr == s.st.grp[g]
    IN  [s EXCEPT !.st.grp[g].pel = [i \in Id |->
            IF i \in gr.cpel[c] /\ i \in s.st.items
            THEN [owner |-> c, count |-> gr.pel[i].count + 1, idle |-> FALSE]
            ELSE @[i]]]

\* Looks the consumer up, or creates it: only NOACK tells the replica.
WithConsumer(s, g, c, noack) ==
    LET t == [s EXCEPT !.st.grp[g] = streamLookupConsumer(@, c)]
    IN  IF noack /\ c \notin s.st.grp[g].known
        THEN streamPropagateConsumerCreation(t, g, c) ELSE t

Blocked(s, r, gt) ==
    [s EXCEPT !.wait = Append(@, [g |-> r.g, c |-> r.c, noack |-> r.noack,
                                  count |-> r.count, gt |-> gt])]

\* XREAD and XREADGROUP.  A group read of history, or of news when there are
\* some, is served at once; otherwise the client blocks if it asked to.
xreadCommand(s, r) ==
    LET gr == s.st.grp[r.g]
    IN  IF r.g = Nobody                                  \* XREAD BLOCK ... $
        THEN Blocked(s, r, s.st.last)
        ELSE IF ~s.st.on \/ ~gr.on THEN s                \* -NOGROUP
        ELSE IF r.history
        THEN streamReplyWithRangeFromConsumerPEL(
                WithConsumer(s, r.g, r.c, r.noack), r.g, r.c)
        ELSE IF streamLastValidID(s.st) > gr.last
        THEN streamReplyWithRange(WithConsumer(s, r.g, r.c, r.noack),
                                  r.g, r.c, gr.last, r.count, r.noack)
        ELSE Blocked(s, r, Top)

streamCreateCG(id) == [NoGroup EXCEPT !.on = TRUE, !.last = id]

streamDelConsumer(gr, c) ==
    [gr EXCEPT !.known = @ \ {c}, !.cpel[c] = {},
               !.pel = [i \in Id |-> IF i \in gr.cpel[c] THEN NoNack ELSE @[i]]]

\* The subcommands of XGROUP.  CREATE is with MKSTREAM; "$" is Top.
xgroupCommand(s, cmd) ==
    LET gr == s.st.grp[cmd.g]
        at == IF cmd.id = Top THEN s.st.last ELSE cmd.id
        on == s.st.on /\ gr.on
        with(new) == xpropagate([s EXCEPT !.st.grp[cmd.g] = new,
                                          !.st.on = TRUE], cmd)
    IN  CASE cmd.op = "create" /\ ~gr.on ->
                LET t == with(streamCreateCG(at))
                IN  IF s.st.on THEN t ELSE streamSignalReady(t)
          [] cmd.op = "setid" /\ on -> with([gr EXCEPT !.last = at])
          [] cmd.op = "destroy" /\ on -> streamSignalReady(with(NoGroup))
          [] cmd.op = "createconsumer" /\ on /\ cmd.c \notin gr.known ->
                with(streamLookupConsumer(gr, cmd.c))
          [] cmd.op = "delconsumer" /\ on -> with(streamDelConsumer(gr, cmd.c))
          [] OTHER -> s

xackCommand(s, cmd) ==
    IF s.st.grp[cmd.g].pel[cmd.id] = NoNack THEN s
    ELSE xpropagate([s EXCEPT !.st.grp[cmd.g] = Settle(@, cmd.id)], cmd)

\* One entry of an XCLAIM or an XAUTOCLAIM passes to the consumer.
Claim(s, cmd, id) ==
    LET nack == s.st.grp[cmd.g].pel[id]
        skip == \/ nack = NoNack /\ ~(cmd.force /\ id \in s.st.items)
                \/ nack # NoNack /\ cmd.minidle /\ ~nack.idle
        old == IF nack = NoNack THEN 1 ELSE nack.count
        count == IF cmd.retry # 0 THEN cmd.retry
                 ELSE IF cmd.justid THEN old ELSE old + 1
        gr == Assign(streamLookupConsumer(s.st.grp[cmd.g], cmd.c),
                     id, cmd.c, count, cmd.idle)
    IN  IF skip THEN s
        ELSE streamPropagateXCLAIM([s EXCEPT !.st.grp[cmd.g] = gr], cmd.g, id)

ClaimAll(s, cmd, ids) == FoldLeft(LAMBDA w, id : Claim(w, cmd, id), s, ids)

xclaimCommand(s, cmd) ==
    LET gr == s.st.grp[cmd.g]
        t == [s EXCEPT !.st.grp[cmd.g].last = Max({@, cmd.lastid})]
        u == ClaimAll(t, cmd, cmd.ids)
    IN  IF ~gr.on THEN s
        ELSE IF u.out = s.out /\ t # s THEN streamPropagateGroupID(u, cmd.g)
        ELSE u

\* Claims the first "count" idle entries from "start" on, of the first ten
\* times as many that are pending.
xautoclaimCommand(s, cmd) ==
    LET gr == s.st.grp[cmd.g]
        firstOf(ids, n) == SubSeq(Ascending(ids), 1, Min({n, Cardinality(ids)}))
        pending == {i \in Id : i >= cmd.start /\ gr.pel[i] # NoNack}
        seen == Range(firstOf(pending, 10 * cmd.count))
        due == {i \in pending : i \in seen /\ (cmd.minidle => gr.pel[i].idle)}
        claim == [g |-> cmd.g, c |-> cmd.c, minidle |-> cmd.minidle,
                  force |-> FALSE, justid |-> cmd.justid, retry |-> 0,
                  idle |-> FALSE]
    IN  IF ~gr.on THEN s ELSE ClaimAll(s, claim, firstOf(due, cmd.count))

xcall(s, cmd) ==
    CASE cmd.op = "xadd" -> xaddCommand(s, cmd)
      [] cmd.op = "xtrim" -> xtrimCommand(s, cmd)
      [] cmd.op = "xdel" -> xdelCommand(s, cmd)
      [] cmd.op = "xsetid" -> xsetidCommand(s, cmd)
      [] cmd.op = "del" -> delStream(s, cmd)
      [] cmd.op = "xack" -> xackCommand(s, cmd)
      [] cmd.op = "xclaim" -> xclaimCommand(s, cmd)
      [] cmd.op = "xautoclaim" -> xautoclaimCommand(s, cmd)
      [] OTHER -> xgroupCommand(s, cmd)

CallAll(s, cmds) == FoldLeft(xcall, s, cmds)

-----------------------------------------------------------------------------
(* After each command, and after EXEC, the readers blocked on a key that was *)
(* signalled are tried in the order in which they blocked.                   *)

Woken(s, w) == [s EXCEPT !.wait = RemoveFirst(@, w)]

ServeReader(s, w) ==
    LET gr == s.st.grp[w.g]
        gt == IF w.g = Nobody THEN w.gt ELSE gr.last
        t == streamReplyWithRange(WithConsumer(s, w.g, w.c, w.noack),
                                  w.g, w.c, gt, w.count, w.noack)
    IN  IF w.g # Nobody /\ ~gr.on THEN Woken(s, w)      \* -NOGROUP
        ELSE IF s.st.last <= gt THEN s
        ELSE Woken(IF w.g = Nobody THEN s ELSE t, w)

ServeAll(s, readers) == FoldLeft(ServeReader, s, readers)

serveClientsBlockedOnStreamKey(s) ==
    IF s.ready /\ s.st.on THEN ServeAll(s, s.wait) ELSE s

\* What the replica makes of what is propagated.
XApplied(st, out) == CallAll(Host(st, TRUE), out).st

XBecomes(t) ==
    \E s \in {serveClientsBlockedOnStreamKey(t)} :
        /\ xs' = s.st
        /\ xr' = XApplied(xr, s.out)
        /\ xwait' = s.wait
        /\ xnew' = s.new

XFits(st) == \A g \in Group, i \in Id : st.grp[g].pel[i].count <= MaxCount

XsInit ==
    /\ xs = NoStream
    /\ xr = NoStream
    /\ xwait = <<>>
    /\ xnew = <<>>

Here == Host(xs, FALSE)

\* A client sends a command.
XCommand(cmd) ==
    \E s \in {xcall(Here, cmd)} : XFits(s.st) /\ s.st # xs /\ XBecomes(s)

\* A client sends a transaction: readers are served when EXEC is over.
XTransaction(cmds) ==
    \E s \in {CallAll(Here, cmds)} :
        XFits(s.st) /\ s.st # xs /\ XBecomes(s)

\* A reader that is not blocked reads.
XRead(r) ==
    /\ \A i \in DOMAIN xwait : xwait[i].c # r.c
    /\ \E s \in {xreadCommand(Here, r)} : XFits(s.st) /\ s # Here /\ XBecomes(s)

\* The timeout of a blocked reader, or the end of its connection.
XTimeout(i) ==
    /\ xwait' = RemoveAt(xwait, i)
    /\ xnew' = <<>>
    /\ UNCHANGED <<xs, xr>>

\* Time passes: every pending entry has been idle for long enough.
AgedGroup(gr) ==
    [gr EXCEPT !.pel = [i \in Id |->
        [@[i] EXCEPT !.idle = gr.pel[i] # NoNack]]]

Aged(st) == [st EXCEPT !.grp = [g \in Group |-> AgedGroup(@[g])]]

XTick ==
    /\ Aged(xs) # xs
    /\ xs' = Aged(xs)
    /\ xr' = Aged(xr)
    /\ xnew' = <<>>
    /\ UNCHANGED xwait

XsNext ==
    \/ \E cmd \in XCmds : XCommand(cmd)
    \/ \E cmds \in XTxs : XTransaction(cmds)
    \/ \E r \in XReads : XRead(r)
    \/ \E i \in DOMAIN xwait : XTimeout(i)
    \/ XTick

XsSpec == XsInit /\ [][XsNext]_xsVars

-----------------------------------------------------------------------------
Nack == [owner : Consumer \cup {Nobody}, count : 0 .. MaxCount, idle : BOOLEAN]
GroupState == [on : BOOLEAN, last : 0 .. Top, known : SUBSET Consumer,
               cpel : [Consumer -> SUBSET Id], pel : [Id -> Nack]]

\* Types, and the entries are at most as new as the last ID: an ID is never
\* used twice (streamAppendItem).
XsTypeOK ==
    /\ \A st \in {xs, xr} : /\ st.items \subseteq 1 .. st.last
                            /\ st.last <= MaxId
                            /\ st.grp \in [Group -> GroupState]
                            /\ ~st.on => st = NoStream
    /\ \A w \in Range(xwait) : w.c \in Consumer /\ w.gt \in 0 .. Top
    /\ IsInjective([i \in DOMAIN xwait |-> xwait[i].c])

\* The group's list of pending entries and those of its consumers agree: an
\* entry is in the list of the consumer its NACK names, and in no other
\* (streamReplyWithRange, xclaimCommand, xackCommand, streamDelConsumer).
PendingListsAgree ==
    \A st \in {xs, xr}, g \in Group :
        LET gr == st.grp[g]
        IN  /\ \A i \in Id, c \in Consumer :
                    (i \in gr.cpel[c]) = (gr.pel[i].owner = c)
            /\ \A c \in Consumer : gr.cpel[c] # {} => c \in gr.known
            /\ \A i \in Id : gr.pel[i].owner # Nobody => gr.pel[i].count > 0

\* The replica has the entries, the groups, their last IDs, and the pending
\* entries with their owners; it knows no consumer the master does not, and
\* takes no entry for delivered more often, or more recently, than it was
\* (streamPropagateXCLAIM, streamPropagateGroupID, streamRewriteTrimArgument).
StreamReplicaFollows ==
    /\ <<xr.on, xr.items, xr.last>> = <<xs.on, xs.items, xs.last>>
    /\ \A g \in Group :
        LET m == xs.grp[g]
            s == xr.grp[g]
        IN  /\ <<s.on, s.last, s.cpel>> = <<m.on, m.last, m.cpel>>
            /\ s.known \subseteq m.known
            /\ \A i \in Id : /\ s.pel[i].owner = m.pel[i].owner
                             /\ s.pel[i].count <= m.pel[i].count
                             /\ m.pel[i].idle => s.pel[i].idle

\* A command that sets the last ID of a group.
SetsLastId(cmd, g) ==
    /\ cmd.op \in {"create", "setid", "xclaim"}
    /\ cmd.g = g
    /\ cmd.op = "xclaim" => cmd.lastid > 0

\* A group hands out entries as new in the order of their IDs and none twice,
\* over all its consumers and all its reads, until XGROUP SETID or CREATE, or
\* XCLAIM, sets its last ID; and it skips none that is still there
\* (xreadCommand, streamReplyWithRange, serveClientsBlockedOnStreamKey).
\* Only a transaction can do both, set the ID and let readers have more.
GroupHandsOutOnce ==
    [][\A g \in Group :
        LET last == xs.grp[g].last
            news == {i \in DOMAIN xnew' : xnew'[i][1] = g}
            set == \E cmds \in XTxs :
                        /\ \E k \in DOMAIN cmds : SetsLastId(cmds[k], g)
                        /\ XTransaction(cmds)
        IN  /\ \A i, j \in news : i < j => xnew'[i][3] < xnew'[j][3]
            /\ xs.grp[g].on /\ news # {} /\ ~set =>
                /\ \A i \in news : xnew'[i][3] > last
                /\ \A id \in xs'.items :
                        id > last /\ id <= xs'.grp[g].last =>
                            \E i \in news : xnew'[i][3] = id]_xsVars

\* When an entry has arrived no reader stays blocked that could have had it:
\* not even if others of its group were served first, or the group was
\* destroyed and created again meanwhile (signalKeyAsReady in xaddCommand).
NewsWakesReaders ==
    [][xs'.last > xs.last /\ xs'.items \ xs.items # {} =>
        \A w \in Range(xwait') :
            /\ w.g = Nobody => w.gt >= xs'.last
            /\ w.g # Nobody => xs'.grp[w.g].on /\ xs'.grp[w.g].last >= xs'.last
       ]_xsVars

=============================================================================
