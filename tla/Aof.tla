-------------------------------- MODULE Aof ---------------------------------
(* The append only file of Redis 6.2.6 (aof.c, bio.c, parts of server.c):    *)
(* what is buffered, written and synced before clients get their replies,    *)
(* the rewrite of the file by a child process that receives the writes made  *)
(* meanwhile through a pipe, switching the file on and off, and loading it   *)
(* after the process was killed or the power failed.                         *)
EXTENDS Naturals, FiniteSets, SequencesExt

CONSTANTS
    Db,             \* the databases written to
    AfCmds,         \* commands: <<database, TRUE if a transaction>>
    NoDb,           \* aof_selected_db = -1
    Policies,       \* values of appendfsync: "always", "everysec", "no"
    AfClients,      \* clients that write, or that a write wakes
    NoFsyncs,       \* values of no-appendfsync-on-rewrite
    IoThreads,      \* TRUE: io-threads may write the replies
    MaxWrites,      \* bound: commands executed, for each policy
    MaxShort,       \* bound: commands left out by one short write
    MaxJobs         \* bound: fsyncs queued for the bio thread

ASSUME AofAssumption ==
    /\ NoDb \notin Db /\ Db # {}
    /\ Policies \subseteq {"always", "everysec", "no"}
    /\ NoFsyncs \subseteq BOOLEAN /\ IoThreads \in BOOLEAN
    /\ AfCmds \subseteq Db \X BOOLEAN
    /\ MaxWrites \in [Policies -> Nat]
    /\ {MaxShort, MaxJobs} \subseteq Nat

VARIABLES
    afPolicy,   \* appendfsync
    afNoFsync,  \* aof_no_fsync_on_rewrite
    afState,    \* aof_state: "on", "wait" (for a rewrite), "off"
    afData,     \* [Db -> Seq(writes)]: what the writes have made of each db
    afNext,     \* the next write
    afDisk,     \* the file, what of it is synced, the buffer before it, ...
    afSel,      \* aof_selected_db
    afChild,    \* the child process, with its pipe
    afDiff,     \* aof_rewrite_buf_blocks
    afSched,    \* aof_rewrite_scheduled
    afReply,    \* [AfClients -> writes whose replies wait in its buffer]
    afHandler,  \* [AfClients -> "none"; "plain" or "barrier" write handler]
    afRead,     \* clients read from since the event loop slept
    afAcked,    \* writes whose replies were sent (history)
    afAhead     \* writes answered, or to be answered, before the next fsync
                \* on a path without AE_BARRIER or fsync (history)
afClientVars == <<afReply, afHandler, afRead, afAcked, afAhead>>
afVars == <<afPolicy, afNoFsync, afState, afData, afNext, afDisk, afSel,
            afChild, afDiff, afSched, afClientVars>>

\* A write is <<n, 0>>; MULTI makes two, <<n, 1>> and <<n, 2>>.
Select(d) == [t |-> "select", d |-> d]
Write(w) == [t |-> "write", w |-> w]
Preamble(data) == [t |-> "rdb", data |-> data]
AfMulti == [t |-> "multi"]
AfExec == [t |-> "exec"]

NoData == [d \in Db |-> <<>>]
NoChild == [kind |-> "none", stage |-> "dump", snap |-> NoData, got |-> <<>>,
            pipe |-> <<>>, stop |-> FALSE]
\* due: a second went by since aof_last_fsync; offset: aof_fsync_offset;
\* jobs: fsyncs queued for the bio thread; postponed: seconds since
\* aof_flush_postponed_start, from 1; err: aof_last_write_status is C_ERR.
EmptyDisk == [file |-> <<>>, synced |-> 0, offset |-> 0, buf |-> <<>>,
              jobs |-> <<>>, due |-> FALSE, postponed |-> 0, err |-> FALSE]

-----------------------------------------------------------------------------
(* Loading.                                                                  *)

ReplayOne(s, tok) ==
    CASE tok.t = "rdb" -> [s EXCEPT !.data = tok.data]
      [] tok.t = "select" -> [s EXCEPT !.cur = tok.d]
      [] tok.t = "multi" -> [s EXCEPT !.tx = TRUE]
      [] tok.t = "exec" -> [s EXCEPT !.data[s.cur] = @ \o s.queue,
                                     !.tx = FALSE, !.queue = <<>>]
      [] tok.t = "write" /\ s.tx -> [s EXCEPT !.queue = Append(@, tok.w)]
      [] tok.t = "write" /\ ~s.tx -> [s EXCEPT !.data[s.cur] = Append(@, tok.w)]

\* A transaction without its EXEC is dropped.
NothingLoaded == [data |-> NoData, cur |-> CHOOSE d \in Db : TRUE,
                  tx |-> FALSE, queue |-> <<>>]
Replay(toks) == FoldLeft(ReplayOne, NothingLoaded, toks).data

\* The file without the transaction that is not complete at its end.
ValidPart(toks) ==
    LET multis == {i \in DOMAIN toks : toks[i] = AfMulti}
        open == {i \in multis : \A j \in DOMAIN toks : j > i => toks[j] # AfExec}
    IN  IF open = {} THEN toks ELSE SubSeq(toks, 1, Min(open) - 1)

-----------------------------------------------------------------------------
(* Writing and syncing.                                                      *)

SyncInProgress(a) == a.jobs # <<>>

\* Mutant: the reply is sent when the write is in the page cache.
TryFsyncLazy(a, inProgress) == a

FsyncPutOff == afNoFsync /\ afChild.kind # "none"

TryFsync(a, inProgress) ==
    CASE FsyncPutOff -> a
      [] ~FsyncPutOff /\ afPolicy = "always" ->
            [a EXCEPT !.synced = Len(a.file), !.offset = Len(a.file),
                      !.due = FALSE]
      [] ~FsyncPutOff /\ afPolicy = "everysec" /\ a.due ->
            IF inProgress THEN [a EXCEPT !.due = FALSE]
            ELSE [a EXCEPT !.jobs = Append(@, "file"), !.offset = Len(a.file),
                           !.due = FALSE]
      [] OTHER -> a

\* n of the buffered commands reach the file: fewer than all, and not taken
\* back by ftruncate, when the disk is full.
flushAppendOnlyFile(a, force, n) ==
    LET busy == afPolicy = "everysec" /\ SyncInProgress(a)
        w == [a EXCEPT !.file = @ \o SubSeq(a.buf, 1, n),
                       !.buf = SubSeq(@, n + 1, Len(@)),
                       !.postponed = 0, !.err = n < Len(a.buf)]
    IN  IF a.buf = <<>>
        THEN IF /\ afPolicy = "everysec" /\ a.due /\ ~busy
                /\ a.offset # Len(a.file)
             THEN TryFsync(a, FALSE) ELSE a
        ELSE IF busy /\ ~force /\ a.postponed = 0
        THEN [a EXCEPT !.postponed = 1]
        ELSE IF busy /\ ~force /\ a.postponed < 3 THEN a
        ELSE IF w.err THEN w
        ELSE TryFsync(w, busy)

\* With "always" an error ends the process: that is a Crash.
Written(a) ==
    IF afPolicy = "always" THEN {Len(a.buf)}
    ELSE {n \in 0 .. Len(a.buf) : Len(a.buf) - n <= MaxShort}

feedDiff(toks) == afChild.kind = "aof"

feedAppendOnlyFile(d, cmds) ==
    LET toks == IF d # afSel THEN <<Select(d)>> \o cmds ELSE cmds
    IN  /\ afSel' = d
        /\ afDisk' = IF afState = "on" THEN [afDisk EXCEPT !.buf = @ \o toks]
                     ELSE afDisk
        /\ afDiff' = IF feedDiff(toks) THEN afDiff \o toks ELSE afDiff

writeCommandsDeniedByDiskError == afState # "off" /\ afDisk.err

NoReplies == [c \in AfClients |-> {}]
NoHandlers == [c \in AfClients |-> "none"]
Pending == UNION {afReply[c] : c \in AfClients}
InForce == afState = "on" /\ afPolicy = "always"

\* The reply to c, or to a client that c wakes, can go out in this round of the
\* event loop: its handler has no barrier, or it has one, which orders only
\* what the woken client itself sends, and that client was not read from.
NoBarrier(c, woken) ==
    \/ afHandler[c] = "plain"
    \/ \E r \in woken : \/ afHandler[r] = "plain"
                        \/ afHandler[r] = "barrier" /\ r \notin afRead

\* A command of client c is executed: one write, or a transaction of two.  The
\* clients in woken were blocked and are answered by it (serveClients).
AfCommand(c, woken, d, tx) ==
    LET ws == IF tx THEN <<<<afNext, 1>>, <<afNext, 2>>>> ELSE <<<<afNext, 0>>>>
        cmds == [i \in DOMAIN ws |-> Write(ws[i])]
    IN  /\ afNext <= MaxWrites[afPolicy]
        /\ ~writeCommandsDeniedByDiskError
        /\ c \notin woken
        /\ afNext' = afNext + 1
        /\ afData' = [afData EXCEPT ![d] = @ \o ws]
        /\ IF afState = "off" THEN UNCHANGED <<afSel, afDisk, afDiff>>
           ELSE feedAppendOnlyFile(d, IF tx THEN <<AfMulti>> \o cmds \o <<AfExec>>
                                      ELSE cmds)
        /\ afReply' = [x \in AfClients |-> IF x \in woken \cup {c}
                                          THEN afReply[x] \cup Range(ws)
                                          ELSE afReply[x]]
        /\ afRead' = afRead \cup {c}
        /\ afAhead' = IF InForce /\ NoBarrier(c, woken)
                      THEN afAhead \cup Range(ws) ELSE afAhead
        /\ UNCHANGED <<afPolicy, afNoFsync, afState, afChild, afSched, afHandler,
                       afAcked>>

\* Clients in sent have all their replies.  Those in full do not, and get a
\* handler: for these replies or for replies to reads.  A reply sent in part
\* still waits.
writeToClient(sent, full, kinds) ==
    /\ afAcked' = afAcked \cup UNION {afReply[c] : c \in sent}
    /\ afReply' = [c \in AfClients |-> IF c \in sent THEN {} ELSE afReply[c]]
    /\ \E kind \in [full -> kinds] :
        afHandler' = [c \in AfClients |-> IF c \in sent THEN "none"
                                        ELSE IF c \in full THEN kind[c]
                                        ELSE afHandler[c]]

\* handleClientsWithPendingWrites asks for a barrier when it installs the
\* handler; the function for io-threads never does.
HandlerKind == IF InForce THEN "barrier" ELSE "plain"
HandlerKinds == {HandlerKind} \cup (IF IoThreads THEN {"plain"} ELSE {})

\* A client with a handler is not in clients_pending_write.
NoHandler == {c \in AfClients : afHandler[c] = "none"}

\* The event loop is about to sleep: the buffer is flushed, then the replies
\* are sent.
BeforeSleep ==
    /\ \E n \in Written(afDisk) :
        afDisk' = IF afState = "on" THEN flushAppendOnlyFile(afDisk, FALSE, n)
                  ELSE afDisk
    /\ \E sent \in SUBSET NoHandler :
            writeToClient(sent, NoHandler \ sent, HandlerKinds)
    /\ afRead' = {}
    /\ afAhead' = IF ~InForce \/ afDisk.buf = <<>> THEN afAhead
                  ELSE IF FsyncPutOff THEN afAhead \cup Pending ELSE {}
    /\ UNCHANGED <<afPolicy, afNoFsync, afState, afData, afNext, afSel, afChild,
                   afDiff, afSched>>

\* A slow script lets the event loop run inside it: replies are sent, by
\* handlers too, and nothing is flushed.
processEventsWhileBlocked ==
    /\ \E sent \in SUBSET AfClients :
            writeToClient(sent, NoHandler \ sent, {HandlerKind})
    /\ afAhead' = IF InForce THEN afAhead \cup Pending ELSE afAhead
    /\ UNCHANGED <<afPolicy, afNoFsync, afState, afData, afNext, afDisk, afSel,
                   afChild, afDiff, afSched, afRead>>

\* Mutant: the handler runs before or after the read, as poll reports them.
CanWriteAnyTime(c) == afHandler[c] # "none"

\* AE_BARRIER puts the handler before the commands that the client itself sent
\* in the same round.
CanWrite(c) ==
    /\ afHandler[c] # "none"
    /\ afHandler[c] = "barrier" => c \notin afRead

\* The event loop calls a client's write handler.
sendReplyToClient(c) ==
    /\ CanWrite(c)
    /\ writeToClient({c}, {}, {})
    /\ UNCHANGED <<afPolicy, afNoFsync, afState, afData, afNext, afDisk, afSel,
                   afChild, afDiff, afSched, afRead, afAhead>>

\* The bio thread ends an fsync: of the file, or of one that was replaced.
BioFsync ==
    /\ afDisk.jobs # <<>>
    /\ afDisk' = [afDisk EXCEPT
            !.jobs = Tail(@),
            !.synced = IF Head(afDisk.jobs) = "file" THEN Len(afDisk.file)
                       ELSE @]
    /\ UNCHANGED <<afPolicy, afNoFsync, afState, afData, afNext, afSel, afChild,
                   afDiff, afSched, afClientVars>>

AfSecond ==
    /\ afDisk' = [afDisk EXCEPT !.due = TRUE,
                    !.postponed = IF @ \in {1, 2} THEN @ + 1 ELSE @]
    /\ afDisk' # afDisk
    /\ UNCHANGED <<afPolicy, afNoFsync, afState, afData, afNext, afSel, afChild,
                   afDiff, afSched, afClientVars>>

\* serverCron retries a flush that was postponed or failed.
CronFlush ==
    /\ afState = "on"
    /\ afDisk.postponed > 0 \/ afDisk.err
    /\ \E n \in Written(afDisk) : afDisk' = flushAppendOnlyFile(afDisk, FALSE, n)
    /\ UNCHANGED <<afPolicy, afNoFsync, afState, afData, afNext, afSel, afChild,
                   afDiff, afSched, afClientVars>>

-----------------------------------------------------------------------------
(* The rewrite.                                                              *)

\* Mutant: the diff goes on in the database selected before the fork.
SelectedAtFork == afSel

\* The diff has to begin with a SELECT.
SelectedAfterFork == NoDb

rewriteAppendOnlyFileBackground ==
    /\ afChild' = [NoChild EXCEPT !.kind = "aof", !.snap = afData]
    /\ afSel' = SelectedAfterFork
    /\ afSched' = FALSE

bgrewriteaofCommand ==
    /\ afChild.kind # "aof"
    /\ IF afChild.kind = "none" THEN rewriteAppendOnlyFileBackground
       ELSE afSched' = TRUE /\ UNCHANGED <<afChild, afSel>>
    /\ UNCHANGED <<afPolicy, afNoFsync, afState, afData, afNext, afDisk, afDiff,
                   afClientVars>>

CronRewrite ==
    /\ afChild.kind = "none" /\ afSched
    /\ rewriteAppendOnlyFileBackground
    /\ UNCHANGED <<afPolicy, afNoFsync, afState, afData, afNext, afDisk, afDiff,
                   afClientVars>>

\* A child saves an RDB file: no rewrite starts meanwhile.
RdbChild ==
    /\ \/ afChild.kind = "none" /\ afChild' = [NoChild EXCEPT !.kind = "rdb"]
       \/ afChild.kind = "rdb" /\ afChild' = NoChild
    /\ UNCHANGED <<afPolicy, afNoFsync, afState, afData, afNext, afDisk, afSel,
                   afDiff, afSched, afClientVars>>

\* Part of the diff is written to the pipe.
aofChildWriteDiffData ==
    /\ afChild.kind = "aof" /\ ~afChild.stop
    /\ \E n \in 1 .. Len(afDiff) :
        /\ afChild' = [afChild EXCEPT !.pipe = @ \o SubSeq(afDiff, 1, n)]
        /\ afDiff' = SubSeq(afDiff, n + 1, Len(afDiff))
    /\ UNCHANGED <<afPolicy, afNoFsync, afState, afData, afNext, afDisk, afSel,
                   afSched, afClientVars>>

\* The parent reads "!": it stops sending and answers.
aofChildPipeReadable ==
    /\ afChild.stage = "asked" /\ ~afChild.stop
    /\ afChild' = [afChild EXCEPT !.stop = TRUE]
    /\ UNCHANGED <<afPolicy, afNoFsync, afState, afData, afNext, afDisk, afSel,
                   afDiff, afSched, afClientVars>>

ChildLastRead(c) == [c EXCEPT !.got = @ \o c.pipe, !.pipe = <<>>]

\* The child dumps the data it was forked with, reads what the parent sends,
\* asks it to stop, reads the rest and ends; or it fails.
rewriteAppendOnlyFile ==
    /\ afChild.kind = "aof" /\ afChild.stage \in {"dump", "asked"}
    /\ \/ /\ afChild.pipe # <<>>
          /\ afChild' = [afChild EXCEPT !.got = @ \o afChild.pipe, !.pipe = <<>>]
       \/ /\ afChild.stage = "dump"
          /\ afChild' = [afChild EXCEPT !.stage = "asked"]
       \/ /\ afChild.stop
          /\ afChild' = [ChildLastRead(afChild) EXCEPT !.stage = "done"]
       \/ afChild' = [afChild EXCEPT !.stage = "failed"]
    /\ UNCHANGED <<afPolicy, afNoFsync, afState, afData, afNext, afDisk, afSel,
                   afDiff, afSched, afClientVars>>

\* The parent adds the rest of the diff to the new file and renames it.  With
\* "everysec" the new file is synced later; the old one's fsync is no use.
NewFile ==
    LET toks == <<Preamble(afChild.snap)>> \o afChild.got \o afDiff
        kept == Len(toks) - Len(afDiff)
    IN  IF afState = "off" THEN [EmptyDisk EXCEPT !.file = toks, !.synced = kept,
                                                  !.due = afDisk.due]
        ELSE [file |-> toks, offset |-> Len(toks), buf |-> <<>>,
              synced |-> IF afPolicy = "always" THEN Len(toks) ELSE kept,
              jobs |-> [i \in DOMAIN afDisk.jobs |-> "replaced"] \o
                       (IF afPolicy = "everysec" THEN <<"file">> ELSE <<>>),
              due |-> FALSE, postponed |-> afDisk.postponed,
              err |-> afDisk.err]

backgroundRewriteDoneHandler ==
    LET failed == afState = "wait"
    IN  /\ afChild.stage \in {"done", "failed"}
        /\ Len(afDisk.jobs) < MaxJobs
        /\ \/ /\ afChild.stage = "done"
              /\ afDisk' = NewFile
              /\ afSel' = IF afState = "off" THEN afSel ELSE NoDb
              /\ afState' = IF afState = "wait" THEN "on" ELSE afState
              /\ afAhead' = {}
              /\ UNCHANGED afSched
           \/ /\ afSched' = (afSched \/ failed)
              /\ UNCHANGED <<afDisk, afSel, afState, afAhead>>
        /\ afChild' = NoChild
        /\ afDiff' = <<>>
        /\ UNCHANGED <<afPolicy, afNoFsync, afData, afNext, afReply, afHandler,
                       afRead, afAcked>>

-----------------------------------------------------------------------------
(* CONFIG SET appendonly.                                                    *)

KillAppendOnlyChild(c) == IF c.kind = "aof" THEN NoChild ELSE c

stopAppendOnly ==
    /\ afState # "off"
    /\ \E n \in Written(afDisk) :
        LET a == flushAppendOnlyFile(afDisk, TRUE, n)
        IN  afDisk' = [a EXCEPT !.synced = Len(a.file), !.buf = <<>>,
                                !.jobs = <<>>]
    /\ afState' = "off"
    /\ afSel' = NoDb
    /\ afSched' = FALSE
    /\ afChild' = KillAppendOnlyChild(afChild)
    /\ afDiff' = <<>>
    /\ afAhead' = {}
    /\ UNCHANGED <<afPolicy, afNoFsync, afData, afNext, afReply, afHandler,
                   afRead, afAcked>>

startAppendOnly ==
    /\ afState = "off"
    /\ LET c == KillAppendOnlyChild(afChild)
       IN  IF c.kind = "none" THEN rewriteAppendOnlyFileBackground
           ELSE afChild' = c /\ afSched' = TRUE /\ UNCHANGED afSel
    /\ afState' = "wait"
    /\ afDisk' = [afDisk EXCEPT !.due = FALSE, !.err = FALSE]
    /\ afDiff' = <<>>
    /\ UNCHANGED <<afPolicy, afNoFsync, afData, afNext, afClientVars>>

-----------------------------------------------------------------------------
(* The process is killed (all of the file is left), or the power fails (any  *)
(* part of it not shorter than what is synced); it starts again and loads.   *)

Restart(toks, synced) ==
    /\ afDisk' = [EmptyDisk EXCEPT !.file = ValidPart(toks),
                    !.synced = Min({synced, Len(ValidPart(toks))}),
                    !.offset = Len(ValidPart(toks))]
    /\ afData' = Replay(toks)
    /\ afState' = "on"
    /\ afSel' = NoDb
    /\ afChild' = NoChild
    /\ afDiff' = <<>>
    /\ afSched' = FALSE
    /\ afReply' = NoReplies /\ afHandler' = NoHandlers /\ afRead' = {}
    /\ LET loaded == UNION {Range(Replay(toks)[d]) : d \in Db}
       IN  afAcked' = afAcked \cap loaded /\ afAhead' = afAhead \cap loaded
    /\ UNCHANGED <<afPolicy, afNoFsync, afNext>>

Crash == afState = "on" /\ Restart(afDisk.file, afDisk.synced)

PowerFailure ==
    /\ afState = "on"
    /\ \E n \in afDisk.synced .. Len(afDisk.file) :
            Restart(SubSeq(afDisk.file, 1, n), n)

AofInit ==
    /\ afPolicy \in Policies
    /\ afNoFsync \in NoFsyncs
    /\ afState = "on"
    /\ afData = NoData
    /\ afNext = 1
    /\ afDisk = EmptyDisk
    /\ afSel = NoDb
    /\ afChild = NoChild
    /\ afDiff = <<>>
    /\ afSched = FALSE
    /\ afReply = NoReplies
    /\ afHandler = NoHandlers
    /\ afRead = {}
    /\ afAcked = {}
    /\ afAhead = {}

AofNext ==
    \/ \E c \in AfClients, woken \in SUBSET AfClients, cmd \in AfCmds :
            AfCommand(c, woken, cmd[1], cmd[2])
    \/ \E c \in AfClients : sendReplyToClient(c)
    \/ BeforeSleep \/ processEventsWhileBlocked
    \/ BioFsync \/ AfSecond \/ CronFlush
    \/ bgrewriteaofCommand \/ CronRewrite \/ RdbChild
    \/ aofChildWriteDiffData \/ aofChildPipeReadable \/ rewriteAppendOnlyFile
    \/ backgroundRewriteDoneHandler
    \/ stopAppendOnly \/ startAppendOnly
    \/ Crash \/ PowerFailure

AofSpec == AofInit /\ [][AofNext]_afVars

-----------------------------------------------------------------------------
\* Types; the synced part is a part of the file, and one fsync at most is
\* queued for the file (TryFsync looks at SyncInProgress).
AofTypeOK ==
    /\ afState \in {"on", "wait", "off"}
    /\ afSel \in Db \cup {NoDb}
    /\ afDisk.synced \in 0 .. Len(afDisk.file)
    /\ afDisk.postponed \in 0 .. 3
    /\ \A i, j \in DOMAIN afDisk.jobs :
            afDisk.jobs[i] = "file" /\ afDisk.jobs[j] = "file" => i = j
    /\ afChild.kind \in {"none", "rdb", "aof"}
    /\ afChild.stage \in {"dump", "asked", "done", "failed"}
    /\ afDiff # <<>> => afChild.kind = "aof"

\* The file with the buffer behind it, and the file that a rewrite is making
\* with what is still in the pipe and in the diff, would both load to the data
\* in memory, each write once, in order and in its database
\* (feedAppendOnlyFile, rewriteAppendOnlyFileBackground,
\* backgroundRewriteDoneHandler, startAppendOnly, flushAppendOnlyFile); and a
\* transaction is there as a whole or not at all, after any crash
\* (loadAppendOnlyFile reverts an incomplete MULTI).
AofReplayGivesData ==
    /\ afState = "on" => Replay(afDisk.file \o afDisk.buf) = afData
    /\ afState # "off" /\ afChild.kind = "aof" =>
        Replay(<<Preamble(afChild.snap)>> \o afChild.got \o afChild.pipe
                    \o afDiff) = afData
    /\ \A d \in Db, n \in 1 .. MaxWrites[afPolicy] :
        (<<n, 1>> \in Range(afData[d])) = (<<n, 2>> \in Range(afData[d]))

\* With appendfsync always a client that has its reply does not lose its
\* write, not even when the power fails at once: "acknowledged or observed
\* writes ... synced on disk" (flushAppendOnlyFile, AE_BARRIER).  Until the next
\* fsync the writes in afAhead are excepted, where the code lets a reply go
\* first: its client's handler was installed without a barrier (NoBarrier: when
\* the file was off or waiting for its rewrite, or by io-threads), it goes to a
\* woken client with a handler, it waits while a slow script lets events run,
\* or no-appendfsync-on-rewrite puts the fsync off.
AofAckedIsSynced ==
    afPolicy = "always" /\ afState = "on" =>
        LET kept == Replay(SubSeq(afDisk.file, 1, afDisk.synced))
        IN  afAcked \ afAhead \subseteq UNION {Range(kept[d]) : d \in Db}

=============================================================================
