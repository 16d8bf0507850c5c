# TLA+ models of hm-dianping

The repository holds a course on Redis and the application it builds,
`hm-dianping` (shop reviews, flash sales of vouchers, a social feed). Two
programs in it have logic of their own that is worth a model:

* `5_C# 代码/com.hmdp/`, the application: the .NET port of the Java original
  (below: `com.hmdp/`);
* `4_Java 代码/原理篇/原理篇：redis-6.2.6/redis-6.2.6/`, the source of Redis 6.2.6 that
  the part of the course about Redis' internals walks through (below: `redis/`;
  file names such as `t_stream.c` are in its `src/`).

The first uses the second: every promise of the application rests on commands,
streams, replication and persistence of a Redis server.

1. [The system](#1-the-system)
2. [Modules and the code they model](#2-modules-and-the-code-they-model)
3. [What the runs check](#3-what-the-runs-check)
4. [What is proved](#4-what-is-proved)
5. [Where the code departs from its own words](#5-where-the-code-departs-from-its-own-words)
6. [Assumptions and abstractions](#6-assumptions-and-abstractions)
7. [What is not modelled](#7-what-is-not-modelled)
8. [What is left to do](#8-what-is-left-to-do)
9. [Running it](#9-running-it)

## 1. The system

```
 browser -> nginx -> instances of com.hmdp (ASP.NET) ---- SqlSugar ---- MySQL (hmdp.sql)
                       |        |                      transactions, row locks
                       |        +-- SekillOrderBgService, one consumer per instance
                       +-- StackExchange.Redis
                                |
     +--------------------------v---------------------------------------------+
     | redis-server: event loop -> command -> keyspace / stream / dict         |
     |      what a command did is propagated:                                  |
     |        +-> aof.c: buffer, file, rewrite          (persistence)          |
     |        +-> replication.c: backlog, replicas      (Psync)                |
     |   redis-sentinel: watches a master, replaces it by a replica            |
     |   cluster mode: nodes own hash slots, replicas are elected              |
     +-------------------------------------------------------------------------+
```

**The application.** Requests are handlers of controllers that call one service
each. They share nothing in memory; what they share, with each other and with
the other instances, is MySQL and Redis, through single calls between which
anything can happen: other requests, a lost reply, the end of the process. No
transaction spans the two stores.

**Redis.** A server is single threaded, so that a command with everything it
triggers is one step; the difficulty is in what is spread over several: a
rehash, a SCAN, a blocked client, a transaction with WATCH, a rewrite of the
append only file, a synchronisation, an election. Several processes have to
agree, over links that break, across crashes, on data (replicas), on a master
(Sentinels) or on the owners of slots (cluster nodes).

### Inventory

| Component (code) | State it keeps | Operations | Hard behaviour | Correct when | Module |
|---|---|---|---|---|---|
| Flash sale: `VoucherService.AddSeckillVoucher`, `VoucherOrderService.SeckillVoucher` (Lua), `SekillOrderBgService` | Redis: `seckill:stock:*`, `seckill:order:*`, stream `streamOrders` with group `g1`, `lock:order:*`; MySQL: vouchers, stock, orders | create a voucher; buy (atomic script); consume an entry: lock, count, take stock, insert, commit, release | several consumers with one name, locks that expire, a crash or lost reply between any two calls, Redis written inside a SQL transaction that may roll back, a transaction that one return path does not end | one order per user and voucher; stock neither oversold nor lost; admitted buyers served | `Seckill`, `FlashSale` |
| Shop cache: `ShopService.QueryById`, `Update`, `ShopController.SaveShop` | `cache:shop:<id>`; `tb_shop` | cache-aside read with a marker for missing shops; update with delete of the key before the commit; insert | a late fill of an old row; failures between the steps of the update | only committed rows are shown; the cache does not stay stale | `ShopCache` |
| Likes: `BlogService.LikeBlog` | `tb_blog.liked`; `blog:like:<id>` | toggle | whole-row read-modify-write without a lock; unsigned counter; two stores | the number is the number of likers | `BlogLike` |
| Follow relation: `FollowService` | `tb_follow` (no unique key on the pair); `follows:<id>` | follow, unfollow, is-follow (table), common follows (sets) | opposite requests interleave; a failure between the stores; a retry | both stores say what the user last asked for | `Follow` |
| Publishing and fan-out: `BlogService.SaveBlog` | `tb_blog`; inbox `feed:<id>` | store, read the followers, push to each | the list of followers is read once and used later; a failure half way | every follower gets the blog, nobody else does | `Feed` |
| Inbox scrolling: `BlogService.QueryBlogOfFollow` | the cursor (`minTime`, `offset`), held by the client | next page | ties in time, entries that come and move between pages | no blog twice, none left out, the end is reached | `FeedScroll` |
| Redis keyspace: `db.c`, `expire.c`, `t_list.c`, `multi.c`, `blocked.c`, pauses of `networking.c`, `call`/`propagate` of `server.c` | databases, deadlines, WATCHes, queues of blocked clients | commands on lists and strings, SWAPDB, MOVE, RENAME, MULTI/EXEC, BLPOP, BLMOVE, CLIENT PAUSE, expiry | data appear under a waiting client by SWAPDB or RENAME; expiry between WATCH and EXEC; one push serves several clients and makes other keys ready | nobody waits beside data; who came first is served first; a stale EXEC writes nothing; the replica converges | `Keyspace` |
| Redis streams: `t_stream.c`, readers in `blocked.c` | entries, groups, pending lists, blocked readers | XADD to XAUTOCLAIM | an entry is in two pending lists; the replica rebuilds them from XCLAIMs | the lists agree, here and at the replica; nothing is handed out twice | `Streams` |
| Redis hash table: `dict.c`, its cron in `server.c` | two tables while rehashing, cursor, iterators | add, find, delete, resize, SCAN, safe iterator | the calls of one SCAN are spread over resizes in both directions | a key that stays is returned; an iterator returns it once | `Dict` |
| Append only file: `aof.c`, `bio.c` | buffer, file, synced part; child, pipe, diff | feed, flush, fsync, rewrite, switch on and off, load | writes made during a rewrite take three ways; a crash at any point; a file cut anywhere | the file loads to the data; with `always` an acknowledged write is kept | `Aof` |
| Replication: `replication.c` | replication IDs, offsets, backlog, links | PSYNC, full resynchronisation, REPLICAOF, restart, FAILOVER | histories are told apart by an ID and an offset only | what is on its way completes the replica; one history per ID | `Psync` |
| Sentinel: `sentinel.c` | views, epochs, votes, failover state, the configuration file | watch, vote, fail over, hello | epochs move during an election; crash between a vote and its answer; late hellos | one vote per epoch; no failover by a minority; a master is replaced only by a newer configuration | `Sentinel` |
| Cluster: `cluster.c` | views of roles, epochs and slots; votes | heartbeat and UPDATE, election, manual failover, collision of epochs | votes and claims arrive late; two nodes with one epoch | a slot passes on only with a greater epoch; all agree in the end | `Cluster` |

Not modelled, with the reasons in section 7: the id generator, the sign-in
bitmap, login and session, shop search, read-only queries, the condition
parser, helpers, start-up, controllers, test scripts, the Java samples, and of
Redis the data types as such, scripting, modules, ACL, pub/sub, eviction, I/O
and command line tools. `PROJECT.json` lists all of them, and under `hazards`
the places in the code that are hard to test, each with the properties that
cover it.

Hazards that were seen and are not covered by a property, because their
component is not modelled: the clock is read twice in `RedisIdWorker.cs:26`
(UTC seconds and local day) and in `UserService.cs:109` (month and day of a
sign-in); two first logins of one phone (`UserService.cs:62`) and the end of the
process between HSET and EXPIRE (`UserService.cs:78`); a page cut out of the
answer of the distance search (`ShopService.cs:80`); a task that is not awaited
(`BlogService.cs:34`); and, in the Java sample, a warm-up that finishes late and
an item whose deletion is an update (`ItemHandler.java:31`,
`RedisHandler.java:39`, `ItemController.java:62`).

## 2. Modules and the code they model

```
 application                                   Redis

 FlashSale <-refinement- Seckill               Keyspace  Streams   Dict  Aof  Psync   Sentinel  Cluster
                            |                      \       /          \   |    /          \       /
                        SeckillInv               MCRedisData         MCRedisCore         MCRedisHA
                         /      \                                            \____________  |  /
                  MCSeckill  SeckillProofs                                              MCRedisLive
                        \
                      MCAppLive                AofProofs (Aof)    StreamsProofs (Streams)
 ShopCache  BlogLike  FeedScroll  Feed         PsyncHistory, PsyncProofs (Psync)
     \________\__________/_______/  \          HAProofs (Sentinel, Cluster, MCRedisHA)
              MCApp, AppProofs     Follow      FoldLemmas: induction and folds, for all
                                               proofs but those of Seckill and HAProofs
```

`MC...` modules give small instances. Components that share no state are
checked in one run: a variable `part`, chosen at the start, names the one that
runs, the others stay where they began. `Feed` EXTENDS `Follow`, whose steps go
on between its own.

An action is what happens without a chance of interruption: in the
application one call to Redis or MySQL with the code up to the next call, in
Redis one round of the event loop. Every place where the code can be interrupted is a value of
`pc`, `step`, `st` or the like. Variables marked *history* are no state of the
program; they remember what a property needs, and no guard of the program's
actions reads them. Definitions keep the names of the code where they stand
for one function of it.

### Seckill, FlashSale

| Code | Model |
|---|---|
| `AddSeckillVoucher`: insert both rows, `StringSet` of the stock, commit | `InsertVoucher`, `PublishStock`, `CommitVoucher`; `FailVoucher` is an exception or the end of the process anywhere before the commit: the rows go, the Redis key stays |
| `SeckillVoucher`: the Lua script, one atomic step | `Purchase` (result 0), `Refuse` (results 1 and 2); both evaluate `EnsureGroup`, the script's `if(not redis.call('exists', ...))`, with Lua's rule for the truth of integers in `LuaNot` |
| the README's `xgroup create streamOrders g1 0-0 MKSTREAM` | `CreateGroup` |
| `ExecuteAsync`: `StreamReadGroup(.., ">")` | `Poll`, `PollNothing`; the position of the group is `lastDelivered`. Nothing acknowledges or re-reads an entry, so the pending list has no variable |
| `CreateVoucherOrder`: `LockTake`, count, begin, `UPDATE .. stock - 1 WHERE stock > 0`, insert and commit, rollback, `LockRelease` | `TakeLock` / `LockBusy`, `CheckOrder`, `TakeStock` / `NoStock`, `CommitOrder`, `Rollback`, `ReleaseLock` |
| `PX 50000` of the lock | `ExpireLock`, at any time |
| InnoDB's row lock | `RowLocked`: the UPDATE waits for the transaction that holds the row, the creator's or another consumer's |
| a call that throws, with or without effect | `PollLost`, `TakeLockLost`, `DbFault`, `ReleaseLockLost` |
| the process ends, a new one starts | `Crash`, `Restart` |

`FlashSale` is what the sale promises whatever carries it out: a user is
admitted to a voucher at most once, at most `Stock[v]` users are, an admitted
user gets one order or is lost, and a lost admission never turns into an
order. The refinement mapping: admitted pairs are the members of
`seckill:order:*`; rows are the committed orders; lost pairs are those whose
entry was delivered, that have no order and that no instance has in hand.
That admissions can be lost at all is the code's choice (no acknowledgement,
no reading of the pending list), and `LostForAReason` says when.

### ShopCache

One shop: keys and rows of two shops are independent and no request touches
two. A row is the number of the write that produced it. `MissCache`,
`QueryRow`, `FillCache` are `QueryWithPassThrough` (a hit changes nothing);
`BeginTran`, `UpdateRow`, `DeleteKey`, `CommitTran`, `RollbackTran` are
`Update`; `SaveShop` is the controller's insert; `ExpireCache` the times to
live. `held` is what a reader has read, or what a writer's open transaction
has written. The marker `"selfnull"` is `NoShop` in the cache.

### BlogLike

`CheckScore` (ZSCORE decides the branch), `ReadBlog`, `WriteBlog` (the whole
row), `WriteSet` (ZADD or ZREM), `LikeFails` (any call fails, done or not).
`liked` is an unsigned property and column: `NewCount` is modulo `Width`. A
decrement of a count that an overlap has made too small wraps around.

### Follow and Feed

`Ask` is the call of `Follow`, `InsertRow` / `DeleteRows` its call to MySQL,
`AddMember` / `RemoveMember` its call to Redis. `DeleteRows` goes on to the
set only if there was a row, as `DeleteNoEntity` answers. A pair may have
several rows: the table has no unique key. `IsFollow` and `FollowCommons` are
operators on the state, as the code reads it. A MySQL call that was carried
out although it threw is `InsertRow` or `DeleteRows` followed by
`FollowFails`. `Fans` and `Authors` may overlap.

`Feed` adds `SaveBlog`: `Publish`, `AddBlog`, `QueryFans`, one `PushTo` per
turn of the loop, `SaveFails`; `FollowStep` is a step of the follow requests in
between. `loyal` and `ever` are followed until the query has read the
followers: the fans the call must serve and those it may serve.

### FeedScroll

One inbox as a set of (id, time); `Push` is the `SortedSetAdd` of the fan-out
(a blog pushed again moves to its new time), `BeginScroll`, `NextPage`,
`LastPage` the calls of `QueryBlogOfFollow`. `Page` is
`ZREVRANGEBYSCORE key max 0 LIMIT offset count`, with `NewestFirst` the order
of the sorted set, `Cursor` the loop that computes `minTime` and `os`
(`CountTie` is its body), `Answer` the look-up by id.

### Keyspace

A command is an operator on a record of a server; the replica runs the same
operators on its copy with `slave` set, as it runs the same code. `processCommand`
is a command of a client with `call`, `propagate`,
`handleClientsBlockedOnKeys` and what these do to other clients; `queueMultiCommand`,
`watchCommand`, `flagTransaction` (a queued command that is refused),
`multiCommand`, `discardCommand`, `unwatchCommand`, `execCommand`, `freeClient`;
`checkBlockedClientTimeout`, `activeExpireCycle`, `unpauseClients` are the cron;
`KsTick` is time. Expiry is lazy as well (`expireIfNeeded` in every lookup). The
stream to the replica is applied at once, so `ReplicaConverges` speaks of what
is propagated and not of delays (those are `Psync`).

### Streams

One stream key with its groups, the readers blocked on it (`xwait`) and the
replica's copy (`xr`). `xcall` is the command table; `XCommand`, `XTransaction`,
`XRead` are clients, `XTimeout` ends a wait, `XTick` makes pending entries idle.
After each of the first three, `serveClientsBlockedOnStreamKey` tries the blocked
readers in their order, and `XApplied` gives the replica what was propagated:
XREADGROUP, XCLAIM and XAUTOCLAIM arrive there as one forced XCLAIM per entry
(`streamPropagateXCLAIM`), an approximate trim as the exact one
(`streamRewriteTrimArgument`). The radix tree is the size of its nodes
(`NodeSize`), which differs between the servers because only the master trims
approximately. `xnew` records what the last action handed out as new.

### Dict

Two tables of buckets, `rehashidx`, one SCAN and one safe iterator in progress.
`DictAdd`, `DictFind`, `DictDelete` carry out the step of rehashing that the code's
`_dictRehashStep` does, unless an iterator pauses it; `TryResize`,
`IncrementallyRehash` and `UpdateDictResizePolicy` are `databasesCron`; `DictScan`
is a call of `dictScan` with the cursor it returned last, whose reversed
binary increment is `CursorAfter`. Hash values are a constant function.

### Aof

`afDisk` is the file with its synced part, the buffer, postponed flushes and
the queue of `bio.c`; `afChild` the child that rewrites, with the pipe to it;
`afDiff` the diff kept by the parent; `afData` the data in memory. `AfCommand`
executes and feeds a command or a transaction of one client, which may wake
blocked ones; `afReply` are the replies that wait in each client's buffer, `afHandler`
its write handler, which keeps the barrier it was installed with, `afRead` the clients
read from in this round of the event loop. `BeforeSleep` flushes and then writes
the replies of clients without a handler, installing one where the socket takes less;
`sendReplyToClient` is a handler at work, `processEventsWhileBlocked` the rounds
inside a slow script, which flush nothing. `BioFsync` is the background thread, `AfSecond` and
`CronFlush` the postponed flush of `everysec`; `bgrewriteaofCommand`,
`CronRewrite`, `rewriteAppendOnlyFile`, `aofChildWriteDiffData`, `aofChildPipeReadable` and
`backgroundRewriteDoneHandler` are the rewrite; `startAppendOnly`,
`stopAppendOnly`; `Crash` (what was written stays) and `PowerFailure` (only what
was synced stays for certain, and any prefix of the rest). `Replay` is
`loadAppendOnlyFile`, which drops an incomplete MULTI at the end.

### Psync

`psS` are the servers (data, both replication IDs with offset and limit,
backlog, selected database, FAILOVER state, RDB file), `psL` each server's
link to its master as both ends see it; `psHeir` records, for `FailoverKeepsWrites`
only, who chose a server as the target of a FAILOVER. `slaveTryPartialResynchronization`, `syncWithMaster`,
`readSyncBulkPayload`, `commandProcessed`, `replicationSendAck` are the replica's
side; `syncCommand`, `replicationStartPendingFork`, `updateSlavesWaitingBgsave` the
master's; `replicaofCommand`, `failoverCommand`, `loadDataFromDisk` (a restart),
`rdbPopulateSaveInfo` (a BGSAVE) the operators'; `LoseMaster`, `freeSlave`,
`LoadingFails`, `syncWithMasterError` the faults. An offset counts commands instead of bytes.

### Sentinel

`snR` is each Sentinel's state: current epoch, configuration (`addr`, `cepoch`),
vote (`lead`, `lepoch`), failover (`st`, `fepoch`, `prom`, `rec`) and its `file`.
`sentinelHandleRedisInstance` is the timer of one Sentinel with the states of the
failover, `sentinelVoteLeader` the answer to is-master-down-by-addr,
`sentinelProcessHelloMessage` a hello, `sentinelRefreshInstanceInfo` an INFO;
`RestartSentinel` starts again from the file; servers fail and return, links
break and heal, replies are lost.

### Cluster

`clN` is each node's view: `of` (whose replica a node is), `epoch`, `slots`,
its own `cur`, `voted` and election; `clNet` the requests for votes and the votes
on their way. `Heartbeat(x, n)` is a PING or PONG of x at n with
`clusterUpdateSlotsConfigWith`, the UPDATE that answers a stale claim and
`clusterHandleConfigEpochCollision`; `ScheduleElection`, `clusterRequestFailoverAuth`,
`clusterSendFailoverAuthIfNeeded`, `CountVote`, `ElectionExpires` are the election;
`ForceFailover`, `TakeOver`, `manualFailoverCheckTimeout` the operator; `ClCrash`,
`ClRestart`, `Isolate`, `Rejoin` the faults, limited by the budget of the instance.

## 3. What the runs check

Run names are those of `PROJECT.json`. "V" marks a run in which TLC finds the
stated property violated; section 5 explains these.

| Run | Instance | Properties |
|---|---|---|
| `seckill_safety` | 2 users, 2 vouchers (stock 1 and 2), 2 instances, 2 faults; symmetric | `OneOrderPerUser`, `StockConserved`, `LeaksOnlyOnFailed`, `ReleasesOwnLock`, `LostForAReason`, refinement `RefinesFlashSale` |
| `seckill_group` V | 1 of each, no fault | `ScriptCreatesGroup` |
| `app_safety` | follow and publish: 2 fans, 1 author, 2 requests, 2 rows, 2 failures, 1 blog; likes: 2 users, 2 blogs, 2 requests, 4 values of the counter, 1 fault; scroll: 4 blogs, pages of 2, 3 milliseconds, 3 entries in one; shop: 2 readers, 2 writers, 3 versions, 2 faults | `SettledAsAsked`, `FansServed`, `CountWrongOnlyIfRaced`, `ShownOnce`, `OnlyCommittedShown` |
| `app_live` | sale: 2 users, 2 vouchers with stock 1, 2 instances, 1 fault; scroll: 2 milliseconds; shop: 2 versions; no symmetry | `AdmittedSettled`, `ScrollEnds`, `EventuallyFresh` |
| `redis_data` | keyspace: two databases with 2 names, one transactor, two blocked clients, time to live of 1, lists of 2; streams: 1 group, 2 consumers, 3 entries, node sizes 2 and 1 | `NobodyWaitsOnData`, `ReplicaConverges`, `StaleExecWritesNothing`, `ServedInOrder`; `PendingListsAgree`, `StreamReplicaFollows`, `GroupHandsOutOnce`, `NewsWakesReaders` |
| `redis_core` | aof, once for its files and once for its clients: 2 databases, one of them written to by transactions, `always` (2 writes; 1 for the clients) and `everysec` (1), 1 short write, 2 clients with handlers of either kind, `no-appendfsync-on-rewrite` on (for the clients), off (for the files under `always`) and both (under `everysec`); psync: a master with 2 replicas, 2 writes, 2 faults or commands, 2 new replication IDs, backlog of 1 | `AofReplayGivesData`, `AofAckedIsSynced`, `StreamCompletesReplica`, `OneHistoryPerId`, `FailoverKeepsWrites` |
| `redis_ha` | 3 Sentinels, master and replica, 2 epochs, 1 fault; clusters of 3 masters with a replica (a crash; a cut) and of 1 master with 2 replicas (forced failovers; takeovers) | `OneVotePerEpoch`, `NoFailoverInMinority`, `MasterChangesWithEpoch`, `SlotsFollowEpochs` |
| `redis_live` | psync: 3 servers, 1 write, 1 fault; 3 Sentinels with quorum 2, 3 servers, 1 epoch, 1 fault; a cluster with two takeovers; dict: 5 keys, tables of 4, 8, 16, cursor of 4 bits | `DictWalksAreComplete`, `ReplicasCatchUp`, `EveryoneFollowsMaster`, `SlotsSettle` |
| `keyspace_pause` V | as `redis_data`, a transaction of 2 commands | `NothingPropagatedInPause` |
| `sentinel_hello` V, `sentinel_leader` V | as `redis_ha`, quorum 2 | `SameEpochSameMaster`, `LeaderHasMajorityInEpoch` |
| `cluster_election` V | 1 master, 2 replicas, 3 elections, 1 late vote | `OneWinnerPerEpoch` |

`app_safety`, `redis_data`, `redis_live` and `redis_ha` also check the type
invariants of their components (`AofTypeOK` is proved, `AofTyped`, and not run), with the representation invariants that belong
there (the two sides of blocking agree; a hash table holds what was added; there
is a promoted replica exactly while a failover has chosen one).

### Why the bounds are enough to be interesting

* *Flash sale.* Two users and a stock of one give the last-unit race; two
  vouchers for one user give the shared lock `lock:order:<userId>`; two
  instances give every pair of concurrent consumers; the lock may expire at
  any time, so both can be past it; two faults give a crash during the
  recovery from a lost reply.
* *Shop.* A stale fill needs a reader and a writer; two of each let two fills
  and two updates overtake each other, with a failure in each.
* *Likes.* The width of 4 with 2 users lets the counter wrap (a lost update
  followed by two removals); a second blog lets requests run beside each other
  without racing.
* *Follow and publish.* Two requests on one pair give every overlap; two rows
  the duplicate; two failures a failed retry; two fans a loop that fails half
  way.
* *Scrolling.* Four entries and pages of two give a page that ends inside a
  millisecond, one that starts inside it, and one that does both.
* *Keyspace.* Two clients blocked on two keys, one of them on both, give
  every order of service and a served client that feeds another one (BLMOVE);
  two databases give SWAPDB and MOVE. The constraint `Together` bounds how many of
  the special circumstances (open transaction, pause, deadline, string, ...) hold
  at once, at three of six.
* *Streams.* Two consumers let an entry change hands; three entries and node
  sizes of 2 and 1 make the two servers trim differently; counts up to 2 tell a
  first delivery from the next. One transaction sets the group's last ID back and adds
  an entry, one adds and deletes, one destroys the group and creates it again.
* *Dict.* Five keys in chains of unequal length cover growing from 4 to 8 and
  shrinking from 16 to 4, in the middle of a SCAN and of an iterator.
* *Aof.* Two writes, one before and one in the middle of a rewrite, in different
  databases, one of them in a transaction, meet each of its ways to the new
  file.
* *Psync.* A master with two replicas and a backlog of one command gives
  partial and full resynchronisation, sharing of a BGSAVE, promotion with
  the second ID, and a replica that asks the wrong server.
* *Sentinel.* Three Sentinels give a majority of two and a minority of one;
  the quorum of 1 in `redis_ha` lets a single one believe the master down, so
  that only the vote stands against it. Two epochs give a failover that is
  overtaken by the next.
* *Cluster.* Three masters vote; a replica of one master gives one election, two
  give competing ones and equal epochs.

Every bound is named in its module or instance: `MaxFaults`, `MaxVersion`,
`MaxShopFaults`, `MaxRows`, `MaxFailures`, `MaxLikeFaults`, `MaxTime`,
`MaxTies`, `Width`, `MaxQueue`, `MaxElements`, `MaxTtl`, `MaxTogether`, `MaxId`,
`MaxCount`, `InitSizes`, `EmptyVisits`, `MaxWrites`, `MaxShort`, `MaxJobs`,
`BacklogSize`, `MaxStream`, `MaxOff`, `MaxOps`, `MaxEpoch`, and the budgets of
`MCCluster`. Deadlock is not checked in `redis_core`, `redis_ha`, `redis_live` and
the Sentinel and cluster runs: there the bounded number of writes, epochs and faults may
run out in a state in which nothing is left to do.

### Fairness

* *Sale.* The consumer loop of a running instance runs on and a stopped one
  is started again (a hosted service in a supervised process); the operator
  creates the group, as the README tells him to; an `AddSeckillVoucher` call
  that inserted its rows goes on to its commit or fails. Weak fairness
  of `Worker(i)` as a whole is enough because an instance has one enabled kind
  of step at a time; the only step that waits is the UPDATE, the row lock it
  waits for is released by its holder, and there are no more holders than
  entries. Nothing obliges a user to buy, a voucher to be created or a lock to
  expire.
* *Shop.* A request that has begun goes on; values expire: `EventuallyFresh`
  rests on the time to live. *Scrolling.* The user goes on scrolling.
* *Psync.* The event loop and the cron of a server carry on the protocol
  (`PsProtocol`) and a FAILOVER it has begun; nobody has to write, and faults stop
  because they are bounded. *Sentinel.* Its timer runs, hellos and INFO replies keep
  coming over links that hold. *Cluster.* Heartbeats keep being exchanged, a node
  that crashed or was cut off comes back.

In the joint runs the fairness of a component is required while it is the one
that runs.

### Precision of conditional properties

`ShownOnce` and `ScrollEnds` except a scroll with a page that started inside a
millisecond (`offset` > 0) and also ended in it (`stuck`): `os` then counts only
the ties of that page, so the next one starts among entries already shown. Two
oldest entries of one millisecond that fall on two pages of two are enough: the
last page is then repeated for ever. The run contains such scrolls, so it also
shows that there is no other cause. `disturbed` excepts entries that come to, or
leave, the very millisecond the scroll stands on; any other arrival is allowed.

`LostForAReason`: an admitted order is lost only after a fault, for a voucher
whose creation failed, or because another working instance held the user's
lock. With one instance and no faults none is lost.

`StreamReplicaFollows` does not ask for equal delivery counts, idle times and
sets of consumers: the code does not propagate the reading of a history, nor a
consumer that has claimed nothing. The replica may lag in these, never lead.

`SlotsFollowEpochs` does not hold of every cluster, see section 4.

## 4. What is proved

TLAPS checks these for every value of the constants that satisfies the
`ASSUME`s of the modules: any number of users, instances, servers, Sentinels or
nodes, any bounds. TLC checked the inductive invariants on the small instances
before they were proved.

### Application

| Theorem (module `SeckillProofs`) | States |
|---|---|
| `TypeCorrect` | `TypeOK` |
| `OneOrder`, `NothingOversold`, `CommittedNeverLeaks` | `OneOrderPerUser`, `StockConserved`, `LeaksOnlyOnFailed` |
| `OwnLockReleased`, `NothingLostWithoutReason` | the action properties `ReleasesOwnLock`, `LostForAReason` |
| `ImplementsFlashSale` | `RefinesFlashSale`: `Spec` implements `FlashSale!Spec` |
| `Inductive` | the invariant behind them |

The invariant `SeckillInv!IInv` has three parts. *Typed*: whoever is at work has a
delivered entry in hand. *OrderInv*: the script puts a pair into the stream once
and the group delivers an entry once, so two consumers never have the same pair
in hand, and a pair in hand has no order yet. This is why one order per user
holds although the lock may expire and the table has no unique key: the lock is
not what it rests on. *StockInv*: stock in Redis plus buyers is the voucher's
stock, stock in MySQL plus open updates plus orders is too, and the orders are
among the buyers, hence MySQL has a unit left whenever an entry of a committed
voucher reaches the UPDATE. `OneOrderPerUser` alone is not inductive: it is
broken in one step from a state in which two consumers hold the same pair,
which no behaviour reaches.

The refinement follows what a step of a consumer does to three sets of pairs,
delivered, in hand and ordered: a step of `FlashSale` changes one pair at most,
and a lost pair stays lost since its entry is never delivered again. For the
locks, `LockInv` says that the value of a lock is that of a delivered entry
which only the lock's owner can have in hand: a consumer whose comparison
succeeds holds the lock itself. Until the first fault the owner is moreover
still at work for that user, which is why a busy lock alone loses an order only
to an instance at work.

| Module | Theorems | Argument |
|---|---|---|
| `AppProofs` | `ScrollShowsOnce`: `ShownOnce` | A page is described by ranks: it shows the entries up to `lastId` with `offset` to `offset + PageSize - 1` others ahead (`PageShows`), and the loop over it computes the time of its last entry and the number of its entries of that time (`CursorCounts`, by induction over the page). `ScrollInv` says of the rest of the scroll, the entries with `offset` or more ahead, that it contains what is still owed (`OmittedNone`) and, unless `stuck`, nothing that was shown (`RepeatedNone`). An arrival leaves the ranks below `lastId` alone unless it touches that millisecond |
| | `SettledPairsAreRight`, `SettledBesidePublishing`: `SettledAsAsked`; `CommonsAreRight` | A request that met no other is alone on its pair, so it finds in the second store what its first step left (`PairInv`); publishing changes neither store |
| | `FansAreServed`: `FansServed` | Until the query, `loyal` lies below and `ever` above the followers of the moment; the loop keeps each loyal fan either still to be pushed to or served (`CallInv`) |
| | `CountsWhenAlone`: `CountWrongOnlyIfRaced` | On a blog that never saw an overlap or a failure at most one request is under way, and at each of its steps (`ClickInStep`) its copy and the counter differ from the number of likers by exactly what it has done; the counter cannot wrap around because users are fewer than its values |
| | `NothingUncommittedShown`: `OnlyCommittedShown` | with the fact that the row itself was committed |
| | `AppTypeCorrect`: `AppTypeOK` | of the joint specification: each step is one component's and leaves the others' variables alone |

### Redis

| Module | Theorems | Argument |
|---|---|---|
| `AofProofs` | `AofReplays`: `AofReplayGivesData`; `AofAckedKept`: `AofAckedIsSynced`; `AofTyped`, `AofInvariant` | `AofInv`: file followed by buffer (while the file is on), and preamble followed by what the child got, the pipe and the diff (while a rewrite runs), *load* to the data in memory with `afSel` selected at the end. "Loads" (`Well`) says of every prefix which command may come next there (`Allowed`), so that cutting the file anywhere leaves one that loads to an earlier state with whole transactions (`ValidPart`). The fold over the tokens is unfolded token by token, by induction. For `always`, `AckedInv` says that every write not in `afAhead` is in the synced part of the file once it was answered, or will be as soon as it can be: while the buffer still holds the write, a client that waits for its reply has no write handler yet, or one with a barrier in a round in which it was read from, so nothing goes out before the loop sleeps; the flush before it sleeps leaves file and synced part equal, unless the fsync is put off, which `afAhead` records |
| `HAProofs` | `SentinelVotesOnce`: `OneVotePerEpoch`; `SentinelMajority`: `NoFailoverInMinority`; `SentinelMasterChanges`: `MasterChangesWithEpoch`; `SentinelTypes`, `SentinelInvariant` | `SnInv`: nothing in a view is newer than its current epoch; the file is no newer than the memory and names the same master; every vote, answer and election in memory is in the history of votes; no vote is newer than the epoch in its voter's file. Hence a Sentinel that starts again from its file does not vote a second time, and who counts a majority of answers has a majority of votes |
| | `ClusterTypes`; `ClusterVotesOnce`; `ClusterViewsMoveForward`; `ClusterInvariant`; `RedisHATypes`: `RedisHATypeOK` | `ClInv`: roles, slots and epochs of a view fit together, the own vote is in the file, messages claim no epoch newer than the `currentEpoch` they carry |
| `StreamsProofs` | `PendingListsAlwaysAgree`: `PendingListsAgree`; `StreamReplicaAlwaysFollows`: `StreamReplicaFollows`; `EntriesHandedOutOnce`: `GroupHandsOutOnce`; `NewsAlwaysWakesReaders`: `NewsWakesReaders` | `XsInv`: both streams are well-formed with lists that agree (`StreamOK`, `ListsAgree`), what is queued and reported has its type. Each command takes a server (`Server`) to one, hence so do the loops over commands, claims, deliveries and readers, whose folds are unfolded by induction. The replica and the readers: see below |
| `PsyncHistory`, `PsyncProofs` | `ServersShareHistory`; `OffsetsNameOneHistory`: `OneHistoryPerId`; `StreamBringsTheRest`: `StreamCompletesReplica` | `PsInv`: at every moment there is a *history*, which says for each replication ID and offset what data and which selected database the stream has there, that all servers, backlogs, links and RDB files agree with. See below |

`ClusterViewsMoveForward` is `SlotsFollowEpochs` with one exception: a node that
takes the place of its own master (`clusterFailoverReplaceYourMaster`) need not
have a greater epoch than that master in its view. Without it the formula is
not true of all clusters: with votes that arrive late, with a master that has
bumped its own epoch after a collision while the election ran, or with
CLUSTER FAILOVER TAKEOVER, the new epoch may equal the old owner's. `redis_ha`
checks it without the exception where none of these can occur.

That the replica of a stream follows is carried through a command as
`Followed(st)`: the servers whose stream a replica that is at `st` reaches when it
executes what they have propagated so far. Three steps of the argument say why
the code propagates what it does. An approximate trim keeps a tail of the
entries, whatever the size of the nodes, and the exact trim made of it
(`streamRewriteTrimArgument`) keeps the same tail of the same entries
(`TrimAgain`). Between the moment XCLAIM or XREADGROUP moves the last ID of the group
and the moment something is propagated, the replica's group is `Behind`: equal
but for a smaller last ID; each propagated XCLAIM carries the ID as LASTID
(`ClaimCatchesUp`), and when none is propagated, because of NOACK or because nothing
was claimed, an XGROUP SETID is (`SetidCatchesUp`). A forced XCLAIM with RETRYCOUNT does
at the replica what the claim or the delivery did here (`ClaimedFollows`), also
for an entry that is no longer in the stream, as its NACK is there too; this
needs `ListsAgree`, by which "pending" and "owned" mean the same.

What a group hands out is followed through the loop over the blocked readers as
`HandsOut(s, st)`: the entries handed out so far are, in order, all those of the stream
`st` from the last ID its group had there to the one it has now (`NewIn`), over all
consumers. A reply adds the next ones (`ReplyHands`): `XRANGE` from the last ID
reads the entries without a gap, and the last ID moves to the last one delivered.
For `NewsWakesReaders` the loop keeps each reader it has not tried yet in what is left
of its list (`StillToTry`); one it has tried is gone or `Contented`, and stays so, as
last IDs only grow while readers are served. That uses that a connection waits only once
(`XsWaiting`), or removing one reader could leave another of its entries. The rest is
what the commands do to last IDs and when they signal the key (`Effect`): a command that
signals it and finds the group leaves its last ID alone. A *transaction* can set
the last ID back and add an entry before EXEC is over; the readers served then are handed
out entries for the second time, as they asked for. `GroupHandsOutOnce`
excepts it; the proof does not go through without the exception, and TLC shows why on `MCXTxs`.

For replication the difficulty is that what two servers with the same ID and offset
have in common was written long ago, perhaps under an ID that nobody has any more. The
proofs therefore add a history H, which is not in the model: `H[id][off]` is a point, the
data and the database that is selected there. `ServerAgrees` and `LinkAgrees` say what
the state has to do with H: the data of a server are those of its point, the
backlog leads item by item to that point (`Run`), the second ID names the same row below
its limit (`Agree`), an RDB file, a reply and the stream behind it start at a point
of their row and lead on from there. `PsInv` says that such an H exists, and the proof of a
step gives the H of the next state: the same one, except that a master that writes sets the
next point of its own row (`GoesOn`), one that forgets the selected database takes it out
of its last point (`Unselect`), and one that takes a new ID copies its old row to the new one. This leaves what others have of the row alone since only
the master with an ID adds to its row: the others are `UpTo` its offset (`Owns`), or
nowhere on it if its backlog was freed (`Apart`). The other difficulty is the database: a master that
has reset `slaveseldb` sends a SELECT with the next write, so that a replica that is
there with any database goes on correctly. Such a point has `NoDatabase`, from which no
write leads on. Both theorems follow: servers at one offset of one ID are at one point
of H, and the stream on its way leads a replica from its point to its master's.

The assumptions are those of `PsAssumption`: finitely many servers with different IDs
at first, and initial settings by which a replica has a master or a master's
replica as its master (`InitialChainsEnd`), as all of them are taken to be synchronised then.
The proof uses nothing about `BacklogSize` but that it is positive, and none of the bounds.

`FoldLemmas` holds what several proofs need: induction over the natural numbers
for a set (in place of the predicate the library's theorem takes), the
greatest element of a finite set of numbers, and folds over sequences as functions on sets of
positions (`FunctionFoldExists`, `FoldGoesUp`).

### What stays with TLC, and why

* All liveness (`AdmittedSettled`, `ScrollEnds`, `EventuallyFresh`,
  `ReplicasCatchUp`, `EveryoneFollowsMaster`, `SlotsSettle`): the prover has no
  rules for fairness that would reach it.
* Everything about `Keyspace` (`NobodyWaitsOnData`, `ReplicaConverges`,
  `StaleExecWritesNothing`, `ServedInOrder`): serving blocked clients and
  transactions is recursive there, and the prover does without its SMT backend in a
  module with RECURSIVE operators.
* `FailoverKeepsWrites`: checked with three servers. The case that needs a fourth, a target that an
  operator makes the replica of one which lags behind while the FAILOVER is in progress, is one that
  `psHeir` leaves out (section 5).
* `DictWalksAreComplete` and `DictHoldsWhatWasAdded`: they rest on the
  arithmetic of reversed binary cursors and of remainders by powers of two.

## 5. Where the code departs from its own words

Each line of this table is a run whose counterexample TLC prints.

| Run | The text | The code |
|---|---|---|
| `seckill_group` | `VoucherOrderService.cs:21`, `:68`: the script creates the queue if it does not exist | `EXISTS` answers 0 or 1, both true in Lua, so `not` is false and the `XGROUP CREATE` never runs. Without the README's manual command nothing is ever delivered |
| `keyspace_pause` | `server.c:3583`: writes during a pause must be unreachable | MULTI; RPUSH k v; CLIENT PAUSE t WRITE; EXEC while another client is in BLPOP k: the blocked client is served after EXEC, its LPOP is propagated while clients are paused, the assertion fails |
| `sentinel_hello` | `sentinel.c:2916`: update the master if the received configuration is newer | the announced address is compared with the old master's, not with that of the replica this Sentinel has just promoted: two Sentinels end with different masters and one configuration epoch |
| `sentinel_leader` | `sentinel.c:4431`: a leader of an epoch has a majority of votes for that epoch | answers are counted when they are of `current_epoch`, the election is for `failover_epoch`; a hello in between makes them differ |
| `cluster_election` | `cluster.c:1127`: different replicas cannot get the same epoch in an election | `failover_auth_count` is reset when an election is scheduled, `failover_auth_epoch` only changes when its requests are sent: a late vote of the election before counts for the next |

Further observations made while modelling, which no run states:

* *Application.* The update of a shop and the delete of its key are no
  transaction as `ShopService.cs:36` says: a reader between delete and commit
  caches the old row for 30 minutes. Overlapping likes write the same number
  (`hmdp.sql:31` calls it the number of likers). A page of the inbox loses its
  order, because the look-up of `BlogService.cs:183` is an `IN` without `ORDER BY`.
  To unfollow again after a call that failed between the stores finds no row and
  skips the set (`FollowService.cs:47`). An order that meets a taken lock is
  neither reported nor retried, as the comment of `SekillOrderBgService.cs:78` asks.
* *Keyspace and streams.* SORT ... STORE stores a list with `dbOverwrite` and so
  signals no blocked client. XADD that trims its own entry at once, or XADD and
  XDEL in one transaction, wakes a blocked reader with an empty reply
  (`blocked.c:400`). XGROUP SETID backwards and XSETID wake no reader. A consumer that
  XREADGROUP without NOACK creates, and the delivery counts that reading a history raises,
  are not propagated.
* *Append only file.* With `everysec` more than the second that `redis.conf:1239`
  speaks of can be lost, as a postponed flush is postponed again; and
  `backgroundRewriteDoneHandler` renames the new file before the rest of the diff is synced.
* *Replication.* FAILOVER does not check at PSYNC FAILOVER what it checked when it chose the
  target: the ID is compared, the offset is not (`replication.c:735`). So a target that restarts from
  an older RDB file in between is promoted with fewer writes; TLC shows it in the instance of
  `redis_core`, with one write, when `loadDataFromDisk` leaves `psHeir` alone. So is one that an operator makes
  the replica of a server that lags and has the same ID. While all offsets are 0 a replica can
  be chosen that is still being synchronised; it refuses, unless it has the master's ID from before (its
  data are lost if a file could not be loaded). `FailoverKeepsWrites`
  excepts these through `psHeir`, and no others. If the reply to PSYNC FAILOVER cannot be read, the FAILOVER is aborted
  at once (`replication.c:2442`), and if it does not come in time the retry is refused: in
  either case there are two masters.
* *Sentinel.* The configuration epoch of a Sentinel can go back: one that waits
  in WAIT_PROMOTION for epoch 1 while another one fails over and back (epochs 2 and 3) takes
  epoch 3 from its hello, and then overwrites it with its own `failover_epoch` 1
  (`sentinel.c:2683`). With `parallel-syncs` 1 the time-out of a replica that is being
  reconfigured is not reached while it is in RECONF_SENT. A failover in WAIT_START goes on
  although the master is back.
* *Cluster.* `failover_auth_sent` and the count stay set after an election was
  won, so that a replica which is demoted again and then forced to fail over before
  `auth_timeout` becomes master with its old votes and epoch. A replica whose
  master became a replica in its view before the new owner's claim arrived stays a replica of
  a replica. A header of a demoted master raises that master's epoch in the receiver's view, so that the new owner's claim
  with an equal epoch is not taken over until the demoted master's own PING.

## 6. Assumptions and abstractions

*Application.*
* Redis executes a command or a script atomically, keeps its data over
  restarts of the application, and does not lose acknowledged writes; the modules
  of Redis say when that is so. MySQL gives row locks and atomic transactions; a
  transaction whose connection is lost is rolled back.
* A transaction that `CreateVoucherOrder` leaves open ("insufficient stock",
  neither commit nor rollback) changed no row; the model records it in
  `leaked`. What it still may lock is the row of a voucher whose creation
  failed, as `LeaksOnlyOnFailed` shows. `FailVoucher` may happen at any time
  before the commit, which includes a creator that waits in vain.
* The order id the script's caller answers to the client and the snowflake id
  of the stored row differ in the code; an order is a pair here.
* `BaseService` and the library below it are external: `Add` stores the row,
  `DeleteNoEntity` answers whether a row was deleted.
* Scores of `blog:like:*`, names and texts of answers are left out. Times to live
  are expiry at any time.
* Requests are anonymous slots: a request that ended may begin again with new
  parameters, so the number of slots bounds concurrency, not traffic.
  `PushTo` may be in any order, since the order of the query's rows is not specified.

*Keyspace.* Lists and strings stand for all types. DEL of several keys, RENAMENX and CLIENT PAUSE
ALL are not told from their relatives; SORT is left out. Time passes in ticks, and
only if it matters to a deadline.

*Streams.* IDs are numbers; XREAD stands for its blocking form with `$`, the only
one that changes state; XPENDING, XRANGE and XINFO only read.

*Dict.* Memory never runs out; hash values do not change.

*Aof.* A write to the file is short at most `MaxShort` times; fsync does not fail.
A power failure keeps the synced part of the file and any prefix of the rest. A reply
that was sent in part still waits; a write of a module counts as one of a client.

`AofAckedIsSynced` excepts the writes in `afAhead`, from the moment their reply may go before the
fsync until the next fsync. The code lets it go in four cases, and the model in
no others:
* the client's write handler was installed without AE_BARRIER: while the file was off or
  waited for its first rewrite (`networking.c:1642`; the handler keeps what it was installed with
  when the AOF comes on), or by `handleClientsWithPendingWritesUsingThreads`, which never asks for one;
* the command of one client answers another one that was blocked and has a handler: the barrier is one of a
  file descriptor (`ae.c:418`) and orders only what that client itself sent in this round;
* the reply waits while a slow script runs: `processEventsWhileBlocked` writes
  replies in `beforeSleep` and by handlers and flushes nothing (`server.c:2364`);
* `no-appendfsync-on-rewrite` is on and a child runs: the write is not
  followed by an fsync (`aof.c:522`).

`afAhead` grows in exactly these steps, and the runs reach all four.

*Psync.* An offset counts commands instead of bytes. A connection delivers in
order until it ends. A file that cannot be loaded leaves no data. Operators make no circles with
REPLICAOF, and WAIT is
left out. After an error in writing PSYNC FAILOVER (`replication.c:2417`) the code has no master any more
and still leaves `repl_state` at REPL_STATE_CONNECT, so that the cron goes on to connect to
no address; the model takes it that nobody answers there. The handshake up to the master's handling of PSYNC is one step, since
nothing of the replica that matters can change meanwhile.

*Sentinel.* Time is not modelled: a timeout may pass whenever its condition holds.
A master is subjectively down if it is not reachable or says it is a replica;
a question and its answer are one step, and the reply may be lost. Which of
several promotable replicas is chosen is left open.

*Cluster.* A heartbeat and the UPDATE that answers it are one step, the answer
may be lost; requests for votes and votes travel, and may be late where the
instance allows it. Time is not modelled; the model takes it that `node_timeout` is a
second or more, as the pause before an election assumes. There is no resharding.

## 7. What is not modelled

* *Application*: the id generator and the sign-in bitmap (one INCR and one SETBIT
  of a day read from the clock), login and session (keys with a time to live, the
  other modules take the current user as given), shop search, read-only queries, the
  condition parser (no caller), conversions, start-up, controllers (one call each,
  except `SaveShop`, which is in `ShopCache`), tests and data migration.
* *Java samples*: the multi-level cache `item-service`, `jedis-demo`,
  `redis-demo`; they are no part of the application.
* *Redis*: the data types and their encodings (sequential structures), scripting
  and modules, ACL, configuration, pub/sub, tracking, eviction, lazy free, defragmentation, the
  event loop with sockets, TLS and I/O threads, the format of RDB files, diskless
  replication, `redis-cli` and the other tools, `deps/`.

Redis is by far the larger program: `redis/src` with its vendored libraries has about
124,000 lines of C, of which the models stand for the parts named in the map of
`PROJECT.json`. The lines are concentrated in the files whose behaviour takes
several steps or processes; the bulk of the rest is data structures, command
parsing and tools, where a model would repeat the code line by line. The C# application
is modelled almost as a whole where it changes state.

## 8. What is left to do

Theorems worth proving next, most important first: `DictHoldsWhatWasAdded`, for which
`_dictNextPower` must be shown to find a power of two; `NobodyWaitsOnData`, once the loops of
`Keyspace` are recursive functions.

## 9. Running it

In this directory, for example

```
tlc -workers 2 -config MCSeckill_safety.cfg MCSeckill
tlc -workers 2 -config MCRedisCore.cfg MCRedisCore
tlapm AppProofs.tla
```

`PROJECT.json` lists every run with its properties, the lines each
definition models, for each property a mutation of the code under which it
fails, the hazards and the theorems. The mutations are the operators whose
comments call them mutants; nothing else refers to them.
