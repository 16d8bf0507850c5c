------------------------------ MODULE Seckill ------------------------------
(***************************************************************************)
(* The flash sale (seckill) of com.hmdp, from the creation of a voucher to  *)
(* the row in tb_voucher_order:                                            *)
(*                                                                         *)
(*   VoucherService.AddSeckillVoucher    one request per voucher: insert    *)
(*       the rows in a transaction, SET the stock in Redis, commit;         *)
(*   VoucherOrderService.SeckillVoucher  one atomic Lua script in Redis;    *)
(*   SekillOrderBgService                one consumer per running instance  *)
(*       of the application, all reading the consumer group g1 as c1.       *)
(*                                                                         *)
(* Redis and MySQL survive; application instances fail, and so does any     *)
(* single call to Redis or MySQL (a fault).  What is external (the Redis    *)
(* commands, InnoDB) is modelled from what the code asks of it.            *)
(***************************************************************************)
EXTENDS Integers, Sequences, FiniteSets

CONSTANTS
    Users,       \* logged-in users
    Vouchers,    \* voucher ids, each handed to one AddSeckillVoucher request
    Instances,   \* running copies of the application
    Stock,       \* Stock[v]: the stock the request that creates v asks for
    MaxFaults,   \* bound on the faults of a behaviour
    NoLock,      \* no value at key lock:order:<userId>
    Nobody       \* owner of a free lock

ASSUME StockAssumption == Stock \in [Vouchers -> Nat]
ASSUME MaxFaultsAssumption == MaxFaults \in Nat
ASSUME NoLockAssumption == NoLock \notin Vouchers
ASSUME NobodyAssumption == Nobody \notin Instances
ASSUME FiniteAssumption == IsFiniteSet(Users) /\ IsFiniteSet(Instances)

VARIABLES
    voucher,        \* progress of the AddSeckillVoucher request of each voucher
    onSale,         \* Redis: the vouchers whose key seckill:stock:<id> exists
    redisStock,     \* Redis: the value of that key (0 while there is none)
    buyers,         \* Redis: the sets seckill:order:<id>
    stream,         \* Redis: the entries XADDed to streamOrders
    groups,         \* Redis: the consumer groups of streamOrders
    lastDelivered,  \* Redis: last-delivered-id of g1, a position in stream
    lock,           \* Redis: the values of the keys lock:order:<userId>
    owner,          \* history: the instance that set that key
    dbStock,        \* MySQL: tb_seckill_voucher.stock, with uncommitted UPDATEs
    orders,         \* MySQL: committed tb_voucher_order rows per user, voucher
    pc,             \* consumer: the next call of each instance
    job,            \* consumer: the entry in hand, a position in stream, or 0
    tx,             \* consumer: its transaction
    leaked,         \* history: entries whose transaction was never ended
    faults          \* number of faults so far

redisVars    == <<onSale, redisStock, buyers, stream, groups>>
lockVars     == <<lock, owner>>
dbVars       == <<dbStock, orders>>
consumerVars == <<pc, job, tx, leaked>>
vars == <<voucher, redisVars, lastDelivered, lockVars, dbVars, consumerVars, faults>>

Entry == [user : Users, voucher : Vouchers]

TypeOK ==
    /\ voucher \in [Vouchers -> {"new", "inserted", "published", "committed", "failed"}]
    /\ onSale \subseteq Vouchers
    /\ redisStock \in [Vouchers -> Int]
    /\ buyers \in [Vouchers -> SUBSET Users]
    /\ stream \in Seq(Entry)
    /\ groups \subseteq {"g1"}
    /\ lastDelivered \in 0 .. Len(stream)
    /\ lock \in [Users -> Vouchers \cup {NoLock}]
    /\ owner \in [Users -> Instances \cup {Nobody}]
    /\ dbStock \in [Vouchers -> Int]
    /\ orders \in [Users -> [Vouchers -> Nat]]
    /\ pc \in [Instances -> {"poll", "lock", "count", "update", "commit",
                             "rollback", "release", "down"}]
    /\ job \in [Instances -> 0 .. Len(stream)]
    /\ tx \in [Instances -> {"none", "open", "updated"}]
    /\ leaked \subseteq 1 .. Len(stream)
    /\ faults \in 0 .. MaxFaults

Init ==
    /\ voucher = [v \in Vouchers |-> "new"]
    /\ onSale = {}
    /\ redisStock = [v \in Vouchers |-> 0]
    /\ buyers = [v \in Vouchers |-> {}]
    /\ stream = <<>>
    /\ groups = {}
    /\ lastDelivered = 0
    /\ lock = [u \in Users |-> NoLock]
    /\ owner = [u \in Users |-> Nobody]
    /\ dbStock = [v \in Vouchers |-> 0]
    /\ orders = [u \in Users |-> [v \in Vouchers |-> 0]]
    /\ pc = [i \in Instances |-> "poll"]
    /\ job = [i \in Instances |-> 0]
    /\ tx = [i \in Instances |-> "none"]
    /\ leaked = {}
    /\ faults = 0

-----------------------------------------------------------------------------
(***************************************************************************)
(* AddSeckillVoucher.  Redis takes no part in the transaction: its key is   *)
(* visible before the rows are, and a rollback leaves it behind.           *)
(***************************************************************************)
InsertVoucher(v) ==
    /\ voucher[v] = "new"
    /\ voucher' = [voucher EXCEPT ![v] = "inserted"]
    /\ dbStock' = [dbStock EXCEPT ![v] = Stock[v]]
    /\ UNCHANGED <<redisVars, lastDelivered, lockVars, orders, consumerVars, faults>>

PublishStock(v) ==
    /\ voucher[v] = "inserted"
    /\ voucher' = [voucher EXCEPT ![v] = "published"]
    /\ onSale' = onSale \cup {v}
    /\ redisStock' = [redisStock EXCEPT ![v] = Stock[v]]
    /\ UNCHANGED <<buyers, stream, groups, lastDelivered, lockVars, dbVars,
                   consumerVars, faults>>

CommitVoucher(v) ==
    /\ voucher[v] = "published"
    /\ voucher' = [voucher EXCEPT ![v] = "committed"]
    /\ UNCHANGED <<redisVars, lastDelivered, lockVars, dbVars, consumerVars, faults>>

\* An exception, or the end of the process, before the commit took effect.
FailVoucher(v) ==
    /\ voucher[v] \in {"new", "inserted", "published"}
    /\ voucher' = [voucher EXCEPT ![v] = "failed"]
    /\ dbStock' = [dbStock EXCEPT ![v] = 0]
    /\ UNCHANGED <<redisVars, lastDelivered, lockVars, orders, consumerVars, faults>>

-----------------------------------------------------------------------------
(***************************************************************************)
(* SeckillVoucher: the Lua script.  On a voucher without a stock key        *)
(* tonumber(get) is nil, its comparison is an error, and nothing changes.  *)
(***************************************************************************)
\* EXISTS streamOrders; a stream without entries exists when MKSTREAM made it.
ExistsReply == IF stream # <<>> \/ groups # {} THEN 1 ELSE 0

\* Lua's `not` of an integer reply: only nil and false are false, 0 is not.
LuaNot(reply) == reply \notin Int

\* Line 22-24 run first, whatever the rest of the script does.
EnsureGroup == groups' = IF LuaNot(ExistsReply) THEN groups \cup {"g1"} ELSE groups

EligibleOversell(u, v) == redisStock[v] >= 0 /\ u \notin buyers[v]  \* mutant of Eligible
EligibleTwice(u, v)    == redisStock[v] > 0                       \* mutant of Eligible

\* Stock left and SISMEMBER false.
Eligible(u, v) == redisStock[v] > 0 /\ u \notin buyers[v]

Purchase(u, v) ==
    /\ v \in onSale
    /\ EnsureGroup
    /\ Eligible(u, v)
    /\ redisStock' = [redisStock EXCEPT ![v] = @ - 1]
    /\ buyers' = [buyers EXCEPT ![v] = @ \cup {u}]
    /\ stream' = Append(stream, [user |-> u, voucher |-> v])
    /\ UNCHANGED <<voucher, onSale, lastDelivered, lockVars, dbVars, consumerVars, faults>>

\* The script returns 1 or 2 ("sold out", "already bought").
Refuse(u, v) ==
    /\ v \in onSale
    /\ ~Eligible(u, v)
    /\ EnsureGroup
    /\ UNCHANGED <<voucher, onSale, redisStock, buyers, stream, lastDelivered, lockVars,
                   dbVars, consumerVars, faults>>

\* The operator runs `xgroup create streamOrders g1 0-0 MKSTREAM` once.
CreateGroup ==
    /\ "g1" \notin groups
    /\ groups' = groups \cup {"g1"}
    /\ lastDelivered' = 0
    /\ UNCHANGED <<voucher, onSale, redisStock, buyers, stream, lockVars, dbVars,
                   consumerVars, faults>>

\* SET lock:order:<u> ... PX 50000: the key may expire under its holder.
ExpireLock(u) ==
    /\ lock[u] # NoLock
    /\ lock' = [lock EXCEPT ![u] = NoLock]
    /\ owner' = [owner EXCEPT ![u] = Nobody]
    /\ UNCHANGED <<voucher, redisVars, lastDelivered, dbVars, consumerVars, faults>>

-----------------------------------------------------------------------------
(***************************************************************************)
(* SekillOrderBgService.  User(i) and Voucher(i) are the order in hand.    *)
(***************************************************************************)
User(i)    == stream[job[i]].user
Voucher(i) == stream[job[i]].voucher

Goto(i, l) == pc' = [pc EXCEPT ![i] = l]

\* CreateVoucherOrder is over, and with it the entry in hand.
Leave(i, l) ==
    /\ Goto(i, l)
    /\ job' = [job EXCEPT ![i] = 0]

\* Mutant of NewEntry: the end of the stream is not noticed.
NewEntryPastEnd(i) ==
    /\ pc[i] = "poll"
    /\ "g1" \in groups
    /\ lastDelivered' = lastDelivered + 1

\* Mutant of NewEntry: an entry is read only when another one follows.
NewEntryOneBehind(i) ==
    /\ pc[i] = "poll"
    /\ "g1" \in groups
    /\ lastDelivered < Len(stream) - 1
    /\ lastDelivered' = lastDelivered + 1

\* XREADGROUP GROUP g1 c1 COUNT 1 STREAMS streamOrders >.  The entry joins the
\* pending list of c1, which nothing reads or acknowledges.
NewEntry(i) ==
    /\ pc[i] = "poll"
    /\ "g1" \in groups
    /\ lastDelivered < Len(stream)
    /\ lastDelivered' = lastDelivered + 1

Poll(i) ==
    /\ NewEntry(i)
    /\ job' = [job EXCEPT ![i] = lastDelivered + 1]
    /\ Goto(i, "lock")
    /\ UNCHANGED <<voucher, redisVars, lockVars, dbVars, tx, leaked, faults>>

\* Nothing new, or the NOGROUP error that the loop logs: poll again.
PollNothing(i) ==
    /\ pc[i] = "poll"
    /\ "g1" \notin groups \/ lastDelivered = Len(stream)
    /\ UNCHANGED vars

\* LockTake, NX.
SetLock(i) ==
    /\ lock[User(i)] = NoLock
    /\ lock' = [lock EXCEPT ![User(i)] = Voucher(i)]
    /\ owner' = [owner EXCEPT ![User(i)] = i]

TakeLock(i) ==
    /\ pc[i] = "lock"
    /\ SetLock(i)
    /\ Goto(i, "count")
    /\ UNCHANGED <<voucher, redisVars, lastDelivered, dbVars, job, tx, leaked, faults>>

\* The lock is taken: log, return, read the next entry.
LockBusy(i) ==
    /\ pc[i] = "lock"
    /\ lock[User(i)] # NoLock
    /\ Leave(i, "poll")
    /\ UNCHANGED <<voucher, redisVars, lastDelivered, lockVars, dbVars, tx, leaked, faults>>

\* Count the user's orders of this voucher; begin the transaction if there is none.
CheckOrder(i) ==
    /\ pc[i] = "count"
    /\ IF orders[User(i)][Voucher(i)] > 0
       THEN Goto(i, "release") /\ UNCHANGED tx
       ELSE Goto(i, "update") /\ tx' = [tx EXCEPT ![i] = "open"]
    /\ UNCHANGED <<voucher, redisVars, lastDelivered, lockVars, dbVars, job, leaked, faults>>

\* InnoDB's exclusive lock on the row of v: an UPDATE waits for it.
RowLocked(v) ==
    \/ voucher[v] \in {"inserted", "published"}
    \/ \E j \in Instances : tx[j] = "updated" /\ Voucher(j) = v

\* The row matches WHERE voucher_id = ... AND stock > 0.
RowMatches(v) == voucher[v] = "committed" /\ dbStock[v] > 0

TakeStock(i) ==
    /\ pc[i] = "update"
    /\ ~RowLocked(Voucher(i))
    /\ RowMatches(Voucher(i))
    /\ dbStock' = [dbStock EXCEPT ![Voucher(i)] = @ - 1]
    /\ tx' = [tx EXCEPT ![i] = "updated"]
    /\ Goto(i, "commit")
    /\ UNCHANGED <<voucher, redisVars, lastDelivered, lockVars, orders, job, leaked, faults>>

\* No row updated: return, with the transaction neither committed nor rolled back.
NoStock(i) ==
    /\ pc[i] = "update"
    /\ ~RowLocked(Voucher(i))
    /\ ~RowMatches(Voucher(i))
    /\ tx' = [tx EXCEPT ![i] = "none"]
    /\ leaked' = leaked \cup {job[i]}
    /\ Goto(i, "release")
    /\ UNCHANGED <<voucher, redisVars, lastDelivered, lockVars, dbVars, job, faults>>

\* Insert the order and commit.
WriteOrder(i) ==
    /\ orders' = [orders EXCEPT ![User(i)][Voucher(i)] = @ + 1]
    /\ tx' = [tx EXCEPT ![i] = "none"]

CommitOrder(i) ==
    /\ pc[i] = "commit"
    /\ WriteOrder(i)
    /\ Goto(i, "release")
    /\ UNCHANGED <<voucher, redisVars, lastDelivered, lockVars, dbStock, job, leaked, faults>>

\* Mutant of UndoTx: the UPDATE ran outside the transaction.
UndoTxNot(i) == tx' = [tx EXCEPT ![i] = "none"] /\ UNCHANGED dbStock

\* MySQL undoes the UPDATE of the instance's transaction.
UndoTx(i) ==
    /\ dbStock' = IF tx[i] = "updated" THEN [dbStock EXCEPT ![Voucher(i)] = @ + 1] ELSE dbStock
    /\ tx' = [tx EXCEPT ![i] = "none"]

Rollback(i) ==
    /\ pc[i] = "rollback"
    /\ UndoTx(i)
    /\ Goto(i, "release")
    /\ UNCHANGED <<voucher, redisVars, lastDelivered, lockVars, orders, job, leaked, faults>>

\* Mutants of DelLock: the value is not compared; it is compared with the user id.
DelLockAny(i) ==
    /\ lock' = [lock EXCEPT ![User(i)] = NoLock]
    /\ owner' = [owner EXCEPT ![User(i)] = Nobody]
DelLockWrong(i) == UNCHANGED lockVars

\* LockRelease: delete the key if its value is still this voucher.
DelLock(i) ==
    IF lock[User(i)] = Voucher(i)
    THEN /\ lock' = [lock EXCEPT ![User(i)] = NoLock]
         /\ owner' = [owner EXCEPT ![User(i)] = Nobody]
    ELSE UNCHANGED lockVars

ReleaseLock(i) ==
    /\ pc[i] = "release"
    /\ DelLock(i)
    /\ Leave(i, "poll")
    /\ UNCHANGED <<voucher, redisVars, lastDelivered, dbVars, tx, leaked, faults>>

-----------------------------------------------------------------------------
(***************************************************************************)
(* Faults: the reply to one call is lost, with or without its effect, and   *)
(* the code sees an exception; or the whole process ends.                  *)
(***************************************************************************)
Fault == faults < MaxFaults /\ faults' = faults + 1

\* XREADGROUP delivered an entry that the instance never saw.
PollLost(i) ==
    /\ Fault
    /\ NewEntry(i)
    /\ UNCHANGED <<voucher, redisVars, lockVars, dbVars, consumerVars>>

\* LockTake throws outside the try block: the key may have been set.
TakeLockLost(i) ==
    /\ Fault
    /\ pc[i] = "lock"
    /\ SetLock(i) \/ UNCHANGED lockVars
    /\ Leave(i, "poll")
    /\ UNCHANGED <<voucher, redisVars, lastDelivered, dbVars, tx, leaked>>

\* A call to MySQL throws: a lost connection, or the wait for a row lock timed
\* out.  A commit that throws may have been done.
DbFault(i) ==
    /\ Fault
    /\ pc[i] \in {"count", "update", "commit"}
    /\ \/ pc[i] = "commit" /\ WriteOrder(i)
       \/ UNCHANGED <<orders, tx>>
    /\ Goto(i, "rollback")
    /\ UNCHANGED <<voucher, redisVars, lastDelivered, lockVars, dbStock, job, leaked>>

\* LockRelease throws out of the finally block: the key may have been deleted.
ReleaseLockLost(i) ==
    /\ Fault
    /\ pc[i] = "release"
    /\ DelLock(i) \/ UNCHANGED lockVars
    /\ Leave(i, "poll")
    /\ UNCHANGED <<voucher, redisVars, lastDelivered, dbVars, tx, leaked>>

\* The process ends: MySQL rolls its transaction back, Redis keeps the lock.
Crash(i) ==
    /\ Fault
    /\ pc[i] # "down"
    /\ UndoTx(i)
    /\ Leave(i, "down")
    /\ UNCHANGED <<voucher, redisVars, lastDelivered, lockVars, orders, leaked>>

\* A new process starts with the ">" cursor of the group.
Restart(i) ==
    /\ pc[i] = "down"
    /\ Goto(i, "poll")
    /\ UNCHANGED <<voucher, redisVars, lastDelivered, lockVars, dbVars, job, tx, leaked, faults>>

-----------------------------------------------------------------------------
Creator(v) == InsertVoucher(v) \/ PublishStock(v) \/ CommitVoucher(v) \/ FailVoucher(v)

Worker(i) ==
    \/ Poll(i) \/ TakeLock(i) \/ LockBusy(i) \/ CheckOrder(i) \/ TakeStock(i)
    \/ NoStock(i) \/ CommitOrder(i) \/ Rollback(i) \/ ReleaseLock(i)

Faulty(i) ==
    \/ PollLost(i) \/ TakeLockLost(i) \/ DbFault(i) \/ ReleaseLockLost(i) \/ Crash(i)

Next ==
    \/ \E v \in Vouchers : Creator(v)
    \/ \E u \in Users, v \in Vouchers : Purchase(u, v) \/ Refuse(u, v)
    \/ CreateGroup
    \/ \E u \in Users : ExpireLock(u)
    \/ \E i \in Instances : Worker(i) \/ PollNothing(i) \/ Faulty(i) \/ Restart(i)

Spec == Init /\ [][Next]_vars

(***************************************************************************)
(* The consumer loop of a running instance keeps running, a stopped one is   *)
(* started again, the operator follows the README, and a request that has    *)
(* begun to create a voucher runs on to its commit unless it fails.          *)
(* Nothing obliges users to buy, vouchers to be created or locks to expire.  *)
(***************************************************************************)
Fairness ==
    /\ \A i \in Instances : WF_vars(Worker(i)) /\ WF_vars(Restart(i))
    /\ \A v \in Vouchers : WF_vars(PublishStock(v) \/ CommitVoucher(v))
    /\ WF_vars(CreateGroup)

FairSpec == Spec /\ Fairness

-----------------------------------------------------------------------------
Sold(v)     == {u \in Users : orders[u][v] > 0}
InFlight(v) == {i \in Instances : tx[i] = "updated" /\ Voucher(i) = v}

(***************************************************************************)
(* "One user, one order": whatever instances, expired locks and crashes do,  *)
(* tb_voucher_order (which has no unique key on user and voucher) never gets *)
(* a second row for a user and a voucher.                                   *)
(***************************************************************************)
OneOrderPerUser == \A u \in Users, v \in Vouchers : orders[u][v] <= 1

(***************************************************************************)
(* No unit of tb_seckill_voucher.stock is sold twice or lost: what is left,  *)
(* what uncommitted transactions hold and what orders took add up to the     *)
(* stock of the request; a voucher whose creation did not commit has no      *)
(* order although Redis may sell it.                                        *)
(***************************************************************************)
StockConserved ==
    \A v \in Vouchers :
        IF voucher[v] = "committed"
        THEN dbStock[v] + Cardinality(InFlight(v)) + Cardinality(Sold(v)) = Stock[v]
        ELSE Sold(v) = {} /\ InFlight(v) = {}

(***************************************************************************)
(* The early return of CreateVoucherOrder that neither commits nor rolls     *)
(* back ("insufficient stock") is taken only for a voucher whose creation    *)
(* failed after its stock went to Redis: for any other voucher Redis admits  *)
(* no more orders than MySQL can take.                                      *)
(***************************************************************************)
LeaksOnlyOnFailed == \A k \in leaked : voucher[stream[k].voucher] = "failed"

(***************************************************************************)
(* LockRelease compares the key with the voucher id, which is the same in    *)
(* every instance, yet an instance never deletes a lock another one holds,   *)
(* not even after its own has expired.                                      *)
(***************************************************************************)
ReleasesOwnLock ==
    [][\A i \in Instances, u \in Users :
          (pc[i] = "release" /\ pc'[i] # "release" /\ lock'[u] # lock[u])
              => owner[u] = i]_vars

(***************************************************************************)
(* The requirement: who is admitted gets one order or is lost for good.     *)
(***************************************************************************)
Handling(i, u, v) ==
    /\ pc[i] \in {"lock", "count", "update", "commit"}
    /\ User(i) = u
    /\ Voucher(i) = v

Delivered(u, v) == [user |-> u, voucher |-> v] \in {stream[k] : k \in 1 .. lastDelivered}

Admitted == {p \in Users \X Vouchers : p[1] \in buyers[p[2]]}

Lost ==
    {p \in Users \X Vouchers :
        /\ Delivered(p[1], p[2])
        /\ orders[p[1]][p[2]] = 0
        /\ \A i \in Instances : ~Handling(i, p[1], p[2])}

Sale == INSTANCE FlashSale WITH admitted <- Admitted, lost <- Lost, rows <- orders

RefinesFlashSale == Sale!Spec

(***************************************************************************)
(* An admitted order is lost, delivered but never placed, only for one of     *)
(* three reasons: a call failed or a process died; the voucher's creation     *)
(* failed after its stock went to Redis; or another instance held the user's  *)
(* lock, still at work for it.  One instance without faults loses none.      *)
(***************************************************************************)
LostForAReason ==
    [][\A p \in Lost' \ Lost :
          \/ faults' > 0
          \/ voucher[p[2]] = "failed"
          \/ \E i, j \in Instances :
                /\ i # j
                /\ Handling(i, p[1], p[2])
                /\ owner[p[1]] = j
                /\ pc[j] \notin {"poll", "down"}]_vars

(***************************************************************************)
(* Nobody who was told of success is left in the stream: his order is placed  *)
(* or lost in the end, also if he bought before the group was created or the  *)
(* creator of the voucher committed.                                        *)
(***************************************************************************)
AdmittedSettled ==
    \A u \in Users, v \in Vouchers :
        u \in buyers[v] ~> (orders[u][v] = 1 \/ <<u, v>> \in Lost)

(***************************************************************************)
(* The script's comments (VoucherOrderService.cs:21 and :68) promise that it  *)
(* creates what the consumer reads from if it does not exist: once an order    *)
(* is in the stream, the group that delivers it exists.                       *)
(***************************************************************************)
ScriptCreatesGroup == Len(stream) > 0 => "g1" \in groups

=============================================================================
