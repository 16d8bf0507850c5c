--------------------------- MODULE SeckillProofs ---------------------------
(***************************************************************************)
(* Proofs about Seckill for every set of users, vouchers and instances,      *)
(* every stock and every bound on faults.                                   *)
(***************************************************************************)
EXTENDS SeckillInv, FiniteSetTheorems, TLAPS

(***************************************************************************)
(* An instance at work holds an entry of the stream.                        *)
(***************************************************************************)
LEMMA JobTyped ==
    ASSUME Typed, NEW i \in Instances, pc[i] \in Busy
    PROVE  /\ job[i] \in 1 .. Len(stream)
           /\ job[i] \in 1 .. lastDelivered
           /\ stream[job[i]] \in Entry
           /\ User(i) \in Users
           /\ Voucher(i) \in Vouchers
<1>1. job[i] \in 1 .. lastDelivered
  BY DEF Typed, JobsInHand
<1>2. job[i] \in 1 .. Len(stream)
  BY <1>1 DEF Typed, TypeOK
<1>3. stream[job[i]] \in Entry
  BY <1>2 DEF Typed, TypeOK
<1> QED
  BY <1>1, <1>2, <1>3 DEF Entry, User, Voucher

(***************************************************************************)
(* XADD keeps the entries that are there and adds one at the end.           *)
(***************************************************************************)
LEMMA StreamGrows ==
    ASSUME stream \in Seq(Entry), NEW u \in Users, NEW v \in Vouchers,
           stream' = Append(stream, [user |-> u, voucher |-> v])
    PROVE  /\ stream' \in Seq(Entry)
           /\ Len(stream) \in Nat
           /\ Len(stream') = Len(stream) + 1
           /\ \A k \in 1 .. Len(stream) : stream'[k] = stream[k]
           /\ stream'[Len(stream) + 1] = [user |-> u, voucher |-> v]
<1>1. [user |-> u, voucher |-> v] \in Entry
  BY DEF Entry
<1> QED
  BY <1>1

(***************************************************************************)
(* TypeOK, with the entries in hand it needs.                               *)
(***************************************************************************)
LEMMA InitType == Init => Typed
<1> SUFFICES ASSUME Init PROVE Typed
  OBVIOUS
<1>1. /\ stream \in Seq(Entry)
      /\ Len(stream) = 0
  BY DEF Init
<1>2. /\ voucher \in [Vouchers -> {"new", "inserted", "published", "committed", "failed"}]
      /\ redisStock \in [Vouchers -> Int]
      /\ buyers \in [Vouchers -> SUBSET Users]
      /\ lock \in [Users -> Vouchers \cup {NoLock}]
      /\ owner \in [Users -> Instances \cup {Nobody}]
  BY DEF Init
<1>3. /\ dbStock \in [Vouchers -> Int]
      /\ orders \in [Users -> [Vouchers -> Nat]]
      /\ faults \in 0 .. MaxFaults
  BY MaxFaultsAssumption DEF Init
<1>4. /\ pc \in [Instances -> {"poll", "lock", "count", "update", "commit",
                               "rollback", "release", "down"}]
      /\ job \in [Instances -> 0 .. Len(stream)]
      /\ tx \in [Instances -> {"none", "open", "updated"}]
  BY <1>1 DEF Init
<1>5. /\ onSale \subseteq Vouchers
      /\ groups \subseteq {"g1"}
      /\ lastDelivered \in 0 .. Len(stream)
      /\ leaked \subseteq 1 .. Len(stream)
  BY <1>1 DEF Init
<1>6. TypeOK
  BY <1>1, <1>2, <1>3, <1>4, <1>5 DEF TypeOK
<1> QED
  BY <1>6 DEF Init, Typed, JobsInHand, GroupFirst, Busy

LEMMA CreatorType ==
    ASSUME Typed, NEW v \in Vouchers, Creator(v)
    PROVE  Typed'
<1> USE StockAssumption DEF Typed, TypeOK, JobsInHand, GroupFirst, redisVars, lockVars, dbVars, consumerVars
<1>1. CASE InsertVoucher(v)
  BY <1>1 DEF InsertVoucher
<1>2. CASE PublishStock(v)
  BY <1>2 DEF PublishStock
<1>3. CASE CommitVoucher(v)
  BY <1>3 DEF CommitVoucher
<1>4. CASE FailVoucher(v)
  BY <1>4 DEF FailVoucher
<1> QED
  BY <1>1, <1>2, <1>3, <1>4 DEF Creator

LEMMA RedisType ==
    ASSUME Typed,
           \/ \E u \in Users, v \in Vouchers : Purchase(u, v) \/ Refuse(u, v)
           \/ CreateGroup
           \/ \E u \in Users : ExpireLock(u)
    PROVE  Typed'
<1> USE DEF Typed, GroupFirst, lockVars, dbVars, consumerVars
<1>1. CASE \E u \in Users, v \in Vouchers : Purchase(u, v)
  <2>1. PICK u \in Users, v \in Vouchers : Purchase(u, v)
    BY <1>1
  <2>2. /\ stream' \in Seq(Entry)
        /\ Len(stream) \in Nat
        /\ Len(stream') = Len(stream) + 1
    BY <2>1, StreamGrows DEF Purchase, TypeOK
  <2>3. groups' \subseteq {"g1"} /\ groups \subseteq groups'
    BY <2>1 DEF Purchase, EnsureGroup, TypeOK
  <2>4. /\ redisStock' \in [Vouchers -> Int]
        /\ buyers' \in [Vouchers -> SUBSET Users]
    BY <2>1 DEF Purchase, TypeOK
  <2> QED
    <3>1. /\ leaked' \subseteq 1 .. Len(stream')
          /\ lastDelivered' \in 0 .. Len(stream')
          /\ job' \in [Instances -> 0 .. Len(stream')]
      BY <2>1, <2>2 DEF Purchase, TypeOK
    <3> QED
      BY <2>1, <2>2, <2>3, <2>4, <3>1 DEF Purchase, TypeOK, JobsInHand
<1>2. CASE \E u \in Users, v \in Vouchers : Refuse(u, v)
  <2>1. PICK u \in Users, v \in Vouchers : Refuse(u, v)
    BY <1>2
  <2>2. groups' \subseteq {"g1"} /\ groups \subseteq groups'
    BY <2>1 DEF Refuse, EnsureGroup, TypeOK
  <2> QED
    BY <2>1, <2>2 DEF Refuse, TypeOK, JobsInHand
<1>3. CASE CreateGroup
  BY <1>3 DEF CreateGroup, TypeOK, JobsInHand
<1>4. CASE \E u \in Users : ExpireLock(u)
  BY <1>4 DEF ExpireLock, TypeOK, JobsInHand, redisVars
<1> QED
  BY <1>1, <1>2, <1>3, <1>4

LEMMA WorkerType ==
    ASSUME Typed, NEW i \in Instances, Worker(i) \/ Restart(i)
    PROVE  Typed'
<1> USE DEF Typed, GroupFirst, Goto, Leave, redisVars, lockVars, dbVars
<1>1. CASE Poll(i)
  BY <1>1 DEF Poll, NewEntry, TypeOK, JobsInHand
<1>2. CASE TakeLock(i)
  <2>1. User(i) \in Users /\ Voucher(i) \in Vouchers /\ job[i] \in 1 .. lastDelivered
    BY <1>2, JobTyped DEF TakeLock, Busy
  <2> QED
    BY <1>2, <2>1 DEF TakeLock, SetLock, TypeOK, JobsInHand
<1>3. CASE LockBusy(i)
  BY <1>3 DEF LockBusy, TypeOK, JobsInHand, Busy
<1>4. CASE CheckOrder(i)
  <2>1. User(i) \in Users /\ Voucher(i) \in Vouchers /\ job[i] \in 1 .. lastDelivered
    BY <1>4, JobTyped DEF CheckOrder, Busy
  <2> QED
    BY <1>4, <2>1 DEF CheckOrder, TypeOK, JobsInHand
<1>5. CASE TakeStock(i)
  <2>1. User(i) \in Users /\ Voucher(i) \in Vouchers /\ job[i] \in 1 .. lastDelivered
    BY <1>5, JobTyped DEF TakeStock, Busy
  <2> QED
    BY <1>5, <2>1 DEF TakeStock, TypeOK, JobsInHand
<1>6. CASE NoStock(i)
  <2>1. job[i] \in 1 .. lastDelivered /\ job[i] \in 1 .. Len(stream)
    BY <1>6, JobTyped DEF NoStock, Busy
  <2> QED
    BY <1>6, <2>1 DEF NoStock, TypeOK, JobsInHand
<1>7. CASE CommitOrder(i)
  <2>1. User(i) \in Users /\ Voucher(i) \in Vouchers /\ job[i] \in 1 .. lastDelivered
    BY <1>7, JobTyped DEF CommitOrder, Busy
  <2> QED
    BY <1>7, <2>1 DEF CommitOrder, WriteOrder, TypeOK, JobsInHand
<1>8. CASE Rollback(i)
  <2>1. User(i) \in Users /\ Voucher(i) \in Vouchers /\ job[i] \in 1 .. lastDelivered
    BY <1>8, JobTyped DEF Rollback, Busy
  <2> QED
    BY <1>8, <2>1 DEF Rollback, UndoTx, TypeOK, JobsInHand
<1>9. CASE ReleaseLock(i)
  <2>1. User(i) \in Users
    BY <1>9, JobTyped DEF ReleaseLock, Busy
  <2>2. lock' \in [Users -> Vouchers \cup {NoLock}] /\ owner' \in [Users -> Instances \cup {Nobody}]
    BY <1>9, <2>1 DEF ReleaseLock, DelLock, TypeOK
  <2> QED
    BY <1>9, <2>2 DEF ReleaseLock, TypeOK, JobsInHand, Busy
<1>10. CASE Restart(i)
  BY <1>10 DEF Restart, TypeOK, JobsInHand, Busy
<1> QED
  BY <1>1, <1>2, <1>3, <1>4, <1>5, <1>6, <1>7, <1>8, <1>9, <1>10 DEF Worker

LEMMA FaultyType ==
    ASSUME Typed, NEW i \in Instances, Faulty(i)
    PROVE  Typed'
<1> USE MaxFaultsAssumption
    DEF Typed, GroupFirst, Fault, Goto, Leave, redisVars, lockVars, dbVars, consumerVars
<1>1. CASE PollLost(i)
  BY <1>1 DEF PollLost, NewEntry, TypeOK, JobsInHand
<1>2. CASE TakeLockLost(i)
  <2>1. User(i) \in Users /\ Voucher(i) \in Vouchers
    BY <1>2, JobTyped DEF TakeLockLost, Busy
  <2>2. lock' \in [Users -> Vouchers \cup {NoLock}] /\ owner' \in [Users -> Instances \cup {Nobody}]
    <3>1. CASE SetLock(i)
      BY <2>1, <3>1 DEF SetLock, TypeOK
    <3>2. CASE UNCHANGED lockVars
      BY <3>2 DEF TypeOK
    <3> QED
      BY <1>2, <3>1, <3>2 DEF TakeLockLost
  <2> QED
    BY <1>2, <2>2 DEF TakeLockLost, TypeOK, JobsInHand, Busy
<1>3. CASE DbFault(i)
  <2>1. User(i) \in Users /\ Voucher(i) \in Vouchers /\ job[i] \in 1 .. lastDelivered
    BY <1>3, JobTyped DEF DbFault, Busy
  <2>2. /\ orders' \in [Users -> [Vouchers -> Nat]]
        /\ tx' \in [Instances -> {"none", "open", "updated"}]
    <3>1. CASE WriteOrder(i)
      BY <2>1, <3>1 DEF WriteOrder, TypeOK
    <3>2. CASE UNCHANGED <<orders, tx>>
      BY <3>2 DEF TypeOK
    <3> QED
      BY <1>3, <3>1, <3>2 DEF DbFault
  <2>3. /\ pc' = [pc EXCEPT ![i] = "rollback"]
        /\ faults' \in 0 .. MaxFaults
        /\ UNCHANGED <<voucher, redisVars, lastDelivered, lockVars, dbStock, job, leaked>>
    BY <1>3 DEF DbFault, TypeOK
  <2> QED
    BY <2>1, <2>2, <2>3 DEF TypeOK, JobsInHand
<1>4. CASE ReleaseLockLost(i)
  <2>1. User(i) \in Users
    BY <1>4, JobTyped DEF ReleaseLockLost, Busy
  <2>2. lock' \in [Users -> Vouchers \cup {NoLock}] /\ owner' \in [Users -> Instances \cup {Nobody}]
    BY <1>4, <2>1 DEF ReleaseLockLost, DelLock, TypeOK
  <2> QED
    BY <1>4, <2>2 DEF ReleaseLockLost, TypeOK, JobsInHand, Busy
<1>5. CASE Crash(i)
  <2>1. dbStock' \in [Vouchers -> Int] /\ tx' \in [Instances -> {"none", "open", "updated"}]
    <3>1. [dbStock EXCEPT ![Voucher(i)] = @ + 1] \in [Vouchers -> Int]
      <4>1. CASE Voucher(i) \in Vouchers
        BY <4>1 DEF TypeOK
      <4>2. CASE Voucher(i) \notin Vouchers
        BY <4>2 DEF TypeOK
      <4> QED
        BY <4>1, <4>2
    <3> QED
      BY <1>5, <3>1 DEF Crash, UndoTx, TypeOK
  <2>2. /\ pc' = [pc EXCEPT ![i] = "down"]
        /\ job' = [job EXCEPT ![i] = 0]
        /\ faults' \in 0 .. MaxFaults
        /\ UNCHANGED <<voucher, redisVars, lastDelivered, lockVars, orders, leaked>>
    BY <1>5 DEF Crash, TypeOK
  <2> QED
    BY <2>1, <2>2 DEF TypeOK, JobsInHand, Busy
<1> QED
  BY <1>1, <1>2, <1>3, <1>4, <1>5 DEF Faulty

LEMMA NextType ==
    ASSUME Typed, [Next]_vars
    PROVE  Typed'
<1>1. CASE UNCHANGED vars
  BY <1>1 DEF Typed, TypeOK, JobsInHand, GroupFirst, vars, redisVars, lockVars, dbVars,
              consumerVars
<1>2. CASE \E i \in Instances : PollNothing(i)
  BY <1>1, <1>2 DEF PollNothing
<1> QED
  BY <1>1, <1>2, CreatorType, RedisType, WorkerType, FaultyType DEF Next

(***************************************************************************)
(* Every reachable state has the types of TypeOK, and an instance at work    *)
(* holds an entry its group delivered, in every interleaving of requests,     *)
(* consumers, expiries and faults.                                          *)
(***************************************************************************)
THEOREM TypeCorrect == Spec => []TypeOK
<1>1. Spec => []Typed
  BY InitType, NextType, PTL DEF Spec
<1> QED
  BY <1>1, PTL DEF Typed

-----------------------------------------------------------------------------
(***************************************************************************)
(* What a step may change of the variables OrderInv is about.               *)
(***************************************************************************)
ConsumerStep(i) == Worker(i) \/ Faulty(i) \/ Restart(i)

OtherStep ==
    \/ \E v \in Vouchers : Creator(v)
    \/ \E u \in Users, v \in Vouchers : Refuse(u, v)
    \/ CreateGroup
    \/ \E u \in Users : ExpireLock(u)
    \/ UNCHANGED vars

LEMMA StepKinds ==
    ASSUME [Next]_vars
    PROVE  \/ \E i \in Instances : ConsumerStep(i)
           \/ \E u \in Users, v \in Vouchers : Purchase(u, v)
           \/ OtherStep
BY DEF Next, ConsumerStep, OtherStep, PollNothing

LEMMA OtherFrame ==
    ASSUME Typed, OtherStep
    PROVE  UNCHANGED <<stream, buyers, lastDelivered, orders, pc, job, tx>>
<1> USE DEF redisVars, lockVars, dbVars, consumerVars
<1>1. CASE \E v \in Vouchers : Creator(v)
  BY <1>1 DEF Creator, InsertVoucher, PublishStock, CommitVoucher, FailVoucher
<1>2. CASE \E u \in Users, v \in Vouchers : Refuse(u, v)
  BY <1>2 DEF Refuse
<1>3. CASE CreateGroup
  <2>1. lastDelivered = 0
    BY <1>3 DEF CreateGroup, Typed, TypeOK, GroupFirst
  <2> QED
    BY <1>3, <2>1 DEF CreateGroup
<1>4. CASE \E u \in Users : ExpireLock(u)
  BY <1>4 DEF ExpireLock
<1>5. CASE UNCHANGED vars
  BY <1>5 DEF vars
<1> QED
  BY <1>1, <1>2, <1>3, <1>4, <1>5 DEF OtherStep

\* The order row that a commit of i writes.
RowWritten(i) ==
    /\ pc[i] = "commit"
    /\ pc'[i] \in {"release", "rollback"}
    /\ orders' = [orders EXCEPT ![User(i)][Voucher(i)] = @ + 1]

LEMMA ConsumerFrame ==
    ASSUME Typed, NEW i \in Instances, ConsumerStep(i)
    PROVE  /\ UNCHANGED <<stream, buyers>>
           /\ \A j \in Instances \ {i} : pc'[j] = pc[j] /\ job'[j] = job[j]
           /\ \/ Poll(i) /\ UNCHANGED orders
              \/ /\ lastDelivered' \in {lastDelivered, lastDelivered + 1}
                 /\ pc'[i] \notin Busy
                 /\ UNCHANGED orders
              \/ /\ UNCHANGED lastDelivered
                 /\ pc[i] \in Busy
                 /\ job'[i] = job[i]
                 /\ pc'[i] \in Pending => pc[i] \in Pending
                 /\ UNCHANGED orders \/ RowWritten(i)
<1> USE DEF Busy, Pending, RowWritten, Typed, TypeOK, Goto, Leave,
            redisVars, lockVars, dbVars, consumerVars
<1>1. CASE Poll(i)
  BY <1>1 DEF Poll
<1>2. CASE TakeLock(i)
  BY <1>2 DEF TakeLock
<1>3. CASE LockBusy(i)
  BY <1>3 DEF LockBusy
<1>4. CASE CheckOrder(i)
  BY <1>4 DEF CheckOrder
<1>5. CASE TakeStock(i)
  BY <1>5 DEF TakeStock
<1>6. CASE NoStock(i)
  BY <1>6 DEF NoStock
<1>7. CASE CommitOrder(i)
  BY <1>7 DEF CommitOrder, WriteOrder
<1>8. CASE Rollback(i)
  BY <1>8 DEF Rollback
<1>9. CASE ReleaseLock(i)
  BY <1>9 DEF ReleaseLock
<1>10. CASE PollLost(i)
  BY <1>10 DEF PollLost, NewEntry
<1>11. CASE TakeLockLost(i)
  BY <1>11 DEF TakeLockLost
<1>12. CASE DbFault(i)
  BY <1>12 DEF DbFault, WriteOrder
<1>13. CASE ReleaseLockLost(i)
  BY <1>13 DEF ReleaseLockLost
<1>14. CASE Crash(i)
  BY <1>14 DEF Crash
<1>15. CASE Restart(i)
  BY <1>15 DEF Restart
<1> QED
  BY <1>1, <1>2, <1>3, <1>4, <1>5, <1>6, <1>7, <1>8, <1>9, <1>10, <1>11, <1>12, <1>13,
     <1>14, <1>15 DEF ConsumerStep, Worker, Faulty

-----------------------------------------------------------------------------
(***************************************************************************)
(* OrderInv is inductive.                                                   *)
(***************************************************************************)
LEMMA InitOrders == Init => OrderInv
<1> SUFFICES ASSUME Init PROVE OrderInv
  OBVIOUS
<1>1. Len(stream) = 0
  BY DEF Init
<1>2. JobsDistinct /\ NotYetOrdered
  BY DEF Init, JobsDistinct, NotYetOrdered, Busy, Pending
<1>3. OrdersDelivered /\ OneOrderPerUser
  BY DEF Init, OrdersDelivered, OneOrderPerUser
<1>4. EntriesDistinct /\ EntriesAreBuyers
  BY <1>1 DEF EntriesDistinct, EntriesAreBuyers
<1> QED
  BY <1>2, <1>3, <1>4 DEF OrderInv

LEMMA OtherOrders ==
    ASSUME Typed, OrderInv, OtherStep
    PROVE  OrderInv'
BY OtherFrame
   DEF OrderInv, JobsDistinct, EntriesDistinct, EntriesAreBuyers, OrdersDelivered,
       NotYetOrdered, OneOrderPerUser, User, Voucher

\* Delivered entries stay where they are.
LEMMA DeliveredStay ==
    ASSUME OrdersDelivered, UNCHANGED orders,
           lastDelivered \in Nat, lastDelivered' \in Nat, lastDelivered <= lastDelivered',
           \A k \in 1 .. lastDelivered : stream'[k] = stream[k]
    PROVE  OrdersDelivered'
<1> SUFFICES ASSUME NEW u \in Users, NEW v \in Vouchers, orders[u][v] > 0
             PROVE  \E k \in 1 .. lastDelivered' : stream'[k] = [user |-> u, voucher |-> v]
  BY DEF OrdersDelivered
<1>1. PICK k \in 1 .. lastDelivered : stream[k] = [user |-> u, voucher |-> v]
  BY DEF OrdersDelivered
<1> QED
  BY <1>1

\* The script admits a user who is not a buyer, so the entry it adds is new.
LEMMA PurchaseOrders ==
    ASSUME Typed, OrderInv, NEW u \in Users, NEW v \in Vouchers, Purchase(u, v)
    PROVE  OrderInv'
<1>1. /\ UNCHANGED <<lastDelivered, orders, pc, job>>
      /\ u \notin buyers[v]
      /\ buyers' = [buyers EXCEPT ![v] = @ \cup {u}]
      /\ stream' = Append(stream, [user |-> u, voucher |-> v])
  BY DEF Purchase, Eligible, dbVars, consumerVars
<1>2. /\ Len(stream) \in Nat
      /\ Len(stream') = Len(stream) + 1
      /\ \A k \in 1 .. Len(stream) : stream'[k] = stream[k]
      /\ stream'[Len(stream) + 1] = [user |-> u, voucher |-> v]
  BY <1>1, StreamGrows DEF Typed, TypeOK
<1>3. \A k \in 1 .. Len(stream) : stream[k] \in Entry
  BY DEF Typed, TypeOK
<1>4. lastDelivered \in 0 .. Len(stream)
  BY DEF Typed, TypeOK
<1>5. \A k \in 1 .. Len(stream) : stream[k] # [user |-> u, voucher |-> v]
  BY <1>1, <1>3 DEF OrderInv, EntriesAreBuyers
<1>6. JobsDistinct'
  BY <1>1 DEF OrderInv, JobsDistinct
<1>7. EntriesDistinct'
  BY <1>2, <1>5 DEF OrderInv, EntriesDistinct
<1>8. EntriesAreBuyers'
  <2> SUFFICES ASSUME NEW k \in 1 .. Len(stream')
               PROVE  stream'[k].user \in buyers'[stream'[k].voucher]
    BY DEF EntriesAreBuyers
  <2>1. CASE k \in 1 .. Len(stream)
    <3>1. stream[k].user \in buyers[stream[k].voucher] /\ stream[k].voucher \in Vouchers
      BY <1>3, <2>1 DEF OrderInv, EntriesAreBuyers, Entry
    <3> QED
      BY <1>1, <1>2, <2>1, <3>1 DEF Typed, TypeOK
  <2>2. CASE k = Len(stream) + 1
    BY <1>1, <1>2, <2>2 DEF Typed, TypeOK
  <2> QED
    BY <1>2, <2>1, <2>2
<1>9. OrdersDelivered'
  BY <1>1, <1>2, <1>4, DeliveredStay DEF OrderInv
<1>10. NotYetOrdered'
  <2> SUFFICES ASSUME NEW i \in Instances, pc[i] \in Pending
               PROVE  (orders[User(i)][Voucher(i)] = 0)'
    BY <1>1 DEF NotYetOrdered
  <2>1. job[i] \in 1 .. Len(stream)
    BY JobTyped DEF Pending, Busy
  <2> QED
    BY <1>1, <1>2, <2>1 DEF OrderInv, NotYetOrdered, User, Voucher
<1>11. OneOrderPerUser'
  BY <1>1 DEF OrderInv, OneOrderPerUser
<1> QED
  BY <1>6, <1>7, <1>8, <1>9, <1>10, <1>11 DEF OrderInv

\* A consumer takes an entry no other one has, and writes an order at most once.
LEMMA ConsumerOrders ==
    ASSUME Typed, OrderInv, NEW i \in Instances, ConsumerStep(i)
    PROVE  OrderInv'
<1>1. /\ UNCHANGED <<stream, buyers>>
      /\ \A j \in Instances \ {i} : pc'[j] = pc[j] /\ job'[j] = job[j]
  BY ConsumerFrame
<1>2. EntriesDistinct' /\ EntriesAreBuyers'
  BY <1>1 DEF OrderInv, EntriesDistinct, EntriesAreBuyers
<1>3. \A j \in Instances \ {i} : User(j)' = User(j) /\ Voucher(j)' = Voucher(j)
  BY <1>1 DEF User, Voucher
<1>4. /\ lastDelivered \in Nat
      /\ lastDelivered \in 0 .. Len(stream)
      /\ Len(stream) \in Nat
      /\ \A j \in Instances : pc[j] \in Busy => job[j] \in 1 .. lastDelivered
      /\ orders \in [Users -> [Vouchers -> Nat]]
  BY DEF Typed, TypeOK, JobsInHand
<1>5. CASE Poll(i) /\ UNCHANGED orders
  <2>1. /\ lastDelivered < Len(stream)
        /\ lastDelivered' = lastDelivered + 1
        /\ job'[i] = lastDelivered + 1
    BY <1>5 DEF Poll, NewEntry, Typed, TypeOK
  <2>2. JobsDistinct'
    BY <1>1, <1>4, <2>1 DEF OrderInv, JobsDistinct
  <2>3. OrdersDelivered'
    BY <1>1, <1>4, <1>5, <2>1, DeliveredStay DEF OrderInv
  <2>4. (orders[User(i)][Voucher(i)] = 0)'
    <3> DEFINE e == stream[lastDelivered + 1]
    <3>1. e \in Entry
      BY <1>4, <2>1 DEF Typed, TypeOK
    <3>2. e.user \in Users /\ e.voucher \in Vouchers
          /\ e = [user |-> e.user, voucher |-> e.voucher]
      BY <3>1 DEF Entry
    <3>3. ~(orders[e.user][e.voucher] > 0)
      <4> SUFFICES ASSUME orders[e.user][e.voucher] > 0 PROVE FALSE
        OBVIOUS
      <4>1. PICK k \in 1 .. lastDelivered : stream[k] = e
        BY <3>2 DEF OrderInv, OrdersDelivered
      <4> QED
        BY <1>4, <2>1, <4>1 DEF OrderInv, EntriesDistinct
    <3>4. orders[e.user][e.voucher] \in Nat
      BY <1>4, <3>2
    <3> QED
      BY <1>1, <1>5, <2>1, <3>3, <3>4 DEF User, Voucher
  <2>5. NotYetOrdered'
    BY <1>1, <1>3, <1>5, <2>4 DEF OrderInv, NotYetOrdered
  <2>6. OneOrderPerUser'
    BY <1>5 DEF OrderInv, OneOrderPerUser
  <2> QED
    BY <1>2, <2>2, <2>3, <2>5, <2>6 DEF OrderInv
<1>6. CASE /\ lastDelivered' \in {lastDelivered, lastDelivered + 1}
           /\ pc'[i] \notin Busy
           /\ UNCHANGED orders
  <2>1. JobsDistinct'
    BY <1>1, <1>6 DEF OrderInv, JobsDistinct
  <2>2. OrdersDelivered'
    BY <1>1, <1>4, <1>6, DeliveredStay DEF OrderInv
  <2>3. NotYetOrdered'
    BY <1>1, <1>3, <1>6 DEF OrderInv, NotYetOrdered, Pending, Busy
  <2>4. OneOrderPerUser'
    BY <1>6 DEF OrderInv, OneOrderPerUser
  <2> QED
    BY <1>2, <2>1, <2>2, <2>3, <2>4 DEF OrderInv
<1>7. CASE /\ UNCHANGED lastDelivered
           /\ pc[i] \in Busy
           /\ job'[i] = job[i]
           /\ pc'[i] \in Pending => pc[i] \in Pending
           /\ UNCHANGED orders \/ RowWritten(i)
  <2>1. User(i)' = User(i) /\ Voucher(i)' = Voucher(i)
    BY <1>1, <1>7 DEF User, Voucher
  <2>2. JobsDistinct'
    BY <1>1, <1>7 DEF OrderInv, JobsDistinct
  <2>3. CASE UNCHANGED orders
    BY <1>1, <1>2, <1>3, <1>7, <2>1, <2>2, <2>3
       DEF OrderInv, OrdersDelivered, NotYetOrdered, OneOrderPerUser
  <2>4. CASE RowWritten(i)
    <3>1. /\ job[i] \in 1 .. lastDelivered
          /\ job[i] \in 1 .. Len(stream)
          /\ stream[job[i]] = [user |-> User(i), voucher |-> Voucher(i)]
          /\ User(i) \in Users
          /\ Voucher(i) \in Vouchers
      BY <1>7, JobTyped DEF Entry, User, Voucher
    <3>2. orders[User(i)][Voucher(i)] = 0
      BY <2>4 DEF RowWritten, OrderInv, NotYetOrdered, Pending
    <3>3. \A u \in Users, v \in Vouchers :
             orders'[u][v] = IF u = User(i) /\ v = Voucher(i) THEN 1 ELSE orders[u][v]
      BY <1>4, <2>4, <3>1, <3>2 DEF RowWritten
    <3>4. OrdersDelivered'
      BY <1>1, <1>7, <3>1, <3>3 DEF OrderInv, OrdersDelivered
    <3>5. OneOrderPerUser'
      BY <3>3 DEF OrderInv, OneOrderPerUser
    <3>6. NotYetOrdered'
      <4> SUFFICES ASSUME NEW j \in Instances, pc'[j] \in Pending
                   PROVE  (orders[User(j)][Voucher(j)] = 0)'
        BY DEF NotYetOrdered
      <4>1. j # i
        BY <2>4 DEF RowWritten, Pending
      <4>2. pc[j] \in Pending /\ pc[j] \in Busy
        BY <1>1, <4>1 DEF Pending, Busy
      <4>3. /\ job[j] \in 1 .. Len(stream)
            /\ User(j) \in Users
            /\ Voucher(j) \in Vouchers
            /\ stream[job[j]] = [user |-> User(j), voucher |-> Voucher(j)]
        BY <4>2, JobTyped DEF Entry, User, Voucher
      <4>4. job[j] # job[i]
        BY <1>7, <4>1, <4>2 DEF OrderInv, JobsDistinct
      <4>5. User(j) # User(i) \/ Voucher(j) # Voucher(i)
        BY <3>1, <4>3, <4>4 DEF OrderInv, EntriesDistinct
      <4>6. orders[User(j)][Voucher(j)] = 0
        BY <4>2 DEF OrderInv, NotYetOrdered
      <4>7. orders'[User(j)][Voucher(j)] = 0
        BY <3>3, <4>3, <4>5, <4>6
      <4> QED
        BY <1>3, <4>1, <4>7
    <3> QED
      BY <1>2, <2>2, <3>4, <3>5, <3>6 DEF OrderInv
  <2> QED
    BY <1>7, <2>3, <2>4
<1> QED
  BY <1>5, <1>6, <1>7, ConsumerFrame

(***************************************************************************)
(* One user, one order of a voucher, for any number of users, vouchers and   *)
(* instances and any number of faults: CreateVoucherOrder needs neither its   *)
(* lock nor its count for it, because the script puts one entry per buyer in  *)
(* the stream and the group delivers an entry once.                         *)
(***************************************************************************)
THEOREM OneOrder == Spec => []OneOrderPerUser
<1>1. Typed /\ OrderInv /\ [Next]_vars => (Typed /\ OrderInv)'
  BY NextType, StepKinds, OtherOrders, PurchaseOrders, ConsumerOrders
<1>2. Spec => [](Typed /\ OrderInv)
  BY <1>1, InitType, InitOrders, PTL DEF Spec
<1> QED
  BY <1>2, PTL DEF OrderInv

-----------------------------------------------------------------------------
(***************************************************************************)
(* Counting users and instances.                                            *)
(***************************************************************************)
LEMMA Counts ==
    /\ \A S \in SUBSET Users : IsFiniteSet(S) /\ Cardinality(S) \in Nat
    /\ \A S \in SUBSET Instances : IsFiniteSet(S) /\ Cardinality(S) \in Nat
BY FiniteAssumption, FS_Subset, FS_CardinalityType

LEMMA Shapes ==
    ASSUME NEW v
    PROVE  /\ Sold(v) \in SUBSET Users
           /\ InFlight(v) \in SUBSET Instances
BY DEF Sold, InFlight

(***************************************************************************)
(* What a consumer's step does to stock, orders and transactions.           *)
(***************************************************************************)
TakesUnit(i) ==
    /\ TakeStock(i)
    /\ tx' = [tx EXCEPT ![i] = "updated"]
    /\ UNCHANGED orders

SellsUnit(i) ==
    /\ pc[i] = "commit"
    /\ orders' = [orders EXCEPT ![User(i)][Voucher(i)] = @ + 1]
    /\ tx' = [tx EXCEPT ![i] = "none"]
    /\ UNCHANGED dbStock

ReturnsUnit(i) ==
    /\ tx[i] = "updated"
    /\ dbStock' = [dbStock EXCEPT ![Voucher(i)] = @ + 1]
    /\ tx' = [tx EXCEPT ![i] = "none"]
    /\ UNCHANGED orders

HoldsUnits(i) ==
    /\ UNCHANGED <<dbStock, orders>>
    /\ tx'[i] = "updated" <=> tx[i] = "updated"
    /\ tx[i] = "updated" => job'[i] = job[i]
    /\ \A j \in Instances \ {i} : tx'[j] = tx[j]

LEMMA ConsumerUnits ==
    ASSUME Typed, TxInPlace, TxBeforeCommit, NEW i \in Instances, ConsumerStep(i)
    PROVE  /\ UNCHANGED <<voucher, onSale, redisStock, buyers, stream>>
           /\ \A j \in Instances \ {i} : pc'[j] = pc[j] /\ job'[j] = job[j] /\ tx'[j] = tx[j]
           /\ tx'[i] = "updated" => pc'[i] \in {"commit", "rollback"}
           /\ pc'[i] = "commit" => tx'[i] = "updated"
           /\ TakesUnit(i) \/ SellsUnit(i) \/ ReturnsUnit(i) \/ HoldsUnits(i)
           /\ UNCHANGED leaked \/ NoStock(i)
<1> USE DEF TakesUnit, SellsUnit, ReturnsUnit, HoldsUnits, TxInPlace, TxBeforeCommit, Typed,
            TypeOK, Goto, Leave, redisVars, lockVars, dbVars, consumerVars
<1>1. CASE Poll(i)
  BY <1>1 DEF Poll, NewEntry
<1>2. CASE TakeLock(i)
  BY <1>2 DEF TakeLock
<1>3. CASE LockBusy(i)
  BY <1>3 DEF LockBusy
<1>4. CASE CheckOrder(i)
  BY <1>4 DEF CheckOrder
<1>5. CASE TakeStock(i)
  BY <1>5 DEF TakeStock
<1>6. CASE NoStock(i)
  BY <1>6 DEF NoStock
<1>7. CASE CommitOrder(i)
  BY <1>7 DEF CommitOrder, WriteOrder
<1>8. CASE Rollback(i)
  BY <1>8 DEF Rollback, UndoTx
<1>9. CASE ReleaseLock(i)
  BY <1>9 DEF ReleaseLock
<1>10. CASE PollLost(i)
  BY <1>10 DEF PollLost, NewEntry
<1>11. CASE TakeLockLost(i)
  BY <1>11 DEF TakeLockLost
<1>12. CASE DbFault(i)
  BY <1>12 DEF DbFault, WriteOrder
<1>13. CASE ReleaseLockLost(i)
  BY <1>13 DEF ReleaseLockLost
<1>14. CASE Crash(i)
  BY <1>14 DEF Crash, UndoTx
<1>15. CASE Restart(i)
  BY <1>15 DEF Restart
<1> QED
  BY <1>1, <1>2, <1>3, <1>4, <1>5, <1>6, <1>7, <1>8, <1>9, <1>10, <1>11, <1>12, <1>13,
     <1>14, <1>15 DEF ConsumerStep, Worker, Faulty

\* An entry in flight is one of the stream.
LEMMA FlightTyped ==
    ASSUME Typed, TxInPlace, NEW i \in Instances, tx[i] = "updated"
    PROVE  /\ job[i] \in 1 .. Len(stream)
           /\ User(i) \in Users
           /\ Voucher(i) \in Vouchers
BY JobTyped DEF TxInPlace, Busy

(***************************************************************************)
(* Whoever's unit is taken, sold or returned, the sum stays what it was.    *)
(***************************************************************************)
LEMMA ConsumerStock ==
    ASSUME Typed, OrderInv, StockInv, NEW i \in Instances, ConsumerStep(i)
    PROVE  StockConserved' /\ NewRow'
<1>1. /\ UNCHANGED <<voucher, onSale, redisStock, buyers, stream>>
      /\ \A j \in Instances \ {i} : pc'[j] = pc[j] /\ job'[j] = job[j] /\ tx'[j] = tx[j]
  BY ConsumerUnits DEF StockInv
<1>2. \A j \in Instances \ {i} : User(j)' = User(j) /\ Voucher(j)' = Voucher(j)
  BY <1>1 DEF User, Voucher
<1>3. /\ dbStock \in [Vouchers -> Int]
      /\ orders \in [Users -> [Vouchers -> Nat]]
      /\ tx \in [Instances -> {"none", "open", "updated"}]
  BY DEF Typed, TypeOK
<1>4. \A w \in Vouchers : InFlight(w) # {} => voucher[w] = "committed"
  BY DEF StockInv, StockConserved
<1>5. CASE HoldsUnits(i)
  <2>1. tx[i] = "updated" => User(i)' = User(i) /\ Voucher(i)' = Voucher(i)
    BY <1>1, <1>5 DEF HoldsUnits, User, Voucher
  <2>2. \A w \in Vouchers : InFlight(w)' = InFlight(w) /\ Sold(w)' = Sold(w)
    BY <1>1, <1>2, <1>5, <2>1 DEF HoldsUnits, InFlight, Sold
  <2> QED
    BY <1>1, <1>5, <2>2 DEF HoldsUnits, StockInv, StockConserved, NewRow
<1>6. CASE TakesUnit(i)
  <2>0. PICK v \in Vouchers : v = Voucher(i)
    BY <1>6, JobTyped DEF TakesUnit, TakeStock, Busy
  <2>1. /\ pc[i] = "update"
        /\ voucher[v] = "committed"
        /\ dbStock' = [dbStock EXCEPT ![v] = @ - 1]
        /\ job' = job
        /\ tx' = [tx EXCEPT ![i] = "updated"]
    BY <1>6, <2>0 DEF TakesUnit, TakeStock, RowMatches
  <2>2. Voucher(i)' = v
    BY <1>1, <2>0, <2>1 DEF Voucher
  <2>3. i \notin InFlight(v) /\ tx[i] # "updated"
    BY <2>1 DEF StockInv, TxInPlace, InFlight
  <2>4. InFlight(v)' = InFlight(v) \cup {i}
    BY <1>1, <1>2, <1>3, <2>1, <2>2 DEF InFlight
  <2>5. \A w \in Vouchers \ {v} : InFlight(w)' = InFlight(w)
    BY <1>1, <1>2, <1>3, <2>0, <2>1, <2>2, <2>3 DEF InFlight
  <2>6. \A w \in Vouchers : Sold(w)' = Sold(w)
    BY <1>6 DEF TakesUnit, Sold
  <2>7. Cardinality(InFlight(v)') = Cardinality(InFlight(v)) + 1
    BY <2>3, <2>4, Counts, Shapes, FS_AddElement
  <2>8. dbStock'[v] = dbStock[v] - 1 /\ \A w \in Vouchers \ {v} : dbStock'[w] = dbStock[w]
    BY <1>3, <2>1
  <2>9. dbStock[v] \in Int /\ Cardinality(InFlight(v)) \in Nat /\ Cardinality(Sold(v)) \in Nat
    BY <1>3, <2>1, Counts, Shapes
  <2>10. dbStock[v] + Cardinality(InFlight(v)) + Cardinality(Sold(v)) = Stock[v]
    BY <2>1 DEF StockInv, StockConserved
  <2>11. dbStock'[v] + Cardinality(InFlight(v)') + Cardinality(Sold(v)') = Stock[v]
    BY <2>1, <2>6, <2>7, <2>8, <2>9, <2>10
  <2>12. StockConserved'
    BY <1>1, <2>1, <2>5, <2>6, <2>8, <2>11 DEF StockInv, StockConserved
  <2>13. NewRow'
    BY <1>1, <2>1, <2>8 DEF StockInv, NewRow
  <2> QED
    BY <2>12, <2>13
<1>7. CASE SellsUnit(i)
  <2>1. tx[i] = "updated"
    BY <1>7 DEF SellsUnit, StockInv, TxBeforeCommit
  <2>0. PICK u \in Users, v \in Vouchers : u = User(i) /\ v = Voucher(i)
    BY <2>1, FlightTyped DEF StockInv
  <2>2. orders[u][v] = 0
    BY <1>7, <2>0 DEF SellsUnit, OrderInv, NotYetOrdered, Pending
  <2>3. /\ orders' = [orders EXCEPT ![u][v] = @ + 1]
        /\ tx' = [tx EXCEPT ![i] = "none"]
        /\ dbStock' = dbStock
    BY <1>7, <2>0 DEF SellsUnit
  <2>4. i \in InFlight(v)
    BY <2>0, <2>1 DEF InFlight
  <2>5. InFlight(v)' = InFlight(v) \ {i}
    BY <1>1, <1>2, <1>3, <2>3 DEF InFlight
  <2>6. \A w \in Vouchers \ {v} : InFlight(w)' = InFlight(w)
    BY <1>1, <1>2, <1>3, <2>0, <2>3 DEF InFlight
  <2>7. Sold(v)' = Sold(v) \cup {u} /\ u \notin Sold(v)
    BY <1>3, <2>2, <2>3 DEF Sold
  <2>8. \A w \in Vouchers \ {v} : Sold(w)' = Sold(w)
    BY <1>3, <2>2, <2>3 DEF Sold
  <2>9. Cardinality(InFlight(v)') = Cardinality(InFlight(v)) - 1
    BY <2>4, <2>5, Counts, Shapes, FS_RemoveElement
  <2>10. Cardinality(Sold(v)') = Cardinality(Sold(v)) + 1
    BY <2>7, Counts, Shapes, FS_AddElement
  <2>11. dbStock[v] \in Int /\ Cardinality(InFlight(v)) \in Nat /\ Cardinality(Sold(v)) \in Nat
    BY <1>3, <2>2, Counts, Shapes
  <2>12. voucher[v] = "committed"
    BY <1>4, <2>2, <2>4
  <2>13. dbStock[v] + Cardinality(InFlight(v)) + Cardinality(Sold(v)) = Stock[v]
    BY <2>2, <2>12 DEF StockInv, StockConserved
  <2>14. dbStock'[v] + Cardinality(InFlight(v)') + Cardinality(Sold(v)') = Stock[v]
    BY <2>3, <2>9, <2>10, <2>11, <2>13
  <2>15. StockConserved'
    BY <1>1, <2>3, <2>6, <2>8, <2>12, <2>14 DEF StockInv, StockConserved
  <2> QED
    BY <1>1, <2>3, <2>15 DEF StockInv, NewRow
<1>8. CASE ReturnsUnit(i)
  <2>0. PICK v \in Vouchers : v = Voucher(i)
    BY <1>8, FlightTyped DEF ReturnsUnit, StockInv
  <2>1. /\ dbStock' = [dbStock EXCEPT ![v] = @ + 1]
        /\ tx' = [tx EXCEPT ![i] = "none"]
        /\ orders' = orders
        /\ i \in InFlight(v)
    BY <1>8, <2>0 DEF ReturnsUnit, InFlight
  <2>2. InFlight(v)' = InFlight(v) \ {i}
    BY <1>1, <1>2, <1>3, <2>1 DEF InFlight
  <2>3. \A w \in Vouchers \ {v} : InFlight(w)' = InFlight(w)
    BY <1>1, <1>2, <1>3, <2>1 DEF InFlight
  <2>4. \A w \in Vouchers : Sold(w)' = Sold(w)
    BY <2>1 DEF Sold
  <2>5. Cardinality(InFlight(v)') = Cardinality(InFlight(v)) - 1
    BY <2>1, <2>2, Counts, Shapes, FS_RemoveElement
  <2>6. dbStock'[v] = dbStock[v] + 1 /\ \A w \in Vouchers \ {v} : dbStock'[w] = dbStock[w]
    BY <1>3, <2>1
  <2>7. dbStock[v] \in Int /\ Cardinality(InFlight(v)) \in Nat /\ Cardinality(Sold(v)) \in Nat
    BY <1>3, <2>1, Counts, Shapes
  <2>8. voucher[v] = "committed"
    BY <1>4, <2>1
  <2>9. dbStock[v] + Cardinality(InFlight(v)) + Cardinality(Sold(v)) = Stock[v]
    BY <2>1, <2>8 DEF StockInv, StockConserved
  <2>10. dbStock'[v] + Cardinality(InFlight(v)') + Cardinality(Sold(v)') = Stock[v]
    BY <2>1, <2>4, <2>5, <2>6, <2>7, <2>9
  <2>11. StockConserved'
    BY <1>1, <2>3, <2>4, <2>6, <2>8, <2>10 DEF StockInv, StockConserved
  <2>12. NewRow'
    BY <1>1, <2>1, <2>6, <2>8 DEF StockInv, NewRow
  <2> QED
    BY <2>11, <2>12
<1> QED
  BY <1>5, <1>6, <1>7, <1>8, ConsumerUnits DEF StockInv

(***************************************************************************)
(* An admitted order in hand leaves a unit for itself in MySQL.             *)
(***************************************************************************)
LEMMA UnitLeft ==
    ASSUME Typed, OrderInv, StockInv, NEW i \in Instances, NoStock(i)
    PROVE  voucher[Voucher(i)] = "failed"
<1>1. /\ pc[i] = "update"
      /\ ~RowLocked(Voucher(i))
      /\ ~RowMatches(Voucher(i))
  BY DEF NoStock
<1>2. PICK u \in Users, v \in Vouchers : u = User(i) /\ v = Voucher(i)
  BY <1>1, JobTyped DEF Busy
<1>3. u \in buyers[v] /\ u \notin Sold(v)
  <2>1. job[i] \in 1 .. Len(stream)
    BY <1>1, JobTyped DEF Busy
  <2>2. u \in buyers[v]
    BY <1>2, <2>1 DEF OrderInv, EntriesAreBuyers, User, Voucher
  <2>3. orders[u][v] = 0
    BY <1>1, <1>2 DEF OrderInv, NotYetOrdered, Pending
  <2> QED
    BY <2>2, <2>3 DEF Sold
<1>4. /\ voucher[v] \in {"published", "committed", "failed"}
      /\ redisStock[v] >= 0
      /\ redisStock[v] + Cardinality(buyers[v]) = Stock[v]
  BY <1>3 DEF StockInv, RedisConserved
<1>5. voucher[v] # "published" /\ InFlight(v) = {}
  BY <1>1, <1>2 DEF RowLocked, InFlight
<1>6. voucher[v] # "committed"
  <2> SUFFICES ASSUME voucher[v] = "committed" PROVE FALSE
    OBVIOUS
  <2>1. dbStock[v] + Cardinality(Sold(v)) = Stock[v]
    <3>1. dbStock[v] + Cardinality(InFlight(v)) + Cardinality(Sold(v)) = Stock[v]
      BY DEF StockInv, StockConserved
    <3>2. dbStock[v] \in Int /\ Cardinality(Sold(v)) \in Nat
      BY Counts, Shapes DEF Typed, TypeOK
    <3> QED
      BY <1>5, <3>1, <3>2, FS_EmptySet
  <2>2. Sold(v) \cup {u} \in SUBSET buyers[v]
    <3> SUFFICES ASSUME NEW w \in Sold(v) PROVE w \in buyers[v]
      BY <1>3
    <3>1. w \in Users /\ orders[w][v] > 0
      BY DEF Sold
    <3>2. PICK k \in 1 .. lastDelivered : stream[k] = [user |-> w, voucher |-> v]
      BY <3>1 DEF OrderInv, OrdersDelivered
    <3>3. k \in 1 .. Len(stream)
      BY DEF Typed, TypeOK
    <3> QED
      BY <3>2, <3>3 DEF OrderInv, EntriesAreBuyers
  <2>3. IsFiniteSet(buyers[v]) /\ Cardinality(buyers[v]) \in Nat
    BY Counts DEF Typed, TypeOK
  <2>4. Cardinality(Sold(v)) + 1 <= Cardinality(buyers[v])
    <3>1. /\ IsFiniteSet(Sold(v))
          /\ Cardinality(Sold(v) \cup {u}) = Cardinality(Sold(v)) + 1
      BY <1>3, Counts, Shapes, FS_AddElement
    <3>2. Cardinality(Sold(v) \cup {u}) <= Cardinality(buyers[v])
      BY <2>2, <2>3, FS_Subset
    <3> QED
      BY <3>1, <3>2
  <2>5. /\ dbStock[v] \in Int
        /\ redisStock[v] \in Int
        /\ Cardinality(Sold(v)) \in Nat
    BY Counts, Shapes DEF Typed, TypeOK
  <2>6. dbStock[v] > 0
    BY <1>4, <2>1, <2>3, <2>4, <2>5, StockAssumption
  <2> QED
    BY <1>1, <1>2, <2>6 DEF RowMatches
<1> QED
  BY <1>2, <1>4, <1>5, <1>6

LEMMA ConsumerStockInv ==
    ASSUME Typed, OrderInv, StockInv, NEW i \in Instances, ConsumerStep(i)
    PROVE  StockInv'
<1>1. /\ UNCHANGED <<voucher, onSale, redisStock, buyers, stream>>
      /\ \A j \in Instances \ {i} : pc'[j] = pc[j] /\ tx'[j] = tx[j]
      /\ tx'[i] = "updated" => pc'[i] \in {"commit", "rollback"}
      /\ pc'[i] = "commit" => tx'[i] = "updated"
  BY ConsumerUnits DEF StockInv
<1>2. TxInPlace' /\ TxBeforeCommit'
  BY <1>1 DEF StockInv, TxInPlace, TxBeforeCommit
<1>3. RedisConserved'
  BY <1>1 DEF StockInv, RedisConserved
<1>4. LeaksOnlyOnFailed'
  <2>1. CASE UNCHANGED leaked
    BY <1>1, <2>1 DEF StockInv, LeaksOnlyOnFailed
  <2>2. CASE NoStock(i)
    <3>1. voucher[stream[job[i]].voucher] = "failed"
      BY <2>2, UnitLeft DEF Voucher
    <3>2. leaked' = leaked \cup {job[i]}
      BY <2>2 DEF NoStock
    <3> QED
      BY <1>1, <3>1, <3>2 DEF StockInv, LeaksOnlyOnFailed
  <2> QED
    BY <2>1, <2>2, ConsumerUnits DEF StockInv
<1> QED
  BY <1>2, <1>3, <1>4, ConsumerStock DEF StockInv

LEMMA PurchaseStockInv ==
    ASSUME Typed, OrderInv, StockInv, NEW u \in Users, NEW v \in Vouchers, Purchase(u, v)
    PROVE  StockInv'
<1>1. /\ UNCHANGED <<voucher, onSale, dbStock, orders, pc, job, tx, leaked>>
      /\ v \in onSale
      /\ redisStock[v] > 0
      /\ u \notin buyers[v]
      /\ redisStock' = [redisStock EXCEPT ![v] = @ - 1]
      /\ buyers' = [buyers EXCEPT ![v] = @ \cup {u}]
      /\ stream' = Append(stream, [user |-> u, voucher |-> v])
  BY DEF Purchase, Eligible, dbVars, consumerVars
<1>2. \A k \in 1 .. Len(stream) : stream'[k] = stream[k]
  BY <1>1, StreamGrows DEF Typed, TypeOK
<1>3. TxInPlace' /\ TxBeforeCommit' /\ NewRow'
  BY <1>1 DEF StockInv, TxInPlace, TxBeforeCommit, NewRow
<1>4. RedisConserved'
  <2>1. /\ redisStock'[v] = redisStock[v] - 1
        /\ \A w \in Vouchers \ {v} : redisStock'[w] = redisStock[w]
        /\ buyers'[v] = buyers[v] \cup {u}
        /\ \A w \in Vouchers \ {v} : buyers'[w] = buyers[w]
        /\ redisStock[v] \in Int
        /\ buyers[v] \in SUBSET Users
    BY <1>1 DEF Typed, TypeOK
  <2>2. Cardinality(buyers[v]) \in Nat /\ Cardinality(buyers'[v]) = Cardinality(buyers[v]) + 1
    BY <1>1, <2>1, Counts, FS_AddElement
  <2>3. redisStock'[v] >= 0 /\ redisStock'[v] + Cardinality(buyers'[v]) = Stock[v]
    BY <1>1, <2>1, <2>2 DEF StockInv, RedisConserved
  <2> QED
    BY <1>1, <2>1, <2>3 DEF StockInv, RedisConserved
<1>5. \A w \in Vouchers : InFlight(w)' = InFlight(w) /\ Sold(w)' = Sold(w)
  <2>1. \A i \in Instances : tx[i] = "updated" => Voucher(i)' = Voucher(i)
    BY <1>1, <1>2, FlightTyped DEF StockInv, Voucher
  <2> QED
    BY <1>1, <2>1 DEF InFlight, Sold
<1>6. StockConserved'
  BY <1>1, <1>5 DEF StockInv, StockConserved
<1>7. LeaksOnlyOnFailed'
  BY <1>1, <1>2 DEF StockInv, LeaksOnlyOnFailed, Typed, TypeOK
<1> QED
  BY <1>3, <1>4, <1>6, <1>7 DEF StockInv

\* Redis learns of a voucher once, and only then can it have buyers.
LEMMA CreatorStockInv ==
    ASSUME Typed, StockInv, NEW v \in Vouchers, Creator(v)
    PROVE  StockInv'
<1> USE DEF redisVars, lockVars, dbVars, consumerVars
<1>1. /\ UNCHANGED <<stream, buyers, orders, pc, job, tx, leaked>>
      /\ \A w \in Vouchers \ {v} : voucher'[w] = voucher[w] /\ dbStock'[w] = dbStock[w]
      /\ voucher[v] \notin {"committed", "failed"}
  BY DEF Creator, InsertVoucher, PublishStock, CommitVoucher, FailVoucher, Typed, TypeOK
<1>2. \A w \in Vouchers : InFlight(w)' = InFlight(w) /\ Sold(w)' = Sold(w)
  BY <1>1 DEF InFlight, Sold, Voucher
<1>3. InFlight(v) = {} /\ Sold(v) = {}
  BY <1>1 DEF StockInv, StockConserved
<1>4. TxInPlace' /\ TxBeforeCommit'
  BY <1>1 DEF StockInv, TxInPlace, TxBeforeCommit
<1>5. LeaksOnlyOnFailed'
  <2> SUFFICES ASSUME NEW k \in leaked PROVE voucher'[stream[k].voucher] = "failed"
    BY <1>1 DEF LeaksOnlyOnFailed
  <2>1. voucher[stream[k].voucher] = "failed" /\ stream[k].voucher \in Vouchers
    <3>1. k \in 1 .. Len(stream)
      BY DEF Typed, TypeOK
    <3>2. stream[k] \in Entry
      BY <3>1 DEF Typed, TypeOK
    <3> QED
      BY <3>2 DEF StockInv, LeaksOnlyOnFailed, Entry
  <2> QED
    BY <1>1, <2>1
<1>6. CASE InsertVoucher(v)
  <2>1. /\ voucher[v] = "new" /\ voucher'[v] = "inserted"
        /\ dbStock'[v] = Stock[v]
        /\ UNCHANGED <<onSale, redisStock>>
    BY <1>6 DEF InsertVoucher, Typed, TypeOK
  <2>2. RedisConserved' /\ NewRow'
    BY <1>1, <2>1 DEF StockInv, RedisConserved, NewRow
  <2>3. StockConserved'
    BY <1>1, <1>2, <1>3, <2>1 DEF StockInv, StockConserved
  <2> QED
    BY <1>4, <1>5, <2>2, <2>3 DEF StockInv
<1>7. CASE PublishStock(v)
  <2>1. /\ voucher[v] = "inserted" /\ voucher'[v] = "published"
        /\ onSale' = onSale \cup {v}
        /\ redisStock'[v] = Stock[v]
        /\ \A w \in Vouchers \ {v} : redisStock'[w] = redisStock[w]
        /\ dbStock' = dbStock
    BY <1>7 DEF PublishStock, Typed, TypeOK
  <2>2. buyers[v] = {}
    BY <2>1 DEF StockInv, RedisConserved
  <2>3. redisStock'[v] >= 0 /\ redisStock'[v] + Cardinality(buyers[v]) = Stock[v]
    BY <2>1, <2>2, FS_EmptySet, StockAssumption
  <2>4. RedisConserved'
    BY <1>1, <2>1, <2>3 DEF StockInv, RedisConserved
  <2>5. NewRow'
    BY <1>1, <2>1 DEF StockInv, NewRow
  <2>6. StockConserved'
    BY <1>1, <1>2, <1>3, <2>1 DEF StockInv, StockConserved
  <2> QED
    BY <1>4, <1>5, <2>4, <2>5, <2>6 DEF StockInv
<1>8. CASE CommitVoucher(v)
  <2>1. /\ voucher[v] = "published" /\ voucher'[v] = "committed"
        /\ UNCHANGED <<onSale, redisStock, dbStock>>
    BY <1>8 DEF CommitVoucher, Typed, TypeOK
  <2>2. RedisConserved' /\ NewRow'
    BY <1>1, <2>1 DEF StockInv, RedisConserved, NewRow
  <2>3. dbStock[v] = Stock[v] /\ Stock[v] \in Nat
    BY <2>1, StockAssumption DEF StockInv, NewRow
  <2>4. dbStock[v] + Cardinality(InFlight(v)) + Cardinality(Sold(v)) = Stock[v]
    BY <1>3, <2>3, FS_EmptySet
  <2>5. StockConserved'
    BY <1>1, <1>2, <2>1, <2>4 DEF StockInv, StockConserved
  <2> QED
    BY <1>4, <1>5, <2>2, <2>5 DEF StockInv
<1>9. CASE FailVoucher(v)
  <2>1. voucher'[v] = "failed" /\ UNCHANGED <<onSale, redisStock>>
    BY <1>9 DEF FailVoucher, Typed, TypeOK
  <2>2. RedisConserved' /\ NewRow'
    BY <1>1, <2>1 DEF StockInv, RedisConserved, NewRow
  <2>3. StockConserved'
    BY <1>1, <1>2, <1>3, <2>1 DEF StockInv, StockConserved
  <2> QED
    BY <1>4, <1>5, <2>2, <2>3 DEF StockInv
<1> QED
  BY <1>6, <1>7, <1>8, <1>9 DEF Creator

LEMMA OtherStockInv ==
    ASSUME Typed, StockInv, OtherStep
    PROVE  StockInv'
<1>1. CASE \E v \in Vouchers : Creator(v)
  BY <1>1, CreatorStockInv
<1>2. CASE ~ \E v \in Vouchers : Creator(v)
  <2>1. UNCHANGED <<voucher, onSale, redisStock, buyers, stream, dbStock, orders, pc, job, tx, leaked>>
    BY <1>2 DEF OtherStep, Refuse, CreateGroup, ExpireLock, vars, redisVars, lockVars, dbVars,
                consumerVars
  <2>2. (TxInPlace /\ TxBeforeCommit /\ RedisConserved /\ NewRow /\ LeaksOnlyOnFailed)'
    BY <2>1 DEF StockInv, TxInPlace, TxBeforeCommit, RedisConserved, NewRow, LeaksOnlyOnFailed
  <2>3. \A v \in Vouchers : InFlight(v)' = InFlight(v) /\ Sold(v)' = Sold(v)
    BY <2>1 DEF InFlight, Sold, Voucher
  <2>4. StockConserved'
    BY <2>1, <2>3 DEF StockInv, StockConserved
  <2> QED
    BY <2>2, <2>4 DEF StockInv
<1> QED
  BY <1>1, <1>2

LEMMA InitStock == Init => StockInv
<1> SUFFICES ASSUME Init PROVE StockInv
  OBVIOUS
<1>1. TxInPlace /\ TxBeforeCommit /\ NewRow /\ RedisConserved /\ LeaksOnlyOnFailed
  BY DEF Init, TxInPlace, TxBeforeCommit, NewRow, RedisConserved, LeaksOnlyOnFailed
<1>2. \A v \in Vouchers : Sold(v) = {} /\ InFlight(v) = {}
  BY DEF Init, Sold, InFlight
<1>3. StockConserved
  BY <1>2 DEF Init, StockConserved
<1> QED
  BY <1>1, <1>3 DEF StockInv

(***************************************************************************)
(* IInv is inductive, and so every run keeps it.                            *)
(***************************************************************************)
THEOREM Inductive == Spec => []IInv
<1>1. Init => IInv
  BY InitType, InitOrders, InitStock DEF IInv
<1>2. IInv /\ [Next]_vars => IInv'
  BY NextType, StepKinds, OtherOrders, PurchaseOrders, ConsumerOrders,
     OtherStockInv, PurchaseStockInv, ConsumerStockInv DEF IInv
<1> QED
  BY <1>1, <1>2, PTL DEF Spec

(***************************************************************************)
(* What is left of a committed voucher's stock, what transactions hold and   *)
(* what orders took always add up to the stock it was created with, through   *)
(* rollbacks, crashes and commits whose reply is lost.                      *)
(***************************************************************************)
THEOREM NothingOversold == Spec => []StockConserved
BY Inductive, PTL DEF IInv, StockInv

(***************************************************************************)
(* CreateVoucherOrder leaves a transaction open only for a voucher whose      *)
(* creation failed behind the Redis key: a committed voucher always has a     *)
(* unit for an order the script admitted.                                   *)
(***************************************************************************)
THEOREM CommittedNeverLeaks == Spec => []LeaksOnlyOnFailed
BY Inductive, PTL DEF IInv, StockInv

-----------------------------------------------------------------------------
(***************************************************************************)
(* Seckill implements FlashSale.  What a step of a consumer does to the      *)
(* delivered entries, to the entry in hand and to the orders decides which   *)
(* step of the sale it is.                                                  *)
(***************************************************************************)
LEMMA ConsumerMoves ==
    ASSUME Typed, NotYetOrdered, NEW i \in Instances, ConsumerStep(i)
    PROVE  \/ Poll(i) /\ UNCHANGED orders
           \/ PollLost(i) /\ UNCHANGED <<orders, pc, job>>
           \/ /\ UNCHANGED lastDelivered
              /\ pc[i] \in Pending
              /\ pc'[i] \notin Pending
              /\ UNCHANGED orders \/ RowWritten(i)
           \/ /\ UNCHANGED <<lastDelivered, orders>>
              /\ pc[i] \in Pending <=> pc'[i] \in Pending
              /\ pc'[i] \in Pending => job'[i] = job[i]
<1> USE DEF Pending, RowWritten, Typed, TypeOK, Goto, Leave,
            redisVars, lockVars, dbVars, consumerVars
<1>1. CASE Poll(i)
  BY <1>1 DEF Poll
<1>2. CASE TakeLock(i)
  BY <1>2 DEF TakeLock
<1>3. CASE LockBusy(i)
  BY <1>3 DEF LockBusy
<1>4. CASE CheckOrder(i)
  BY <1>4 DEF CheckOrder, NotYetOrdered
<1>5. CASE TakeStock(i)
  BY <1>5 DEF TakeStock
<1>6. CASE NoStock(i)
  BY <1>6 DEF NoStock
<1>7. CASE CommitOrder(i)
  BY <1>7 DEF CommitOrder, WriteOrder
<1>8. CASE Rollback(i)
  BY <1>8 DEF Rollback
<1>9. CASE ReleaseLock(i)
  BY <1>9 DEF ReleaseLock
<1>10. CASE PollLost(i)
  BY <1>10 DEF PollLost, NewEntry
<1>11. CASE TakeLockLost(i)
  BY <1>11 DEF TakeLockLost
<1>12. CASE DbFault(i)
  BY <1>12 DEF DbFault, WriteOrder
<1>13. CASE ReleaseLockLost(i)
  BY <1>13 DEF ReleaseLockLost
<1>14. CASE Crash(i)
  BY <1>14 DEF Crash
<1>15. CASE Restart(i)
  BY <1>15 DEF Restart
<1> QED
  BY <1>1, <1>2, <1>3, <1>4, <1>5, <1>6, <1>7, <1>8, <1>9, <1>10, <1>11, <1>12, <1>13,
     <1>14, <1>15 DEF ConsumerStep, Worker, Faulty

\* Entries of the stream are equal when their fields are.
LEMMA SameEntry ==
    ASSUME Typed, EntriesDistinct,
           NEW j \in 1 .. Len(stream), NEW k \in 1 .. Len(stream),
           stream[j].user = stream[k].user, stream[j].voucher = stream[k].voucher
    PROVE  j = k
<1>1. stream[j] \in Entry /\ stream[k] \in Entry
  BY DEF Typed, TypeOK
<1>2. stream[j] = stream[k]
  BY <1>1 DEF Entry
<1> QED
  BY <1>2 DEF EntriesDistinct

\* An order is in one instance's hands only.
LEMMA OneHandler ==
    ASSUME Typed, OrderInv, NEW i \in Instances, pc[i] \in Pending,
           NEW j \in Instances, Handling(j, User(i), Voucher(i))
    PROVE  j = i
<1>1. pc[i] \in Busy /\ pc[j] \in Busy
  BY DEF Handling, Busy, Pending
<1>2. job[i] \in 1 .. Len(stream) /\ job[j] \in 1 .. Len(stream)
  BY <1>1, JobTyped
<1>3. job[i] = job[j]
  BY <1>2, SameEntry DEF OrderInv, Handling, User, Voucher
<1> QED
  BY <1>1, <1>3 DEF OrderInv, JobsDistinct

\* What a pair needs to be lost is unchanged if these are.
LEMMA LostFrame ==
    ASSUME UNCHANGED <<stream, lastDelivered, orders, pc, job>>
    PROVE  Lost' = Lost
BY DEF Lost, Delivered, Handling, User, Voucher

\* The next entry is an admitted pair nobody has seen.
LEMMA NextEntry ==
    ASSUME Typed, OrderInv, lastDelivered < Len(stream),
           NEW e, e = stream[lastDelivered + 1]
    PROVE  /\ lastDelivered + 1 \in 1 .. Len(stream)
           /\ e \in Entry
           /\ e.user \in Users /\ e.voucher \in Vouchers
           /\ e = [user |-> e.user, voucher |-> e.voucher]
           /\ e.user \in buyers[e.voucher]
           /\ ~Delivered(e.user, e.voucher)
           /\ orders[e.user][e.voucher] = 0
           /\ \A j \in Instances : ~Handling(j, e.user, e.voucher)
<1>1. lastDelivered \in Nat /\ Len(stream) \in Nat /\ lastDelivered + 1 \in 1 .. Len(stream)
  BY DEF Typed, TypeOK
<1>2. e \in Entry
  BY <1>1 DEF Typed, TypeOK
<1>3. /\ e.user \in Users /\ e.voucher \in Vouchers
      /\ e = [user |-> e.user, voucher |-> e.voucher]
  BY <1>2 DEF Entry
<1>4. e.user \in buyers[e.voucher]
  BY <1>1 DEF OrderInv, EntriesAreBuyers
<1>5. ~ \E k \in 1 .. lastDelivered : stream[k] = e
  BY <1>1 DEF OrderInv, EntriesDistinct
<1>6. ~Delivered(e.user, e.voucher)
  BY <1>3, <1>5 DEF Delivered
<1>7. orders[e.user][e.voucher] = 0
  <2>1. orders[e.user][e.voucher] \in Nat
    BY <1>3 DEF Typed, TypeOK
  <2>2. ~(orders[e.user][e.voucher] > 0)
    BY <1>3, <1>5 DEF OrderInv, OrdersDelivered
  <2> QED
    BY <2>1, <2>2
<1>8. ASSUME NEW j \in Instances, Handling(j, e.user, e.voucher)
      PROVE  FALSE
  <2>1. job[j] \in 1 .. lastDelivered /\ job[j] \in 1 .. Len(stream)
    BY <1>8, JobTyped DEF Handling, Busy
  <2>2. job[j] = lastDelivered + 1
    BY <1>1, <1>8, <2>1, SameEntry DEF OrderInv, Handling, User, Voucher
  <2> QED
    BY <1>1, <2>1, <2>2
<1> QED
  BY <1>1, <1>2, <1>3, <1>4, <1>6, <1>7, <1>8

\* One entry more is delivered.
LEMMA OneMoreDelivered ==
    ASSUME lastDelivered \in Nat, lastDelivered' = lastDelivered + 1, UNCHANGED stream,
           NEW u, NEW v
    PROVE  Delivered(u, v)' <=> \/ Delivered(u, v)
                               \/ stream[lastDelivered + 1] = [user |-> u, voucher |-> v]
BY DEF Delivered

\* Poll: the entry goes from the stream into the instance's hands.
LEMMA PollLosesNone ==
    ASSUME Typed, OrderInv, NEW i \in Instances, Poll(i), UNCHANGED orders
    PROVE  Lost' = Lost
<1> DEFINE e == stream[lastDelivered + 1]
<1>1. /\ lastDelivered < Len(stream) /\ lastDelivered' = lastDelivered + 1
      /\ lastDelivered \in Nat
      /\ UNCHANGED stream
      /\ pc[i] = "poll" /\ pc'[i] = "lock" /\ job'[i] = lastDelivered + 1
      /\ \A j \in Instances \ {i} : pc'[j] = pc[j] /\ job'[j] = job[j]
  BY DEF Poll, NewEntry, Goto, Typed, TypeOK, redisVars
<1>2. /\ e.user \in Users /\ e.voucher \in Vouchers
      /\ e = [user |-> e.user, voucher |-> e.voucher]
      /\ ~Delivered(e.user, e.voucher)
  BY <1>1, NextEntry
<1>3. ASSUME NEW u \in Users, NEW v \in Vouchers
      PROVE  /\ Delivered(u, v)' <=> Delivered(u, v) \/ (u = e.user /\ v = e.voucher)
             /\ Handling(i, u, v)' <=> u = e.user /\ v = e.voucher
             /\ ~Handling(i, u, v)
             /\ \A j \in Instances \ {i} : Handling(j, u, v)' <=> Handling(j, u, v)
  <2>1. Delivered(u, v)' <=> Delivered(u, v) \/ (u = e.user /\ v = e.voucher)
    <3>1. e = [user |-> u, voucher |-> v] <=> u = e.user /\ v = e.voucher
      BY <1>2
    <3>2. Delivered(u, v)' <=> Delivered(u, v) \/ e = [user |-> u, voucher |-> v]
      BY <1>1, OneMoreDelivered
    <3> QED
      BY <3>1, <3>2
  <2>2. Handling(i, u, v)' <=> u = e.user /\ v = e.voucher
    BY <1>1 DEF Handling, User, Voucher
  <2>3. ~Handling(i, u, v)
    BY <1>1 DEF Handling
  <2>4. \A j \in Instances \ {i} : Handling(j, u, v)' <=> Handling(j, u, v)
    BY <1>1 DEF Handling, User, Voucher
  <2> QED
    BY <2>1, <2>2, <2>3, <2>4
<1> HIDE DEF e
<1>4. ASSUME NEW p \in Users \X Vouchers
      PROVE  p \in Lost' <=> p \in Lost
  <2>1. p[1] \in Users /\ p[2] \in Vouchers
    OBVIOUS
  <2> QED
    BY <1>2, <1>3, <2>1 DEF Lost
<1> QED
  BY <1>4 DEF Lost

\* A lost reply to XREADGROUP loses the entry.
LEMMA PollLostLoses ==
    ASSUME Typed, OrderInv, NEW i \in Instances, PollLost(i), UNCHANGED <<orders, pc, job>>
    PROVE  \E u \in Users, v \in Vouchers :
              /\ <<u, v>> \in Admitted /\ <<u, v>> \notin Lost /\ orders[u][v] = 0
              /\ Lost' = Lost \cup {<<u, v>>}
<1> DEFINE e == stream[lastDelivered + 1]
<1>1. /\ lastDelivered < Len(stream) /\ lastDelivered' = lastDelivered + 1
      /\ lastDelivered \in Nat
      /\ UNCHANGED stream
  BY DEF PollLost, NewEntry, Typed, TypeOK, redisVars
<1>2. /\ e.user \in Users /\ e.voucher \in Vouchers
      /\ e = [user |-> e.user, voucher |-> e.voucher]
      /\ e.user \in buyers[e.voucher]
      /\ ~Delivered(e.user, e.voucher)
      /\ orders[e.user][e.voucher] = 0
      /\ \A j \in Instances : ~Handling(j, e.user, e.voucher)
  BY <1>1, NextEntry
<1>3. ASSUME NEW u \in Users, NEW v \in Vouchers
      PROVE  /\ Delivered(u, v)' <=> Delivered(u, v) \/ (u = e.user /\ v = e.voucher)
             /\ \A j \in Instances : Handling(j, u, v)' <=> Handling(j, u, v)
  <2>1. Delivered(u, v)' <=> Delivered(u, v) \/ (u = e.user /\ v = e.voucher)
    <3>1. e = [user |-> u, voucher |-> v] <=> u = e.user /\ v = e.voucher
      BY <1>2
    <3>2. Delivered(u, v)' <=> Delivered(u, v) \/ e = [user |-> u, voucher |-> v]
      BY <1>1, OneMoreDelivered
    <3> QED
      BY <3>1, <3>2
  <2>2. \A j \in Instances : Handling(j, u, v)' <=> Handling(j, u, v)
    BY <1>1 DEF Handling, User, Voucher
  <2> QED
    BY <2>1, <2>2
<1> HIDE DEF e
<1>4. ASSUME NEW p \in Users \X Vouchers
      PROVE  p \in Lost' <=> p \in Lost \/ p = <<e.user, e.voucher>>
  <2>1. p[1] \in Users /\ p[2] \in Vouchers
        /\ (p = <<e.user, e.voucher>> <=> p[1] = e.user /\ p[2] = e.voucher)
    BY <1>2
  <2> QED
    BY <1>2, <1>3, <2>1 DEF Lost
<1>5. <<e.user, e.voucher>> \in Users \X Vouchers
  BY <1>2
<1>6. Lost' = Lost \cup {<<e.user, e.voucher>>}
  BY <1>4, <1>5 DEF Lost
<1>7. <<e.user, e.voucher>> \in Admitted /\ <<e.user, e.voucher>> \notin Lost
  BY <1>2, <1>5 DEF Admitted, Lost
<1> QED
  BY <1>2, <1>6, <1>7

\* An instance lets the order in hand go, with or without a row.
LEMMA LeavingHand ==
    ASSUME Typed, OrderInv, NEW i \in Instances,
           UNCHANGED <<stream, lastDelivered>>,
           \A j \in Instances \ {i} : pc'[j] = pc[j] /\ job'[j] = job[j],
           pc[i] \in Pending, pc'[i] \notin Pending
    PROVE  /\ User(i) \in Users /\ Voucher(i) \in Vouchers
           /\ <<User(i), Voucher(i)>> \in Admitted
           /\ <<User(i), Voucher(i)>> \notin Lost
           /\ orders[User(i)][Voucher(i)] = 0
           /\ UNCHANGED orders => Lost' = Lost \cup {<<User(i), Voucher(i)>>}
           /\ RowWritten(i) => /\ Lost' = Lost
                               /\ orders' = [orders EXCEPT ![User(i)][Voucher(i)] = 1]
<1> DEFINE u == User(i)
           v == Voucher(i)
<1>1. /\ job[i] \in 1 .. Len(stream) /\ job[i] \in 1 .. lastDelivered
      /\ stream[job[i]] \in Entry
      /\ u \in Users /\ v \in Vouchers
  BY JobTyped DEF Pending, Busy
<1>2. Delivered(u, v) /\ stream[job[i]] = [user |-> u, voucher |-> v]
  BY <1>1 DEF Delivered, Entry, User, Voucher
<1>3. u \in buyers[v] /\ orders[u][v] = 0
  BY <1>1 DEF OrderInv, EntriesAreBuyers, NotYetOrdered, User, Voucher
<1>4. Handling(i, u, v) /\ \A w \in Users, x \in Vouchers : ~Handling(i, w, x)'
  BY DEF Handling, Pending
<1>5. \A j \in Instances \ {i} : ~Handling(j, u, v)
  BY OneHandler
<1>6. \A w \in Users, x \in Vouchers :
        /\ Handling(i, w, x) => w = u /\ x = v
        /\ Delivered(w, x)' <=> Delivered(w, x)
        /\ \A j \in Instances \ {i} : Handling(j, w, x)' <=> Handling(j, w, x)
  BY DEF Handling, Delivered, User, Voucher
<1>7. <<u, v>> \in Users \X Vouchers /\ <<u, v>> \in Admitted /\ <<u, v>> \notin Lost
  BY <1>1, <1>3, <1>4 DEF Admitted, Lost
<1> HIDE DEF u, v
<1>8. ASSUME UNCHANGED orders
      PROVE  Lost' = Lost \cup {<<u, v>>}
  <2>1. ASSUME NEW p \in Users \X Vouchers
        PROVE  p \in Lost' <=> p \in Lost \/ p = <<u, v>>
    <3>1. p[1] \in Users /\ p[2] \in Vouchers /\ (p = <<u, v>> <=> p[1] = u /\ p[2] = v)
      BY <1>1
    <3> QED
      BY <1>2, <1>3, <1>4, <1>5, <1>6, <1>8, <3>1 DEF Lost
  <2> QED
    BY <1>7, <2>1 DEF Lost
<1>9. ASSUME RowWritten(i)
      PROVE  Lost' = Lost /\ orders' = [orders EXCEPT ![u][v] = 1]
  <2>1. orders' = [orders EXCEPT ![u][v] = 1]
    BY <1>3, <1>9 DEF RowWritten, u, v
  <2>2. orders'[u][v] = 1
    BY <1>1, <2>1 DEF Typed, TypeOK
  <2>3. \A w \in Users, x \in Vouchers : w # u \/ x # v => orders'[w][x] = orders[w][x]
    BY <1>1, <2>1 DEF Typed, TypeOK
  <2>4. ASSUME NEW p \in Users \X Vouchers
        PROVE  p \in Lost' <=> p \in Lost
    <3>1. p[1] \in Users /\ p[2] \in Vouchers
      OBVIOUS
    <3> QED
      BY <1>2, <1>3, <1>4, <1>5, <1>6, <2>2, <2>3, <3>1 DEF Lost
  <2> QED
    BY <2>1, <2>4 DEF Lost
<1> QED
  BY <1>1, <1>3, <1>7, <1>8, <1>9 DEF u, v

\* Nothing changes hands.
LEMMA KeepingHand ==
    ASSUME Typed, OrderInv, NEW i \in Instances,
           UNCHANGED <<stream, lastDelivered, orders>>,
           \A j \in Instances \ {i} : pc'[j] = pc[j] /\ job'[j] = job[j],
           pc[i] \in Pending <=> pc'[i] \in Pending,
           pc'[i] \in Pending => job'[i] = job[i]
    PROVE  Lost' = Lost
<1>1. ASSUME NEW u \in Users, NEW v \in Vouchers
      PROVE  /\ Delivered(u, v)' <=> Delivered(u, v)
             /\ \A j \in Instances : Handling(j, u, v)' <=> Handling(j, u, v)
  <2>1. Handling(i, u, v)' <=> Handling(i, u, v)
    BY DEF Handling, Pending, User, Voucher
  <2>2. \A j \in Instances \ {i} : Handling(j, u, v)' <=> Handling(j, u, v)
    BY DEF Handling, User, Voucher
  <2> QED
    BY <2>1, <2>2 DEF Delivered
<1>2. ASSUME NEW p \in Users \X Vouchers
      PROVE  p \in Lost' <=> p \in Lost
  <2>1. p[1] \in Users /\ p[2] \in Vouchers
    OBVIOUS
  <2> QED
    BY <1>1, <2>1 DEF Lost
<1> QED
  BY <1>2 DEF Lost

\* Every step of a consumer is a step of the sale or none.
LEMMA ConsumerImplements ==
    ASSUME Typed, OrderInv, NEW i \in Instances, ConsumerStep(i)
    PROVE  /\ Admitted' = Admitted
           /\ \/ Lost' = Lost /\ UNCHANGED orders
              \/ \E u \in Users, v \in Vouchers :
                    /\ <<u, v>> \in Admitted /\ <<u, v>> \notin Lost /\ orders[u][v] = 0
                    /\ \/ Lost' = Lost \cup {<<u, v>>} /\ UNCHANGED orders
                       \/ /\ Lost' = Lost
                          /\ orders' = [orders EXCEPT ![u][v] = 1]
<1>1. /\ UNCHANGED <<stream, buyers>>
      /\ \A j \in Instances \ {i} : pc'[j] = pc[j] /\ job'[j] = job[j]
  BY ConsumerFrame
<1>2. Admitted' = Admitted
  BY <1>1 DEF Admitted
<1>3. CASE Poll(i) /\ UNCHANGED orders
  BY <1>2, <1>3, PollLosesNone
<1>4. CASE PollLost(i) /\ UNCHANGED <<orders, pc, job>>
  BY <1>2, <1>4, PollLostLoses
<1>5. CASE /\ UNCHANGED lastDelivered
           /\ pc[i] \in Pending
           /\ pc'[i] \notin Pending
           /\ UNCHANGED orders \/ RowWritten(i)
  BY <1>1, <1>2, <1>5, LeavingHand
<1>6. CASE /\ UNCHANGED <<lastDelivered, orders>>
           /\ pc[i] \in Pending <=> pc'[i] \in Pending
           /\ pc'[i] \in Pending => job'[i] = job[i]
  BY <1>1, <1>2, <1>6, KeepingHand
<1> QED
  BY <1>3, <1>4, <1>5, <1>6, ConsumerMoves DEF OrderInv

\* The script admits a user while there is stock left, and once.
LEMMA PurchaseAdmits ==
    ASSUME Typed, StockInv, NEW u \in Users, NEW v \in Vouchers, Purchase(u, v)
    PROVE  /\ <<u, v>> \notin Admitted
           /\ Cardinality(buyers[v]) < Stock[v]
           /\ Admitted' = Admitted \cup {<<u, v>>}
           /\ Lost' = Lost /\ UNCHANGED orders
<1>1. /\ v \in onSale /\ redisStock[v] > 0 /\ u \notin buyers[v]
      /\ buyers' = [buyers EXCEPT ![v] = @ \cup {u}]
      /\ stream' = Append(stream, [user |-> u, voucher |-> v])
      /\ UNCHANGED <<lastDelivered, orders, pc, job>>
  BY DEF Purchase, Eligible, dbVars, consumerVars
<1>2. <<u, v>> \notin Admitted
  BY <1>1 DEF Admitted
<1>3. Cardinality(buyers[v]) < Stock[v]
  <2>1. Cardinality(buyers[v]) \in Nat
    BY FS_Subset, FS_CardinalityType, FiniteAssumption DEF Typed, TypeOK
  <2>2. redisStock[v] + Cardinality(buyers[v]) = Stock[v]
    BY <1>1 DEF StockInv, RedisConserved
  <2> QED
    BY <1>1, <2>1, <2>2, StockAssumption DEF Typed, TypeOK
<1>4. Admitted' = Admitted \cup {<<u, v>>}
  <2>1. \A x \in Vouchers : buyers'[x] = IF x = v THEN buyers[v] \cup {u} ELSE buyers[x]
    BY <1>1 DEF Typed, TypeOK
  <2>2. ASSUME NEW p \in Users \X Vouchers
        PROVE  p \in Admitted' <=> p \in Admitted \/ p = <<u, v>>
    <3>1. p[1] \in Users /\ p[2] \in Vouchers /\ (p = <<u, v>> <=> p[1] = u /\ p[2] = v)
      OBVIOUS
    <3> QED
      BY <2>1, <3>1 DEF Admitted
  <2>3. <<u, v>> \in Users \X Vouchers
    OBVIOUS
  <2> QED
    BY <2>2, <2>3 DEF Admitted
<1>5. Lost' = Lost
  <2>1. /\ \A k \in 1 .. lastDelivered : stream'[k] = stream[k]
        /\ \A j \in Instances : pc[j] \in Busy => stream'[job[j]] = stream[job[j]]
    <3>1. \A k \in 1 .. Len(stream) : stream'[k] = stream[k]
      BY <1>1, StreamGrows DEF Typed, TypeOK
    <3>2. lastDelivered \in 0 .. Len(stream) /\ Len(stream) \in Nat
      BY DEF Typed, TypeOK
    <3> QED
      BY <3>1, <3>2, JobTyped
  <2>2. ASSUME NEW w \in Users, NEW x \in Vouchers
        PROVE  /\ Delivered(w, x)' <=> Delivered(w, x)
               /\ \A j \in Instances : Handling(j, w, x)' <=> Handling(j, w, x)
    BY <1>1, <2>1 DEF Delivered, Handling, User, Voucher, Busy
  <2>3. ASSUME NEW p \in Users \X Vouchers
        PROVE  p \in Lost' <=> p \in Lost
    <3>1. p[1] \in Users /\ p[2] \in Vouchers
      OBVIOUS
    <3> QED
      BY <1>1, <2>2, <3>1 DEF Lost
  <2> QED
    BY <2>3 DEF Lost
<1> QED
  BY <1>1, <1>2, <1>3, <1>4, <1>5

(***************************************************************************)
(* The code implements the abstract sale: the script admits each user once   *)
(* and no more users than there is stock, each admitted pair gets one row or  *)
(* is lost, and what is lost never gets one, for all users, vouchers and      *)
(* instances and whatever expires, fails or crashes.                        *)
(***************************************************************************)
THEOREM ImplementsFlashSale == Spec => RefinesFlashSale
<1>1. Init => Sale!Init
  <2> SUFFICES ASSUME Init PROVE Sale!Init
    OBVIOUS
  <2>1. Admitted = {}
    BY DEF Init, Admitted
  <2>2. Lost = {}
    BY DEF Init, Lost, Delivered
  <2> QED
    BY <2>1, <2>2 DEF Init, Sale!Init
<1>2. IInv /\ [Next]_vars => [Sale!Next]_(Sale!vars)
  <2> SUFFICES ASSUME IInv, [Next]_vars PROVE [Sale!Next]_(Sale!vars)
    OBVIOUS
  <2>1. ASSUME NEW i \in Instances, ConsumerStep(i)
        PROVE  [Sale!Next]_(Sale!vars)
    BY <2>1, ConsumerImplements
       DEF IInv, Sale!Next, Sale!Fulfil, Sale!Lose, Sale!Waiting, Sale!vars
  <2>2. ASSUME NEW u \in Users, NEW v \in Vouchers, Purchase(u, v)
        PROVE  [Sale!Next]_(Sale!vars)
    <3>1. Sale!AdmittedTo(v) = buyers[v]
      BY DEF Sale!AdmittedTo, Admitted, IInv, Typed, TypeOK
    <3>2. /\ <<u, v>> \notin Admitted
          /\ Cardinality(buyers[v]) < Stock[v]
          /\ Admitted' = Admitted \cup {<<u, v>>}
          /\ Lost' = Lost /\ UNCHANGED orders
      BY <2>2, PurchaseAdmits DEF IInv
    <3>3. Sale!Cardinality(buyers[v]) = Cardinality(buyers[v])
      BY DEF Sale!Cardinality, Cardinality
    <3>4. Sale!Admit(u, v)
      BY <3>1, <3>2, <3>3 DEF Sale!Admit
    <3> QED
      BY <3>4 DEF Sale!Next
  <2>3. CASE OtherStep
    <3>1. UNCHANGED <<stream, buyers, lastDelivered, orders, pc, job>>
      BY <2>3, OtherFrame DEF IInv
    <3>2. Admitted' = Admitted /\ Lost' = Lost
      BY <3>1, LostFrame DEF Admitted
    <3> QED
      BY <3>1, <3>2 DEF Sale!vars
  <2> QED
    BY <2>1, <2>2, <2>3, StepKinds
<1> QED
  BY <1>1, <1>2, Inductive, PTL DEF Spec, RefinesFlashSale, Sale!Spec

-----------------------------------------------------------------------------
(***************************************************************************)
(* The locks.  An instance at work for a user and a voucher is the only one   *)
(* that ever holds that entry, so the value of the key names its owner.       *)
(***************************************************************************)
LEMMA SameHands ==
    ASSUME Typed, OrderInv, NEW i \in Instances, NEW j \in Instances,
           pc[i] \in Busy, pc[j] \in Busy,
           User(i) = User(j), Voucher(i) = Voucher(j)
    PROVE  i = j
<1>1. job[i] \in 1 .. Len(stream) /\ job[j] \in 1 .. Len(stream)
  BY JobTyped
<1>2. job[i] = job[j]
  BY <1>1, SameEntry DEF OrderInv, User, Voucher
<1> QED
  BY <1>2 DEF OrderInv, JobsDistinct

\* What a step of a consumer may do to a key: delete it, leave it, or set its own.
KeyStep(i, u) ==
    \/ lock'[u] = NoLock
    \/ lock'[u] = lock[u] /\ owner'[u] = owner[u]
    \/ pc[i] = "lock" /\ u = User(i) /\ lock'[u] = Voucher(i) /\ owner'[u] = i

LEMMA ConsumerKeys ==
    ASSUME Typed, NEW i \in Instances, ConsumerStep(i)
    PROVE  \A u \in Users : KeyStep(i, u)
<1> SUFFICES ASSUME NEW u \in Users PROVE KeyStep(i, u)
  OBVIOUS
<1>1. lock \in [Users -> Vouchers \cup {NoLock}] /\ owner \in [Users -> Instances \cup {Nobody}]
  BY DEF Typed, TypeOK
<1>2. SetLock(i) /\ pc[i] = "lock" => KeyStep(i, u)
  BY <1>1 DEF SetLock, KeyStep
<1>3. DelLock(i) => KeyStep(i, u)
  BY <1>1 DEF DelLock, KeyStep, lockVars
<1>4. UNCHANGED lockVars => KeyStep(i, u)
  BY DEF KeyStep, lockVars
<1>5. \/ SetLock(i) /\ pc[i] = "lock"
      \/ DelLock(i)
      \/ UNCHANGED lockVars
  BY DEF ConsumerStep, Worker, Faulty, Restart, Poll, TakeLock, LockBusy, CheckOrder, TakeStock,
         NoStock, CommitOrder, Rollback, ReleaseLock, PollLost, TakeLockLost, DbFault,
         ReleaseLockLost, Crash
<1> QED
  BY <1>2, <1>3, <1>4, <1>5

LEMMA ConsumerLockByOwner ==
    ASSUME Typed, Typed', OrderInv, LockByOwner, NEW i \in Instances, ConsumerStep(i)
    PROVE  LockByOwner'
<1> SUFFICES ASSUME NEW u \in Users, lock'[u] # NoLock
             PROVE  /\ owner'[u] \in Instances
                    /\ Delivered(u, lock[u])'
                    /\ \A j \in Instances :
                          pc'[j] \in Busy /\ User(j)' = u /\ Voucher(j)' = lock'[u]
                             => j = owner'[u]
  BY DEF LockByOwner
<1>1. /\ UNCHANGED stream
      /\ \A j \in Instances \ {i} :
            pc'[j] = pc[j] /\ User(j)' = User(j) /\ Voucher(j)' = Voucher(j)
  BY ConsumerFrame DEF User, Voucher
<1>2. lastDelivered \in Nat /\ lastDelivered' \in {lastDelivered, lastDelivered + 1}
  BY ConsumerFrame DEF Poll, NewEntry, Typed, TypeOK
<1>3. \A v : Delivered(u, v) => Delivered(u, v)'
  BY <1>1, <1>2 DEF Delivered
<1>4. \/ Poll(i)
      \/ pc'[i] \notin Busy
      \/ pc[i] \in Busy /\ User(i)' = User(i) /\ Voucher(i)' = Voucher(i)
  BY <1>1, ConsumerFrame DEF User, Voucher
<1>5. CASE lock'[u] = lock[u] /\ owner'[u] = owner[u]
  <2>1. /\ owner[u] \in Instances
        /\ Delivered(u, lock[u])
        /\ \A j \in Instances : pc[j] \in Busy /\ User(j) = u /\ Voucher(j) = lock[u]
                                  => j = owner[u]
    BY <1>5 DEF LockByOwner
  <2>2. ASSUME Poll(i)
        PROVE  ~(User(i)' = u /\ Voucher(i)' = lock[u])
    <3>1. /\ lastDelivered < Len(stream)
          /\ job'[i] = lastDelivered + 1
      BY <2>2 DEF Poll, NewEntry, Typed, TypeOK
    <3>2. ~Delivered(User(i)', Voucher(i)')
      BY <1>1, <3>1, NextEntry DEF User, Voucher
    <3> QED
      BY <2>1, <3>2
  <2> QED
    BY <1>1, <1>3, <1>4, <1>5, <2>1, <2>2
<1>6. CASE pc[i] = "lock" /\ u = User(i) /\ lock'[u] = Voucher(i) /\ owner'[u] = i
  <2>1. pc[i] \in Busy /\ ~Poll(i)
    BY <1>6 DEF Busy, Poll, NewEntry
  <2>2. Delivered(u, Voucher(i))
    <3>1. job[i] \in 1 .. lastDelivered /\ stream[job[i]] \in Entry
      BY <2>1, JobTyped
    <3>2. stream[job[i]] = [user |-> User(i), voucher |-> Voucher(i)]
      BY <3>1 DEF User, Voucher, Entry
    <3> QED
      BY <1>6, <3>1, <3>2 DEF Delivered
  <2>3. \A j \in Instances : pc[j] \in Busy /\ User(j) = u /\ Voucher(j) = Voucher(i) => j = i
    BY <1>6, <2>1, SameHands
  <2> QED
    BY <1>1, <1>3, <1>4, <1>6, <2>1, <2>2, <2>3
<1>7. KeyStep(i, u)
  BY ConsumerKeys
<1> QED
  BY <1>5, <1>6, <1>7 DEF KeyStep

\* What a working instance does before the first fault.
LEMMA WorkerHands ==
    ASSUME Typed, NEW i \in Instances, Worker(i) \/ Restart(i), pc[i] \in Busy
    PROVE  \/ LockBusy(i)
           \/ ReleaseLock(i)
           \/ /\ pc'[i] \in Busy \ {"lock"}
              /\ User(i)' = User(i) /\ Voucher(i)' = Voucher(i)
<1> USE DEF Busy, Typed, TypeOK, Goto, User, Voucher, redisVars
<1>1. CASE TakeLock(i)
  BY <1>1 DEF TakeLock
<1>2. CASE CheckOrder(i)
  BY <1>2 DEF CheckOrder
<1>3. CASE TakeStock(i)
  BY <1>3 DEF TakeStock
<1>4. CASE NoStock(i)
  BY <1>4 DEF NoStock
<1>5. CASE CommitOrder(i)
  BY <1>5 DEF CommitOrder
<1>6. CASE Rollback(i)
  BY <1>6 DEF Rollback
<1> QED
  BY <1>1, <1>2, <1>3, <1>4, <1>5, <1>6 DEF Worker, Poll, NewEntry, Restart

LEMMA ConsumerOwnerAtWork ==
    ASSUME Typed, OrderInv, LockInv, NEW i \in Instances, ConsumerStep(i)
    PROVE  OwnerAtWork'
<1> SUFFICES ASSUME faults' = 0, NEW u \in Users, lock'[u] # NoLock
             PROVE  /\ pc'[owner'[u]] \in Busy \ {"lock"}
                    /\ User(owner[u])' = u
                    /\ Voucher(owner[u])' = lock'[u]
  BY DEF OwnerAtWork
<1>1. Worker(i) \/ Restart(i)
  BY DEF ConsumerStep, Faulty, PollLost, TakeLockLost, DbFault, ReleaseLockLost, Crash, Fault,
         Typed, TypeOK
<1>2. faults = 0
  BY <1>1 DEF Worker, Restart, Poll, TakeLock, LockBusy, CheckOrder, TakeStock, NoStock,
              CommitOrder, Rollback, ReleaseLock
<1>3. \A j \in Instances \ {i} :
         pc'[j] = pc[j] /\ User(j)' = User(j) /\ Voucher(j)' = Voucher(j)
  BY ConsumerFrame DEF User, Voucher
<1>4. CASE lock'[u] = lock[u] /\ owner'[u] = owner[u]
  <2>1. /\ owner[u] \in Instances
        /\ pc[owner[u]] \in Busy \ {"lock"}
        /\ User(owner[u]) = u
        /\ Voucher(owner[u]) = lock[u]
    BY <1>2, <1>4 DEF LockInv, LockByOwner, OwnerAtWork
  <2>2. CASE owner[u] # i
    BY <1>3, <1>4, <2>1, <2>2
  <2>3. CASE owner[u] = i
    <3>1. ~LockBusy(i)
      BY <2>1, <2>3 DEF LockBusy
    <3>2. ~ReleaseLock(i)
      BY <1>4, <2>1, <2>3 DEF ReleaseLock, DelLock, Typed, TypeOK
    <3>3. /\ pc'[i] \in Busy \ {"lock"}
          /\ User(i)' = User(i) /\ Voucher(i)' = Voucher(i)
      BY <1>1, <2>1, <2>3, <3>1, <3>2, WorkerHands
    <3> QED
      BY <1>4, <2>1, <2>3, <3>3
  <2> QED
    BY <2>2, <2>3
<1>5. CASE ~(lock'[u] = lock[u] /\ owner'[u] = owner[u])
  <2>1. pc[i] = "lock" /\ u = User(i) /\ lock'[u] = Voucher(i) /\ owner'[u] = i
    BY <1>5, ConsumerKeys DEF KeyStep
  <2>2. ~LockBusy(i) /\ ~ReleaseLock(i)
    BY <1>5, <2>1 DEF LockBusy, ReleaseLock, lockVars
  <2>3. /\ pc'[i] \in Busy \ {"lock"}
        /\ User(i)' = User(i) /\ Voucher(i)' = Voucher(i)
    BY <1>1, <2>1, <2>2, WorkerHands DEF Busy
  <2> QED
    BY <2>1, <2>3
<1> QED
  BY <1>4, <1>5

LEMMA PurchaseLocks ==
    ASSUME Typed, LockInv, NEW u \in Users, NEW v \in Vouchers, Purchase(u, v)
    PROVE  LockInv'
<1>1. /\ stream' = Append(stream, [user |-> u, voucher |-> v])
      /\ UNCHANGED <<lastDelivered, lock, owner, pc, job, faults>>
  BY DEF Purchase, lockVars, consumerVars
<1>2. /\ \A k \in 1 .. lastDelivered : stream'[k] = stream[k]
      /\ \A j \in Instances : pc[j] \in Busy => stream'[job[j]] = stream[job[j]]
  <2>1. \A k \in 1 .. Len(stream) : stream'[k] = stream[k]
    BY <1>1, StreamGrows DEF Typed, TypeOK
  <2>2. lastDelivered \in 0 .. Len(stream) /\ Len(stream) \in Nat
    BY DEF Typed, TypeOK
  <2> QED
    BY <2>1, <2>2, JobTyped
<1>3. \A w, x : Delivered(w, x)' <=> Delivered(w, x)
  BY <1>1, <1>2 DEF Delivered
<1>4. \A j \in Instances : pc[j] \in Busy => User(j)' = User(j) /\ Voucher(j)' = Voucher(j)
  BY <1>1, <1>2 DEF User, Voucher
<1>5. LockByOwner'
  BY <1>1, <1>3, <1>4 DEF LockInv, LockByOwner
<1>6. OwnerAtWork'
  BY <1>1, <1>4 DEF LockInv, LockByOwner, OwnerAtWork
<1> QED
  BY <1>5, <1>6 DEF LockInv

LEMMA OtherLocks ==
    ASSUME Typed, LockInv, OtherStep
    PROVE  LockInv'
<1>1. UNCHANGED <<stream, lastDelivered, pc, job>>
  BY OtherFrame
<1>2. /\ UNCHANGED faults
      /\ \A u \in Users : \/ lock'[u] = NoLock
                          \/ lock'[u] = lock[u] /\ owner'[u] = owner[u]
  BY DEF OtherStep, Creator, InsertVoucher, PublishStock, CommitVoucher, FailVoucher, Refuse,
         CreateGroup, ExpireLock, vars, lockVars, Typed, TypeOK
<1>3. \A w, x : Delivered(w, x)' <=> Delivered(w, x)
  BY <1>1 DEF Delivered
<1>4. \A j \in Instances : User(j)' = User(j) /\ Voucher(j)' = Voucher(j)
  BY <1>1 DEF User, Voucher
<1>5. LockByOwner'
  BY <1>1, <1>2, <1>3, <1>4 DEF LockInv, LockByOwner
<1>6. OwnerAtWork'
  BY <1>1, <1>2, <1>4 DEF LockInv, LockByOwner, OwnerAtWork
<1> QED
  BY <1>5, <1>6 DEF LockInv

LEMMA LocksInductive == Spec => [](IInv /\ LockInv)
<1>1. Init => LockInv
  BY DEF Init, LockInv, LockByOwner, OwnerAtWork
<1>2. IInv /\ IInv' /\ LockInv /\ [Next]_vars => LockInv'
  <2> SUFFICES ASSUME IInv, IInv', LockInv, [Next]_vars PROVE LockInv'
    OBVIOUS
  <2>1. ASSUME NEW i \in Instances, ConsumerStep(i) PROVE LockInv'
    BY <2>1, ConsumerLockByOwner, ConsumerOwnerAtWork DEF LockInv, IInv
  <2> QED
    BY <2>1, StepKinds, PurchaseLocks, OtherLocks DEF IInv
<1> QED
  BY <1>1, <1>2, Inductive, PTL DEF Spec

(***************************************************************************)
(* LockRelease compares the key with the voucher id, which two instances may   *)
(* share; still none ever deletes the lock of another, even after its own      *)
(* expired: the other would have to hold the same entry of the stream.        *)
(***************************************************************************)
THEOREM OwnLockReleased == Spec => ReleasesOwnLock
<1> DEFINE Own == \A i \in Instances, u \in Users :
              (pc[i] = "release" /\ pc'[i] # "release" /\ lock'[u] # lock[u]) => owner[u] = i
<1>1. IInv /\ LockInv /\ [Next]_vars => [Own]_vars
  <2> SUFFICES ASSUME IInv, LockInv, [Next]_vars,
                      NEW i \in Instances, NEW u \in Users,
                      pc[i] = "release", pc'[i] # "release", lock'[u] # lock[u]
               PROVE  owner[u] = i
    OBVIOUS
  <2>1. ConsumerStep(i)
    <3>1. ~OtherStep /\ ~ \E w \in Users, v \in Vouchers : Purchase(w, v)
      BY OtherFrame DEF IInv, Purchase, consumerVars
    <3>2. PICK j \in Instances : ConsumerStep(j)
      BY <3>1, StepKinds
    <3>3. j = i
      BY <3>2, ConsumerFrame DEF IInv
    <3> QED
      BY <3>2, <3>3
  <2>2. DelLock(i)
    BY <2>1 DEF ConsumerStep, Worker, Faulty, Restart, Poll, NewEntry, TakeLock, LockBusy,
                CheckOrder, TakeStock, NoStock, CommitOrder, Rollback, ReleaseLock, PollLost,
                TakeLockLost, DbFault, ReleaseLockLost, Crash, lockVars
  <2>3. User(i) = u /\ lock[u] = Voucher(i)
    BY <2>2 DEF DelLock, lockVars, IInv, Typed, TypeOK
  <2>4. lock[u] # NoLock
    BY <2>2, <2>3 DEF DelLock, IInv, Typed, TypeOK
  <2> QED
    BY <2>3, <2>4 DEF LockInv, LockByOwner, Busy
<1> QED
  BY <1>1, LocksInductive, PTL DEF Spec, ReleasesOwnLock

(***************************************************************************)
(* An admitted order is lost only after a fault, for a voucher whose creation  *)
(* failed, or because an instance that is at work for the same user holds the  *)
(* lock: without the first two, one instance alone loses no order.            *)
(***************************************************************************)
THEOREM NothingLostWithoutReason == Spec => LostForAReason
<1> DEFINE Reason(p) ==
              \/ faults' > 0
              \/ voucher[p[2]] = "failed"
              \/ \E i, j \in Instances :
                    /\ i # j
                    /\ Handling(i, p[1], p[2])
                    /\ owner[p[1]] = j
                    /\ pc[j] \notin {"poll", "down"}
<1>1. IInv /\ IInv' /\ LockInv /\ [Next]_vars => [\A p \in Lost' \ Lost : Reason(p)]_vars
  <2> SUFFICES ASSUME IInv, IInv', LockInv, [Next]_vars, NEW p \in Lost' \ Lost, faults' = 0
               PROVE  Reason(p)
    BY DEF IInv, Typed, TypeOK
  <2>1. ~OtherStep /\ ~ \E w \in Users, v \in Vouchers : Purchase(w, v)
    BY OtherFrame, LostFrame, PurchaseAdmits DEF IInv
  <2>2. PICK i \in Instances : ConsumerStep(i)
    BY <2>1, StepKinds
  <2>3. ~Faulty(i) /\ faults = 0
    BY <2>2 DEF ConsumerStep, Worker, Restart, Poll, TakeLock, LockBusy, CheckOrder, TakeStock,
                NoStock, CommitOrder, Rollback, ReleaseLock, Faulty, PollLost, TakeLockLost,
                DbFault, ReleaseLockLost, Crash, Fault, IInv, Typed, TypeOK
  <2>4. /\ UNCHANGED stream
        /\ \A j \in Instances \ {i} : pc'[j] = pc[j] /\ job'[j] = job[j]
    BY <2>2, ConsumerFrame DEF IInv
  <2>5. /\ UNCHANGED lastDelivered
        /\ pc[i] \in Pending
        /\ pc'[i] \notin Pending
        /\ UNCHANGED orders
    <3>1. ~Poll(i) \/ ~UNCHANGED orders
      BY PollLosesNone DEF IInv
    <3>2. ~PollLost(i)
      BY <2>3 DEF Faulty
    <3>3. ASSUME UNCHANGED lastDelivered, pc[i] \in Pending, pc'[i] \notin Pending, RowWritten(i)
          PROVE  FALSE
      BY <2>4, <3>3, LeavingHand DEF IInv
    <3>4. ASSUME UNCHANGED <<lastDelivered, orders>>, pc[i] \in Pending <=> pc'[i] \in Pending,
                 pc'[i] \in Pending => job'[i] = job[i]
          PROVE  FALSE
      BY <2>4, <3>4, KeepingHand DEF IInv
    <3> QED
      BY <2>2, <3>1, <3>2, <3>3, <3>4, ConsumerMoves DEF IInv, OrderInv
  <2>6. p = <<User(i), Voucher(i)>> /\ User(i) \in Users /\ Voucher(i) \in Vouchers
    <3>1. Typed /\ OrderInv
      BY DEF IInv
    <3>2. /\ User(i) \in Users /\ Voucher(i) \in Vouchers
          /\ Lost' = Lost \cup {<<User(i), Voucher(i)>>}
      BY <2>4, <2>5, <3>1, LeavingHand
    <3> QED
      BY <3>2
  <2>7. Handling(i, p[1], p[2])
    BY <2>5, <2>6 DEF Handling, Pending
  <2>8. LockBusy(i) \/ NoStock(i)
    <3>1. pc \in [Instances -> {"poll", "lock", "count", "update", "commit",
                               "rollback", "release", "down"}]
          /\ orders \in [Users -> [Vouchers -> Nat]]
      BY DEF IInv, Typed, TypeOK
    <3>2. ~CheckOrder(i)
      BY <2>5, <3>1 DEF CheckOrder, Goto, Pending, IInv, OrderInv, NotYetOrdered
    <3>3. ~CommitOrder(i)
      <4>1. orders[User(i)][Voucher(i)] + 1 # orders[User(i)][Voucher(i)]
        BY <2>6, <3>1
      <4> QED
        BY <2>5, <2>6, <3>1, <4>1 DEF CommitOrder, WriteOrder
    <3>4. ~Poll(i) /\ ~TakeLock(i) /\ ~TakeStock(i) /\ ~Rollback(i) /\ ~ReleaseLock(i) /\ ~Restart(i)
      BY <2>5, <3>1 DEF Poll, NewEntry, TakeLock, TakeStock, Rollback, ReleaseLock, Restart, Goto,
                        Pending
    <3> QED
      BY <2>2, <2>3, <3>2, <3>3, <3>4 DEF ConsumerStep, Worker
  <2>9. CASE NoStock(i)
    <3>1. job[i] \in leaked' /\ UNCHANGED <<voucher, stream>>
      BY <2>9 DEF NoStock, redisVars
    <3>2. voucher'[stream'[job[i]].voucher] = "failed"
      BY <3>1 DEF IInv, StockInv, LeaksOnlyOnFailed
    <3> QED
      BY <2>6, <3>1, <3>2 DEF Voucher
  <2>10. CASE LockBusy(i)
    <3>1. pc[i] = "lock" /\ lock[p[1]] # NoLock
      BY <2>6, <2>10 DEF LockBusy
    <3>2. owner[p[1]] \in Instances /\ pc[owner[p[1]]] \in Busy \ {"lock"}
      BY <2>3, <2>6, <3>1 DEF LockInv, LockByOwner, OwnerAtWork
    <3> QED
      BY <2>7, <3>1, <3>2 DEF Busy
  <2> QED
    BY <2>8, <2>9, <2>10
<1> QED
  BY <1>1, LocksInductive, PTL DEF Spec, LostForAReason

=============================================================================
