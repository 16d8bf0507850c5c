---------------------------- MODULE SeckillInv ----------------------------
(***************************************************************************)
(* The inductive invariants behind the safety of the sale and behind its     *)
(* refinement of FlashSale (IInv), and behind what holds of the locks        *)
(* (LockInv); SeckillProofs proves them.                                    *)
(***************************************************************************)
EXTENDS Seckill

Busy    == {"lock", "count", "update", "commit", "rollback", "release"}
Pending == {"lock", "count", "update", "commit"}

\* A consumer at work has in hand an entry that the group has delivered ...
JobsInHand == \A i \in Instances : pc[i] \in Busy => job[i] \in 1 .. lastDelivered

\* ... and no two have the same one.
JobsDistinct ==
    \A i, j \in Instances :
        (pc[i] \in Busy /\ pc[j] \in Busy /\ job[i] = job[j]) => i = j

\* Nothing is delivered before the group exists, so creating it repeats nothing.
GroupFirst == lastDelivered > 0 => "g1" \in groups

\* A transaction holds a row only between its UPDATE and its end.
TxInPlace == \A i \in Instances : tx[i] = "updated" => pc[i] \in {"commit", "rollback"}

\* Only the commit follows the UPDATE.
TxBeforeCommit == \A i \in Instances : pc[i] = "commit" => tx[i] = "updated"

\* The stream holds one entry per buyer ...
EntriesDistinct == \A j, k \in 1 .. Len(stream) : stream[j] = stream[k] => j = k

\* ... and every entry's user is a buyer.
EntriesAreBuyers == \A k \in 1 .. Len(stream) : stream[k].user \in buyers[stream[k].voucher]

\* Orders come from delivered entries ...
OrdersDelivered ==
    \A u \in Users, v \in Vouchers :
        orders[u][v] > 0 => \E k \in 1 .. lastDelivered : stream[k] = [user |-> u, voucher |-> v]

\* ... and never from one that an instance is still to serve.
NotYetOrdered ==
    \A i \in Instances : pc[i] \in Pending => orders[User(i)][Voucher(i)] = 0

\* Redis sells a voucher only after its key was set, and what it sold is gone
\* from the key.
RedisConserved ==
    \A v \in Vouchers :
        /\ v \in onSale => /\ voucher[v] \in {"published", "committed", "failed"}
                           /\ redisStock[v] >= 0
                           /\ redisStock[v] + Cardinality(buyers[v]) = Stock[v]
        /\ v \notin onSale => buyers[v] = {}
        /\ voucher[v] \in {"published", "committed"} => v \in onSale

\* The row under creation has the stock of the request.
NewRow ==
    \A v \in Vouchers : voucher[v] \in {"inserted", "published"} => dbStock[v] = Stock[v]

\* The types hold by induction only together with what is in hand.
Typed == TypeOK /\ JobsInHand /\ GroupFirst

\* Why no user has two orders of a voucher.
OrderInv ==
    /\ JobsDistinct
    /\ EntriesDistinct /\ EntriesAreBuyers
    /\ OrdersDelivered /\ NotYetOrdered
    /\ OneOrderPerUser

\* Why the stock is neither oversold nor lost.
StockInv ==
    /\ TxInPlace /\ TxBeforeCommit
    /\ RedisConserved /\ NewRow
    /\ StockConserved
    /\ LeaksOnlyOnFailed

IInv == Typed /\ OrderInv /\ StockInv

\* The value of a lock is that of an entry which only its owner can have in hand.
LockByOwner ==
    \A u \in Users : lock[u] # NoLock =>
        /\ owner[u] \in Instances
        /\ Delivered(u, lock[u])
        /\ \A i \in Instances :
              pc[i] \in Busy /\ User(i) = u /\ Voucher(i) = lock[u] => i = owner[u]

\* Until the first fault the owner is still at work for the user.
OwnerAtWork ==
    faults = 0 => \A u \in Users : lock[u] # NoLock =>
        /\ pc[owner[u]] \in Busy \ {"lock"}
        /\ User(owner[u]) = u
        /\ Voucher(owner[u]) = lock[u]

\* Why no instance deletes another's lock, and why a busy lock is being worked under.
LockInv == LockByOwner /\ OwnerAtWork

=============================================================================
