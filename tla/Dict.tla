-------------------------------- MODULE Dict --------------------------------
(* The hash table of Redis 6.2.6 (dict.c) that is behind its databases, sets,*)
(* hashes and sorted sets: two tables while it grows or shrinks, buckets     *)
(* moved from the first to the second a few at a time by the operations that *)
(* use it and by the server's cron, the cursor of SCAN, whose calls are      *)
(* spread over all this, and safe iterators, which pause it.                 *)
EXTENDS Integers, FiniteSets

CONSTANTS
    DictKey,
    Hash,           \* [DictKey -> Nat], dictHashKey
    Bits,           \* width of a cursor, 64 in the code
    InitialSize,    \* DICT_HT_INITIAL_SIZE
    InitSizes,      \* bound: sizes the table may have to begin with
    EmptyVisits,    \* empty buckets one step may visit, 10 in the code
    MinFill,        \* HASHTABLE_MIN_FILL, in percent
    ForceRatio      \* dict_force_resize_ratio

ASSUME DictAssumption ==
    /\ Hash \in [DictKey -> Nat]
    /\ \E b \in 0 .. Bits : InitialSize = 2 ^ b
    /\ InitSizes \subseteq {2 ^ b : b \in 0 .. Bits}
    /\ {Bits, MinFill, ForceRatio} \subseteq Nat
    /\ EmptyVisits \in Nat \ {0}

VARIABLES
    ht0, ht1,       \* tables: [0 .. size - 1 -> SUBSET DictKey], ht1 may be NoTable
    rehashidx,      \* next bucket of ht0 to move, -1: not rehashing
    mayResize,      \* dict_can_resize: no child process is running
    present,        \* history: the keys added and not deleted
    scan,           \* a SCAN: its cursor, the keys it still owes
    iter            \* a safe iterator: table, index, rest of the bucket, ...
dictVars == <<ht0, ht1, rehashidx, mayResize, present, scan, iter>>

NoTable == [i \in {} |-> {}]
NoScan == [on |-> FALSE, cursor |-> 0, owed |-> {}]
NoIter == [on |-> FALSE, table |-> 0, index |-> -1, rest |-> {},
           entry |-> {}, owed |-> {}, paid |-> {}]

Size(t) == Cardinality(DOMAIN t)
Used(t) == Cardinality({k \in DictKey : \E i \in DOMAIN t : k \in t[i]})
Slot(k, t) == Hash[k] % Size(t)
Holds(t, k) == t # NoTable /\ k \in t[Slot(k, t)]
Fresh(n) == [i \in 0 .. n - 1 |-> {}]

\* The dictionary as a record: operations map one to the next.
D == [ht0 |-> ht0, ht1 |-> ht1, idx |-> rehashidx]
dictIsRehashing(d) == d.idx # -1

-----------------------------------------------------------------------------
(* Resizing and incremental rehashing.                                       *)

\* The smallest power of two that is not below n, from the initial size on.
_dictNextPower(n) ==
    CHOOSE p \in {2 ^ b : b \in 0 .. Bits + 1} :
        /\ p >= n /\ p >= InitialSize
        /\ \A q \in {2 ^ b : b \in 0 .. Bits + 1} :
                q >= n /\ q >= InitialSize => p <= q

dictExpand(d, n) ==
    LET size == _dictNextPower(n)
    IN  IF dictIsRehashing(d) \/ Used(d.ht0) > n \/ size = Size(d.ht0) THEN d
        ELSE IF d.ht0 = NoTable THEN [d EXCEPT !.ht0 = Fresh(size)]
        ELSE [d EXCEPT !.ht1 = Fresh(size), !.idx = 0]

dictResize(d) ==
    IF ~mayResize THEN d
    ELSE dictExpand(d, IF Used(d.ht0) < InitialSize THEN InitialSize
                       ELSE Used(d.ht0))

_dictExpandIfNeeded(d) ==
    IF dictIsRehashing(d) THEN d
    ELSE IF d.ht0 = NoTable THEN dictExpand(d, InitialSize)
    ELSE IF /\ Used(d.ht0) >= Size(d.ht0)
            /\ mayResize \/ Used(d.ht0) \div Size(d.ht0) > ForceRatio
    THEN dictExpand(d, Used(d.ht0) + 1)
    ELSE d

\* Mutant: a key goes to the slot its bucket had in the smaller table.
MoveBucketSameSlot(d, i) ==
    [ht0 |-> [d.ht0 EXCEPT ![i] = {}],
     ht1 |-> [j \in DOMAIN d.ht1 |->
                d.ht1[j] \cup {k \in d.ht0[i] : i % Size(d.ht1) = j}],
     idx |-> i + 1]

\* Every key of bucket i goes to its slot in the other table.
MoveBucket(d, i) ==
    [ht0 |-> [d.ht0 EXCEPT ![i] = {}],
     ht1 |-> [j \in DOMAIN d.ht1 |->
                d.ht1[j] \cup {k \in d.ht0[i] : Slot(k, d.ht1) = j}],
     idx |-> i + 1]

LastBucketMoved(d) == [ht0 |-> d.ht1, ht1 |-> NoTable, idx |-> -1]

\* One bucket, if there is one among the next EmptyVisits; the last one moved
\* makes the second table the first.
dictRehashOne(d) ==
    LET full == {i \in DOMAIN d.ht0 : i >= d.idx /\ d.ht0[i] # {}}
        first == CHOOSE i \in full : \A j \in full : i <= j
        e == IF full = {} THEN d
             ELSE IF first >= d.idx + EmptyVisits
             THEN [d EXCEPT !.idx = @ + EmptyVisits]
             ELSE MoveBucket(d, first)
    IN  IF Used(e.ht0) = 0 THEN LastBucketMoved(e) ELSE e

\* Mutant: an iterator does not pause rehashing.
pauserehashNever == FALSE

\* Rehashing is paused while a safe iterator is at work.
pauserehash == iter.on /\ iter.index # -1

_dictRehashStep(d) ==
    IF dictIsRehashing(d) /\ ~pauserehash THEN dictRehashOne(d) ELSE d

\* dictRehash(d, 100) moves everything in tables of this size.
dictRehash(d) ==
    LET keys(i) == {k \in DictKey : Holds(d.ht0, k) /\ Slot(k, d.ht1) = i}
    IN  LastBucketMoved(
            [d EXCEPT !.ht1 = [i \in DOMAIN @ |-> @[i] \cup keys(i)]])

-----------------------------------------------------------------------------
(* Adding, finding and deleting a key.                                       *)

dictFindIn(d, k) == Holds(d.ht0, k) \/ (dictIsRehashing(d) /\ Holds(d.ht1, k))

dictAddRaw(d, k) ==
    LET e == _dictExpandIfNeeded(_dictRehashStep(d))
    IN  IF dictFindIn(e, k) THEN e
        ELSE IF dictIsRehashing(e)
        THEN [e EXCEPT !.ht1[Slot(k, e.ht1)] = @ \cup {k}]
        ELSE [e EXCEPT !.ht0[Slot(k, e.ht0)] = @ \cup {k}]

dictGenericDelete(d, k) ==
    LET e == _dictRehashStep(d)
    IN  IF Used(d.ht0) + Used(d.ht1) = 0 THEN d
        ELSE IF Holds(e.ht0, k)
        THEN [e EXCEPT !.ht0[Slot(k, e.ht0)] = @ \ {k}]
        ELSE IF dictIsRehashing(e) /\ Holds(e.ht1, k)
        THEN [e EXCEPT !.ht1[Slot(k, e.ht1)] = @ \ {k}]
        ELSE e

dictFind(d, k) ==
    IF Used(d.ht0) + Used(d.ht1) = 0 THEN d ELSE _dictRehashStep(d)

htNeedsResize(d) ==
    LET size == Size(d.ht0) + Size(d.ht1)
        used == Used(d.ht0) + Used(d.ht1)
    IN  size > InitialSize /\ (used * 100) \div size < MinFill

-----------------------------------------------------------------------------
(* SCAN.  The cursor counts with its bits reversed, the high ones first, so  *)
(* that what was done with one table size need not be done again with        *)
(* another; while there are two tables, a bucket of the smaller is scanned   *)
(* with all the buckets of the larger that it expands to.                    *)

Bit(v, i) == (v \div 2 ^ i) % 2
rev(v) ==
    LET sum[i \in 0 .. Bits] ==
            IF i = 0 THEN 0
            ELSE sum[i - 1] + Bit(v, i - 1) * 2 ^ (Bits - i)
    IN  sum[Bits]

\* Mutant: the cursor counts as numbers do.
CursorPlain(v, n) == ((v % n) + 1) % n

\* v |= ~m; v = rev(v); v++; v = rev(v) for the mask m of a table of size n.
CursorAfter(v, n) ==
    rev((rev((v % n) + 2 ^ Bits - n) + 1) % 2 ^ Bits)

\* The buckets of the larger table from v on, and the cursor after them.
LargerBuckets(v, small, large) ==
    LET at[i \in 0 .. large] ==
            IF i = 0 THEN v ELSE CursorAfter(at[i - 1], large)
        diff(c) == (c % large) - (c % small) # 0     \* v & (m0 ^ m1)
        stop == CHOOSE i \in 1 .. large :
                    ~diff(at[i]) /\ \A j \in 1 .. i - 1 : diff(at[j])
    IN  [at |-> {at[i] % large : i \in 0 .. stop - 1}, cursor |-> at[stop]]

dictScan(d, v) ==
    LET small == IF Size(d.ht0) > Size(d.ht1) THEN d.ht1 ELSE d.ht0
        large == IF small = d.ht0 THEN d.ht1 ELSE d.ht0
        more == LargerBuckets(v, Size(small), Size(large))
    IN  IF Used(d.ht0) + Used(d.ht1) = 0 THEN [keys |-> {}, cursor |-> 0]
        ELSE IF ~dictIsRehashing(d)
        THEN [keys |-> d.ht0[v % Size(d.ht0)],
              cursor |-> CursorAfter(v, Size(d.ht0))]
        ELSE [keys |-> small[v % Size(small)]
                        \cup UNION {large[i] : i \in more.at},
              cursor |-> more.cursor]

-----------------------------------------------------------------------------
\* To begin with the table is settled, as after any number of operations on
\* keys that are not in DictKey; or it was never used.
DictInit ==
    /\ \/ present = {} /\ ht0 = NoTable
       \/ \E n \in InitSizes :
            /\ present \in SUBSET DictKey
            /\ Cardinality(present) <= n
            /\ ht0 = [i \in 0 .. n - 1 |-> {k \in present : Hash[k] % n = i}]
    /\ ht1 = NoTable
    /\ rehashidx = -1
    /\ mayResize = TRUE
    /\ scan = NoScan
    /\ iter = NoIter

DictBecomes(d) == ht0' = d.ht0 /\ ht1' = d.ht1 /\ rehashidx' = d.idx

\* A scan and an iterator owe the keys that stay from their start to their
\* end and have not been returned.
DictAdd(k) ==
    /\ DictBecomes(dictAddRaw(D, k))
    /\ present' = present \cup {k}
    /\ UNCHANGED <<mayResize, scan, iter>>

\* An iterator allows its user to delete the key it has just returned.
DictDelete(k) ==
    /\ iter.on => iter.entry = {k}
    /\ DictBecomes(dictGenericDelete(D, k))
    /\ present' = present \ {k}
    /\ scan' = [scan EXCEPT !.owed = @ \ {k}]
    /\ iter' = [iter EXCEPT !.owed = @ \ {k}, !.paid = @ \ {k}]
    /\ UNCHANGED mayResize

DictFind(k) ==
    /\ DictBecomes(dictFind(D, k))
    /\ UNCHANGED <<mayResize, present, scan, iter>>

\* The cron, or a command that deleted something.
TryResize ==
    /\ ~iter.on
    /\ htNeedsResize(D)
    /\ DictBecomes(dictResize(D))
    /\ UNCHANGED <<mayResize, present, scan, iter>>

IncrementallyRehash ==
    /\ ~iter.on
    /\ dictIsRehashing(D)
    /\ DictBecomes(dictRehash(D))
    /\ UNCHANGED <<mayResize, present, scan, iter>>

\* A child process is forked, or ends.
UpdateDictResizePolicy ==
    /\ ~iter.on
    /\ mayResize' = ~mayResize
    /\ UNCHANGED <<ht0, ht1, rehashidx, present, scan, iter>>

\* A call of SCAN with the cursor 0, or with the one the last call returned.
DictScan ==
    LET from == IF scan.on THEN scan ELSE [NoScan EXCEPT !.owed = present]
        r == dictScan(D, from.cursor)
    IN  /\ ~iter.on
        /\ scan' = [on |-> r.cursor # 0, cursor |-> r.cursor,
                    owed |-> from.owed \ r.keys]
        /\ UNCHANGED <<ht0, ht1, rehashidx, mayResize, present, iter>>

\* An iterator is used within one command, no SCAN is checked meanwhile.
DictGetSafeIterator ==
    /\ ~iter.on /\ ~scan.on
    /\ iter' = [NoIter EXCEPT !.on = TRUE, !.owed = present]
    /\ UNCHANGED <<ht0, ht1, rehashidx, mayResize, present, scan>>

\* The buckets dictNext goes through to the next one that is not empty.
Ahead ==
    {<<t, i>> \in ({0} \X DOMAIN ht0) \cup ({1} \X DOMAIN ht1) :
        /\ (IF t = 0 THEN ht0[i] ELSE ht1[i]) # {}
        /\ t > iter.table \/ (t = iter.table /\ i > iter.index)}

DictNext ==
    LET next == CHOOSE b \in Ahead : \A c \in Ahead :
                    b[1] < c[1] \/ (b[1] = c[1] /\ b[2] <= c[2])
        chain == IF iter.rest # {} THEN iter.rest
                 ELSE IF next[1] = 0 THEN ht0[next[2]] ELSE ht1[next[2]]
    IN  /\ iter.on
        /\ iter.rest # {} \/ Ahead # {}
        /\ \E k \in chain :
            iter' = [iter EXCEPT
                        !.table = IF iter.rest # {} THEN @ ELSE next[1],
                        !.index = IF iter.rest # {} THEN @ ELSE next[2],
                        !.rest = chain \ {k}, !.entry = {k},
                        !.owed = @ \ {k}, !.paid = @ \cup ({k} \cap iter.owed)]
        /\ UNCHANGED <<ht0, ht1, rehashidx, mayResize, present, scan>>

\* dictNext returned NULL; the iterator is released.
DictReleaseIterator ==
    /\ iter.on
    /\ iter.rest = {} /\ Ahead = {}
    /\ iter' = NoIter
    /\ UNCHANGED <<ht0, ht1, rehashidx, mayResize, present, scan>>

DictNextStep ==
    \/ \E k \in DictKey : DictAdd(k) \/ DictDelete(k) \/ DictFind(k)
    \/ TryResize \/ IncrementallyRehash \/ UpdateDictResizePolicy
    \/ DictScan
    \/ DictGetSafeIterator \/ DictNext \/ DictReleaseIterator

DictSpec == DictInit /\ [][DictNextStep]_dictVars

-----------------------------------------------------------------------------
IsTable(t) == \/ t = NoTable
              \/ \E b \in 0 .. Bits : t \in [0 .. 2 ^ b - 1 -> SUBSET DictKey]

\* Types; there are two tables exactly while rehashing, and then of two sizes.
DictTypeOK ==
    /\ IsTable(ht0) /\ IsTable(ht1)
    /\ rehashidx \in -1 .. Size(ht0)
    /\ (rehashidx = -1) = (ht1 = NoTable)
    /\ ht1 # NoTable => Size(ht0) # Size(ht1)
    /\ scan.cursor \in 0 .. 2 ^ Bits - 1

\* What was added and not deleted is found, nothing else is, and no key is
\* there twice; buckets that were moved stay empty, which dictGetRandomKey
\* and dictGetSomeKeys rely on; while rehashing something is left to move, so
\* that dictRehash cannot run off the table (its assertion, dict.c:208).
DictHoldsWhatWasAdded ==
    /\ \A k \in DictKey :
        /\ dictFindIn(D, k) = (k \in present)
        /\ Cardinality({<<0, i>> : i \in {j \in DOMAIN ht0 : k \in ht0[j]}}
                \cup {<<1, i>> : i \in {j \in DOMAIN ht1 : k \in ht1[j]}}) <= 1
    /\ \A i \in DOMAIN ht0 : i < rehashidx => ht0[i] = {}

\* A SCAN that comes to its end has returned every key that was there from
\* its first call to its last, however the table was resized in between
\* (dictScan and the comment before it).  A safe iterator returns every key
\* that stays while it runs exactly once, although its user adds keys, deletes
\* the returned ones and so makes the table begin to grow (dictNext,
\* dictPauseRehashing).
DictWalksAreComplete ==
    [][/\ ~scan'.on => scan'.owed = {}
       /\ ~iter'.on => iter.owed = {}
       /\ iter'.entry # iter.entry => iter'.entry \cap iter.paid = {}]_dictVars
=============================================================================
