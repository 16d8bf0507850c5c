----------------------------- MODULE AppProofs ------------------------------
(***************************************************************************)
(* TLAPS proofs about the parts of the application that share the two stores  *)
(* but no key and no row: the follow requests, publishing beside them, the     *)
(* likes, the scrolls and the shop cache; and about all of them side by side  *)
(* (AppSpec).  They hold for any sets of users, blogs and requests and any    *)
(* bounds.                                                                   *)
(***************************************************************************)
EXTENDS MCApp, FoldLemmas, FiniteSetTheorems, FunctionTheorems
-----------------------------------------------------------------------------
(* Scrolling.  A page is described by ranks: it shows the entries up to        *)
(* lastId with offset to offset + PageSize - 1 others ahead, and the rest of   *)
(* the scroll can only show what has offset or more ahead.                   *)

(* The loop that computes the cursor.                                        *)

\* h folds CountTie over the entries at each set of positions.
FoldsSets(h, base, page, D) ==
    h = [s \in SUBSET D |-> IF s = {} THEN base
                            ELSE CountTie(h[s \ {Max(s)}], page[Max(s)])]

LEMMA FoldExists ==
    ASSUME NEW base, NEW page
    PROVE  \A n \in Nat : \E h : FoldsSets(h, base, page, 1 .. n)
<1> DEFINE S == {n \in Nat : \E h : FoldsSets(h, base, page, 1 .. n)}
<1>1. 0 \in S
  <2>1. SUBSET (1 .. 0) = {{}}
      OBVIOUS
  <2>2. FoldsSets([s \in SUBSET (1 .. 0) |-> base], base, page, 1 .. 0)
      BY <2>1 DEF FoldsSets
  <2> QED
      BY <2>2
<1>2. ASSUME NEW n \in Nat, n \in S
      PROVE  n + 1 \in S
  <2>1. PICK h : FoldsSets(h, base, page, 1 .. n)
      BY <1>2
  <2> DEFINE h2 == [s \in SUBSET (1 .. n + 1) |->
                        IF n + 1 \in s THEN CountTie(h[s \ {n + 1}], page[n + 1]) ELSE h[s]]
  <2>2. ASSUME NEW s \in SUBSET (1 .. n + 1)
        PROVE  h2[s] = IF s = {} THEN base ELSE CountTie(h2[s \ {Max(s)}], page[Max(s)])
    <3>1. CASE n + 1 \in s
      <4>1. Max(s) = n + 1
          BY <3>1, TopIsMax
      <4>2. s \ {n + 1} \in SUBSET (1 .. n + 1) /\ n + 1 \notin s \ {n + 1}
          OBVIOUS
      <4>3. h2[s \ {n + 1}] = h[s \ {n + 1}]
          BY <4>2
      <4> QED
          BY <3>1, <4>1, <4>3
    <3>2. CASE n + 1 \notin s
      <4>1. s \in SUBSET (1 .. n)
          BY <3>2
      <4>2. h2[s] = h[s]
          BY <3>2
      <4>3. CASE s = {}
          BY <2>1, <4>1, <4>2, <4>3 DEF FoldsSets
      <4>4. CASE s # {}
        <5>1. s \ {Max(s)} \in SUBSET (1 .. n)
            BY <4>1
        <5>2. h2[s \ {Max(s)}] = h[s \ {Max(s)}]
            BY <3>2, <5>1
        <5>3. h[s] = CountTie(h[s \ {Max(s)}], page[Max(s)])
            BY <2>1, <4>1, <4>4 DEF FoldsSets
        <5> QED
            BY <4>2, <4>4, <5>2, <5>3
      <4> QED
          BY <4>3, <4>4
    <3> QED
        BY <3>1, <3>2
  <2>3. FoldsSets(h2, base, page, 1 .. n + 1)
    <3>1. h2 = [s \in SUBSET (1 .. n + 1) |-> h2[s]]
        OBVIOUS
    <3> HIDE DEF h2
    <3> QED
        BY <2>2, <3>1 DEF FoldsSets
  <2> QED
      BY <2>3
<1>3. \A n \in Nat : n \in S
  <2> HIDE DEF S
  <2> QED
      BY <1>1, <1>2, Induction
<1> QED
    BY <1>3

\* What the fold computes command by command.
RunOf(R, base, page, n) ==
    /\ R[0] = base
    /\ \A i \in 1 .. n : R[i] = CountTie(R[i - 1], page[i])

LEMMA FoldIsRun ==
    ASSUME NEW base, NEW page, NEW n \in Nat, DOMAIN page = 1 .. n,
           NEW R, RunOf(R, base, page, n)
    PROVE  FoldLeft(CountTie, base, page) = R[n]
<1> DEFINE h == CHOOSE g : FoldsSets(g, base, page, 1 .. n)
           S == {k \in Nat : k <= n => h[1 .. k] = R[k]}
<1>1. FoldLeft(CountTie, base, page)
        = (CHOOSE g : g = [s \in SUBSET DOMAIN page |->
                IF s = {} THEN base ELSE CountTie(g[s \ {Max(s)}], page[Max(s)])])[DOMAIN page]
    BY DEF FoldLeft, MapThenFoldSet
<1>2. FoldLeft(CountTie, base, page) = h[1 .. n]
    BY <1>1 DEF FoldsSets
<1>3. FoldsSets(h, base, page, 1 .. n)
    BY FoldExists
<1> HIDE DEF h
<1>4. 0 \in S
  <2>1. 1 .. 0 = {} /\ {} \in SUBSET (1 .. n)
      OBVIOUS
  <2>2. h[{}] = base
      BY <1>3, <2>1 DEF FoldsSets
  <2> QED
      BY <2>1, <2>2 DEF RunOf
<1>5. ASSUME NEW k \in Nat, k \in S
      PROVE  k + 1 \in S
  <2> SUFFICES ASSUME k + 1 <= n PROVE h[1 .. k + 1] = R[k + 1]
      OBVIOUS
  <2>1. 1 .. k + 1 \in SUBSET (1 .. n) /\ 1 .. k + 1 # {} /\ k + 1 \in 1 .. n
    <3>1. k + 1 \in 1 .. n
        OBVIOUS
    <3>2. \A i \in 1 .. k + 1 : i \in 1 .. n
        OBVIOUS
    <3> QED
        BY <3>1, <3>2
  <2>2. Max(1 .. k + 1) = k + 1
      BY <2>1, TopIsMax
  <2>3. (1 .. k + 1) \ {k + 1} = 1 .. k
      OBVIOUS
  <2>4. h[1 .. k + 1] = CountTie(h[1 .. k], page[k + 1])
    <3>1. ASSUME NEW s \in SUBSET (1 .. n), s # {}
          PROVE  h[s] = CountTie(h[s \ {Max(s)}], page[Max(s)])
        BY <1>3, <3>1 DEF FoldsSets
    <3> DEFINE s == 1 .. k + 1
    <3>2. h[s] = CountTie(h[s \ {Max(s)}], page[Max(s)])
      <4> HIDE DEF s
      <4>1. s \in SUBSET (1 .. n) /\ s # {}
          BY <2>1 DEF s
      <4> QED
          BY <3>1, <4>1
    <3> QED
        BY <3>2, <2>2, <2>3
  <2>5. h[1 .. k] = R[k]
      BY <1>5
  <2>6. R[k + 1] = CountTie(R[k], page[k + 1])
      BY <2>1 DEF RunOf
  <2> QED
      BY <2>4, <2>5, <2>6
<1>6. n \in S
  <2> HIDE DEF S
  <2> QED
      BY <1>4, <1>5, Induction
<1> QED
    BY <1>2, <1>6


\* The entries of a page that share the time of its k-th.
TiesUpTo(page, k) == {j \in 1 .. k : page[j].time = page[k].time}

LEMMA CursorCounts ==
    ASSUME NEW n \in Nat \ {0}, NEW page \in [1 .. n -> Scored],
           \A j, k \in 1 .. n : j < k => page[j].time >= page[k].time
    PROVE  Cursor(page) = [minTime |-> page[n].time, os |-> Cardinality(TiesUpTo(page, n))]
<1> DEFINE base == [minTime |-> 0, os |-> 1]
           R == [k \in 0 .. n |-> IF k = 0 THEN base
                    ELSE [minTime |-> page[k].time, os |-> Cardinality(TiesUpTo(page, k))]]
<1>1. \A k \in 1 .. n : page[k].time \in Nat \ {0}
  BY DEF Scored, Times
<1>2. ASSUME NEW k \in 1 .. n
      PROVE  R[k] = CountTie(R[k - 1], page[k])
  <2>1. R[k] = [minTime |-> page[k].time, os |-> Cardinality(TiesUpTo(page, k))]
    OBVIOUS
  <2>2. CASE k = 1
    <3>1. R[k - 1] = base
      BY <2>2
    <3>2. TiesUpTo(page, 1) = {1}
      BY DEF TiesUpTo
    <3>3. Cardinality(TiesUpTo(page, k)) = 1
      BY <2>2, <3>2, FS_Singleton
    <3> HIDE DEF R
    <3> QED
      BY <1>1, <2>1, <3>1, <3>3 DEF CountTie
  <2>3. CASE k # 1
    <3> DEFINE i == k - 1
    <3>1. i \in 1 .. n /\ k = i + 1 /\ i < k
      BY <2>3
    <3>2. R[i] = [minTime |-> page[i].time, os |-> Cardinality(TiesUpTo(page, i))]
      BY <3>1
    <3>3. TiesUpTo(page, i) \in SUBSET (1 .. i) /\ k \notin TiesUpTo(page, i)
      BY <3>1 DEF TiesUpTo
    <3> HIDE DEF i, R
    <3>4. IsFiniteSet(TiesUpTo(page, i))
      <4>1. IsFiniteSet(1 .. i)
        BY <3>1, FS_Interval
      <4> QED
        BY <3>3, <4>1, FS_Subset
    <3>5. CASE page[k].time = page[i].time
      <4>1. TiesUpTo(page, k) = TiesUpTo(page, i) \cup {k}
        BY <3>1, <3>5 DEF TiesUpTo
      <4>2. Cardinality(TiesUpTo(page, k)) = Cardinality(TiesUpTo(page, i)) + 1
        BY <3>3, <3>4, <4>1, FS_AddElement
      <4> QED
        BY <2>1, <3>2, <3>5, <4>2 DEF CountTie, i
    <3>6. CASE page[k].time # page[i].time
      <4>1. ASSUME NEW j \in 1 .. i PROVE page[j].time # page[k].time
        <5>1. page[i].time > page[k].time
          BY <1>1, <3>1, <3>6
        <5>2. j \in 1 .. n /\ page[j].time >= page[i].time
          BY <1>1, <3>1
        <5> QED
          BY <1>1, <3>1, <5>1, <5>2
      <4>2. TiesUpTo(page, k) = {k}
        BY <3>1, <4>1 DEF TiesUpTo
      <4>3. Cardinality(TiesUpTo(page, k)) = 1
        BY <4>2, FS_Singleton
      <4> QED
        BY <2>1, <3>2, <3>6, <4>3 DEF CountTie, i
    <3> QED
      BY <3>5, <3>6
  <2> QED
    BY <2>2, <2>3
<1>3. R[0] = base /\ R[n] = [minTime |-> page[n].time, os |-> Cardinality(TiesUpTo(page, n))]
  OBVIOUS
<1>4. RunOf(R, base, page, n)
  BY <1>2, <1>3 DEF RunOf
<1> HIDE DEF R
<1>5. FoldLeft(CountTie, base, page) = R[n]
  BY <1>4, FoldIsRun
<1> QED
  BY <1>3, <1>5 DEF Cursor

-----------------------------------------------------------------------------
(* The order of the reply.                                                   *)

Distinct(S) == \A e, f \in S : e.id = f.id => e = f

SortedTo(s, n, S) ==
    /\ s \in [1 .. n -> S]
    /\ \A j, k \in 1 .. n : j < k => Newer(s[j], s[k])

LEMMA NewerOrder ==
    /\ \A e \in Scored : e.id \in Nat /\ e.time \in Nat \ {0}
    /\ \A e \in Scored : ~Newer(e, e)
    /\ \A e, f \in Scored : Newer(e, f) => ~Newer(f, e)
    /\ \A e, f, g \in Scored : Newer(e, f) /\ Newer(f, g) => Newer(e, g)
    /\ \A e, f \in Scored : e.id # f.id => Newer(e, f) \/ Newer(f, e)
    /\ \A e, f \in Scored : Newer(e, f) => e.time >= f.time
    /\ \A e, f \in Scored : e.time > f.time => Newer(e, f)
<1>1. \A e \in Scored : e.id \in Nat /\ e.time \in Nat \ {0}
  <2>1. Times \subseteq Nat \ {0}
    BY ScrollBoundsAssumption DEF Times
  <2> QED
    BY <2>1, ScrollBlogsAssumption DEF Scored
<1> QED
  BY <1>1 DEF Newer

\* Some number of a set of them is the least.
LEMMA LeastOf ==
    ASSUME NEW S \in SUBSET Nat, S # {}
    PROVE  \E m \in S : \A k \in S : m <= k
<1>1. PICK x \in S : TRUE
  OBVIOUS
<1>2. PICK m \in S : \A k \in S : ~(<<k, m>> \in OpToRel(<, Nat))
  BY <1>1, NatLessThanWellFounded, WFMin
<1>3. \A k \in S : ~(k < m)
  BY <1>2 DEF OpToRel
<1> QED
  BY <1>3

LEMMA OldestOf ==
    ASSUME NEW S \in SUBSET Scored, Distinct(S), S # {}
    PROVE  \E e \in S : \A f \in S : f = e \/ Newer(f, e)
<1> DEFINE T == {e.time : e \in S}
<1>1. T \in SUBSET Nat /\ T # {}
  BY NewerOrder
<1>2. PICK t \in T : \A k \in T : t <= k
  <2> HIDE DEF T
  <2> QED
    BY <1>1, LeastOf
<1> DEFINE I == {e.id : e \in {f \in S : f.time = t}}
<1>3. I \in SUBSET Nat /\ I # {}
  BY <1>2, NewerOrder
<1>4. PICK d \in I : \A k \in I : d <= k
  <2> HIDE DEF I
  <2> QED
    BY <1>3, LeastOf
<1>5. PICK e \in S : e.time = t /\ e.id = d
  BY <1>4
<1>6. ASSUME NEW f \in S PROVE f = e \/ Newer(f, e)
  <2>1. t <= f.time /\ f.time \in Nat /\ e.time \in Nat /\ f.id \in Nat /\ e.id \in Nat
    BY <1>2, <1>5, NewerOrder
  <2>2. f.time = t => d <= f.id
    BY <1>4
  <2>3. f.id = e.id => f = e
    BY DEF Distinct
  <2> QED
    BY <1>5, <2>1, <2>2, <2>3 DEF Newer
<1> QED
  BY <1>6

LEMMA SortingExists ==
    \A n \in Nat : \A S \in SUBSET Scored :
        Distinct(S) /\ IsFiniteSet(S) /\ Cardinality(S) = n => \E s : SortedTo(s, n, S)
<1> DEFINE N == {n \in Nat : \A S \in SUBSET Scored :
                    Distinct(S) /\ IsFiniteSet(S) /\ Cardinality(S) = n
                        => \E s : SortedTo(s, n, S)}
<1>1. 0 \in N
  <2>1. ASSUME NEW S \in SUBSET Scored PROVE \E s : SortedTo(s, 0, S)
    <3>1. SortedTo([k \in {} |-> k], 0, S)
      BY DEF SortedTo
    <3> QED
      BY <3>1
  <2> QED
    BY <2>1
<1>2. ASSUME NEW n \in Nat, n \in N
      PROVE  n + 1 \in N
  <2> SUFFICES ASSUME NEW S \in SUBSET Scored, Distinct(S), IsFiniteSet(S),
                      Cardinality(S) = n + 1
               PROVE  \E s : SortedTo(s, n + 1, S)
    OBVIOUS
  <2>1. S # {}
    BY FS_EmptySet
  <2>2. PICK e \in S : \A f \in S : f = e \/ Newer(f, e)
    BY <2>1, OldestOf
  <2>3. IsFiniteSet(S \ {e}) /\ Cardinality(S \ {e}) = n
    BY FS_RemoveElement
  <2>4. S \ {e} \in SUBSET Scored /\ Distinct(S \ {e})
    BY DEF Distinct
  <2>5. PICK s : SortedTo(s, n, S \ {e})
    BY <1>2, <2>3, <2>4
  <2> DEFINE r == [k \in 1 .. n + 1 |-> IF k = n + 1 THEN e ELSE s[k]]
  <2>6. \A k \in 1 .. n + 1 : k # n + 1 => k \in 1 .. n
    OBVIOUS
  <2>7. SortedTo(r, n + 1, S)
    BY <2>2, <2>5, <2>6 DEF SortedTo
  <2> QED
    BY <2>7
<1>3. \A n \in Nat : n \in N
  <2> HIDE DEF N
  <2> QED
    BY <1>1, <1>2, Induction
<1> QED
  BY <1>3

\* Entries ahead of e.
Ahead(S, e) == {f \in S : Newer(f, e)}

LEMMA NewestFirstSorts ==
    ASSUME NEW S \in SUBSET Scored, Distinct(S), IsFiniteSet(S),
           NEW n, n = Cardinality(S), NEW s, s = NewestFirst(S)
    PROVE  /\ n \in Nat
           /\ SortedTo(s, n, S)
           /\ \A e \in S : \E k \in 1 .. n : s[k] = e
           /\ \A k \in 1 .. n : Cardinality(Ahead(S, s[k])) = k - 1
<1>1. n \in Nat
  BY FS_CardinalityType
<1>2. PICK r : SortedTo(r, n, S)
  BY <1>1, SortingExists
<1>3. r \in [1 .. Cardinality(S) -> S] /\ \A j, k \in DOMAIN r : j < k => Newer(r[j], r[k])
  BY <1>2 DEF SortedTo
<1>4. s \in [1 .. n -> S] /\ \A j, k \in DOMAIN s : j < k => Newer(s[j], s[k])
  BY <1>3 DEF NewestFirst
<1>5. SortedTo(s, n, S)
  BY <1>4 DEF SortedTo
<1>6. \A j, k \in 1 .. n : s[j] = s[k] => j = k
  <2> SUFFICES ASSUME NEW j \in 1 .. n, NEW k \in 1 .. n, s[j] = s[k], j # k PROVE FALSE
    OBVIOUS
  <2>1. j < k \/ k < j
    OBVIOUS
  <2>2. s[j] \in Scored
    BY <1>4
  <2> QED
    BY <1>4, <2>1, <2>2, NewerOrder
<1>7. s \in Injection(1 .. n, S)
  BY <1>4, <1>6, Fun_IsInj
<1>8. IsFiniteSet(1 .. n) /\ Cardinality(1 .. n) = n
  BY <1>1, FS_Interval
<1>9. s \in Surjection(1 .. n, S)
  BY <1>7, <1>8, FS_Injection
<1>10. \A e \in S : \E k \in 1 .. n : s[k] = e
  BY <1>9 DEF Surjection
<1>11. ASSUME NEW k \in 1 .. n
       PROVE  Cardinality(Ahead(S, s[k])) = k - 1
  <2> DEFINE A == Ahead(S, s[k])
             b == [j \in 1 .. k - 1 |-> s[j]]
  <2>1. \A j \in 1 .. k - 1 : j \in 1 .. n /\ j < k
    BY <1>1
  <2>2. b \in [1 .. k - 1 -> A]
    BY <1>4, <2>1 DEF Ahead
  <2>3. \A i, j \in 1 .. k - 1 : b[i] = b[j] => i = j
    BY <1>6, <2>1
  <2>4. ASSUME NEW f \in A PROVE \E j \in 1 .. k - 1 : b[j] = f
    <3>1. f \in S /\ Newer(f, s[k])
      BY DEF Ahead
    <3>2. PICK j \in 1 .. n : s[j] = f
      BY <1>10, <3>1
    <3>3. ~(k <= j)
      <4>1. s[k] \in Scored /\ f \in Scored
        BY <1>4, <3>1
      <4> QED
        BY <1>4, <3>1, <3>2, <4>1, NewerOrder
    <3> QED
      BY <3>2, <3>3
  <2> HIDE DEF A, b
  <2>5. b \in Injection(1 .. k - 1, A) /\ b \in Surjection(1 .. k - 1, A)
    BY <2>2, <2>3, <2>4, Fun_IsInj, Fun_IsSurj
  <2>6. IsFiniteSet(1 .. k - 1) /\ Cardinality(1 .. k - 1) = k - 1
    BY FS_Interval
  <2>7. Cardinality(A) = Cardinality(1 .. k - 1)
    BY <2>5, <2>6, FS_Surjection
  <2> QED
    BY <2>6, <2>7 DEF A
<1> QED
  BY <1>1, <1>5, <1>10, <1>11

-----------------------------------------------------------------------------
(* A page: the entries with offset to offset + PageSize - 1 others ahead.    *)

Due == {e \in scrollInbox : e.time <= lastId}
Shown == {e \in Due : /\ offset <= Cardinality(Ahead(Due, e))
                      /\ Cardinality(Ahead(Due, e)) < offset + PageSize}

\* What the rest of the scroll can show.
Remaining == {e \in Due : offset <= Cardinality(Ahead(Due, e))}

Ties(t) == {e \in scrollInbox : e.time = t}

ScrollTyped ==
    /\ ScrollTypeOK
    /\ IsFiniteSet(scrollInbox)
    /\ lastId <= now
    /\ \A e \in scrollInbox : e.time <= now

LEMMA DueFacts ==
    ASSUME ScrollTyped
    PROVE  /\ Due \in SUBSET Scored /\ Distinct(Due) /\ IsFiniteSet(Due)
           /\ \A T \in SUBSET scrollInbox : IsFiniteSet(T) /\ Cardinality(T) \in Nat
           /\ \A T \in SUBSET scrollInbox : \A U \in SUBSET T : Cardinality(U) <= Cardinality(T)
           /\ lastId \in Nat /\ offset \in Nat /\ now \in Nat /\ PageSize \in Nat \ {0}
<1>1. Due \in SUBSET Scored /\ Distinct(Due)
  BY DEF Due, Distinct, ScrollTyped, ScrollTypeOK
<1>2. \A T \in SUBSET scrollInbox : IsFiniteSet(T) /\ Cardinality(T) \in Nat
  BY FS_Subset, FS_CardinalityType DEF ScrollTyped
<1>3. \A T \in SUBSET scrollInbox : \A U \in SUBSET T : Cardinality(U) <= Cardinality(T)
  BY <1>2, FS_Subset
<1>4. Due \in SUBSET scrollInbox
  BY DEF Due
<1>5. lastId \in Nat /\ offset \in Nat /\ now \in Nat /\ PageSize \in Nat \ {0}
  BY ScrollBoundsAssumption DEF ScrollTyped, ScrollTypeOK, Times
<1> QED
  BY <1>1, <1>2, <1>3, <1>4, <1>5

\* Reply and cursor of QueryBlogOfFollow.
LEMMA PageShows ==
    ASSUME ScrollTyped
    PROVE  /\ Answer(Page) = {e.id : e \in Shown}
           /\ Page = <<>> => Remaining = {}
           /\ Page # <<>> =>
                \E last \in Shown :
                    /\ \A e \in Shown : e = last \/ Newer(e, last)
                    /\ Cursor(Page).minTime = last.time
                    /\ Cursor(Page).os = Cardinality({e \in Shown : e.time = last.time})
<1> DEFINE n == Cardinality(Due)
           s == NewestFirst(Due)
           m == IF offset + PageSize < n THEN offset + PageSize ELSE n
           l == m - offset
<1>1. /\ Due \in SUBSET Scored /\ Distinct(Due) /\ IsFiniteSet(Due)
      /\ offset \in Nat /\ PageSize \in Nat \ {0}
  BY DueFacts
<1>2. /\ n \in Nat
      /\ SortedTo(s, n, Due)
      /\ \A e \in Due : \E k \in 1 .. n : s[k] = e
      /\ \A k \in 1 .. n : Cardinality(Ahead(Due, s[k])) = k - 1
  BY <1>1, NewestFirstSorts
<1>3. s \in [1 .. n -> Due] /\ \A j, k \in 1 .. n : j < k => Newer(s[j], s[k])
  BY <1>2 DEF SortedTo
<1>4. Page = SubSeq(s, offset + 1, m)
  <2>1. Len(s) = n
    BY <1>2, <1>3
  <2> QED
    BY <2>1 DEF Page, Slice, Due
<1> HIDE DEF s, n
<1>5. m \in Nat /\ m <= n /\ l \in Int /\ (l <= 0 <=> n <= offset) /\ l <= PageSize
      /\ (n > offset => l > 0 /\ m = offset + l)
      /\ (l = PageSize \/ l = n - offset)
      /\ l = m - offset
  BY <1>1, <1>2
<1> HIDE DEF m, l
<1>6. s \in Seq(Due)
  BY <1>2, <1>3
<1>7. CASE n <= offset
  <2>1. Page = <<>>
    <3>1. m < offset + 1
      BY <1>1, <1>2, <1>5, <1>7
    <3> QED
      BY <1>1, <1>4, <1>5, <1>6, <3>1
  <2>2. \A e \in Due : Cardinality(Ahead(Due, e)) < offset
    BY <1>1, <1>2, <1>7
  <2>3. \A e \in Due : Cardinality(Ahead(Due, e)) \in Nat
    BY <1>1, <1>2
  <2>4. Shown = {} /\ Remaining = {}
    BY <1>1, <2>2, <2>3 DEF Shown, Remaining
  <2> QED
    BY <2>1, <2>4 DEF Answer
<1>8. CASE n > offset
  <2>1. l \in Nat \ {0} /\ m = offset + l
    BY <1>1, <1>2, <1>5, <1>8
  <2>0. l <= PageSize /\ (l = PageSize \/ l = n - offset)
    BY <1>1, <1>2, <1>5, <1>8
  <2>2. Page = [k \in 1 .. l |-> s[offset + k]]
    <3>1. Page = SubSeq(s, offset + 1, offset + l)
      BY <1>4, <2>1
    <3>2. offset + l <= Len(s)
      <4>1. Len(s) = n
        BY <1>2, <1>3
      <4> QED
        BY <1>5, <2>1, <4>1
    <3> QED
      BY <1>1, <1>6, <2>1, <3>1, <3>2
  <2>3. \A k \in 1 .. l : offset + k \in 1 .. n
    <3> SUFFICES ASSUME NEW k \in 1 .. l PROVE offset + k \in 1 .. n
      OBVIOUS
    <3> QED
      BY <1>1, <1>2, <1>5, <2>1
  <2>4. Page \in [1 .. l -> Scored] /\ \A k \in 1 .. l : Page[k] = s[offset + k] /\ Page[k] \in Due
    BY <1>1, <1>3, <2>2, <2>3
  <2>5. \A j, k \in 1 .. l : j < k => Newer(Page[j], Page[k])
    BY <1>1, <1>3, <2>3, <2>4
  <2>6. \A j, k \in 1 .. l : j < k => Page[j].time >= Page[k].time
    BY <2>4, <2>5, NewerOrder
  <2>7. Page # <<>>
    BY <2>1, <2>2
  <2>8. \A k \in 1 .. l : Page[k] \in Shown
    <3> SUFFICES ASSUME NEW k \in 1 .. l PROVE Page[k] \in Shown
      OBVIOUS
    <3>1. Cardinality(Ahead(Due, Page[k])) = offset + k - 1
      <4>1. offset + k \in 1 .. n
        BY <2>3
      <4>2. Cardinality(Ahead(Due, s[offset + k])) = (offset + k) - 1
        BY <1>2, <4>1
      <4> QED
        BY <1>1, <2>4, <4>2
    <3>2. offset <= offset + k - 1 /\ offset + k - 1 < offset + PageSize
      BY <1>1, <2>0, <2>1
    <3> QED
      BY <2>4, <3>1, <3>2 DEF Shown
  <2>9. ASSUME NEW e \in Shown PROVE \E k \in 1 .. l : Page[k] = e
    <3>1. e \in Due /\ offset <= Cardinality(Ahead(Due, e))
          /\ Cardinality(Ahead(Due, e)) < offset + PageSize
      BY DEF Shown
    <3>2. PICK j \in 1 .. n : s[j] = e
      BY <1>2, <3>1
    <3>3. offset <= j - 1 /\ j - 1 < offset + PageSize
      BY <1>2, <3>1, <3>2
    <3>4. j - offset \in 1 .. l
      BY <1>1, <1>2, <1>8, <2>0, <2>1, <3>2, <3>3
    <3>5. offset + (j - offset) = j
      BY <1>1, <3>2
    <3>6. Page[j - offset] = e
      BY <2>4, <3>2, <3>4, <3>5
    <3> QED
      BY <3>4, <3>6
  <2>10. Answer(Page) = {e.id : e \in Shown}
    <3>1. DOMAIN Page = 1 .. l
      BY <2>2
    <3> QED
      BY <2>8, <2>9, <3>1 DEF Answer
  <2> DEFINE last == Page[l]
             Q == {e \in Shown : e.time = last.time}
             T == TiesUpTo(Page, l)
             b == [k \in T |-> Page[k]]
  <2>11. l \in 1 .. l /\ last \in Shown
    BY <2>1, <2>8
  <2>12. \A e \in Shown : e = last \/ Newer(e, last)
    <3> SUFFICES ASSUME NEW e \in Shown PROVE e = last \/ Newer(e, last)
      OBVIOUS
    <3>1. PICK k \in 1 .. l : Page[k] = e
      BY <2>9
    <3>2. k = l \/ k < l
      BY <2>1
    <3> QED
      BY <2>5, <2>11, <3>1, <3>2
  <2>13. Cursor(Page) = [minTime |-> last.time, os |-> Cardinality(T)]
    BY <2>1, <2>4, <2>6, CursorCounts
  <2>14. Cardinality(T) = Cardinality(Q)
    <3>1. T \subseteq 1 .. l /\ b \in [T -> Q]
      BY <2>8 DEF TiesUpTo
    <3>2. \A j, k \in T : b[j] = b[k] => j = k
      <4> SUFFICES ASSUME NEW j \in T, NEW k \in T, Page[j] = Page[k], j # k PROVE FALSE
        OBVIOUS
      <4>1. j \in 1 .. l /\ k \in 1 .. l /\ (j < k \/ k < j)
        BY <3>1
      <4>2. Page[j] \in Scored
        BY <2>4, <4>1
      <4> QED
        BY <2>5, <4>1, <4>2, NewerOrder
    <3>3. \A e \in Q : \E k \in T : b[k] = e
      BY <2>9 DEF TiesUpTo
    <3>4. IsFiniteSet(T)
      <4>1. IsFiniteSet(1 .. l)
        BY <2>1, FS_Interval
      <4> QED
        BY <3>1, <4>1, FS_Subset
    <3> HIDE DEF T, Q, b
    <3>5. b \in Injection(T, Q) /\ b \in Surjection(T, Q)
      BY <3>1, <3>2, <3>3, Fun_IsInj, Fun_IsSurj
    <3> QED
      BY <3>4, <3>5, FS_Surjection
  <2>15. Cursor(Page).minTime = last.time /\ Cursor(Page).os = Cardinality(Q)
    <3> HIDE DEF last, T, Q
    <3> QED
      BY <2>13, <2>14
  <2> QED
    BY <2>7, <2>10, <2>11, <2>12, <2>15
<1>9. n <= offset \/ n > offset
  BY <1>1, <1>2
<1> QED
  BY <1>7, <1>8, <1>9

-----------------------------------------------------------------------------
(* The invariant.  Unless the millisecond the scroll stands on was touched,  *)
(* what it still owes it can still show; if besides no page started and      *)
(* ended inside one millisecond, it can show nothing that was shown.         *)

OnPlace == phase = "scrolling" /\ disturbed = {} => offset <= Cardinality(Ties(lastId))

OmittedNone ==
    disturbed = {} =>
        \A e \in owed : e.id \in seen \/ (phase = "scrolling" /\ e \in Remaining)

RepeatedNone ==
    disturbed = {} /\ ~stuck =>
        /\ again = {}
        /\ phase = "scrolling" => \A e \in Remaining : e.id \notin seen

ScrollInv == ScrollTyped /\ OnPlace /\ OmittedNone /\ RepeatedNone

LEMMA ScrollBegins == ScrollInit => ScrollInv
<1> SUFFICES ASSUME ScrollInit PROVE ScrollInv
  OBVIOUS
<1>1. ScrollTyped
  <2>1. 1 \in Times /\ 0 \in Nat
    BY ScrollBoundsAssumption DEF Times
  <2>2. IsFiniteSet({})
    BY FS_EmptySet
  <2>3. ScrollTypeOK
    BY <2>1 DEF ScrollInit, ScrollTypeOK
  <2> QED
    BY <2>1, <2>2, <2>3 DEF ScrollInit, ScrollTyped
<1>2. OnPlace /\ OmittedNone /\ RepeatedNone
  BY DEF ScrollInit, OnPlace, OmittedNone, RepeatedNone
<1> QED
  BY <1>1, <1>2 DEF ScrollInv

LEMMA TickKeeps ==
    ASSUME ScrollInv, Tick
    PROVE  ScrollInv'
<1>1. UNCHANGED <<Due, Remaining>> /\ \A t : UNCHANGED Ties(t)
  BY DEF Tick, Due, Remaining, Ahead, Ties
<1>2. now \in Nat /\ now' = now + 1 /\ now' \in Times
      /\ \A e \in scrollInbox : e.time \in Nat
      /\ lastId \in Nat
  <2>1. \A e \in scrollInbox : e.time \in Nat
    BY NewerOrder DEF ScrollInv, ScrollTyped, ScrollTypeOK
  <2> QED
    BY <2>1, ScrollBoundsAssumption DEF Tick, ScrollInv, ScrollTyped, ScrollTypeOK, Times
<1>3. ScrollTyped'
  BY <1>2 DEF Tick, ScrollInv, ScrollTyped, ScrollTypeOK
<1>4. (OnPlace /\ OmittedNone /\ RepeatedNone)'
  BY <1>1 DEF Tick, ScrollInv, OnPlace, OmittedNone, RepeatedNone
<1> QED
  BY <1>3, <1>4 DEF ScrollInv

LEMMA BeginKeeps ==
    ASSUME ScrollInv, BeginScroll
    PROVE  ScrollInv'
<1>1. /\ scrollInbox' = scrollInbox /\ now' = now /\ lastId' = now /\ offset' = 0 /\ phase' = "scrolling"
      /\ seen' = {} /\ again' = {} /\ owed' = scrollInbox /\ disturbed' = {} /\ stuck' = FALSE
  BY DEF BeginScroll
<1>2. ScrollTyped'
  <2>1. ScrollTypeOK /\ IsFiniteSet(scrollInbox) /\ \A e \in scrollInbox : e.time <= now
    BY DEF ScrollInv, ScrollTyped
  <2>2. now \in Times /\ now \in Nat
    BY <2>1, ScrollBoundsAssumption DEF ScrollTypeOK, Times
  <2>3. ScrollTypeOK'
    BY <1>1, <2>1, <2>2 DEF ScrollTypeOK
  <2> QED
    BY <1>1, <2>1, <2>2, <2>3 DEF ScrollTyped
<1>3. Due' = scrollInbox /\ Ties(lastId)' \in SUBSET scrollInbox
  BY <1>1 DEF Due, ScrollInv, ScrollTyped, Ties
<1>4. Remaining' = scrollInbox
  <2>1. \A e \in scrollInbox : Ahead(Due', e) \in SUBSET scrollInbox
    BY <1>3 DEF Ahead
  <2>2. \A e \in scrollInbox : Cardinality(Ahead(Due', e)) \in Nat
    BY <2>1, DueFacts DEF ScrollInv
  <2> QED
    BY <1>1, <1>3, <2>2 DEF Remaining
<1>5. OnPlace'
  <2>1. Cardinality(Ties(lastId)') \in Nat
    BY <1>3, DueFacts DEF ScrollInv
  <2> QED
    BY <1>1, <2>1 DEF OnPlace
<1>6. OmittedNone' /\ RepeatedNone'
  BY <1>1, <1>4 DEF OmittedNone, RepeatedNone
<1> QED
  BY <1>2, <1>5, <1>6 DEF ScrollInv

LEMMA LastKeeps ==
    ASSUME ScrollInv, LastPage
    PROVE  ScrollInv'
<1>1. Remaining = {}
  BY PageShows DEF LastPage, ScrollInv
<1>2. ScrollTyped'
  BY DEF LastPage, ScrollInv, ScrollTyped, ScrollTypeOK
<1>3. (OnPlace /\ OmittedNone /\ RepeatedNone)'
  BY <1>1 DEF LastPage, ScrollInv, OnPlace, OmittedNone, RepeatedNone
<1> QED
  BY <1>2, <1>3 DEF ScrollInv

LEMMA PushTyped ==
    ASSUME ScrollInv, NEW b \in ScrollBlogs, Push(b)
    PROVE  ScrollTyped'
<1> DEFINE new == [id |-> b, time |-> now]
           kept == {e \in scrollInbox : e.id # b}
<1>1. new \in Scored /\ new.id = b /\ new.time = now /\ now \in Nat
  BY ScrollBoundsAssumption DEF Scored, ScrollInv, ScrollTyped, ScrollTypeOK, Times
<1>2. scrollInbox' = kept \cup {new}
  BY DEF Push, Added
<1>3. IsFiniteSet(scrollInbox')
  <2>1. IsFiniteSet(kept)
    BY DueFacts DEF ScrollInv
  <2> QED
    BY <1>2, <2>1, FS_AddElement
<1>4. /\ scrollInbox' \subseteq Scored
      /\ \A e, f \in scrollInbox' : e.id = f.id => e = f
      /\ \A e \in scrollInbox' : e.time <= now
  <2> HIDE DEF new
  <2> QED
    BY <1>1, <1>2 DEF ScrollInv, ScrollTyped, ScrollTypeOK
<1>5. owed' \subseteq scrollInbox' /\ disturbed' \subseteq ScrollBlogs
  BY <1>2 DEF Push, ScrollInv, ScrollTyped, ScrollTypeOK
<1> HIDE DEF new, kept
<1> QED
  BY <1>3, <1>4, <1>5 DEF Push, ScrollInv, ScrollTyped, ScrollTypeOK

\* A push that does not touch the millisecond the scroll stands on adds nothing
\* to what it can show and takes away at most the blog that moved.
LEMMA PushBeside ==
    ASSUME ScrollInv, NEW b \in ScrollBlogs, Push(b), phase = "scrolling", disturbed' = {}
    PROVE  /\ disturbed = {}
           /\ Ties(lastId)' = Ties(lastId)
           /\ Remaining' \subseteq Remaining
           /\ \A e \in Remaining : e.id # b => e \in Remaining'
<1>1. /\ disturbed = {} /\ now # lastId
      /\ \A e \in scrollInbox : e.id = b => e.time # lastId
  BY DEF Push
<1>2. lastId \in Nat /\ now \in Nat /\ lastId < now /\ offset \in Nat
  BY <1>1, DueFacts DEF ScrollInv, ScrollTyped
<1> DEFINE new == [id |-> b, time |-> now]
<1>3. /\ scrollInbox' = {e \in scrollInbox : e.id # b} \cup {new}
      /\ lastId' = lastId /\ offset' = offset
      /\ new.id = b /\ new.time = now
  BY DEF Push, Added
<1> HIDE DEF new
<1>4. Due' = {e \in Due : e.id # b}
  BY <1>2, <1>3 DEF Due
<1>5. Ties(lastId)' = Ties(lastId)
  BY <1>1, <1>2, <1>3 DEF Ties
<1>6. \A e \in Due' : e \in Due /\ Ahead(Due', e) \subseteq Ahead(Due, e) /\ Ahead(Due, e) \subseteq scrollInbox
  BY <1>4 DEF Ahead, Due
<1>7. \A e \in Due' : /\ Cardinality(Ahead(Due', e)) <= Cardinality(Ahead(Due, e))
                      /\ Cardinality(Ahead(Due', e)) \in Nat
                      /\ Cardinality(Ahead(Due, e)) \in Nat
  BY <1>6, DueFacts DEF ScrollInv
<1>8. Remaining' \subseteq Remaining
  BY <1>2, <1>3, <1>6, <1>7 DEF Remaining
<1>9. ASSUME NEW e \in Remaining, e.id # b
      PROVE  e \in Remaining'
  <2>1. e \in Due /\ e \in Due' /\ offset <= Cardinality(Ahead(Due, e))
        /\ e \in Scored /\ e.time \in Nat /\ e.time <= lastId
    BY <1>4, <1>9, DueFacts, NewerOrder DEF Remaining, Due, ScrollInv
  <2>2. CASE e.time = lastId
    <3>1. \A f \in Due : Newer(f, e) => f.time = lastId
      BY <1>2, <2>1, <2>2, DueFacts, NewerOrder DEF Due, ScrollInv
    <3>2. Ahead(Due', e) = Ahead(Due, e)
      BY <1>1, <1>4, <3>1 DEF Ahead, Due
    <3> QED
      BY <1>3, <2>1, <3>2 DEF Remaining
  <2>3. CASE e.time < lastId
    <3>1. Ties(lastId) \subseteq Ahead(Due', e)
      <4> SUFFICES ASSUME NEW f \in Ties(lastId) PROVE f \in Ahead(Due', e)
        OBVIOUS
      <4>1. f \in Due /\ f.id # b /\ f.time = lastId /\ f \in Scored
        BY <1>1, <1>2, DueFacts DEF Ties, Due, ScrollInv
      <4>2. Newer(f, e)
        BY <1>2, <2>1, <2>3, <4>1 DEF Newer
      <4> QED
        BY <1>4, <4>1, <4>2 DEF Ahead
    <3>2. offset <= Cardinality(Ties(lastId))
      BY <1>1 DEF ScrollInv, OnPlace
    <3>3. Ahead(Due', e) \in SUBSET scrollInbox /\ Ties(lastId) \in SUBSET Ahead(Due', e)
      BY <1>6, <2>1, <3>1
    <3>4. Cardinality(Ties(lastId)) <= Cardinality(Ahead(Due', e))
          /\ Cardinality(Ties(lastId)) \in Nat /\ Cardinality(Ahead(Due', e)) \in Nat
      BY <3>3, DueFacts DEF ScrollInv
    <3> QED
      BY <1>2, <1>3, <2>1, <3>2, <3>4 DEF Remaining
  <2> QED
    BY <1>2, <2>1, <2>2, <2>3
<1> QED
  BY <1>1, <1>5, <1>8, <1>9

LEMMA PushKeeps ==
    ASSUME ScrollInv, NEW b \in ScrollBlogs, Push(b)
    PROVE  ScrollInv'
<1>1. ScrollTyped'
  BY PushTyped
<1>2. /\ UNCHANGED <<phase, lastId, offset, seen, again, stuck>>
      /\ owed' = {e \in owed : e.id # b}
  BY DEF Push
<1>3. CASE phase = "scrolling"
  <2> SUFFICES ASSUME disturbed' = {} PROVE (OnPlace /\ OmittedNone /\ RepeatedNone)'
    BY <1>1 DEF ScrollInv, OnPlace, OmittedNone, RepeatedNone
  <2>1. /\ disturbed = {}
        /\ Ties(lastId)' = Ties(lastId)
        /\ Remaining' \subseteq Remaining
        /\ \A e \in Remaining : e.id # b => e \in Remaining'
    BY <1>3, PushBeside
  <2>2. OnPlace'
    BY <1>2, <1>3, <2>1 DEF OnPlace, ScrollInv
  <2>3. OmittedNone'
    BY <1>2, <1>3, <2>1 DEF OmittedNone, ScrollInv
  <2>4. RepeatedNone'
    BY <1>2, <1>3, <2>1 DEF RepeatedNone, ScrollInv
  <2> QED
    BY <2>2, <2>3, <2>4
<1>4. CASE phase # "scrolling"
  <2>1. disturbed' = disturbed
    BY <1>4 DEF Push
  <2> QED
    BY <1>1, <1>2, <1>4, <2>1 DEF ScrollInv, OnPlace, OmittedNone, RepeatedNone
<1> QED
  BY <1>3, <1>4

\* The next page starts where this one ended.
LEMMA NextRemaining ==
    ASSUME ScrollInv, NextPage
    PROVE  /\ lastId' \in Times /\ offset' \in Nat /\ lastId' <= lastId
           /\ offset' <= Cardinality(Ties(lastId)')
           /\ Shown \subseteq Remaining
           /\ Remaining \ Shown \subseteq Remaining'
           /\ /\ disturbed = {}
              /\ offset = 0 \/ lastId' # lastId
              => Remaining' \subseteq Remaining \ Shown
<1>1. PICK last \in Shown :
         /\ \A e \in Shown : e = last \/ Newer(e, last)
         /\ Cursor(Page).minTime = last.time
         /\ Cursor(Page).os = Cardinality({e \in Shown : e.time = last.time})
  BY PageShows DEF NextPage, ScrollInv
<1> DEFINE Q == {e \in Shown : e.time = last.time}
<1>2. /\ scrollInbox' = scrollInbox /\ lastId' = last.time /\ offset' = Cardinality(Q)
  BY <1>1 DEF NextPage
<1>3. /\ Due \in SUBSET Scored /\ lastId \in Nat /\ offset \in Nat /\ PageSize \in Nat \ {0}
      /\ \A T \in SUBSET scrollInbox : IsFiniteSet(T) /\ Cardinality(T) \in Nat
      /\ \A T \in SUBSET scrollInbox : \A U \in SUBSET T : Cardinality(U) <= Cardinality(T)
  BY DueFacts DEF ScrollInv
<1>4. /\ Shown \subseteq Due /\ Shown \subseteq Remaining /\ Due \in SUBSET scrollInbox
      /\ last \in Due /\ last \in Scored /\ last.time \in Times /\ last.time \in Nat
      /\ last.time <= lastId
  <2>1. Shown \subseteq Due /\ Shown \subseteq Remaining /\ Due \in SUBSET scrollInbox
    BY DEF Shown, Due, Remaining
  <2>2. last \in Due /\ last \in Scored /\ last.time <= lastId
    BY <1>3, <2>1 DEF Due
  <2> QED
    BY <2>1, <2>2, NewerOrder DEF Scored
<1>5. Q \in SUBSET scrollInbox /\ Q \in SUBSET Ties(last.time) /\ Ties(last.time) \in SUBSET scrollInbox
  BY <1>4 DEF Ties
<1>6. Due' = {e \in scrollInbox : e.time <= last.time}
  BY <1>2 DEF Due
<1>7. Due' \subseteq Due
  BY <1>3, <1>4, <1>6, NewerOrder DEF Due, ScrollInv, ScrollTyped, ScrollTypeOK
<1>8. \A e : Ahead(Due', e) \in SUBSET scrollInbox /\ Ahead(Due, e) \in SUBSET scrollInbox
  BY <1>4, <1>7 DEF Ahead
<1>9. \A e : Cardinality(Ahead(Due', e)) \in Nat /\ Cardinality(Ahead(Due, e)) \in Nat
  BY <1>3, <1>8
<1>10. Cardinality(Q) \in Nat /\ Cardinality(Q) <= Cardinality(Ties(last.time))
  BY <1>3, <1>5
<1> HIDE DEF Q
<1>11. ASSUME NEW e \in Remaining \ Shown
       PROVE  e \in Remaining'
  <2>1. e \in Due /\ e \in Scored /\ offset + PageSize <= Cardinality(Ahead(Due, e))
    BY <1>3, <1>9 DEF Remaining, Shown
  <2>2. Cardinality(Ahead(Due, last)) < offset + PageSize
    BY DEF Shown
  <2>3. ~(Ahead(Due, e) \subseteq Ahead(Due, last))
    <3>1. Ahead(Due, e) \in SUBSET Ahead(Due, last) => Cardinality(Ahead(Due, e)) <= Cardinality(Ahead(Due, last))
      BY <1>3, <1>8
    <3> QED
      BY <1>3, <1>9, <2>1, <2>2, <3>1
  <2>4. PICK g \in Due : Newer(g, e) /\ ~Newer(g, last)
    BY <2>3 DEF Ahead
  <2>5. g \in Scored /\ (g = last \/ Newer(last, g))
    <3>1. g \in Scored
      BY <1>3
    <3>2. g.id = last.id => g = last
      BY <1>4 DEF ScrollInv, ScrollTyped, ScrollTypeOK
    <3> QED
      BY <1>4, <2>4, <3>1, <3>2, NewerOrder
  <2>6. Newer(last, e)
    BY <1>4, <2>1, <2>4, <2>5, NewerOrder
  <2>7. e \in Due'
    <3>1. e.time <= last.time /\ e \in scrollInbox
      BY <1>4, <2>1, <2>6, NewerOrder
    <3> QED
      BY <1>6, <3>1
  <2>8. Q \in SUBSET Ahead(Due', e)
    <3> SUFFICES ASSUME NEW f \in Q PROVE f \in Ahead(Due', e)
      OBVIOUS
    <3>1. f \in Shown /\ f.time = last.time /\ f \in Scored /\ f \in scrollInbox
      BY <1>3, <1>4 DEF Q
    <3>2. Newer(f, e)
      BY <1>1, <1>4, <2>1, <2>6, <3>1, NewerOrder
    <3>3. f \in Due'
      BY <1>4, <1>6, <3>1
    <3> QED
      BY <3>2, <3>3 DEF Ahead
  <2>9. Cardinality(Q) <= Cardinality(Ahead(Due', e))
    BY <1>3, <1>8, <2>8
  <2> QED
    BY <1>2, <2>7, <2>9 DEF Remaining
<1>12. ASSUME disturbed = {}, offset = 0 \/ lastId' # lastId, NEW e \in Remaining'
       PROVE  e \in Remaining /\ e \notin Shown
  <2>1. e \in Due' /\ e \in Due /\ e \in Scored /\ e.time <= last.time /\ e.time \in Nat
        /\ Cardinality(Q) <= Cardinality(Ahead(Due', e))
    BY <1>2, <1>3, <1>6, <1>7, NewerOrder DEF Remaining
  <2>2. offset <= Cardinality(Ties(lastId)) /\ Ties(lastId) \in SUBSET scrollInbox
    BY <1>12 DEF ScrollInv, OnPlace, NextPage, Ties
  <2>3. ASSUME NEW f \in Due'
        PROVE  offset <= Cardinality(Ahead(Due, f))
    <3>1. CASE offset = 0
      BY <1>9, <3>1
    <3>2. CASE lastId' # lastId
      <4>1. last.time < lastId
        BY <1>2, <1>3, <1>4, <3>2
      <4>2. f \in Scored /\ f.time \in Nat /\ f.time < lastId
        BY <1>3, <1>4, <1>6, <1>7, <4>1, NewerOrder
      <4>3. Ties(lastId) \in SUBSET Ahead(Due, f)
        BY <1>3, <4>2, NewerOrder DEF Ties, Ahead, Due, Newer
      <4>4. Cardinality(Ties(lastId)) <= Cardinality(Ahead(Due, f))
            /\ Cardinality(Ties(lastId)) \in Nat
        BY <1>3, <1>8, <2>2, <4>3
      <4> QED
        BY <1>3, <1>9, <2>2, <4>4
    <3> QED
      BY <1>12, <3>1, <3>2
  <2>4. e \in Remaining
    BY <2>1, <2>3 DEF Remaining
  <2>5. ASSUME e \in Shown PROVE FALSE
    <3>1. e = last \/ Newer(e, last)
      BY <1>1, <2>5
    <3>2. e.time = last.time
      BY <1>4, <2>1, <3>1, NewerOrder
    <3>3. e \in Q
      BY <2>5, <3>2 DEF Q
    <3>4. ASSUME NEW f \in Ahead(Due', e)
          PROVE  f \in Q /\ f # e
      <4>1. f \in Due' /\ f \in Due /\ f \in Scored /\ Newer(f, e) /\ f.time <= last.time
        BY <1>3, <1>6, <1>7, <3>4 DEF Ahead
      <4>2. f.time = last.time /\ f # e
        BY <1>4, <2>1, <3>2, <4>1, NewerOrder
      <4>3. Ahead(Due, f) \in SUBSET Ahead(Due, e)
        <5> SUFFICES ASSUME NEW g \in Due, Newer(g, f) PROVE Newer(g, e)
          BY DEF Ahead
        <5>1. g \in Scored
          BY <1>3
        <5> QED
          BY <2>1, <4>1, <5>1, NewerOrder
      <4>4. Cardinality(Ahead(Due, f)) <= Cardinality(Ahead(Due, e))
        BY <1>3, <1>8, <4>3
      <4>5. Cardinality(Ahead(Due, e)) < offset + PageSize
        BY <2>5 DEF Shown
      <4>6. Cardinality(Ahead(Due, f)) < offset + PageSize
        BY <1>3, <1>9, <4>4, <4>5
      <4> QED
        BY <2>3, <4>1, <4>2, <4>6 DEF Shown, Q
    <3>5. Ahead(Due', e) \in SUBSET (Q \ {e})
      BY <3>4
    <3>6. IsFiniteSet(Q) /\ Cardinality(Q) \in Nat
      BY <1>3, <1>5
    <3>7. Cardinality(Q \ {e}) = Cardinality(Q) - 1 /\ IsFiniteSet(Q \ {e})
      BY <3>3, <3>6, FS_RemoveElement
    <3>8. Cardinality(Ahead(Due', e)) <= Cardinality(Q \ {e})
      BY <3>5, <3>7, FS_Subset
    <3> QED
      BY <1>9, <2>1, <3>6, <3>7, <3>8
  <2> QED
    BY <2>4, <2>5
<1>13. offset' <= Cardinality(Ties(lastId)')
  <2>1. Ties(lastId)' = Ties(last.time)
    BY <1>2 DEF Ties
  <2> QED
    BY <1>2, <1>10, <2>1
<1> QED
  BY <1>2, <1>4, <1>10, <1>11, <1>12, <1>13

LEMMA PageKeeps ==
    ASSUME ScrollInv, NextPage
    PROVE  ScrollInv'
<1> DEFINE ids == {e.id : e \in Shown}
<1>1. /\ UNCHANGED <<scrollInbox, now, phase, owed, disturbed>> /\ phase = "scrolling"
      /\ seen' = seen \cup ids
      /\ again' = again \cup (seen \cap ids)
      /\ stuck' = (stuck \/ (offset # 0 /\ lastId' = lastId))
  BY PageShows DEF NextPage, ScrollInv
<1>2. /\ lastId' \in Times /\ offset' \in Nat /\ lastId' <= lastId
      /\ offset' <= Cardinality(Ties(lastId)')
      /\ Shown \subseteq Remaining
      /\ Remaining \ Shown \subseteq Remaining'
      /\ /\ disturbed = {}
         /\ offset = 0 \/ lastId' # lastId
         => Remaining' \subseteq Remaining \ Shown
  BY NextRemaining
<1>3. ids \subseteq ScrollBlogs /\ \A e \in Shown : e \in scrollInbox
  BY DueFacts DEF Shown, Due, Scored, ScrollInv, ScrollTyped, ScrollTypeOK
<1>4. ScrollTyped'
  <2>1. lastId' <= now'
    BY <1>1, <1>2, DueFacts DEF ScrollInv, ScrollTyped, Times
  <2>2. stuck' \in BOOLEAN
    BY <1>1 DEF ScrollInv, ScrollTyped, ScrollTypeOK
  <2> HIDE DEF ids
  <2> QED
    BY <1>1, <1>2, <1>3, <2>1, <2>2 DEF ScrollInv, ScrollTyped, ScrollTypeOK
<1>5. OnPlace'
  BY <1>2 DEF OnPlace
<1>6. OmittedNone'
  BY <1>1, <1>2 DEF OmittedNone, ScrollInv
<1>7. RepeatedNone'
  <2> SUFFICES ASSUME disturbed = {}, ~stuck, offset = 0 \/ lastId' # lastId
               PROVE  again' = {} /\ \A e \in Remaining' : e.id \notin seen'
    BY <1>1 DEF RepeatedNone
  <2>1. again = {} /\ \A e \in Remaining : e.id \notin seen
    BY <1>1 DEF RepeatedNone, ScrollInv
  <2>2. again' = {}
    BY <1>1, <1>2, <2>1
  <2>3. ASSUME NEW e \in Remaining' PROVE e.id \notin seen'
    <3>1. e \in Remaining /\ e \notin Shown /\ e \in scrollInbox
      BY <1>2 DEF Remaining, Due
    <3>2. e.id \notin ids
      BY <1>3, <3>1 DEF ScrollInv, ScrollTyped, ScrollTypeOK
    <3> QED
      BY <1>1, <2>1, <3>1, <3>2
  <2> QED
    BY <2>2, <2>3
<1> QED
  BY <1>4, <1>5, <1>6, <1>7 DEF ScrollInv

LEMMA ScrollKeeps ==
    ASSUME ScrollInv, [ScrollNext]_scrollVars
    PROVE  ScrollInv'
<1>1. CASE UNCHANGED scrollVars
  BY <1>1 DEF scrollVars, ScrollInv, ScrollTyped, ScrollTypeOK, OnPlace, OmittedNone, RepeatedNone,
              Remaining, Due, Ahead, Ties
<1> QED
  BY <1>1, TickKeeps, PushKeeps, BeginKeeps, PageKeeps, LastKeeps DEF ScrollNext

(***************************************************************************)
(* Scrolling by (minTime, offset) shows no blog twice and leaves none out,    *)
(* for any inbox, page size and clock, but for the two cases ShownOnce names. *)
(***************************************************************************)
THEOREM ScrollShowsOnce == ScrollSpec => []ShownOnce
<1>1. ScrollInv => ShownOnce
  BY DEF ScrollInv, OmittedNone, RepeatedNone, ShownOnce, NothingShownTwice, NothingLeftOut
<1> QED
  BY <1>1, ScrollBegins, ScrollKeeps, PTL DEF ScrollSpec
-----------------------------------------------------------------------------
(* Follow requests. *)
Asking(r, p) == pc[r] # "idle" /\ pair[r] = p

Member(p) == p[2] \in follows[p[1]]

\* What request r, under way on p, can rely on.
AskInStep(r, p) ==
    /\ r \in overlapped => p \in unsettled
    /\ r \notin overlapped =>
         /\ \A s \in Requests : Asking(s, p) => s = r
         /\ isFollow[r] = "follow" <=> p \in wanted
         /\ pc[r] = "set" => (isFollow[r] = "follow" <=> IsFollow(p))
         /\ (pc[r] = "table" /\ p \notin unsettled /\ isFollow[r] = "unfollow")
              => (IsFollow(p) <=> Member(p))

\* SettledAsAsked of one pair.
AsAsked(p) ==
    (p \notin unsettled /\ \A r \in Requests : ~Asking(r, p)) =>
        /\ IsFollow(p) <=> p \in wanted
        /\ Member(p) <=> p \in wanted

PairInv(p) == AsAsked(p) /\ \A r \in Requests : Asking(r, p) => AskInStep(r, p)

(***************************************************************************)
(* The inductive invariant: a request that met no other is alone on its pair  *)
(* and finds there what its own earlier steps left.                          *)
(***************************************************************************)
FollowInv == FollowTypeOK /\ \A p \in Pairs : PairInv(p)

-----------------------------------------------------------------------------
LEMMA InvImpliesSettled == FollowInv => SettledAsAsked
<1> SUFFICES ASSUME FollowInv, NEW p \in Pairs, Settled(p)
             PROVE  /\ IsFollow(p) <=> p \in wanted
                    /\ p[2] \in follows[p[1]] <=> p \in wanted
  BY DEF SettledAsAsked
<1>1. p \notin unsettled /\ \A r \in Requests : ~Asking(r, p)
  BY DEF Settled, ActiveOn, Asking
<1> QED
  BY <1>1 DEF FollowInv, PairInv, AsAsked, Member

(***************************************************************************)
(* A step that touches nothing of a pair keeps its invariant.                *)
(***************************************************************************)
LEMMA FollowFrame ==
    ASSUME NEW p \in Pairs, PairInv(p),
           \A r \in Requests : Asking(r, p)' <=> Asking(r, p),
           \A r \in Requests : Asking(r, p) => /\ pc'[r] = pc[r]
                                               /\ isFollow'[r] = isFollow[r]
                                               /\ r \in overlapped' <=> r \in overlapped,
           rows'[p] = rows[p],
           Member(p)' <=> Member(p),
           p \in wanted' <=> p \in wanted,
           p \in unsettled' <=> p \in unsettled
    PROVE  PairInv(p)'
<1>1. IsFollow(p)' <=> IsFollow(p)
  BY DEF IsFollow
<1>2. AsAsked(p)'
  BY <1>1 DEF PairInv, AsAsked
<1>3. ASSUME NEW r \in Requests, Asking(r, p)'
      PROVE  AskInStep(r, p)'
  BY <1>1, <1>3 DEF PairInv, AskInStep
<1> QED
  BY <1>2, <1>3 DEF PairInv

LEMMA Members ==
    ASSUME FollowTypeOK, NEW q \in Pairs, NEW p \in Pairs
    PROVE  /\ follows' = WithMember(q) => (Member(p)' <=> (Member(p) \/ p = q))
           /\ follows' = WithoutMember(q) => (Member(p)' <=> (Member(p) /\ p # q))
           /\ WithMember(q) \in [Fans -> SUBSET Authors]
           /\ WithoutMember(q) \in [Fans -> SUBSET Authors]
<1>1. /\ q = <<q[1], q[2]>> /\ q[1] \in Fans /\ q[2] \in Authors
      /\ p = <<p[1], p[2]>> /\ p[1] \in Fans /\ p[2] \in Authors
  BY DEF Pairs
<1>2. p = q <=> (p[1] = q[1] /\ p[2] = q[2])
  BY <1>1
<1>3. follows \in [Fans -> SUBSET Authors]
  BY DEF FollowTypeOK
<1>4. ASSUME follows' = WithMember(q)
      PROVE  Member(p)' <=> (Member(p) \/ p = q)
  <2>1. follows'[p[1]] = IF p[1] = q[1] THEN follows[p[1]] \cup {q[2]} ELSE follows[p[1]]
    BY <1>1, <1>3, <1>4 DEF WithMember
  <2> QED
    BY <1>2, <2>1 DEF Member
<1>5. ASSUME follows' = WithoutMember(q)
      PROVE  Member(p)' <=> (Member(p) /\ p # q)
  <2>1. follows'[p[1]] = IF p[1] = q[1] THEN follows[p[1]] \ {q[2]} ELSE follows[p[1]]
    BY <1>1, <1>3, <1>5 DEF WithoutMember
  <2> QED
    BY <1>2, <2>1 DEF Member
<1>6. /\ WithMember(q) \in [Fans -> SUBSET Authors]
      /\ WithoutMember(q) \in [Fans -> SUBSET Authors]
  BY <1>1, <1>3 DEF WithMember, WithoutMember
<1> QED
  BY <1>4, <1>5, <1>6

LEMMA FollowBegins == FollowInit => FollowInv
<1> SUFFICES ASSUME FollowInit
             PROVE  FollowInv
  OBVIOUS
<1>1. FollowTypeOK
  BY FollowBounds DEF FollowInit, FollowTypeOK
<1>2. ASSUME NEW p \in Pairs
      PROVE  PairInv(p)
  <2>1. \A r \in Requests : ~Asking(r, p)
    BY DEF FollowInit, Asking
  <2>2. ~IsFollow(p) /\ ~Member(p) /\ p \notin wanted
    BY DEF FollowInit, IsFollow, Member, Pairs
  <2> QED
    BY <2>1, <2>2 DEF PairInv, AsAsked
<1> QED
  BY <1>1, <1>2 DEF FollowInv

-----------------------------------------------------------------------------
LEMMA AskPreserves ==
    ASSUME FollowInv, NEW r \in Requests, NEW q \in Pairs, NEW w \in {"follow", "unfollow"}, Ask(r, q, w)
    PROVE  FollowInv'
<1> USE DEF Ask, Goto
<1>1. FollowTypeOK'
  BY DEF FollowInv, FollowTypeOK, ActiveOn
<1>2. /\ pc[r] = "idle" /\ pc'[r] = "table" /\ pair'[r] = q /\ isFollow'[r] = w
      /\ \A o \in Requests \ {r} : pc'[o] = pc[o] /\ pair'[o] = pair[o] /\ isFollow'[o] = isFollow[o]
      /\ rows' = rows /\ follows' = follows
  BY DEF FollowInv, FollowTypeOK
<1>3. \A p \in Pairs, o \in Requests : Asking(o, p)' <=> (Asking(o, p) \/ (o = r /\ p = q))
  BY <1>2 DEF Asking
<1>4. ASSUME NEW p \in Pairs, p # q
      PROVE  PairInv(p)'
  <2>1. \A o \in Requests : Asking(o, p) => o # r /\ (o \in overlapped' <=> o \in overlapped)
    BY <1>2, <1>4 DEF Asking, ActiveOn
  <2>2. (p \in wanted' <=> p \in wanted) /\ (p \in unsettled' <=> p \in unsettled)
    BY <1>4
  <2>3. PairInv(p) /\ rows'[p] = rows[p] /\ (Member(p)' <=> Member(p))
    BY <1>2 DEF FollowInv, Member
  <2> QED
    BY <1>2, <1>3, <1>4, <2>1, <2>2, <2>3, FollowFrame
<1>5. PairInv(q)'
  <2>1. AsAsked(q)'
    BY <1>3 DEF AsAsked
  <2>2. CASE ActiveOn(q) = {}
    <3>1. \A o \in Requests : ~Asking(o, q)
      BY <2>2 DEF ActiveOn, Asking
    <3>2. r \notin overlapped' /\ unsettled' = unsettled
      BY <2>2
    <3>3. w = "follow" <=> q \in wanted'
      OBVIOUS
    <3>4. q \notin unsettled => (IsFollow(q)' <=> Member(q)')
      BY <1>2, <3>1 DEF FollowInv, PairInv, AsAsked, IsFollow, Member
    <3>5. AskInStep(r, q)'
      BY <1>2, <1>3, <3>1, <3>2, <3>3, <3>4 DEF AskInStep
    <3> QED
      BY <1>3, <2>1, <3>1, <3>5 DEF PairInv
  <2>3. CASE ActiveOn(q) # {}
    <3>1. q \in unsettled'
      BY <2>3
    <3>2. \A o \in Requests : Asking(o, q)' => o \in overlapped'
      BY <1>3, <2>3 DEF ActiveOn, Asking
    <3> QED
      BY <2>1, <3>1, <3>2 DEF PairInv, AskInStep
  <2> QED
    BY <2>2, <2>3
<1> QED
  BY <1>1, <1>4, <1>5 DEF FollowInv

(***************************************************************************)
(* The steps of a request after the first touch its own pair only.           *)
(***************************************************************************)
LEMMA OtherPairs ==
    ASSUME FollowInv, NEW r \in Requests, NEW p \in Pairs, p # pair[r],
           pair' = pair, isFollow' = isFollow, overlapped' = overlapped, wanted' = wanted,
           \A o \in Requests \ {r} : pc'[o] = pc[o],
           rows'[p] = rows[p],
           Member(p)' <=> Member(p),
           p \in unsettled' <=> p \in unsettled
    PROVE  PairInv(p)'
<1>1. \A o \in Requests : Asking(o, p)' <=> Asking(o, p)
  BY DEF Asking
<1>2. \A o \in Requests : Asking(o, p) => o # r
  BY DEF Asking
<1> QED
  BY <1>1, <1>2, FollowFrame DEF FollowInv

LEMMA InsertRowPreserves ==
    ASSUME FollowInv, NEW r \in Requests, InsertRow(r)
    PROVE  FollowInv'
<1> DEFINE q == pair[r]
<1> USE DEF InsertRow, Goto
<1>1. FollowTypeOK'
  BY DEF FollowInv, FollowTypeOK
<1>2. /\ pc'[r] = "set" /\ \A o \in Requests \ {r} : pc'[o] = pc[o]
      /\ q \in Pairs /\ rows'[q] = rows[q] + 1 /\ rows[q] \in Nat
      /\ \A p \in Pairs : p # q => rows'[p] = rows[p]
  BY DEF FollowInv, FollowTypeOK
<1>3. \A p \in Pairs : p # q => PairInv(p)'
  BY <1>2, OtherPairs DEF Member
<1>4. \A p \in Pairs, o \in Requests : Asking(o, p)' <=> Asking(o, p)
  BY <1>2 DEF Asking
<1>5. IsFollow(q)' /\ Asking(r, q)
  BY <1>2 DEF IsFollow, Asking
<1>6. AsAsked(q)'
  BY <1>2, <1>4, <1>5 DEF AsAsked
<1>7. ASSUME NEW o \in Requests, Asking(o, q)'
      PROVE  AskInStep(o, q)'
  <2>1. AskInStep(o, q)
    BY <1>2, <1>4, <1>7 DEF FollowInv, PairInv
  <2>2. CASE o = r
    BY <1>2, <1>4, <1>5, <2>1, <2>2 DEF AskInStep
  <2>3. CASE o # r
    BY <1>4, <1>5, <2>1, <2>3 DEF AskInStep
  <2> QED
    BY <2>2, <2>3
<1> QED
  BY <1>1, <1>3, <1>6, <1>7 DEF FollowInv, PairInv

LEMMA DeleteRowsPreserves ==
    ASSUME FollowInv, NEW r \in Requests, DeleteRows(r)
    PROVE  FollowInv'
<1> DEFINE q == pair[r]
<1> USE DEF DeleteRows, Goto, Left
<1>1. FollowTypeOK'
  BY DEF FollowInv, FollowTypeOK
<1>2. /\ pc'[r] = (IF rows[q] > 0 THEN "set" ELSE "idle")
      /\ \A o \in Requests \ {r} : pc'[o] = pc[o]
      /\ q \in Pairs /\ rows'[q] = 0 /\ rows[q] \in Nat
      /\ \A p \in Pairs : p # q => rows'[p] = rows[p]
  BY DEF FollowInv, FollowTypeOK
<1>3. \A p \in Pairs : p # q => PairInv(p)'
  BY <1>2, OtherPairs DEF Member
<1>4. \A p \in Pairs, o \in Requests : Asking(o, p)' => Asking(o, p)
  BY <1>2 DEF Asking
<1>5. ~IsFollow(q)' /\ Asking(r, q) /\ (Member(q)' <=> Member(q))
  BY <1>2 DEF IsFollow, Asking, Member
<1>6. AskInStep(r, q)
  BY <1>2, <1>5 DEF FollowInv, PairInv
<1>7. AsAsked(q)'
  <2> SUFFICES ASSUME q \notin unsettled, \A o \in Requests : ~Asking(o, q)'
               PROVE  ~Member(q) /\ q \notin wanted
    BY <1>5 DEF AsAsked
  <2>1. r \notin overlapped
    BY <1>6 DEF AskInStep
  <2>2. ~IsFollow(q)
    <3>1. ~Asking(r, q)'
      OBVIOUS
    <3> QED
      BY <1>2, <3>1 DEF Asking, IsFollow
  <2> QED
    BY <1>6, <2>1, <2>2 DEF AskInStep
<1>8. ASSUME NEW o \in Requests, Asking(o, q)'
      PROVE  AskInStep(o, q)'
  <2>1. AskInStep(o, q)
    BY <1>2, <1>4, <1>8 DEF FollowInv, PairInv
  <2>2. CASE o = r
    BY <1>2, <1>4, <1>5, <2>1, <2>2 DEF AskInStep
  <2>3. CASE o # r
    BY <1>4, <1>5, <2>1, <2>3 DEF AskInStep
  <2> QED
    BY <2>2, <2>3
<1> QED
  BY <1>1, <1>3, <1>7, <1>8 DEF FollowInv, PairInv

LEMMA AddMemberPreserves ==
    ASSUME FollowInv, NEW r \in Requests, AddMember(r)
    PROVE  FollowInv'
<1> DEFINE q == pair[r]
<1> USE DEF AddMember, Goto
<1>1. q \in Pairs
  BY DEF FollowInv, FollowTypeOK
<1>2. FollowTypeOK'
  BY <1>1, Members DEF FollowInv, FollowTypeOK
<1>3. /\ pc'[r] = "idle" /\ \A o \in Requests \ {r} : pc'[o] = pc[o]
      /\ rows' = rows
      /\ \A p \in Pairs : Member(p)' <=> (Member(p) \/ p = q)
  BY <1>1, Members DEF FollowInv, FollowTypeOK
<1>4. \A p \in Pairs : p # q => PairInv(p)'
  BY <1>1, <1>3, OtherPairs
<1>5. \A o \in Requests : Asking(o, q)' <=> (Asking(o, q) /\ o # r)
  BY <1>3 DEF Asking
<1>6. AskInStep(r, q)
  BY <1>1 DEF FollowInv, PairInv, Asking
<1>7. CASE r \in overlapped
  <2>1. q \in unsettled /\ unsettled' = unsettled
    BY <1>6, <1>7 DEF AskInStep
  <2>2. ASSUME NEW o \in Requests, Asking(o, q)'
        PROVE  AskInStep(o, q)'
    <3>1. Asking(o, q) /\ o # r
      BY <1>5, <2>2
    <3>2. AskInStep(o, q)
      BY <1>1, <3>1 DEF FollowInv, PairInv
    <3>3. o \in overlapped
      BY <3>1, <3>2 DEF AskInStep, Asking
    <3> QED
      BY <2>1, <3>3 DEF AskInStep
  <2>3. PairInv(q)'
    BY <2>1, <2>2 DEF PairInv, AsAsked
  <2> QED
    BY <1>2, <1>4, <2>3 DEF FollowInv
<1>8. CASE r \notin overlapped
  <2>1. \A o \in Requests : ~Asking(o, q)'
    BY <1>5, <1>6, <1>8 DEF AskInStep
  <2>2. IsFollow(q)' /\ Member(q)' /\ q \in wanted
    BY <1>1, <1>3, <1>6, <1>8 DEF AskInStep, IsFollow
  <2>3. PairInv(q)'
    BY <2>1, <2>2 DEF PairInv, AsAsked
  <2> QED
    BY <1>2, <1>4, <2>3 DEF FollowInv
<1> QED
  BY <1>7, <1>8

LEMMA RemoveMemberPreserves ==
    ASSUME FollowInv, NEW r \in Requests, RemoveMember(r)
    PROVE  FollowInv'
<1> DEFINE q == pair[r]
<1> USE DEF RemoveMember, Goto
<1>1. q \in Pairs
  BY DEF FollowInv, FollowTypeOK
<1>2. FollowTypeOK'
  BY <1>1, Members DEF FollowInv, FollowTypeOK
<1>3. /\ pc'[r] = "idle" /\ \A o \in Requests \ {r} : pc'[o] = pc[o]
      /\ rows' = rows
      /\ \A p \in Pairs : Member(p)' <=> (Member(p) /\ p # q)
  BY <1>1, Members DEF FollowInv, FollowTypeOK
<1>4. \A p \in Pairs : p # q => PairInv(p)'
  BY <1>1, <1>3, OtherPairs
<1>5. \A o \in Requests : Asking(o, q)' <=> (Asking(o, q) /\ o # r)
  BY <1>3 DEF Asking
<1>6. AskInStep(r, q)
  BY <1>1 DEF FollowInv, PairInv, Asking
<1>7. AsAsked(q)'
  <2> SUFFICES ASSUME q \notin unsettled
               PROVE  ~IsFollow(q)' /\ ~Member(q)' /\ q \notin wanted
    BY DEF AsAsked
  <2>1. r \notin overlapped
    BY <1>6 DEF AskInStep
  <2>2. ~IsFollow(q) /\ q \notin wanted
    BY <1>6, <2>1 DEF AskInStep
  <2> QED
    BY <1>1, <1>3, <2>2 DEF IsFollow
<1>8. ASSUME NEW o \in Requests, Asking(o, q)'
      PROVE  AskInStep(o, q)'
  <2>1. Asking(o, q) /\ o # r
    BY <1>5, <1>8
  <2>2. AskInStep(o, q)
    BY <1>1, <2>1 DEF FollowInv, PairInv
  <2>3. o \in overlapped
    BY <2>1, <2>2 DEF AskInStep, Asking
  <2> QED
    BY <2>2, <2>3 DEF AskInStep
<1> QED
  BY <1>2, <1>4, <1>7, <1>8 DEF FollowInv, PairInv

LEMMA FollowFailsPreserves ==
    ASSUME FollowInv, NEW r \in Requests, FollowFails(r)
    PROVE  FollowInv'
<1> DEFINE q == pair[r]
<1> USE DEF FollowFails, Goto
<1>1. q \in Pairs
  BY DEF FollowInv, FollowTypeOK
<1>2. follows' = follows \/ follows' = WithMember(q) \/ follows' = WithoutMember(q)
  OBVIOUS
<1>3. follows' \in [Fans -> SUBSET Authors]
  BY <1>1, <1>2, Members DEF FollowInv, FollowTypeOK
<1>4. failures' \in 0 .. MaxFailures
  BY FollowBounds DEF FollowInv, FollowTypeOK
<1>5. FollowTypeOK'
  BY <1>1, <1>3, <1>4 DEF FollowInv, FollowTypeOK
<1>6. /\ pc'[r] = "idle" /\ \A o \in Requests \ {r} : pc'[o] = pc[o]
      /\ rows' = rows /\ q \in unsettled'
  BY DEF FollowInv, FollowTypeOK
<1>7. \A p \in Pairs : p # q => (Member(p)' <=> Member(p))
  <2>1. CASE follows' = follows
    BY <2>1 DEF Member
  <2>2. CASE follows' = WithMember(q)
    BY <1>1, <2>2, Members DEF FollowInv
  <2>3. CASE follows' = WithoutMember(q)
    BY <1>1, <2>3, Members DEF FollowInv
  <2> QED
    BY <1>2, <2>1, <2>2, <2>3
<1>8. \A p \in Pairs : p # q => PairInv(p)'
  BY <1>1, <1>6, <1>7, OtherPairs
<1>9. ASSUME NEW o \in Requests, Asking(o, q)'
      PROVE  AskInStep(o, q)'
  <2>1. Asking(o, q) /\ o # r /\ Asking(r, q)
    BY <1>6, <1>9 DEF Asking
  <2>2. AskInStep(o, q)
    BY <1>1, <2>1 DEF FollowInv, PairInv
  <2>3. o \in overlapped
    BY <2>1, <2>2 DEF AskInStep
  <2> QED
    BY <1>6, <2>3 DEF AskInStep
<1> QED
  BY <1>5, <1>6, <1>8, <1>9 DEF FollowInv, PairInv, AsAsked

LEMMA FollowKeeps == FollowInv /\ [FollowNext]_followVars => FollowInv'
<1> SUFFICES ASSUME FollowInv, [FollowNext]_followVars
             PROVE  FollowInv'
  OBVIOUS
<1>1. CASE FollowNext
  BY <1>1, AskPreserves, InsertRowPreserves, DeleteRowsPreserves, AddMemberPreserves,
     RemoveMemberPreserves, FollowFailsPreserves DEF FollowNext
<1>2. CASE UNCHANGED followVars
  BY <1>2 DEF followVars, FollowInv, FollowTypeOK, PairInv, AsAsked, AskInStep, Asking, Member, IsFollow
<1> QED
  BY <1>1, <1>2

-----------------------------------------------------------------------------
(***************************************************************************)
(* Every reachable state is well typed.                                      *)
(***************************************************************************)
THEOREM FollowTypeCorrect == FollowSpec => []FollowTypeOK
<1>1. FollowInv => FollowTypeOK
  BY DEF FollowInv
<1> QED
  BY <1>1, FollowBegins, FollowKeeps, PTL DEF FollowSpec

(***************************************************************************)
(* Table and set tell what the user last asked for, whatever the numbers of   *)
(* users, requests, rows and failures (FollowService.Follow).                *)
(***************************************************************************)
THEOREM SettledPairsAreRight == FollowSpec => []SettledAsAsked
BY InvImpliesSettled, FollowBegins, FollowKeeps, PTL DEF FollowSpec

LEMMA InvImpliesCommons == FollowInv => CommonsMatchTable
<1> SUFFICES ASSUME FollowInv, NEW u \in Fans, NEW v \in Fans,
                    \A f \in Authors : Settled(<<u, f>>) /\ Settled(<<v, f>>)
             PROVE  FollowCommons(u, v) = {f \in Authors : IsFollow(<<u, f>>) /\ IsFollow(<<v, f>>)}
  BY DEF CommonsMatchTable
<1>1. SettledAsAsked
  BY InvImpliesSettled
<1>2. ASSUME NEW f \in Authors
      PROVE  /\ f \in follows[u] <=> IsFollow(<<u, f>>)
             /\ f \in follows[v] <=> IsFollow(<<v, f>>)
  BY <1>1 DEF SettledAsAsked, Pairs
<1>3. follows[u] \subseteq Authors /\ follows[v] \subseteq Authors
  BY DEF FollowInv, FollowTypeOK
<1> QED
  BY <1>2, <1>3 DEF FollowCommons

(***************************************************************************)
(* FollowCommons, which asks Redis, and IsFollow, which asks MySQL, agree.    *)
(***************************************************************************)
THEOREM CommonsAreRight == FollowSpec => []CommonsMatchTable
BY InvImpliesCommons, FollowBegins, FollowKeeps, PTL DEF FollowSpec

-----------------------------------------------------------------------------
(* Publishing beside the follow requests. *)
Has(u, b) == b \in inbox[u]

(***************************************************************************)
(* What holds of a blog at each step of its call.  While the followers have   *)
(* not been read, `loyal' is below the followers of the moment and `ever'     *)
(* above them; the query takes its answer from between the two.              *)
(***************************************************************************)
CallInv(b) ==
    /\ step[b] = "new" => \A u \in Fans : ~Has(u, b)
    /\ step[b] \in {"add", "query"} =>
         /\ loyal[b] \subseteq FollowersOf(author[b])
         /\ FollowersOf(author[b]) \subseteq ever[b]
         /\ \A u \in Fans : ~Has(u, b)
    /\ step[b] = "push" => \A u \in loyal[b] : u \in fans[b] \/ Has(u, b)
    /\ step[b] = "push" => fans[b] \subseteq ever[b]
    /\ step[b] = "done" => \A u \in loyal[b] : Has(u, b)
    /\ \A u \in Fans : Has(u, b) => u \in ever[b]

FeedInv == FeedTypeOK /\ \A b \in Blogs : CallInv(b)

-----------------------------------------------------------------------------
LEMMA FeedBegins == Init => FeedInv
<1> SUFFICES ASSUME Init
             PROVE  FeedInv
  OBVIOUS
<1>1. FeedTypeOK
  BY DEF Init, FeedInit, FeedTypeOK
<1>2. ASSUME NEW b \in Blogs
      PROVE  CallInv(b)
  <2>1. step[b] = "new" /\ \A u \in Fans : ~Has(u, b)
    BY DEF Init, FeedInit, Has
  <2> QED
    BY <2>1 DEF CallInv
<1> QED
  BY <1>1, <1>2 DEF FeedInv

(***************************************************************************)
(* A step that leaves the call, its inboxes and the followers of its author   *)
(* alone keeps its invariant.                                               *)
(***************************************************************************)
LEMMA CallFrame ==
    ASSUME FeedTypeOK, NEW b \in Blogs, CallInv(b),
           step'[b] = step[b], fans'[b] = fans[b], author' = author, rows' = rows,
           loyal'[b] = loyal[b], ever'[b] = ever[b],
           \A u \in Fans : Has(u, b)' <=> Has(u, b)
    PROVE  CallInv(b)'
<1>1. FollowersOf(author[b])' = FollowersOf(author[b])
  BY DEF FollowersOf, IsFollow
<1>2. loyal[b] \subseteq Fans
  BY DEF FeedTypeOK
<1> QED
  BY <1>1, <1>2 DEF CallInv

LEMMA PublishPreserves ==
    ASSUME FeedInv, NEW c \in Blogs, Publish(c)
    PROVE  FeedInv'
<1> USE DEF Publish, At
<1>1. FeedTypeOK'
  BY DEF FeedInv, FeedTypeOK, FollowersOf
<1>2. /\ step'[c] = "add" /\ loyal'[c] = FollowersOf(author[c]) /\ ever'[c] = FollowersOf(author[c])
      /\ rows' = rows
      /\ \A b \in Blogs : b # c => step'[b] = step[b] /\ loyal'[b] = loyal[b] /\ ever'[b] = ever[b]
  BY DEF FeedInv, FeedTypeOK, followVars
<1>3. FollowersOf(author[c])' = FollowersOf(author[c])
  BY <1>2 DEF FollowersOf, IsFollow
<1>4. \A b \in Blogs : b # c => CallInv(b)'
  BY <1>2, CallFrame DEF FeedInv, Has
<1>5. \A u \in Fans : ~Has(u, c)'
  BY DEF FeedInv, CallInv, Has
<1>6. CallInv(c)'
  BY <1>2, <1>3, <1>5 DEF CallInv
<1> QED
  BY <1>1, <1>4, <1>6 DEF FeedInv

LEMMA AddBlogPreserves ==
    ASSUME FeedInv, NEW c \in Blogs, AddBlog(c)
    PROVE  FeedInv'
<1> USE DEF AddBlog, At
<1>1. FeedTypeOK'
  BY DEF FeedInv, FeedTypeOK
<1>2. /\ step[c] = "add" /\ step'[c] = "query" /\ rows' = rows
      /\ \A b \in Blogs : b # c => step'[b] = step[b]
  BY DEF FeedInv, FeedTypeOK, followVars
<1>3. FollowersOf(author[c])' = FollowersOf(author[c])
  BY <1>2 DEF FollowersOf, IsFollow
<1>4. \A b \in Blogs : b # c => CallInv(b)'
  BY <1>2, CallFrame DEF FeedInv, Has
<1>5. CallInv(c)'
  BY <1>2, <1>3 DEF FeedInv, CallInv, Has
<1> QED
  BY <1>1, <1>4, <1>5 DEF FeedInv

LEMMA QueryFansPreserves ==
    ASSUME FeedInv, NEW c \in Blogs, QueryFans(c)
    PROVE  FeedInv'
<1> USE DEF QueryFans, At, Found
<1>1. FeedTypeOK'
  BY DEF FeedInv, FeedTypeOK, FollowersOf
<1>2. /\ step[c] = "query" /\ rows' = rows /\ fans'[c] = FollowersOf(author[c])
      /\ step'[c] = (IF FollowersOf(author[c]) = {} THEN "done" ELSE "push")
      /\ \A b \in Blogs : b # c => step'[b] = step[b] /\ fans'[b] = fans[b]
  BY DEF FeedInv, FeedTypeOK, followVars
<1>3. \A b \in Blogs : b # c => CallInv(b)'
  BY <1>2, CallFrame DEF FeedInv, Has
<1>4. loyal[c] \subseteq FollowersOf(author[c]) /\ FollowersOf(author[c]) \subseteq ever[c]
  BY <1>2 DEF FeedInv, CallInv
<1>5. \A u \in Fans : ~Has(u, c)'
  BY <1>2 DEF FeedInv, CallInv, Has
<1>6. CallInv(c)'
  BY <1>2, <1>4, <1>5 DEF CallInv
<1> QED
  BY <1>1, <1>3, <1>6 DEF FeedInv

LEMMA PushToPreserves ==
    ASSUME FeedInv, NEW c \in Blogs, NEW u \in Fans, PushTo(c, u)
    PROVE  FeedInv'
<1> USE DEF PushTo, At
<1>1. FeedTypeOK'
  BY DEF FeedInv, FeedTypeOK
<1>2. /\ step[c] = "push" /\ u \in fans[c] /\ rows' = rows /\ fans'[c] = fans[c] \ {u}
      /\ step'[c] = (IF fans[c] = {u} THEN "done" ELSE "push")
      /\ \A b \in Blogs : b # c => step'[b] = step[b] /\ fans'[b] = fans[b]
  BY DEF FeedInv, FeedTypeOK, followVars
<1>3. \A b \in Blogs, w \in Fans : Has(w, b)' <=> (Has(w, b) \/ (w = u /\ b = c))
  BY DEF FeedInv, FeedTypeOK, Has
<1>4. \A b \in Blogs : b # c => CallInv(b)'
  BY <1>2, <1>3, CallFrame DEF FeedInv
<1>5. loyal[c] \subseteq Fans /\ fans[c] \subseteq ever[c]
  BY <1>2 DEF FeedInv, FeedTypeOK, CallInv
<1>6. \A w \in loyal[c] : w \in fans'[c] \/ Has(w, c)'
  BY <1>2, <1>3, <1>5 DEF FeedInv, CallInv
<1>7. \A w \in Fans : Has(w, c)' => w \in ever[c]
  BY <1>2, <1>3, <1>5 DEF FeedInv, CallInv
<1>8. CallInv(c)'
  BY <1>2, <1>5, <1>6, <1>7 DEF CallInv
<1> QED
  BY <1>1, <1>4, <1>8 DEF FeedInv

LEMMA SaveFailsPreserves ==
    ASSUME FeedInv, NEW c \in Blogs, SaveFails(c)
    PROVE  FeedInv'
<1> USE DEF SaveFails
<1>1. FeedTypeOK'
  BY DEF FeedInv, FeedTypeOK
<1>2. /\ step'[c] = "failed"
      /\ \A b \in Blogs : b # c => step'[b] = step[b] /\ fans'[b] = fans[b]
  BY DEF FeedInv, FeedTypeOK
<1>3. \A b \in Blogs : b # c => CallInv(b)'
  BY <1>2, CallFrame DEF FeedInv, Has
<1>4. CallInv(c)'
  BY <1>2 DEF FeedInv, CallInv, Has
<1> QED
  BY <1>1, <1>3, <1>4 DEF FeedInv

LEMMA FollowStepPreserves ==
    ASSUME FeedInv, FollowStep
    PROVE  FeedInv'
<1> USE DEF FollowStep
<1>1. \A b \in Blogs : FollowersOf(author[b])' \subseteq Fans
  BY DEF FollowersOf
<1>2. FeedTypeOK'
  BY <1>1 DEF FeedInv, FeedTypeOK
<1>3. ASSUME NEW b \in Blogs
      PROVE  CallInv(b)'
  <2>1. /\ CallInv(b) /\ step'[b] = step[b] /\ fans'[b] = fans[b]
        /\ \A u \in Fans : Has(u, b)' <=> Has(u, b)
    BY DEF FeedInv, Has
  <2>2. CASE step[b] \in {"add", "query"}
    <3>1. /\ loyal'[b] \subseteq FollowersOf(author[b])'
          /\ FollowersOf(author[b])' \subseteq ever'[b]
          /\ ever[b] \subseteq ever'[b]
      BY <2>2
    <3> QED
      BY <2>1, <2>2, <3>1 DEF CallInv
  <2>3. CASE step[b] \notin {"add", "query"}
    <3>1. loyal'[b] = loyal[b] /\ ever'[b] = ever[b]
      BY <2>3
    <3>2. loyal[b] \subseteq Fans
      BY DEF FeedInv, FeedTypeOK
    <3> QED
      BY <2>1, <2>3, <3>1, <3>2 DEF CallInv
  <2> QED
    BY <2>2, <2>3
<1> QED
  BY <1>2, <1>3 DEF FeedInv

LEMMA FeedKeeps == FeedInv /\ [Next]_allVars => FeedInv'
<1> SUFFICES ASSUME FeedInv, [Next]_allVars
             PROVE  FeedInv'
  OBVIOUS
<1>1. CASE Next
  BY <1>1, FollowStepPreserves, PublishPreserves, AddBlogPreserves, QueryFansPreserves,
     PushToPreserves, SaveFailsPreserves DEF Next
<1>2. CASE UNCHANGED allVars
  <2>1. rows' = rows /\ UNCHANGED feedVars
    BY <1>2 DEF allVars, followVars
  <2>2. \A b \in Blogs : CallInv(b)'
    BY <2>1, CallFrame DEF feedVars, FeedInv, Has
  <2> QED
    BY <2>1, <2>2 DEF feedVars, FeedInv, FeedTypeOK
<1> QED
  BY <1>1, <1>2

-----------------------------------------------------------------------------
(***************************************************************************)
(* Every reachable state of a publication is well typed.                     *)
(***************************************************************************)
THEOREM FeedTypeCorrect == Spec => []FeedTypeOK
<1>1. FeedInv => FeedTypeOK
  BY DEF FeedInv
<1> QED
  BY <1>1, FeedBegins, FeedKeeps, PTL DEF Spec

(***************************************************************************)
(* SaveBlog reaches everyone who followed its author all along, and nobody    *)
(* who did not follow him at some moment of the call, whatever the numbers of *)
(* users, blogs, concurrent follow requests and failures.                    *)
(***************************************************************************)
THEOREM FansAreServed == Spec => []FansServed
<1>1. FeedInv => LoyalFansServed
  BY DEF FeedInv, CallInv, LoyalFansServed, Has
<1>2. FeedInv => OnlyFansServed
  BY DEF FeedInv, CallInv, OnlyFansServed, Has
<1>3. FeedInv => FansServed
  BY <1>1, <1>2 DEF FansServed
<1> QED
  BY <1>3, FeedBegins, FeedKeeps, PTL DEF Spec

-----------------------------------------------------------------------------
(* Likes. *)
Clicking(r, b) == likePc[r] # "idle" /\ click[r].blog = b

\* The number of likers when request r, alone on its blog, will have ended
\* its write to the sorted set is `liked'; before its UPDATE it still is.
ClickInStep(r) ==
    LET b == click[r].blog
        n == Cardinality(likers[b])
    IN  /\ likePc[r] \in {"like", "write+", "zadd"} => click[r].user \notin likers[b]
        /\ likePc[r] \in {"unlike", "write-", "zrem"} => click[r].user \in likers[b]
        /\ likePc[r] \in {"like", "unlike", "write+", "write-"} => liked[b] = n
        /\ likePc[r] \in {"write+", "write-"} => copy[r] = n
        /\ likePc[r] = "zadd" => liked[b] = n + 1
        /\ likePc[r] = "zrem" => liked[b] = n - 1

Alone ==
    \A b \in LikeBlogs \ raced : \A r, o \in Clicks : Clicking(r, b) /\ Clicking(o, b) => r = o

(***************************************************************************)
(* The inductive invariant: on a blog that never saw an overlap or a failed  *)
(* call at most one request is under way, and it keeps count.               *)
(***************************************************************************)
LikeInv ==
    /\ LikeTypeOK
    /\ Alone
    /\ \A r \in Clicks : (likePc[r] # "idle" /\ click[r].blog \notin raced) => ClickInStep(r)
    /\ CountWrongOnlyIfRaced

-----------------------------------------------------------------------------
LEMMA LikersFinite ==
    ASSUME LikeTypeOK, NEW b \in LikeBlogs
    PROVE  /\ IsFiniteSet(likers[b])
           /\ Cardinality(likers[b]) \in Nat
           /\ Cardinality(likers[b]) <= Cardinality(Users)
           /\ Cardinality(Users) \in Nat
<1>1. likers[b] \subseteq Users
  BY DEF LikeTypeOK
<1> QED
  BY <1>1, UsersAssumption, FS_Subset, FS_CardinalityType

LEMMA LikersWithUser ==
    ASSUME LikeTypeOK, NEW b \in LikeBlogs, NEW u \in Users
    PROVE  /\ u \notin likers[b] =>
                 /\ Cardinality(likers[b] \cup {u}) = Cardinality(likers[b]) + 1
                 /\ Cardinality(likers[b]) + 1 <= Cardinality(Users)
           /\ u \in likers[b] => /\ Cardinality(likers[b] \ {u}) = Cardinality(likers[b]) - 1
                                 /\ Cardinality(likers[b]) >= 1
<1>1. IsFiniteSet(likers[b]) /\ Cardinality(likers[b]) \in Nat
  BY LikersFinite
<1>2. ASSUME u \notin likers[b]
      PROVE  Cardinality(likers[b] \cup {u}) = Cardinality(likers[b]) + 1
  BY <1>1, <1>2, FS_AddElement
<1>3. likers[b] \cup {u} \subseteq Users
  BY DEF LikeTypeOK
<1>4. Cardinality(likers[b] \cup {u}) <= Cardinality(Users)
  BY <1>3, UsersAssumption, FS_Subset
<1>5. ASSUME u \in likers[b]
      PROVE  /\ Cardinality(likers[b] \ {u}) = Cardinality(likers[b]) - 1
             /\ Cardinality(likers[b]) >= 1
  <2>1. Cardinality(likers[b] \ {u}) = Cardinality(likers[b]) - 1
    BY <1>1, <1>5, FS_RemoveElement
  <2>2. IsFiniteSet(likers[b] \ {u})
    BY <1>1, <1>5, FS_RemoveElement
  <2>3. Cardinality(likers[b] \ {u}) \in Nat
    BY <2>2, FS_CardinalityType
  <2> QED
    BY <1>1, <2>1, <2>3
<1> QED
  BY <1>2, <1>4, <1>5

LEMMA LikeBegins == LikeInit => LikeInv
<1> SUFFICES ASSUME LikeInit
             PROVE  LikeInv
  OBVIOUS
<1>1. (CHOOSE c \in Click : TRUE) \in Click
  <2>1. PICK u \in Users, b \in LikeBlogs : TRUE
    BY UsersAssumption, LikeBlogsAssumption
  <2>2. [user |-> u, blog |-> b] \in Click
    BY DEF Click
  <2> QED
    BY <2>2
<1>2. 0 \in 0 .. Width - 1
  BY WidthAssumption, UsersAssumption, FS_CardinalityType
<1>3. LikeTypeOK
  BY <1>1, <1>2, MaxLikeFaultsAssumption DEF LikeInit, LikeTypeOK
<1>4. Alone /\ \A r \in Clicks : likePc[r] = "idle"
  BY DEF LikeInit, Alone, Clicking
<1>5. CountWrongOnlyIfRaced
  BY FS_EmptySet DEF LikeInit, CountWrongOnlyIfRaced
<1> QED
  BY <1>3, <1>4, <1>5 DEF LikeInv

-----------------------------------------------------------------------------
LEMMA CheckScorePreserves ==
    ASSUME LikeInv, NEW r \in Clicks, NEW u \in Users, NEW b \in LikeBlogs, CheckScore(r, u, b)
    PROVE  LikeInv'
<1> USE DEF CheckScore, LikeGoto, ToggleFrom, Likes
<1>1. LikeTypeOK'
  BY DEF LikeInv, LikeTypeOK, Click
<1>2. \A o \in Clicks : o # r => likePc'[o] = likePc[o] /\ click'[o] = click[o]
  BY DEF LikeInv, LikeTypeOK
<1>3. /\ click'[r] = [user |-> u, blog |-> b]
      /\ likePc'[r] = IF u \in likers[b] THEN "unlike" ELSE "like"
  BY DEF LikeInv, LikeTypeOK
<1>4. raced \subseteq raced'
  OBVIOUS
<1>5. ASSUME b \notin raced'
      PROVE  \A o \in Clicks : ~Clicking(o, b)
  BY <1>5 DEF Clicking
<1>6. Alone'
  BY <1>2, <1>3, <1>4, <1>5 DEF LikeInv, Alone, Clicking
<1>7. ASSUME NEW o \in Clicks, likePc'[o] # "idle", click'[o].blog \notin raced'
      PROVE  ClickInStep(o)'
  <2>1. CASE o = r
    <3>1. liked[b] = Cardinality(likers[b])
      BY <1>3, <1>5, <1>7, <2>1 DEF LikeInv, CountWrongOnlyIfRaced, Quiet, Clicking
    <3> QED
      BY <3>1, <1>3, <2>1 DEF ClickInStep
  <2>2. CASE o # r
    BY <1>2, <1>4, <1>7, <2>2 DEF LikeInv, ClickInStep
  <2> QED
    BY <2>1, <2>2
<1>8. CountWrongOnlyIfRaced'
  BY <1>2, <1>3, <1>4 DEF LikeInv, CountWrongOnlyIfRaced, Quiet, LikeTypeOK
<1> QED
  BY <1>1, <1>6, <1>7, <1>8 DEF LikeInv

LEMMA ReadBlogPreserves ==
    ASSUME LikeInv, NEW r \in Clicks, ReadBlog(r)
    PROVE  LikeInv'
<1> USE DEF ReadBlog, LikeGoto
<1>1. LikeTypeOK'
  BY DEF LikeInv, LikeTypeOK, Click
<1>2. \A o \in Clicks : o # r => likePc'[o] = likePc[o] /\ copy'[o] = copy[o]
  BY DEF LikeInv, LikeTypeOK
<1>3. /\ copy'[r] = liked[click[r].blog]
      /\ likePc'[r] = IF likePc[r] = "like" THEN "write+" ELSE "write-"
  BY DEF LikeInv, LikeTypeOK
<1>4. \A o \in Clicks : likePc'[o] # "idle" <=> likePc[o] # "idle"
  BY <1>2, <1>3
<1>5. Alone'
  BY <1>4 DEF LikeInv, Alone, Clicking
<1>6. ASSUME NEW o \in Clicks, likePc'[o] # "idle", click'[o].blog \notin raced'
      PROVE  ClickInStep(o)'
  <2>1. ClickInStep(o)
    BY <1>4, <1>6 DEF LikeInv
  <2> QED
    BY <1>2, <1>3, <2>1 DEF ClickInStep
<1>7. CountWrongOnlyIfRaced'
  BY <1>4 DEF LikeInv, CountWrongOnlyIfRaced, Quiet
<1> QED
  BY <1>1, <1>5, <1>6, <1>7 DEF LikeInv

\* What the UPDATE writes is in the range of the column.
LEMMA NewCountInRange ==
    ASSUME LikeTypeOK, NEW r \in Clicks
    PROVE  NewCount(r) \in 0 .. Width - 1
<1>1. copy[r] \in Int /\ Width \in Nat /\ Width > 0
  BY WidthAssumption, UsersAssumption, FS_CardinalityType DEF LikeTypeOK
<1>2. \A n \in Int : n % Width \in 0 .. Width - 1
  BY <1>1
<1> QED
  BY <1>1, <1>2 DEF NewCount

\* A request alone on its blog writes the count without wrapping around.
LEMMA NewCountExact ==
    ASSUME LikeTypeOK, NEW r \in Clicks, ClickInStep(r), likePc[r] \in {"write+", "write-"}
    PROVE  NewCount(r) = IF likePc[r] = "write+"
                         THEN Cardinality(likers[click[r].blog]) + 1
                         ELSE Cardinality(likers[click[r].blog]) - 1
<1>1. click[r].user \in Users /\ click[r].blog \in LikeBlogs
  BY DEF LikeTypeOK, Click
<1> DEFINE n == Cardinality(likers[click[r].blog])
<1>2. n \in Nat /\ Cardinality(Users) \in Nat
  BY <1>1, LikersFinite
<1>3. likePc[r] = "write+" => n + 1 <= Cardinality(Users)
  BY <1>1, LikersWithUser DEF ClickInStep
<1>4. likePc[r] = "write-" => n >= 1 /\ n <= Cardinality(Users)
  BY <1>1, LikersWithUser, LikersFinite DEF ClickInStep
<1>5. copy[r] = n
  BY DEF ClickInStep
<1>6. \A k \in Nat : k < Width => k % Width = k
  BY WidthAssumption
<1> HIDE DEF n
<1>7. CASE likePc[r] = "write+"
  <2>1. n + 1 \in Nat /\ n + 1 < Width
    BY <1>2, <1>3, <1>7, WidthAssumption
  <2> QED
    BY <1>5, <1>6, <1>7, <2>1 DEF NewCount, n
<1>8. CASE likePc[r] = "write-"
  <2>1. n - 1 \in Nat /\ n - 1 < Width
    BY <1>2, <1>4, <1>8, WidthAssumption
  <2> QED
    BY <1>5, <1>6, <1>8, <2>1 DEF NewCount, n
<1> QED
  BY <1>7, <1>8

LEMMA WriteBlogPreserves ==
    ASSUME LikeInv, NEW r \in Clicks, WriteBlog(r)
    PROVE  LikeInv'
<1> USE DEF WriteBlog, LikeGoto
<1>0. LikeTypeOK /\ click[r].blog \in LikeBlogs
  BY DEF LikeInv, LikeTypeOK, Click
<1>1. LikeTypeOK'
  BY <1>0, NewCountInRange DEF LikeTypeOK
<1>2. \A o \in Clicks : o # r => likePc'[o] = likePc[o]
  BY <1>0 DEF LikeTypeOK
<1>3. likePc'[r] = IF likePc[r] = "write+" THEN "zadd" ELSE "zrem"
  BY <1>0 DEF LikeTypeOK
<1>4. \A o \in Clicks : likePc'[o] # "idle" <=> likePc[o] # "idle"
  BY <1>2, <1>3
<1>5. /\ liked'[click[r].blog] = NewCount(r)
      /\ \A b \in LikeBlogs : b # click[r].blog => liked'[b] = liked[b]
  BY <1>0 DEF LikeTypeOK
<1>6. Alone'
  BY <1>4 DEF LikeInv, Alone, Clicking
<1>7. ASSUME NEW o \in Clicks, likePc'[o] # "idle", click'[o].blog \notin raced'
      PROVE  ClickInStep(o)'
  <2>1. ClickInStep(o) /\ click[o].blog \in LikeBlogs
    BY <1>0, <1>4, <1>7 DEF LikeInv, LikeTypeOK, Click
  <2>2. CASE o = r
    <3>1. NewCount(r) = IF likePc[r] = "write+"
                        THEN Cardinality(likers[click[r].blog]) + 1
                        ELSE Cardinality(likers[click[r].blog]) - 1
      BY <1>0, <2>1, <2>2, NewCountExact
    <3> QED
      BY <1>3, <1>5, <2>1, <2>2, <3>1 DEF ClickInStep
  <2>3. CASE o # r
    <3>1. click[o].blog # click[r].blog
      BY <1>7, <1>4, <2>1, <2>3 DEF LikeInv, Alone, Clicking
    <3> QED
      BY <1>2, <1>5, <2>1, <2>3, <3>1 DEF ClickInStep
  <2> QED
    BY <2>2, <2>3
<1>8. CountWrongOnlyIfRaced'
  <2> SUFFICES ASSUME NEW b \in LikeBlogs, Quiet(b)', b \notin raced'
               PROVE  liked'[b] = Cardinality(likers'[b])
    BY DEF CountWrongOnlyIfRaced
  <2>1. Quiet(b) /\ b # click[r].blog
    BY <1>4 DEF Quiet
  <2> QED
    BY <1>5, <2>1 DEF LikeInv, CountWrongOnlyIfRaced
<1> QED
  BY <1>1, <1>6, <1>7, <1>8 DEF LikeInv

LEMMA WriteSetPreserves ==
    ASSUME LikeInv, NEW r \in Clicks, WriteSet(r)
    PROVE  LikeInv'
<1> USE DEF WriteSet, LikeGoto
<1>0. LikeTypeOK /\ click[r].blog \in LikeBlogs /\ click[r].user \in Users
  BY DEF LikeInv, LikeTypeOK, Click
<1>1. LikeTypeOK'
  <2>1. 0 \in 0 .. Width - 1
    BY WidthAssumption, UsersAssumption, FS_CardinalityType
  <2> QED
    BY <1>0, <2>1 DEF LikeTypeOK, NewLikers
<1>2. \A o \in Clicks : o # r => likePc'[o] = likePc[o] /\ copy'[o] = copy[o]
  BY <1>0 DEF LikeTypeOK
<1>3. likePc'[r] = "idle"
  BY <1>0 DEF LikeTypeOK
<1>4. /\ likers'[click[r].blog] = NewLikers(r)
      /\ \A b \in LikeBlogs : b # click[r].blog => likers'[b] = likers[b]
  BY <1>0 DEF LikeTypeOK
<1>5. Alone'
  BY <1>2, <1>3 DEF LikeInv, Alone, Clicking
<1>6. ASSUME NEW o \in Clicks, likePc'[o] # "idle", click'[o].blog \notin raced'
      PROVE  ClickInStep(o)'
  <2>1. o # r /\ ClickInStep(o) /\ click[o].blog \in LikeBlogs
    BY <1>0, <1>2, <1>3, <1>6 DEF LikeInv, LikeTypeOK, Click
  <2>2. click[o].blog # click[r].blog
    BY <1>2, <1>6, <2>1 DEF LikeInv, Alone, Clicking
  <2> QED
    BY <1>2, <1>4, <2>1, <2>2 DEF ClickInStep
<1>7. CountWrongOnlyIfRaced'
  <2> SUFFICES ASSUME NEW b \in LikeBlogs, Quiet(b)', b \notin raced'
               PROVE  liked'[b] = Cardinality(likers'[b])
    BY DEF CountWrongOnlyIfRaced
  <2>1. CASE b = click[r].blog
    <3>1. ClickInStep(r)
      BY <2>1 DEF LikeInv
    <3> QED
      BY <1>0, <1>4, <2>1, <3>1, LikersWithUser, LikersFinite DEF ClickInStep, NewLikers
  <2>2. CASE b # click[r].blog
    <3>1. Quiet(b)
      BY <1>2, <1>3, <2>2 DEF Quiet
    <3> QED
      BY <1>4, <2>2, <3>1 DEF LikeInv, CountWrongOnlyIfRaced
  <2> QED
    BY <2>1, <2>2
<1> QED
  BY <1>1, <1>5, <1>6, <1>7 DEF LikeInv

LEMMA LikeFailsPreserves ==
    ASSUME LikeInv, NEW r \in Clicks, LikeFails(r)
    PROVE  LikeInv'
<1>0. LikeTypeOK /\ click[r].blog \in LikeBlogs /\ click[r].user \in Users
  BY DEF LikeInv, LikeTypeOK, Click
<1>1. /\ likeFaults' \in 0 .. MaxLikeFaults
      /\ likePc[r] # "idle"
      /\ likePc' = [likePc EXCEPT ![r] = "idle"]
      /\ copy' = [copy EXCEPT ![r] = 0]
      /\ raced' = raced \cup {click[r].blog}
      /\ click' = click
  BY <1>0, MaxLikeFaultsAssumption DEF LikeFails, LikeGoto, LikeTypeOK
<1>2. /\ liked' \in [LikeBlogs -> 0 .. Width - 1] /\ likers' \in [LikeBlogs -> SUBSET Users]
      /\ \A b \in LikeBlogs : b # click[r].blog => liked'[b] = liked[b] /\ likers'[b] = likers[b]
  <2>1. CASE UNCHANGED <<liked, likers>>
    BY <1>0, <2>1 DEF LikeTypeOK
  <2>2. CASE liked' = [liked EXCEPT ![click[r].blog] = NewCount(r)] /\ UNCHANGED likers
    BY <1>0, <2>2, NewCountInRange DEF LikeTypeOK
  <2>3. CASE likers' = [likers EXCEPT ![click[r].blog] = NewLikers(r)] /\ UNCHANGED liked
    BY <1>0, <2>3 DEF LikeTypeOK, NewLikers
  <2> QED
    BY <2>1, <2>2, <2>3 DEF LikeFails
<1>3. LikeTypeOK'
  <2>1. 0 \in 0 .. Width - 1
    BY WidthAssumption, UsersAssumption, FS_CardinalityType
  <2> QED
    BY <1>0, <1>1, <1>2, <2>1 DEF LikeTypeOK
<1>4. /\ likePc'[r] = "idle"
      /\ \A o \in Clicks : o # r => likePc'[o] = likePc[o] /\ copy'[o] = copy[o]
  BY <1>0, <1>1 DEF LikeTypeOK
<1>5. Alone'
  BY <1>1, <1>4 DEF LikeInv, Alone, Clicking
<1>6. ASSUME NEW o \in Clicks, likePc'[o] # "idle", click'[o].blog \notin raced'
      PROVE  ClickInStep(o)'
  <2>1. o # r /\ click[o].blog # click[r].blog /\ ClickInStep(o) /\ click[o].blog \in LikeBlogs
    BY <1>0, <1>1, <1>4, <1>6 DEF LikeInv, LikeTypeOK, Click
  <2> QED
    BY <1>1, <1>2, <1>4, <2>1 DEF ClickInStep
<1>7. CountWrongOnlyIfRaced'
  <2> SUFFICES ASSUME NEW b \in LikeBlogs, Quiet(b)', b \notin raced'
               PROVE  liked'[b] = Cardinality(likers'[b])
    BY DEF CountWrongOnlyIfRaced
  <2>1. b # click[r].blog /\ b \notin raced
    BY <1>1
  <2>2. Quiet(b)
    BY <1>1, <1>4, <2>1 DEF Quiet
  <2> QED
    BY <1>2, <2>1, <2>2 DEF LikeInv, CountWrongOnlyIfRaced
<1> QED
  BY <1>3, <1>5, <1>6, <1>7 DEF LikeInv

LEMMA LikeKeeps == LikeInv /\ [LikeNext]_likeVars => LikeInv'
<1> SUFFICES ASSUME LikeInv, [LikeNext]_likeVars
             PROVE  LikeInv'
  OBVIOUS
<1>1. CASE UNCHANGED likeVars
  BY <1>1 DEF likeVars, LikeInv, LikeTypeOK, Alone, Clicking, ClickInStep, CountWrongOnlyIfRaced, Quiet
<1>2. CASE LikeNext
  BY <1>2, CheckScorePreserves, ReadBlogPreserves, WriteBlogPreserves, WriteSetPreserves,
     LikeFailsPreserves DEF LikeNext
<1> QED
  BY <1>1, <1>2

\* LikeInv holds in every reachable state.
THEOREM LikeInductive == LikeSpec => []LikeInv
BY LikeBegins, LikeKeeps, PTL DEF LikeSpec

\* Every reachable state of the likes is well typed: `liked' never leaves the
\* range of its column.
THEOREM LikeTypeCorrect == LikeSpec => []LikeTypeOK
<1>1. LikeInv => LikeTypeOK
  BY DEF LikeInv
<1> QED
  BY LikeInductive, <1>1, PTL

\* The count of likes goes wrong only for a blog on which requests overlapped
\* or a call failed.
THEOREM CountsWhenAlone == LikeSpec => []CountWrongOnlyIfRaced
<1>1. LikeInv => CountWrongOnlyIfRaced
  BY DEF LikeInv
<1> QED
  BY LikeInductive, <1>1, PTL

-----------------------------------------------------------------------------
(* The shop cache. *)
(***************************************************************************)
(* The inductive invariant.  What is read is committed because the row is;   *)
(* what is filled is what was read.                                         *)
(***************************************************************************)
ShopInv ==
    /\ ShopTypeOK
    /\ row \in past
    /\ OnlyCommittedShown

\* No request is a reader and a writer at once, so Goto and held are apart.
LEMMA ReaderIsNoWriter ==
    ASSUME NEW r \in Readers, NEW w \in Writers
    PROVE  r # w
BY ShopRequestsAssumption

LEMMA ShopBegins == ShopInit => ShopInv
BY ShopBoundsAssumption DEF ShopInit, ShopInv, ShopTypeOK, OnlyCommittedShown, ShopRows, ShopRequests

LEMMA ShopReadPreserves ==
    ASSUME ShopInv, NEW r \in Readers, ReadShop(r) \/ ReaderFails(r)
    PROVE  ShopInv'
<1> USE DEF ShopInv, ShopTypeOK, OnlyCommittedShown, ShopRows, ShopRequests, ShopGoto
<1>1. CASE MissCache(r)
  BY <1>1 DEF MissCache
<1>2. CASE QueryRow(r)
  BY <1>2 DEF QueryRow, RowSeen
<1>3. CASE FillCache(r)
  BY <1>3 DEF FillCache
<1>4. CASE ReaderFails(r)
  BY <1>4, ShopBoundsAssumption DEF ReaderFails, ShopFault
<1> QED
  BY <1>1, <1>2, <1>3, <1>4 DEF ReadShop

LEMMA ShopWritePreserves ==
    ASSUME ShopInv, NEW w \in Writers,
           BeginTran(w) \/ WriteShop(w) \/ UpdateFails(w) \/ DeleteFails(w) \/ CommitFails(w)
    PROVE  ShopInv'
<1> USE ReaderIsNoWriter DEF ShopInv, ShopTypeOK, OnlyCommittedShown, ShopRows, ShopRequests, ShopGoto
<1>1. CASE BeginTran(w)
  BY <1>1 DEF BeginTran
<1>2. CASE UpdateRow(w)
  BY <1>2 DEF UpdateRow
<1>3. CASE DeleteKey(w)
  BY <1>3 DEF DeleteKey, KeyDeleted
<1>4. CASE CommitTran(w)
  BY <1>4 DEF CommitTran, Committed
<1>5. CASE RollbackTran(w)
  BY <1>5 DEF RollbackTran
<1>6. CASE UpdateFails(w)
  BY <1>6, ShopBoundsAssumption DEF UpdateFails, ShopFault
<1>7. CASE DeleteFails(w)
  BY <1>7, ShopBoundsAssumption DEF DeleteFails, KeyDeleted, ShopFault
<1>8. CASE CommitFails(w)
  <2>1. shopFaults' \in 0 .. MaxShopFaults /\ shopPc' = [shopPc EXCEPT ![w] = "rollback"]
        /\ UNCHANGED <<version, cache>>
    BY <1>8, ShopBoundsAssumption DEF CommitFails, ShopFault
  <2>2. CASE /\ row' = Committed(w)
             /\ past' = past \cup {Committed(w)}
             /\ held' = [held EXCEPT ![w] = NoShop]
    BY <2>1, <2>2 DEF Committed
  <2>3. CASE UNCHANGED <<row, past, held>>
    BY <2>1, <2>3
  <2> QED
    BY <1>8, <2>2, <2>3 DEF CommitFails
<1> QED
  BY <1>1, <1>2, <1>3, <1>4, <1>5, <1>6, <1>7, <1>8 DEF WriteShop

LEMMA ShopOtherPreserves ==
    ASSUME ShopInv,
           (\E p \in ShopRequests : ShopCrash(p)) \/ SaveShop \/ ExpireCache \/ UNCHANGED shopVars
    PROVE  ShopInv'
<1> USE DEF ShopInv, ShopTypeOK, OnlyCommittedShown, ShopRows, ShopRequests, ShopGoto
<1>1. ASSUME NEW p \in ShopRequests, ShopCrash(p)
      PROVE  ShopInv'
  BY <1>1, ShopBoundsAssumption DEF ShopCrash, ShopFault
<1>2. CASE SaveShop
  BY <1>2 DEF SaveShop
<1>3. CASE ExpireCache
  BY <1>3 DEF ExpireCache
<1>4. CASE UNCHANGED shopVars
  BY <1>4 DEF shopVars
<1> QED
  BY <1>1, <1>2, <1>3, <1>4

LEMMA ShopKeeps == ShopInv /\ [ShopNext]_shopVars => ShopInv'
<1> SUFFICES ASSUME ShopInv, [ShopNext]_shopVars
             PROVE  ShopInv'
  OBVIOUS
<1> QED
  BY ShopReadPreserves, ShopWritePreserves, ShopOtherPreserves DEF ShopNext

\* ShopInv holds in every reachable state.
THEOREM ShopInductive == ShopSpec => []ShopInv
BY ShopBegins, ShopKeeps, PTL DEF ShopSpec

\* Every reachable state of the cached shop is well typed.
THEOREM ShopTypeCorrect == ShopSpec => []ShopTypeOK
<1>1. ShopInv => ShopTypeOK
  BY DEF ShopInv
<1> QED
  BY ShopInductive, <1>1, PTL

\* However many requests, failures and crashes interleave, neither the cache
\* nor a reader ever holds a row that was not committed.
THEOREM NothingUncommittedShown == ShopSpec => []OnlyCommittedShown
<1>1. ShopInv => OnlyCommittedShown
  BY DEF ShopInv
<1> QED
  BY ShopInductive, <1>1, PTL

-----------------------------------------------------------------------------
(* All of them: each step is a step of one, and leaves the others alone.     *)

LEMMA SaveFailsKeepsFollow ==
    ASSUME FollowInv, NEW b \in Blogs, SaveFails(b)
    PROVE  FollowInv'
<1>1. UNCHANGED <<rows, follows, pc, pair, isFollow, overlapped, wanted, unsettled>>
  BY DEF SaveFails
<1>2. failures' \in 0 .. MaxFailures
  BY FollowBounds DEF SaveFails, FollowInv, FollowTypeOK
<1>3. FollowTypeOK'
  BY <1>1, <1>2 DEF FollowInv, FollowTypeOK
<1>4. \A p \in Pairs : PairInv(p)'
  BY <1>1 DEF FollowInv, PairInv, AsAsked, AskInStep, Asking, Member, IsFollow
<1> QED
  BY <1>3, <1>4 DEF FollowInv, Pairs

LEMMA FeedKeepsFollow == FollowInv /\ [Next]_allVars => FollowInv'
<1> SUFFICES ASSUME FollowInv, [Next]_allVars PROVE FollowInv'
  OBVIOUS
<1>1. CASE FollowStep
  BY <1>1, FollowKeeps DEF FollowStep
<1>2. CASE \E b \in Blogs : SaveFails(b)
  BY <1>2, SaveFailsKeepsFollow
<1>3. CASE UNCHANGED followVars
  BY <1>3, FollowKeeps
<1>4. ASSUME NEW b \in Blogs,
             Publish(b) \/ AddBlog(b) \/ QueryFans(b) \/ \E u \in Fans : PushTo(b, u)
      PROVE  UNCHANGED followVars
  BY <1>4 DEF Publish, AddBlog, QueryFans, PushTo, At
<1>5. UNCHANGED allVars => UNCHANGED followVars
  BY DEF allVars
<1> QED
  BY <1>1, <1>2, <1>3, <1>4, <1>5 DEF Next

AppInv == FollowInv /\ FeedInv /\ LikeInv /\ ScrollInv /\ ShopInv

AppVars == <<part, allVars, likeVars, scrollVars, shopVars>>

LEMMA AppBegins == AppInit => AppInv
BY FollowBegins, FeedBegins, LikeBegins, ScrollBegins, ShopBegins DEF AppInit, Init, AppInv

LEMMA AppKeeps == AppInv /\ [AppNext]_AppVars => AppInv'
<1> SUFFICES ASSUME AppInv, [AppNext]_AppVars PROVE AppInv'
  OBVIOUS
<1>1. /\ [Next]_allVars /\ [LikeNext]_likeVars
      /\ [ScrollNext]_scrollVars /\ [ShopNext]_shopVars
  BY DEF AppNext, AppVars
<1> QED
  BY <1>1, FeedKeepsFollow, FeedKeeps, LikeKeeps, ScrollKeeps, ShopKeeps DEF AppInv

(***************************************************************************)
(* Every reachable state of the four parts side by side is well typed.        *)
(***************************************************************************)
THEOREM AppTypeCorrect == AppSpec => []AppTypeOK
<1>1. AppInv => AppTypeOK
  BY DEF AppInv, AppTypeOK, FollowInv, FeedInv, LikeInv, ScrollInv, ScrollTyped, ShopInv
<1> QED
  BY <1>1, AppBegins, AppKeeps, PTL DEF AppSpec, AppVars

(***************************************************************************)
(* Publishing beside them does not disturb the follow requests: the table and  *)
(* the set of Redis still tell what the user last asked for.                  *)
(***************************************************************************)
THEOREM SettledBesidePublishing == Spec => []SettledAsAsked
<1>1. Init => FollowInv
  BY FollowBegins DEF Init
<1> QED
  BY <1>1, FeedKeepsFollow, InvImpliesSettled, PTL DEF Spec
=============================================================================
