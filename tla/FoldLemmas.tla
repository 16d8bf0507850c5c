----------------------------- MODULE FoldLemmas -----------------------------
(* Facts about natural numbers and finite sets of them that the proofs about *)
(* loops (folds) and sorted replies share.                                   *)
EXTENDS Integers, FiniteSetsExt, WellFoundedInduction, TLAPS

\* Induction over the natural numbers, for a set in place of a predicate.
LEMMA Induction ==
    ASSUME NEW S, 0 \in S, \A n \in Nat : n \in S => n + 1 \in S
    PROVE  \A n \in Nat : n \in S
<1> SUFFICES ASSUME NEW n \in Nat, n \notin S PROVE FALSE
    OBVIOUS
<1> DEFINE T == Nat \ S
<1>1. PICK m \in T : \A k \in T : ~(<<k, m>> \in OpToRel(<, Nat))
    BY n \in T, NatLessThanWellFounded, WFMin, T \subseteq Nat
<1>2. m \in Nat /\ m \notin S /\ \A k \in T : ~(k < m)
    BY <1>1 DEF OpToRel
<1>3. m # 0
    BY <1>2
<1>4. m - 1 \in Nat /\ m - 1 < m
    BY <1>2, <1>3
<1>5. m - 1 \in S
    BY <1>2, <1>4
<1> QED
    BY <1>2, <1>4, <1>5

\* The greatest of some numbers up to n.
LEMMA MaxUpTo ==
    ASSUME NEW n \in Nat, NEW s \in SUBSET (1 .. n), s # {}
    PROVE  Max(s) \in s /\ \A x \in s : x <= Max(s)
<1> DEFINE U == {u \in Nat : \A x \in s : x <= u}
<1>1. PICK u \in U : \A v \in U : ~(<<v, u>> \in OpToRel(<, Nat))
    BY n \in U, NatLessThanWellFounded, WFMin, U \subseteq Nat
<1>2. \A v \in U : ~(v < u)
    BY <1>1 DEF OpToRel
<1>3. u \in Nat /\ \A x \in s : x <= u
    BY <1>1
<1>4. \A v \in Nat : (\A x \in s : x <= v) => ~(v < u)
    BY <1>2
<1> HIDE DEF U
<1>5. u \in s
  <2> SUFFICES ASSUME u \notin s PROVE FALSE
      OBVIOUS
  <2>1. \A x \in s : x \in Nat /\ x # u
      OBVIOUS
  <2>2. \A x \in s : x <= u - 1
      BY <1>3, <2>1
  <2>3. PICK x \in s : TRUE
      BY s # {}
  <2>4. u - 1 \in Nat
      BY <1>3, <2>1, <2>2, <2>3
  <2> QED
      BY <1>3, <1>4, <2>2, <2>4
<1>6. \E m \in s : \A x \in s : x <= m
    BY <1>3, <1>5
<1> QED
    BY <1>6 DEF Max

LEMMA TopIsMax ==
    ASSUME NEW n \in Nat, NEW s \in SUBSET (1 .. n + 1), n + 1 \in s
    PROVE  Max(s) = n + 1
<1>1. n + 1 \in Nat /\ s # {}
    OBVIOUS
<1>2. Max(s) \in s /\ \A x \in s : x <= Max(s)
    BY <1>1, MaxUpTo
<1>3. Max(s) \in 1 .. n + 1 /\ n + 1 <= Max(s)
    BY <1>2
<1> QED
    BY <1>3

\* The least of some numbers.
LEMMA MinIn ==
    ASSUME NEW s \in SUBSET Nat, s # {}
    PROVE  Min(s) \in s /\ \A x \in s : Min(s) <= x
<1>1. PICK m \in s : \A k \in s : ~(<<k, m>> \in OpToRel(<, Nat))
    BY NatLessThanWellFounded, WFMin
<1>2. \A k \in s : ~(k < m)
    BY <1>1 DEF OpToRel
<1>3. \A k \in s : m <= k
    BY <1>2
<1> QED
    BY <1>3 DEF Min

-----------------------------------------------------------------------------
(* Folds over sequences.                                                     *)

\* h folds the function F over seq at each set of positions.
FoldsOver(h, F, base, seq, D) ==
    h = [s \in SUBSET D |-> IF s = {} THEN base
                            ELSE F[<<h[s \ {Max(s)}], seq[Max(s)]>>]]

FoldIn(X, F, base, seq, n) ==
    \E h \in [SUBSET (1 .. n) -> X] : FoldsOver(h, F, base, seq, 1 .. n)
IsStep(F, X, E) == F \in [X \X E -> X]
AllIn(seq, n, E) == \A i \in 1 .. n : seq[i] \in E

LEMMA FunctionFoldExists ==
    ASSUME NEW X, NEW E, NEW F, IsStep(F, X, E), NEW base \in X, NEW seq,
           NEW N \in Nat, AllIn(seq, N, E)
    PROVE  FoldIn(X, F, base, seq, N)
<1>a. F \in [X \X E -> X] /\ \A i \in 1 .. N : seq[i] \in E
    BY DEF IsStep, AllIn
<1> DEFINE Fold(n) == \E h \in [SUBSET (1 .. n) -> X] :
                            FoldsOver(h, F, base, seq, 1 .. n)
           S == {n \in Nat : n <= N => Fold(n)}
<1>1. 0 \in S
  <2>1. SUBSET (1 .. 0) = {{}}
      OBVIOUS
  <2> DEFINE h == [s \in SUBSET (1 .. 0) |-> base]
  <2>2. FoldsOver(h, F, base, seq, 1 .. 0)
      BY <2>1 DEF FoldsOver
  <2>3. h \in [SUBSET (1 .. 0) -> X]
      OBVIOUS
  <2> QED
      BY <2>2, <2>3
<1>2. ASSUME NEW n \in Nat, n \in S
      PROVE  n + 1 \in S
  <2> SUFFICES ASSUME n + 1 <= N PROVE Fold(n + 1)
    <3> HIDE DEF Fold
    <3> QED
        OBVIOUS
  <2>0. n <= N /\ seq[n + 1] \in E
      BY <1>a
  <2>1. PICK h \in [SUBSET (1 .. n) -> X] : FoldsOver(h, F, base, seq, 1 .. n)
      BY <1>2, <2>0
  <2> DEFINE h2 == [s \in SUBSET (1 .. n + 1) |->
                        IF n + 1 \in s THEN F[<<h[s \ {n + 1}], seq[n + 1]>>] ELSE h[s]]
  <2>2. ASSUME NEW s \in SUBSET (1 .. n + 1)
        PROVE  /\ h2[s] = IF s = {} THEN base ELSE F[<<h2[s \ {Max(s)}], seq[Max(s)]>>]
               /\ h2[s] \in X
    <3>1. CASE n + 1 \in s
      <4>1. Max(s) = n + 1
          BY <3>1, TopIsMax
      <4>2. s \ {n + 1} \in SUBSET (1 .. n + 1) /\ n + 1 \notin s \ {n + 1}
          OBVIOUS
      <4>3. h2[s \ {n + 1}] = h[s \ {n + 1}]
          BY <4>2
      <4>4. s \ {n + 1} \in SUBSET (1 .. n)
          OBVIOUS
      <4>5. h[s \ {n + 1}] \in X /\ seq[n + 1] \in E
          BY <2>0, <4>4
      <4>6. h2[s] = F[<<h[s \ {n + 1}], seq[n + 1]>>]
          BY <3>1
      <4> QED
          BY <1>a, <3>1, <4>1, <4>3, <4>5, <4>6
    <3>2. CASE n + 1 \notin s
      <4>1. s \in SUBSET (1 .. n)
          BY <3>2
      <4>2. h2[s] = h[s] /\ h[s] \in X
          BY <3>2, <4>1
      <4>3. CASE s = {}
          BY <2>1, <4>1, <4>2, <4>3 DEF FoldsOver
      <4>4. CASE s # {}
        <5>1. s \ {Max(s)} \in SUBSET (1 .. n)
            BY <4>1
        <5>2. h2[s \ {Max(s)}] = h[s \ {Max(s)}]
            BY <3>2, <5>1
        <5>3. h[s] = F[<<h[s \ {Max(s)}], seq[Max(s)]>>]
            BY <2>1, <4>1, <4>4 DEF FoldsOver
        <5> QED
            BY <4>2, <4>4, <5>2, <5>3
      <4> QED
          BY <4>3, <4>4
    <3> QED
        BY <3>1, <3>2
  <2>3. h2 = [s \in SUBSET (1 .. n + 1) |-> h2[s]]
      OBVIOUS
  <2> HIDE DEF h2
  <2>4. FoldsOver(h2, F, base, seq, 1 .. n + 1)
      BY <2>2, <2>3 DEF FoldsOver
  <2>5. h2 \in [SUBSET (1 .. n + 1) -> X]
      BY <2>2, <2>3
  <2> QED
      BY <2>4, <2>5
<1>3. \A n \in Nat : n \in S
  <2> HIDE DEF S
  <2> QED
    BY <1>1, <1>2, Induction
<1> QED
  <2> HIDE DEF Fold
  <2>1. Fold(N)
      BY <1>3
  <2> QED
      BY <2>1 DEF Fold, FoldIn

\* A fold goes through the positions in their order.
LEMMA FoldGoesUp ==
    ASSUME NEW X, NEW h, NEW n \in Nat, h[{}] \in X,
           \A k \in 1 .. n : h[1 .. k - 1] \in X => h[1 .. k] \in X
    PROVE  \A k \in 0 .. n : h[1 .. k] \in X
<1> DEFINE S == {k \in Nat : k <= n => h[1 .. k] \in X}
<1>1. 0 \in S
  <2>1. 1 .. 0 = {}
      OBVIOUS
  <2> QED
      BY <2>1
<1>2. ASSUME NEW k \in Nat, k \in S PROVE k + 1 \in S
  <2> SUFFICES ASSUME k + 1 <= n PROVE h[1 .. k + 1] \in X
      OBVIOUS
  <2>1. k + 1 \in 1 .. n /\ (k + 1) - 1 = k /\ k <= n
      OBVIOUS
  <2> QED
      BY <1>2, <2>1
<1>3. \A k \in Nat : k \in S
  <2> HIDE DEF S
  <2> QED
    BY <1>1, <1>2, Induction
<1> QED
    BY <1>3

\* The last position of a sequence and those before it.
LEMMA LastPosition ==
    ASSUME NEW n \in Nat, NEW k \in 1 .. n
    PROVE  /\ 1 .. k \in SUBSET (1 .. n) /\ 1 .. k # {} /\ Max(1 .. k) = k
           /\ (1 .. k) \ {k} = 1 .. k - 1
<1>1. PICK m \in Nat : k = m + 1
    BY k - 1 \in Nat
<1>2. 1 .. m + 1 \in SUBSET (1 .. m + 1) /\ m + 1 \in 1 .. m + 1
    OBVIOUS
<1>3. Max(1 .. m + 1) = m + 1
    BY <1>2, TopIsMax
<1>4. 1 .. k \in SUBSET (1 .. n)
    OBVIOUS
<1>5. (1 .. k) \ {k} = 1 .. k - 1
    OBVIOUS
<1> QED
    BY <1>1, <1>2, <1>3, <1>4, <1>5

=============================================================================
