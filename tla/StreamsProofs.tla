--------------------------- MODULE StreamsProofs ----------------------------
(* Proofs about Streams: the pending lists of a group and of its consumers   *)
(* agree, and the replica follows from what is propagated.                   *)
EXTENDS Streams, FoldLemmas, FiniteSetTheorems, FunctionTheorems

-----------------------------------------------------------------------------
(* Loops over sequences.                                                     *)

\* What each step of a loop keeps holds when the loop is over: the loops of
\* XCLAIM, of a delivery, of a transaction and of the readers served.
LEMMA ClaimAllKeeps ==
    ASSUME NEW X, NEW s \in X, NEW E, NEW seq \in Seq(E), NEW cmd,
           \A w \in X, e \in E : Claim(w, cmd, e) \in X
    PROVE  ClaimAll(s, cmd, seq) \in X
<1> DEFINE n == Len(seq)
           F == [p \in X \X E |-> Claim(p[1], cmd, p[2])]
           Equation(h) == h = [D \in SUBSET DOMAIN seq |->
                IF D = {} THEN s ELSE Claim(h[D \ {Max(D)}], cmd, seq[Max(D)])]
           h == CHOOSE g : Equation(g)
<1>1. n \in Nat /\ DOMAIN seq = 1 .. n /\ \A k \in 1 .. n : seq[k] \in E
    OBVIOUS
<1>2. F \in [X \X E -> X]
    OBVIOUS
<1>3. \A w \in X, e \in E : F[<<w, e>>] = Claim(w, cmd, e)
    OBVIOUS
<1> HIDE DEF F, n
<1>4. PICK g \in [SUBSET (1 .. n) -> X] : FoldsOver(g, F, s, seq, 1 .. n)
  <2>1. AllIn(seq, n, E) /\ IsStep(F, X, E)
      BY <1>1, <1>2 DEF AllIn, IsStep
  <2>2. FoldIn(X, F, s, seq, n)
      BY <1>1, <2>1, FunctionFoldExists
  <2> QED
      BY <2>2 DEF FoldIn
<1>5. Equation(g)
  <2>1. ASSUME NEW D \in SUBSET (1 .. n), D # {}
        PROVE  F[<<g[D \ {Max(D)}], seq[Max(D)]>>] = Claim(g[D \ {Max(D)}], cmd, seq[Max(D)])
    <3>1. Max(D) \in 1 .. n
        BY <1>1, <2>1, MaxUpTo
    <3>2. g[D \ {Max(D)}] \in X /\ seq[Max(D)] \in E
        BY <1>1, <3>1
    <3> QED
        BY <1>3, <3>2
  <2>2. g = [D \in SUBSET (1 .. n) |->
                IF D = {} THEN s ELSE Claim(g[D \ {Max(D)}], cmd, seq[Max(D)])]
      BY <1>4, <2>1 DEF FoldsOver
  <2> QED
      BY <1>1, <2>2
<1>6. Equation(h)
    BY <1>5
<1>7. ClaimAll(s, cmd, seq) = h[1 .. n]
    BY <1>1 DEF ClaimAll, FoldLeft, MapThenFoldSet
<1> HIDE DEF h
<1>8. h[{}] = s
    BY <1>6
<1>9. ASSUME NEW k \in 1 .. n
      PROVE  h[1 .. k] = Claim(h[1 .. k - 1], cmd, seq[k])
  <2> DEFINE D == 1 .. k
  <2>1. D \in SUBSET (1 .. n) /\ D # {} /\ Max(D) = k /\ D \ {k} = 1 .. k - 1
      BY <1>1, LastPosition
  <2> HIDE DEF D
  <2>2. h[D] = Claim(h[D \ {Max(D)}], cmd, seq[Max(D)])
      BY <1>1, <1>6, <2>1
  <2> QED
      BY <2>1, <2>2 DEF D
<1>10. \A k \in 0 .. n : h[1 .. k] \in X
  <2>1. \A k \in 1 .. n : h[1 .. k - 1] \in X => h[1 .. k] \in X
      BY <1>1, <1>9
  <2> QED
      BY <1>1, <1>8, <2>1, FoldGoesUp
<1> QED
    BY <1>1, <1>7, <1>10

\* The states the delivery of a sequence of entries goes through.
DeliverRun(R, s, g, c, noack, ids) ==
    /\ R[0] = s
    /\ \A k \in 1 .. Len(ids) : R[k] = Deliver(R[k - 1], g, c, noack, ids[k])

\* The delivery of a sequence goes through states of X.
DeliveredIn(X, s, g, c, noack, ids) ==
    \E R \in [0 .. Len(ids) -> X] :
        /\ DeliverRun(R, s, g, c, noack, ids)
        /\ DeliverAll(s, g, c, noack, ids) = R[Len(ids)]

LEMMA DeliverAllRuns ==
    ASSUME NEW X, NEW s \in X, NEW E, NEW seq \in Seq(E),
           NEW g, NEW c, NEW noack,
           \A w \in X, e \in E : Deliver(w, g, c, noack, e) \in X
    PROVE  DeliveredIn(X, s, g, c, noack, seq)
<1> DEFINE n == Len(seq)
           F == [p \in X \X E |-> Deliver(p[1], g, c, noack, p[2])]
           Equation(h) == h = [D \in SUBSET DOMAIN seq |->
                IF D = {} THEN s ELSE Deliver(h[D \ {Max(D)}], g, c, noack, seq[Max(D)])]
           h == CHOOSE f : Equation(f)
<1>1. n \in Nat /\ DOMAIN seq = 1 .. n /\ \A k \in 1 .. n : seq[k] \in E
    OBVIOUS
<1>2. F \in [X \X E -> X]
    OBVIOUS
<1>3. \A w \in X, e \in E : F[<<w, e>>] = Deliver(w, g, c, noack, e)
    OBVIOUS
<1> HIDE DEF F, n
<1>4. PICK f \in [SUBSET (1 .. n) -> X] : FoldsOver(f, F, s, seq, 1 .. n)
  <2>1. AllIn(seq, n, E) /\ IsStep(F, X, E)
      BY <1>1, <1>2 DEF AllIn, IsStep
  <2>2. FoldIn(X, F, s, seq, n)
      BY <1>1, <2>1, FunctionFoldExists
  <2> QED
      BY <2>2 DEF FoldIn
<1>5. Equation(f)
  <2>1. ASSUME NEW D \in SUBSET (1 .. n), D # {}
        PROVE  F[<<f[D \ {Max(D)}], seq[Max(D)]>>] = Deliver(f[D \ {Max(D)}], g, c, noack, seq[Max(D)])
    <3>1. Max(D) \in 1 .. n
        BY <1>1, <2>1, MaxUpTo
    <3>2. f[D \ {Max(D)}] \in X /\ seq[Max(D)] \in E
        BY <1>1, <3>1
    <3> QED
        BY <1>3, <3>2
  <2>2. f = [D \in SUBSET (1 .. n) |->
                IF D = {} THEN s ELSE Deliver(f[D \ {Max(D)}], g, c, noack, seq[Max(D)])]
      BY <1>4, <2>1 DEF FoldsOver
  <2> QED
      BY <1>1, <2>2
<1>6. Equation(h)
    BY <1>5
<1>7. DeliverAll(s, g, c, noack, seq) = h[1 .. n]
    BY <1>1 DEF DeliverAll, FoldLeft, MapThenFoldSet
<1> HIDE DEF h
<1>8. h[{}] = s
    BY <1>6
<1>9. ASSUME NEW k \in 1 .. n
      PROVE  h[1 .. k] = Deliver(h[1 .. k - 1], g, c, noack, seq[k])
  <2> DEFINE D == 1 .. k
  <2>1. D \in SUBSET (1 .. n) /\ D # {} /\ Max(D) = k /\ D \ {k} = 1 .. k - 1
      BY <1>1, LastPosition
  <2> HIDE DEF D
  <2>2. h[D] = Deliver(h[D \ {Max(D)}], g, c, noack, seq[Max(D)])
      BY <1>1, <1>6, <2>1
  <2> QED
      BY <2>1, <2>2 DEF D
<1>10. \A k \in 0 .. n : h[1 .. k] \in X
  <2>1. \A k \in 1 .. n : h[1 .. k - 1] \in X => h[1 .. k] \in X
      BY <1>1, <1>9
  <2> QED
      BY <1>1, <1>8, <2>1, FoldGoesUp
<1> DEFINE R == [k \in 0 .. n |-> h[1 .. k]]
<1>11. R[0] = s /\ R \in [0 .. n -> X]
  <2>1. 1 .. 0 = {}
      OBVIOUS
  <2> QED
      BY <1>1, <1>8, <1>10, <2>1
<1>12. \A k \in 1 .. n : R[k] = Deliver(R[k - 1], g, c, noack, seq[k])
    BY <1>1, <1>9
<1>13. R[n] = h[1 .. n]
    BY <1>1
<1> QED
    BY <1>7, <1>11, <1>12, <1>13 DEF DeliverRun, DeliveredIn, n

LEMMA DeliverAllKeeps ==
    ASSUME NEW X, NEW s \in X, NEW E, NEW seq \in Seq(E),
           NEW g, NEW c, NEW noack,
           \A w \in X, e \in E : Deliver(w, g, c, noack, e) \in X
    PROVE  DeliverAll(s, g, c, noack, seq) \in X
<1>1. PICK R \in [0 .. Len(seq) -> X] :
            /\ DeliverRun(R, s, g, c, noack, seq)
            /\ DeliverAll(s, g, c, noack, seq) = R[Len(seq)]
  <2>1. DeliveredIn(X, s, g, c, noack, seq)
      BY DeliverAllRuns
  <2> QED
      BY <2>1 DEF DeliveredIn
<1>2. Len(seq) \in 0 .. Len(seq)
    OBVIOUS
<1> QED
    BY <1>1, <1>2


\* The states the serving of a sequence of readers goes through.
ServeRun(R, s, readers) ==
    /\ R[0] = s
    /\ \A k \in 1 .. Len(readers) : R[k] = ServeReader(R[k - 1], readers[k])

LEMMA ServeAllRuns ==
    ASSUME NEW X, NEW s \in X, NEW E, NEW seq \in Seq(E),
           \A w \in X, e \in E : ServeReader(w, e) \in X
    PROVE  \E R \in [0 .. Len(seq) -> X] :
                ServeRun(R, s, seq) /\ ServeAll(s, seq) = R[Len(seq)]
<1> DEFINE n == Len(seq)
           F == [p \in X \X E |-> ServeReader(p[1], p[2])]
           Equation(h) == h = [D \in SUBSET DOMAIN seq |->
                IF D = {} THEN s ELSE ServeReader(h[D \ {Max(D)}], seq[Max(D)])]
           h == CHOOSE g : Equation(g)
<1>1. n \in Nat /\ DOMAIN seq = 1 .. n /\ \A k \in 1 .. n : seq[k] \in E
    OBVIOUS
<1>2. F \in [X \X E -> X]
    OBVIOUS
<1>3. \A w \in X, e \in E : F[<<w, e>>] = ServeReader(w, e)
    OBVIOUS
<1> HIDE DEF F, n
<1>4. PICK g \in [SUBSET (1 .. n) -> X] : FoldsOver(g, F, s, seq, 1 .. n)
  <2>1. AllIn(seq, n, E) /\ IsStep(F, X, E)
      BY <1>1, <1>2 DEF AllIn, IsStep
  <2>2. FoldIn(X, F, s, seq, n)
      BY <1>1, <2>1, FunctionFoldExists
  <2> QED
      BY <2>2 DEF FoldIn
<1>5. Equation(g)
  <2>1. ASSUME NEW D \in SUBSET (1 .. n), D # {}
        PROVE  F[<<g[D \ {Max(D)}], seq[Max(D)]>>] = ServeReader(g[D \ {Max(D)}], seq[Max(D)])
    <3>1. Max(D) \in 1 .. n
        BY <1>1, <2>1, MaxUpTo
    <3>2. g[D \ {Max(D)}] \in X /\ seq[Max(D)] \in E
        BY <1>1, <3>1
    <3> QED
        BY <1>3, <3>2
  <2>2. g = [D \in SUBSET (1 .. n) |->
                IF D = {} THEN s ELSE ServeReader(g[D \ {Max(D)}], seq[Max(D)])]
      BY <1>4, <2>1 DEF FoldsOver
  <2> QED
      BY <1>1, <2>2
<1>6. Equation(h)
    BY <1>5
<1>7. ServeAll(s, seq) = h[1 .. n]
    BY <1>1 DEF ServeAll, FoldLeft, MapThenFoldSet
<1> HIDE DEF h
<1>8. h[{}] = s
    BY <1>6
<1>9. ASSUME NEW k \in 1 .. n
      PROVE  h[1 .. k] = ServeReader(h[1 .. k - 1], seq[k])
  <2> DEFINE D == 1 .. k
  <2>1. D \in SUBSET (1 .. n) /\ D # {} /\ Max(D) = k /\ D \ {k} = 1 .. k - 1
      BY <1>1, LastPosition
  <2> HIDE DEF D
  <2>2. h[D] = ServeReader(h[D \ {Max(D)}], seq[Max(D)])
      BY <1>1, <1>6, <2>1
  <2> QED
      BY <2>1, <2>2 DEF D
<1>10. \A k \in 0 .. n : h[1 .. k] \in X
  <2>1. \A k \in 1 .. n : h[1 .. k - 1] \in X => h[1 .. k] \in X
      BY <1>1, <1>9
  <2> QED
      BY <1>1, <1>8, <2>1, FoldGoesUp
<1> DEFINE R == [k \in 0 .. n |-> h[1 .. k]]
<1>11. R[0] = s /\ R \in [0 .. n -> X]
  <2>1. 1 .. 0 = {}
      OBVIOUS
  <2> QED
      BY <1>1, <1>8, <1>10, <2>1
<1>12. \A k \in 1 .. n : R[k] = ServeReader(R[k - 1], seq[k])
    BY <1>1, <1>9
<1>13. R[n] = h[1 .. n]
    BY <1>1
<1> QED
    BY <1>7, <1>11, <1>12, <1>13 DEF ServeRun, n

LEMMA ServeAllKeeps ==
    ASSUME NEW X, NEW s \in X, NEW E, NEW seq \in Seq(E),
           \A w \in X, e \in E : ServeReader(w, e) \in X
    PROVE  ServeAll(s, seq) \in X
<1>1. PICK R \in [0 .. Len(seq) -> X] : ServeAll(s, seq) = R[Len(seq)]
    BY ServeAllRuns
<1>2. Len(seq) \in 0 .. Len(seq)
    OBVIOUS
<1> QED
    BY <1>1, <1>2


\* The states a sequence of commands goes through.
CallRun(R, s, cmds) ==
    /\ R[0] = s
    /\ \A k \in 1 .. Len(cmds) : R[k] = xcall(R[k - 1], cmds[k])

LEMMA CallAllRuns ==
    ASSUME NEW X, NEW s \in X, NEW E, NEW seq \in Seq(E),
           \A w \in X, e \in E : xcall(w, e) \in X
    PROVE  \E R \in [0 .. Len(seq) -> X] : CallRun(R, s, seq) /\ CallAll(s, seq) = R[Len(seq)]
<1> DEFINE n == Len(seq)
           F == [p \in X \X E |-> xcall(p[1], p[2])]
           Equation(h) == h = [D \in SUBSET DOMAIN seq |->
                IF D = {} THEN s ELSE xcall(h[D \ {Max(D)}], seq[Max(D)])]
           h == CHOOSE g : Equation(g)
<1>1. n \in Nat /\ DOMAIN seq = 1 .. n /\ \A k \in 1 .. n : seq[k] \in E
    OBVIOUS
<1>2. F \in [X \X E -> X]
    OBVIOUS
<1>3. \A w \in X, e \in E : F[<<w, e>>] = xcall(w, e)
    OBVIOUS
<1> HIDE DEF F, n
<1>4. PICK g \in [SUBSET (1 .. n) -> X] : FoldsOver(g, F, s, seq, 1 .. n)
  <2>1. AllIn(seq, n, E) /\ IsStep(F, X, E)
      BY <1>1, <1>2 DEF AllIn, IsStep
  <2>2. FoldIn(X, F, s, seq, n)
      BY <1>1, <2>1, FunctionFoldExists
  <2> QED
      BY <2>2 DEF FoldIn
<1>5. Equation(g)
  <2>1. ASSUME NEW D \in SUBSET (1 .. n), D # {}
        PROVE  F[<<g[D \ {Max(D)}], seq[Max(D)]>>] = xcall(g[D \ {Max(D)}], seq[Max(D)])
    <3>1. Max(D) \in 1 .. n
        BY <1>1, <2>1, MaxUpTo
    <3>2. g[D \ {Max(D)}] \in X /\ seq[Max(D)] \in E
        BY <1>1, <3>1
    <3> QED
        BY <1>3, <3>2
  <2>2. g = [D \in SUBSET (1 .. n) |->
                IF D = {} THEN s ELSE xcall(g[D \ {Max(D)}], seq[Max(D)])]
      BY <1>4, <2>1 DEF FoldsOver
  <2> QED
      BY <1>1, <2>2
<1>6. Equation(h)
    BY <1>5
<1>7. CallAll(s, seq) = h[1 .. n]
    BY <1>1 DEF CallAll, FoldLeft, MapThenFoldSet
<1> HIDE DEF h
<1>8. h[{}] = s
    BY <1>6
<1>9. ASSUME NEW k \in 1 .. n
      PROVE  h[1 .. k] = xcall(h[1 .. k - 1], seq[k])
  <2> DEFINE D == 1 .. k
  <2>1. D \in SUBSET (1 .. n) /\ D # {} /\ Max(D) = k /\ D \ {k} = 1 .. k - 1
      BY <1>1, LastPosition
  <2> HIDE DEF D
  <2>2. h[D] = xcall(h[D \ {Max(D)}], seq[Max(D)])
      BY <1>1, <1>6, <2>1
  <2> QED
      BY <2>1, <2>2 DEF D
<1>10. \A k \in 0 .. n : h[1 .. k] \in X
  <2>1. \A k \in 1 .. n : h[1 .. k - 1] \in X => h[1 .. k] \in X
      BY <1>1, <1>9
  <2> QED
      BY <1>1, <1>8, <2>1, FoldGoesUp
<1> DEFINE R == [k \in 0 .. n |-> h[1 .. k]]
<1>11. R[0] = s /\ R \in [0 .. n -> X]
  <2>1. 1 .. 0 = {}
      OBVIOUS
  <2> QED
      BY <1>1, <1>8, <1>10, <2>1
<1>12. \A k \in 1 .. n : R[k] = xcall(R[k - 1], seq[k])
    BY <1>1, <1>9
<1>13. R[n] = h[1 .. n]
    BY <1>1
<1> QED
    BY <1>7, <1>11, <1>12, <1>13 DEF CallRun, n

LEMMA CallAllKeeps ==
    ASSUME NEW X, NEW s \in X, NEW E, NEW seq \in Seq(E),
           \A w \in X, e \in E : xcall(w, e) \in X
    PROVE  CallAll(s, seq) \in X
<1>1. PICK R \in [0 .. Len(seq) -> X] : CallAll(s, seq) = R[Len(seq)]
    BY CallAllRuns
<1>2. Len(seq) \in 0 .. Len(seq)
    OBVIOUS
<1> QED
    BY <1>1, <1>2

\* One command more.
LEMMA CallAllAppend ==
    ASSUME NEW X, NEW s \in X, NEW E, NEW seq \in Seq(E), NEW e \in E,
           \A w \in X, f \in E : xcall(w, f) \in X
    PROVE  CallAll(s, Append(seq, e)) = xcall(CallAll(s, seq), e)
<1> DEFINE n == Len(seq)
           more == Append(seq, e)
<1>1. n \in Nat /\ more \in Seq(E) /\ Len(more) = n + 1 /\ more[n + 1] = e
    OBVIOUS
<1>2. \A k \in 1 .. n : more[k] = seq[k] /\ k \in 1 .. n + 1
    OBVIOUS
<1> HIDE DEF more
<1>3. PICK Q \in [0 .. n -> X] : CallRun(Q, s, seq) /\ CallAll(s, seq) = Q[n]
    BY CallAllRuns
<1>4. PICK R \in [0 .. n + 1 -> X] : CallRun(R, s, more) /\ CallAll(s, more) = R[n + 1]
  <2>1. \E R \in [0 .. Len(more) -> X] : CallRun(R, s, more) /\ CallAll(s, more) = R[Len(more)]
      BY <1>1, CallAllRuns
  <2> QED
      BY <1>1, <2>1
<1> HIDE DEF n
<1> DEFINE S == {k \in Nat : k <= n => R[k] = Q[k]}
<1>5. 0 \in S
    BY <1>3, <1>4 DEF CallRun
<1>6. ASSUME NEW k \in Nat, k \in S PROVE k + 1 \in S
  <2> SUFFICES ASSUME k + 1 <= n PROVE R[k + 1] = Q[k + 1]
      OBVIOUS
  <2>1. k + 1 \in 1 .. n /\ k + 1 \in 1 .. n + 1 /\ (k + 1) - 1 = k /\ k <= n
      BY <1>1
  <2>2. Q[k + 1] = xcall(Q[k], seq[k + 1])
      BY <1>3, <2>1 DEF CallRun, n
  <2>3. R[k + 1] = xcall(R[k], more[k + 1])
      BY <1>1, <1>4, <2>1 DEF CallRun
  <2> QED
      BY <1>2, <1>6, <2>1, <2>2, <2>3
<1>7. \A k \in Nat : k \in S
  <2> HIDE DEF S
  <2> QED
      BY <1>5, <1>6, Induction
<1>8. R[n] = Q[n]
    BY <1>1, <1>7
<1>9. R[n + 1] = xcall(R[n], e)
  <2>1. n + 1 \in 1 .. n + 1 /\ (n + 1) - 1 = n
      BY <1>1
  <2> QED
      BY <1>1, <1>4, <2>1 DEF CallRun
<1> QED
    BY <1>3, <1>4, <1>8, <1>9 DEF more

LEMMA CallAllNothing ==
    ASSUME NEW s PROVE CallAll(s, <<>>) = s
<1> DEFINE Equation(h) == h = [D \in SUBSET DOMAIN <<>> |->
                IF D = {} THEN s ELSE xcall(h[D \ {Max(D)}], <<>>[Max(D)])]
           h == CHOOSE g : Equation(g)
<1>1. DOMAIN <<>> = {} /\ SUBSET DOMAIN <<>> = {{}}
    OBVIOUS
<1>2. Equation([D \in {{}} |-> s])
    BY <1>1
<1>3. Equation(h)
    BY <1>2
<1>4. CallAll(s, <<>>) = h[{}]
    BY <1>1 DEF CallAll, FoldLeft, MapThenFoldSet
<1> HIDE DEF h
<1> QED
    BY <1>1, <1>3, <1>4

-----------------------------------------------------------------------------
(* The IDs of a set in their order.                                          *)

IncreasesTo(s, n, ids) ==
    s \in [1 .. n -> ids] /\ \A j, k \in 1 .. n : j < k => s[j] < s[k]

LEMMA AscendingExists ==
    ASSUME NEW top \in Nat
    PROVE  \A n \in Nat : \A ids \in SUBSET (1 .. top) :
                Cardinality(ids) = n => \E s : IncreasesTo(s, n, ids)
<1> DEFINE N == {n \in Nat : \A ids \in SUBSET (1 .. top) :
                    Cardinality(ids) = n => \E s : IncreasesTo(s, n, ids)}
<1>1. 0 \in N
  <2>1. ASSUME NEW ids PROVE \E s : IncreasesTo(s, 0, ids)
    <3>1. IncreasesTo([k \in {} |-> k], 0, ids)
        BY DEF IncreasesTo
    <3> QED
        BY <3>1
  <2> QED
      BY <2>1
<1>2. ASSUME NEW n \in Nat, n \in N PROVE n + 1 \in N
  <2> SUFFICES ASSUME NEW ids \in SUBSET (1 .. top), Cardinality(ids) = n + 1
               PROVE  \E s : IncreasesTo(s, n + 1, ids)
      OBVIOUS
  <2>1. IsFiniteSet(1 .. top)
      BY FS_Interval
  <2>2. IsFiniteSet(ids)
      BY <2>1, FS_Subset
  <2>3. ids # {}
      BY FS_EmptySet
  <2> DEFINE m == Max(ids)
  <2>4. m \in ids /\ \A x \in ids : x <= m
      BY <2>3, MaxUpTo
  <2> HIDE DEF m
  <2>5. Cardinality(ids \ {m}) = n
      BY <2>2, <2>4, FS_RemoveElement
  <2>6. PICK s : IncreasesTo(s, n, ids \ {m})
      BY <1>2, <2>5
  <2> DEFINE r == [k \in 1 .. n + 1 |-> IF k = n + 1 THEN m ELSE s[k]]
  <2>7. \A k \in 1 .. n : s[k] \in ids /\ s[k] < m
    <3> SUFFICES ASSUME NEW k \in 1 .. n PROVE s[k] \in ids /\ s[k] < m
        OBVIOUS
    <3>1. s[k] \in ids \ {m}
        BY <2>6 DEF IncreasesTo
    <3>2. \A x \in ids : x \in Int
        OBVIOUS
    <3>3. \A x \in ids \ {m} : x \in ids /\ x < m
        BY <2>4, <3>2
    <3> QED
        BY <3>1, <3>3
  <2>8. \A k \in 1 .. n + 1 : k # n + 1 => k \in 1 .. n
      OBVIOUS
  <2>9. r \in [1 .. n + 1 -> ids]
      BY <2>4, <2>7, <2>8
  <2>10. ASSUME NEW j \in 1 .. n + 1, NEW k \in 1 .. n + 1, j < k
         PROVE  r[j] < r[k]
    <3>1. j \in 1 .. n /\ r[j] = s[j]
        BY <2>8, <2>10
    <3>2. CASE k = n + 1
        BY <2>7, <3>1, <3>2
    <3>3. CASE k # n + 1
        BY <2>6, <2>8, <2>10, <3>1, <3>3 DEF IncreasesTo
    <3> QED
        BY <3>2, <3>3
  <2>11. IncreasesTo(r, n + 1, ids)
    <3> HIDE DEF r
    <3> QED
        BY <2>9, <2>10 DEF IncreasesTo
  <2> QED
      BY <2>11
<1>3. \A n \in Nat : n \in N
  <2> HIDE DEF N
  <2> QED
      BY <1>1, <1>2, Induction
<1> QED
    BY <1>3

\* The sequence has the IDs of the set, in their order, and no other.
LEMMA AscendingSorts ==
    ASSUME NEW ids \in SUBSET Id
    PROVE  /\ Ascending(ids) \in Seq(ids) /\ Len(Ascending(ids)) = Cardinality(ids)
           /\ \A j, k \in 1 .. Len(Ascending(ids)) :
                    j < k => Ascending(ids)[j] < Ascending(ids)[k]
           /\ \A i \in ids : \E k \in 1 .. Len(Ascending(ids)) : Ascending(ids)[k] = i
<1> DEFINE n == Cardinality(ids)
           s == Ascending(ids)
<1>0. MaxId \in Nat
    BY StreamsAssumption
<1>1. IsFiniteSet(Id)
    BY <1>0, FS_Interval DEF Id
<1>2. IsFiniteSet(ids)
    BY <1>1, FS_Subset
<1>3. n \in Nat
    BY <1>2, FS_CardinalityType
<1>4. \E r : IncreasesTo(r, n, ids)
    BY <1>0, <1>3, AscendingExists DEF Id
<1>5. IncreasesTo(s, n, ids)
  <2>1. PICK r : IncreasesTo(r, n, ids)
      BY <1>4
  <2>2. r \in [1 .. n -> ids] /\ \A j, k \in DOMAIN r : j < k => r[j] < r[k]
      BY <2>1 DEF IncreasesTo
  <2>3. s \in [1 .. n -> ids] /\ \A j, k \in DOMAIN s : j < k => s[j] < s[k]
      BY <2>2 DEF Ascending
  <2> QED
      BY <2>3 DEF IncreasesTo
<1> HIDE DEF s, n
<1>6. s \in Seq(ids) /\ Len(s) = n
    BY <1>3, <1>5 DEF IncreasesTo
<1>7. \A j, k \in 1 .. n : s[j] = s[k] => j = k
  <2> SUFFICES ASSUME NEW j \in 1 .. n, NEW k \in 1 .. n, s[j] = s[k], j # k
               PROVE  FALSE
      OBVIOUS
  <2>1. j < k \/ k < j
      OBVIOUS
  <2>2. s[j] \in Int
    <3>1. s[j] \in ids
        BY <1>5 DEF IncreasesTo
    <3>2. \A x \in ids : x \in Int
        BY <1>0 DEF Id
    <3> QED
        BY <3>1, <3>2
  <2> QED
      BY <1>5, <2>1, <2>2 DEF IncreasesTo
<1>8. s \in Injection(1 .. n, ids)
    BY <1>5, <1>7, Fun_IsInj DEF IncreasesTo
<1>9. IsFiniteSet(1 .. n) /\ Cardinality(1 .. n) = n
    BY <1>3, FS_Interval
<1>10. s \in Surjection(1 .. n, ids)
    BY <1>2, <1>8, <1>9, FS_Injection DEF n
<1>11. \A i \in ids : \E k \in 1 .. n : s[k] = i
    BY <1>10 DEF Surjection
<1> QED
    BY <1>5, <1>6, <1>11 DEF s, n, IncreasesTo

-----------------------------------------------------------------------------
(* The pending lists of a group agree, whatever is done to it.               *)

NackType == [owner : Consumer \cup {Nobody}, count : Nat, idle : BOOLEAN]
GroupType == [on : BOOLEAN, last : 0 .. MaxId, known : SUBSET Consumer,
              cpel : [Consumer -> SUBSET Id], pel : [Id -> NackType]]

\* PendingListsAgree for one group, with the NACKs of no owner all alike.
ListsAgree(gr) ==
    /\ \A i \in Id, c \in Consumer : i \in gr.cpel[c] <=> gr.pel[i].owner = c
    /\ \A c \in Consumer : gr.cpel[c] # {} => c \in gr.known
    /\ \A i \in Id : gr.pel[i].owner # Nobody => gr.pel[i].count > 0
    /\ \A i \in Id : gr.pel[i].owner = Nobody => gr.pel[i] = NoNack

GroupOK == {gr \in GroupType : ListsAgree(gr)}

LEMMA Numbers ==
    /\ MaxId \in Nat /\ MaxId > 0 /\ MaxCount \in Nat /\ MaxCount > 0
    /\ Id = 1 .. MaxId /\ Top = MaxId + 1
    /\ Nobody \notin Group /\ Nobody \notin Consumer
    /\ \A size \in BOOLEAN : NodeSize[size] \in Nat /\ NodeSize[size] > 0
<1>1. MaxId \in Nat \ {0} /\ MaxCount \in Nat \ {0} /\ Nobody \notin Group \cup Consumer
    BY StreamsAssumption
<1>2. NodeSize \in [BOOLEAN -> Nat \ {0}]
    BY StreamsAssumption
<1> QED
    BY <1>1, <1>2 DEF Id, Top

LEMMA MaxOfTwo ==
    ASSUME NEW a \in Nat, NEW b \in Nat
    PROVE  /\ Max({a, b}) \in {a, b}
           /\ a <= Max({a, b}) /\ b <= Max({a, b})
<1>1. CASE a <= b
  <2>1. b \in {a, b} /\ \A y \in {a, b} : b >= y
      BY <1>1
  <2>2. \A m \in {a, b} : (\A y \in {a, b} : m >= y) => m = b
      BY <1>1
  <2> QED
      BY <2>1, <2>2 DEF Max
<1>2. CASE b <= a
  <2>1. a \in {a, b} /\ \A y \in {a, b} : a >= y
      BY <1>2
  <2> QED
      BY <2>1 DEF Max
<1> QED
    BY <1>1, <1>2

Later(a, b) == Max({a, b})

LEMMA LaterIs ==
    ASSUME NEW a \in Nat, NEW b \in Nat
    PROVE  /\ Later(a, b) = a \/ Later(a, b) = b
           /\ a <= Later(a, b) /\ b <= Later(a, b) /\ Later(a, b) \in Nat
BY MaxOfTwo DEF Later

LEMMA NoGroupOK == NoGroup \in GroupOK
<1>1. NoGroup \in GroupType
    BY Numbers DEF NoGroup, GroupType, NackType, NoNack
<1>2. ListsAgree(NoGroup)
    BY Numbers DEF ListsAgree, NoGroup, NoNack
<1> QED
    BY <1>1, <1>2 DEF GroupOK

LEMMA LookupOK ==
    ASSUME NEW gr \in GroupOK, NEW c \in Consumer
    PROVE  /\ streamLookupConsumer(gr, c) \in GroupOK
           /\ c \in streamLookupConsumer(gr, c).known
           /\ \A f \in {"on", "last", "cpel", "pel"} :
                    streamLookupConsumer(gr, c)[f] = gr[f]
           /\ streamLookupConsumer(gr, c).known = gr.known \cup {c}
<1>1. gr \in GroupType /\ ListsAgree(gr)
    BY DEF GroupOK
<1> DEFINE u == streamLookupConsumer(gr, c)
<1>2. /\ u \in GroupType /\ u.on = gr.on /\ u.last = gr.last /\ u.cpel = gr.cpel
      /\ u.pel = gr.pel /\ u.known = gr.known \cup {c}
    BY <1>1 DEF streamLookupConsumer, GroupType
<1> HIDE DEF u
<1>3. ListsAgree(u)
    BY <1>1, <1>2 DEF ListsAgree
<1> QED
    BY <1>2, <1>3 DEF GroupOK, u

Settled(u, gr, id) ==
    /\ u.on = gr.on /\ u.last = gr.last /\ u.known = gr.known
    /\ \A c \in Consumer : u.cpel[c] = gr.cpel[c] \ {id}
    /\ \A i \in Id : u.pel[i] = IF i = id THEN NoNack ELSE gr.pel[i]

LEMMA SettleOK ==
    ASSUME NEW gr \in GroupOK, NEW id \in Id
    PROVE  Settle(gr, id) \in GroupOK /\ Settled(Settle(gr, id), gr, id)
<1>1. gr \in GroupType /\ ListsAgree(gr)
    BY DEF GroupOK
<1>2. NoNack \in NackType /\ NoNack.owner = Nobody
    BY DEF NoNack, NackType
<1> DEFINE u == Settle(gr, id)
<1>3. /\ u \in GroupType /\ u.on = gr.on /\ u.last = gr.last /\ u.known = gr.known
      /\ \A c \in Consumer : u.cpel[c] = gr.cpel[c] \ {id}
      /\ \A i \in Id : u.pel[i] = IF i = id THEN NoNack ELSE gr.pel[i]
    BY <1>1, <1>2 DEF Settle, GroupType
<1> HIDE DEF u
<1>4. ListsAgree(u)
  <2>1. \A i \in Id, c \in Consumer : i \in u.cpel[c] <=> u.pel[i].owner = c
      BY <1>1, <1>2, <1>3, Numbers DEF ListsAgree
  <2>2. \A c \in Consumer : u.cpel[c] # {} => c \in u.known
      BY <1>1, <1>3 DEF ListsAgree
  <2>3. \A i \in Id : u.pel[i].owner # Nobody => u.pel[i].count > 0
      BY <1>1, <1>2, <1>3 DEF ListsAgree
  <2>4. \A i \in Id : u.pel[i].owner = Nobody => u.pel[i] = NoNack
      BY <1>1, <1>3 DEF ListsAgree
  <2> QED
      BY <2>1, <2>2, <2>3, <2>4 DEF ListsAgree
<1> QED
    BY <1>3, <1>4 DEF GroupOK, u, Settled

AssignedTo(u, gr, id, c, count, idle) ==
    /\ \A d \in Consumer : u.cpel[d] = IF d = c THEN gr.cpel[d] \cup {id}
                                       ELSE gr.cpel[d] \ {id}
    /\ \A i \in Id : u.pel[i] = IF i = id
            THEN [owner |-> c, count |-> count, idle |-> idle] ELSE gr.pel[i]

LEMMA AssignOK ==
    ASSUME NEW gr \in GroupOK, NEW id \in Id, NEW c \in Consumer, c \in gr.known,
           NEW count \in Nat, count > 0, NEW idle \in BOOLEAN,
           NEW u, u = Assign(gr, id, c, count, idle)
    PROVE  /\ u \in GroupOK
           /\ u.on = gr.on /\ u.last = gr.last /\ u.known = gr.known
           /\ AssignedTo(u, gr, id, c, count, idle)
<1>1. gr \in GroupType /\ ListsAgree(gr)
    BY DEF GroupOK
<1> DEFINE nack == [owner |-> c, count |-> count, idle |-> idle]
<1>2. nack \in NackType /\ nack.owner = c /\ nack.count > 0
    BY DEF NackType
<1> HIDE DEF nack
<1>3. /\ u \in GroupType /\ u.known = gr.known /\ u.on = gr.on /\ u.last = gr.last
      /\ \A d \in Consumer : u.cpel[d] = IF d = c THEN gr.cpel[d] \cup {id}
                                         ELSE gr.cpel[d] \ {id}
      /\ \A i \in Id : u.pel[i] = IF i = id THEN nack ELSE gr.pel[i]
    BY <1>1, <1>2 DEF Assign, GroupType, nack
<1>4. ListsAgree(u)
  <2>1. ASSUME NEW i \in Id, NEW d \in Consumer
        PROVE  i \in u.cpel[d] <=> u.pel[i].owner = d
    <3>1. i \in gr.cpel[d] <=> gr.pel[i].owner = d
        BY <1>1 DEF ListsAgree
    <3>2. CASE i = id
      <4>1. u.pel[i].owner = c
          BY <1>2, <1>3, <3>2
      <4>2. i \in u.cpel[d] <=> d = c
          BY <1>3, <3>2
      <4> QED
          BY <4>1, <4>2
    <3>3. CASE i # id
      <4>1. u.pel[i] = gr.pel[i]
          BY <1>3, <3>3
      <4>2. i \in u.cpel[d] <=> i \in gr.cpel[d]
          BY <1>3, <3>3
      <4> QED
          BY <3>1, <4>1, <4>2
    <3> QED
        BY <3>2, <3>3
  <2>2. \A d \in Consumer : u.cpel[d] # {} => d \in u.known
      BY <1>1, <1>3 DEF ListsAgree
  <2>3. \A i \in Id : u.pel[i].owner # Nobody => u.pel[i].count > 0
      BY <1>1, <1>2, <1>3 DEF ListsAgree
  <2>4. \A i \in Id : u.pel[i].owner = Nobody => u.pel[i] = NoNack
      BY <1>1, <1>2, <1>3, Numbers DEF ListsAgree
  <2> QED
      BY <2>1, <2>2, <2>3, <2>4 DEF ListsAgree
<1> QED
    BY <1>3, <1>4 DEF GroupOK, nack, AssignedTo

Dropped(u, gr, c) ==
    /\ u.on = gr.on /\ u.last = gr.last /\ u.known = gr.known \ {c}
    /\ \A d \in Consumer : u.cpel[d] = IF d = c THEN {} ELSE gr.cpel[d]
    /\ \A i \in Id : u.pel[i] = IF i \in gr.cpel[c] THEN NoNack ELSE gr.pel[i]

LEMMA DelConsumerOK ==
    ASSUME NEW gr \in GroupOK, NEW c \in Consumer
    PROVE  /\ streamDelConsumer(gr, c) \in GroupOK
           /\ Dropped(streamDelConsumer(gr, c), gr, c)
<1>1. gr \in GroupType /\ ListsAgree(gr)
    BY DEF GroupOK
<1>2. NoNack \in NackType /\ NoNack.owner = Nobody
    BY DEF NoNack, NackType
<1> DEFINE u == streamDelConsumer(gr, c)
<1>3. /\ u \in GroupType /\ u.on = gr.on /\ u.last = gr.last /\ u.known = gr.known \ {c}
      /\ \A d \in Consumer : u.cpel[d] = IF d = c THEN {} ELSE gr.cpel[d]
      /\ \A i \in Id : u.pel[i] = IF i \in gr.cpel[c] THEN NoNack ELSE gr.pel[i]
    BY <1>1, <1>2 DEF streamDelConsumer, GroupType
<1> HIDE DEF u
<1>4. ListsAgree(u)
  <2>1. \A i \in Id, d \in Consumer : i \in u.cpel[d] <=> u.pel[i].owner = d
      BY <1>1, <1>2, <1>3, Numbers DEF ListsAgree
  <2>2. \A d \in Consumer : u.cpel[d] # {} => d \in u.known
      BY <1>1, <1>3 DEF ListsAgree
  <2>3. \A i \in Id : u.pel[i].owner # Nobody => u.pel[i].count > 0
      BY <1>1, <1>2, <1>3 DEF ListsAgree
  <2>4. \A i \in Id : u.pel[i].owner = Nobody => u.pel[i] = NoNack
      BY <1>1, <1>3 DEF ListsAgree
  <2> QED
      BY <2>1, <2>2, <2>3, <2>4 DEF ListsAgree
<1> QED
    BY <1>3, <1>4 DEF GroupOK, u, Dropped

\* The last ID of a group does not touch its lists.
LastIn(u, gr, last) == u = [gr EXCEPT !.last = last]

LEMMA MovedOK ==
    ASSUME NEW gr \in GroupOK, NEW last \in 0 .. MaxId, NEW u, LastIn(u, gr, last)
    PROVE  /\ u \in GroupOK
           /\ u.on = gr.on /\ u.last = last /\ u.known = gr.known
           /\ u.cpel = gr.cpel /\ u.pel = gr.pel
<1>1. gr \in GroupType /\ ListsAgree(gr)
    BY DEF GroupOK
<1>2. /\ u \in GroupType /\ u.known = gr.known /\ u.cpel = gr.cpel /\ u.pel = gr.pel
      /\ u.last = last /\ u.on = gr.on
    BY <1>1 DEF GroupType, LastIn
<1>3. ListsAgree(u)
    BY <1>1, <1>2 DEF ListsAgree
<1> QED
    BY <1>2, <1>3 DEF GroupOK

LEMMA CreateOK ==
    ASSUME NEW id \in 0 .. MaxId
    PROVE  streamCreateCG(id) \in GroupOK
<1> DEFINE u == streamCreateCG(id)
<1>1. /\ u \in GroupType /\ u.known = NoGroup.known /\ u.cpel = NoGroup.cpel
      /\ u.pel = NoGroup.pel
    BY DEF streamCreateCG, NoGroup, GroupType, NackType, NoNack
<1> HIDE DEF u
<1>2. ListsAgree(NoGroup)
    BY NoGroupOK DEF GroupOK
<1>3. ListsAgree(u)
    BY <1>1, <1>2 DEF ListsAgree
<1> QED
    BY <1>1, <1>3 DEF GroupOK, u

-----------------------------------------------------------------------------
(* Streams, servers and commands.                                            *)

StreamType == [on : BOOLEAN, items : SUBSET Id, last : 0 .. MaxId,
               grp : [Group -> GroupOK]]
StreamOK == {st \in StreamType : /\ st.items \subseteq 1 .. st.last
                                 /\ ~st.on => st = NoStream}

\* What is propagated: a command as it came, or one made in its place.
Command ==
    XCmds
    \cup [op : {"xadd"}, id : Id, trim : Trim]
    \cup [op : {"xtrim"}, trim : Trim]
    \cup [op : {"setid"}, g : Group, id : 0 .. MaxId]
    \cup [op : {"createconsumer"}, g : Group, c : Consumer]
    \cup [op : {"xclaim"}, g : Group, c : Consumer, ids : Seq(Id),
          minidle : BOOLEAN, force : BOOLEAN, justid : BOOLEAN,
          lastid : 0 .. MaxId, retry : Nat, idle : BOOLEAN]

Reader == [g : Group \cup {Nobody}, c : Consumer, noack : BOOLEAN, count : Nat,
           gt : 0 .. Top]

\* The server here (slave FALSE) or the replica.
Server(slave) ==
    [st : StreamOK,
     wait : IF slave THEN {<<>>} ELSE Seq(Reader),
     ready : IF slave THEN {FALSE} ELSE BOOLEAN,
     out : IF slave THEN {<<>>} ELSE Seq(Command),
     new : IF slave THEN {<<>>} ELSE Seq(Group \X Consumer \X Id),
     slave : {slave}]

LEMMA CommandsOK ==
    ASSUME NEW cmd \in Command
    PROVE  XCommandOK(cmd)
<1>1. CASE cmd \in XCmds
    BY <1>1, StreamsAssumption
<1>2. CASE cmd \in [op : {"xadd"}, id : Id, trim : Trim]
    BY <1>2, Numbers DEF XCommandOK
<1>3. CASE cmd \in [op : {"xtrim"}, trim : Trim]
    BY <1>3 DEF XCommandOK
<1>4. CASE cmd \in [op : {"setid"}, g : Group, id : 0 .. MaxId]
    BY <1>4, Numbers DEF XCommandOK
<1>5. CASE cmd \in [op : {"createconsumer"}, g : Group, c : Consumer]
    BY <1>5 DEF XCommandOK
<1>6. CASE cmd \in [op : {"xclaim"}, g : Group, c : Consumer, ids : Seq(Id),
                    minidle : BOOLEAN, force : BOOLEAN, justid : BOOLEAN,
                    lastid : 0 .. MaxId, retry : Nat, idle : BOOLEAN]
    BY <1>6 DEF XCommandOK
<1> QED
    BY <1>1, <1>2, <1>3, <1>4, <1>5, <1>6 DEF Command

LEMMA NoStreamOK == NoStream \in StreamOK
<1>1. NoStream.grp \in [Group -> GroupOK]
    BY NoGroupOK DEF NoStream
<1> HIDE DEF NoGroup
<1>2. NoStream \in StreamType
    BY <1>1, Numbers DEF StreamType, NoStream
<1> QED
    BY <1>2 DEF StreamOK, NoStream

LEMMA StreamParts ==
    ASSUME NEW st \in StreamOK
    PROVE  /\ st.on \in BOOLEAN /\ st.items \subseteq 1 .. st.last
           /\ st.last \in 0 .. MaxId /\ st.items \in SUBSET Id
           /\ st.grp \in [Group -> GroupOK]
           /\ \A g \in Group : st.grp[g] \in GroupOK /\ st.grp[g].on \in BOOLEAN
           /\ ~st.on => st = NoStream /\ st.items = {} /\ st.last = 0
           /\ \A g \in Group : st.grp[g].on => st.on
<1>1. st \in StreamType /\ st.items \subseteq 1 .. st.last /\ (~st.on => st = NoStream)
    BY DEF StreamOK
<1>2. /\ st.on \in BOOLEAN /\ st.last \in 0 .. MaxId /\ st.items \in SUBSET Id
      /\ st.grp \in [Group -> GroupOK]
    BY <1>1 DEF StreamType
<1>3. NoStream.items = {} /\ NoStream.last = 0 /\ \A g \in Group : NoStream.grp[g] = NoGroup
    BY DEF NoStream
<1>4. ~NoGroup.on
    BY DEF NoGroup
<1>5. \A gr \in GroupOK : gr.on \in BOOLEAN
    BY DEF GroupOK, GroupType
<1> QED
    BY <1>1, <1>2, <1>3, <1>4, <1>5

GroupIn(u, st, g, gr) == u = [st EXCEPT !.grp[g] = gr]
StreamIn(u, s, st) == u = [s EXCEPT !.st = st]

\* A stream that is there with other items, last ID or group.
LEMMA PutItems ==
    ASSUME NEW st \in StreamOK, st.on, NEW items \in SUBSET (1 .. st.last),
           NEW u, u = [st EXCEPT !.items = items]
    PROVE  /\ u \in StreamOK /\ u.on /\ u.items = items /\ u.last = st.last
           /\ u.grp = st.grp
<1>1. st \in StreamType /\ st.last \in 0 .. MaxId
    BY DEF StreamOK, StreamType
<1>2. items \in SUBSET Id
    BY <1>1, Numbers
<1>3. u \in StreamType /\ u.on /\ u.items = items /\ u.last = st.last /\ u.grp = st.grp
    BY <1>1, <1>2 DEF StreamType
<1> QED
    BY <1>3 DEF StreamOK

LEMMA PutGroup ==
    ASSUME NEW st \in StreamOK, st.on, NEW g \in Group, NEW gr \in GroupOK,
           NEW u, GroupIn(u, st, g, gr)
    PROVE  /\ u \in StreamOK /\ u.on /\ u.items = st.items /\ u.last = st.last
           /\ u.grp[g] = gr /\ \A h \in Group : h # g => u.grp[h] = st.grp[h]
<1>1. st \in StreamType /\ st.items \subseteq 1 .. st.last
    BY DEF StreamOK
<1>2. /\ u \in StreamType /\ u.on /\ u.items = st.items /\ u.last = st.last
      /\ u.grp[g] = gr /\ \A h \in Group : h # g => u.grp[h] = st.grp[h]
    BY <1>1 DEF StreamType, GroupIn
<1> QED
    BY <1>1, <1>2 DEF StreamOK

LEMMA PutStream ==
    ASSUME NEW b \in BOOLEAN, NEW s \in Server(b), NEW st \in StreamOK,
           NEW u, StreamIn(u, s, st)
    PROVE  /\ u \in Server(b) /\ u.st = st /\ u.wait = s.wait /\ u.ready = s.ready
           /\ u.out = s.out /\ u.new = s.new /\ u.slave = s.slave
    BY DEF Server, StreamIn

LEMMA ServerParts ==
    ASSUME NEW b \in BOOLEAN, NEW s \in Server(b)
    PROVE  s.st \in StreamOK /\ s.slave = b
    BY DEF Server

LEMMA Propagates ==
    ASSUME NEW b \in BOOLEAN, NEW s \in Server(b), NEW cmd \in Command,
           NEW u, u = xpropagate(s, cmd)
    PROVE  /\ u \in Server(b) /\ u.st = s.st /\ u.wait = s.wait /\ u.ready = s.ready
           /\ u.out = (IF b THEN s.out ELSE Append(s.out, cmd))
           /\ u.new = s.new /\ u.slave = s.slave
<1>1. CASE b
    BY <1>1 DEF Server, xpropagate
<1>2. CASE ~b
  <2>1. s.out \in Seq(Command) /\ ~s.slave
      BY <1>2 DEF Server
  <2>2. Append(s.out, cmd) \in Seq(Command)
      BY <2>1
  <2>3. u = [s EXCEPT !.out = Append(s.out, cmd)]
      BY <2>1 DEF xpropagate
  <2> QED
      BY <1>2, <2>2, <2>3 DEF Server
<1> QED
    BY <1>1, <1>2

LEMMA Signals ==
    ASSUME NEW b \in BOOLEAN, NEW s \in Server(b), NEW u, u = streamSignalReady(s)
    PROVE  /\ u \in Server(b) /\ u.st = s.st /\ u.wait = s.wait
           /\ u.out = s.out /\ u.new = s.new /\ u.slave = s.slave
           /\ u.ready = (s.ready \/ s.wait # <<>>)
    BY DEF Server, streamSignalReady

\* A stream put in its place, and the command propagated.
DoneTo(u, s, st, cmd) == u = xpropagate([s EXCEPT !.st = st], cmd)
OutThen(b, out, cmd) == IF b THEN out ELSE Append(out, cmd)
DoneParts(u, s, b, st, cmd) ==
    /\ u \in Server(b) /\ u.st = st /\ u.wait = s.wait /\ u.ready = s.ready
    /\ u.out = OutThen(b, s.out, cmd) /\ u.new = s.new

LEMMA DoneOK ==
    ASSUME NEW b \in BOOLEAN, NEW s \in Server(b), NEW st \in StreamOK,
           NEW cmd \in Command, NEW u, DoneTo(u, s, st, cmd)
    PROVE  DoneParts(u, s, b, st, cmd)
<1>1. PICK t : StreamIn(t, s, st)
    BY DEF StreamIn
<1>2. /\ t \in Server(b) /\ t.st = st /\ t.wait = s.wait /\ t.ready = s.ready
      /\ t.out = s.out /\ t.new = s.new
    BY <1>1, PutStream
<1>3. u = xpropagate(t, cmd)
    BY <1>1 DEF StreamIn, DoneTo
<1>4. /\ u \in Server(b) /\ u.st = t.st /\ u.wait = t.wait /\ u.ready = t.ready
      /\ u.out = (IF b THEN t.out ELSE Append(t.out, cmd)) /\ u.new = t.new
    BY <1>2, <1>3, Propagates
<1> QED
    BY <1>2, <1>4 DEF OutThen, DoneParts

-----------------------------------------------------------------------------
(* Every command leaves a server well typed, with lists that agree.          *)

LEMMA TrimOK ==
    ASSUME NEW st \in StreamOK, st.on, NEW trim, NEW size,
           NEW u, u = streamTrim(st, trim, size)
    PROVE  /\ u \in StreamOK /\ u.on /\ u.last = st.last /\ u.grp = st.grp
           /\ u.items \subseteq st.items
           /\ u = [st EXCEPT !.items = u.items]
<1>1. PICK items \in SUBSET st.items : u = [st EXCEPT !.items = items]
    BY DEF streamTrim
<1>2. items \in SUBSET (1 .. st.last)
    BY StreamParts
<1>3. u.items = items
    BY <1>1, <1>2, PutItems
<1> QED
    BY <1>1, <1>2, <1>3, PutItems

LEMMA ItemsCounted ==
    ASSUME NEW ids \in SUBSET Id
    PROVE  IsFiniteSet(ids) /\ Cardinality(ids) \in Nat
<1>1. IsFiniteSet(1 .. MaxId)
    BY Numbers, FS_Interval
<1>2. IsFiniteSet(ids)
    BY <1>1, Numbers, FS_Subset
<1> QED
    BY <1>2, FS_CardinalityType

LEMMA RewriteOK ==
    ASSUME NEW st \in StreamOK, NEW trim \in Trim
    PROVE  streamRewriteTrimArgument(st, trim) \in Trim
<1>1. CASE trim = NoTrim \/ ~trim.approx
    BY <1>1 DEF streamRewriteTrimArgument
<1>2. CASE ~(trim = NoTrim \/ ~trim.approx)
  <2>1. trim.by \in {"maxlen", "minid"}
      BY <1>2 DEF Trim
  <2>2. st.items \in SUBSET Id /\ Cardinality(st.items) \in Nat /\ Top \in Nat
      BY StreamParts, ItemsCounted, Numbers
  <2>3. st.items # {} => Min(st.items) \in Nat
    <3>1. st.items \in SUBSET Nat
        BY <2>2, Numbers
    <3> QED
        BY <3>1, MinIn
  <2>4. streamRewriteTrimArgument(st, trim)
            \in [by : {"maxlen", "minid"}, n : Nat, approx : BOOLEAN]
    <3>1. CASE trim.by = "maxlen"
        BY <1>2, <2>2, <3>1 DEF streamRewriteTrimArgument
    <3>2. CASE trim.by = "minid"
        BY <1>2, <2>2, <2>3, <3>2 DEF streamRewriteTrimArgument
    <3> QED
        BY <2>1, <3>1, <3>2
  <2> QED
      BY <2>4 DEF Trim
<1> QED
    BY <1>1, <1>2

LEMMA AppendOK ==
    ASSUME NEW st \in StreamOK, NEW id \in Id, id > st.last,
           NEW u, u = streamAppendItem(st, id)
    PROVE  /\ u \in StreamOK /\ u.on /\ u.last = id /\ u.grp = st.grp
           /\ u.items = st.items \cup {id}
<1>1. st \in StreamType /\ st.items \subseteq 1 .. st.last /\ st.last \in 0 .. MaxId
    BY StreamParts DEF StreamOK
<1>2. /\ u.on /\ u.last = id /\ u.grp = st.grp /\ u.items = st.items \cup {id}
      /\ u \in StreamType
  <2>1. st.items \cup {id} \in SUBSET Id /\ id \in 0 .. MaxId
      BY <1>1, Numbers DEF StreamType
  <2>2. u = [st EXCEPT !.on = TRUE, !.items = st.items \cup {id}, !.last = id]
      BY DEF streamAppendItem
  <2> QED
      BY <1>1, <2>1, <2>2 DEF StreamType
<1>3. u.items \subseteq 1 .. u.last
    BY <1>1, <1>2, Numbers
<1> QED
    BY <1>2, <1>3 DEF StreamOK

AddedTo(st, id, trim, size) == streamTrim(streamAppendItem(st, id), trim, size)
IdFor(st, cmd) == IF cmd.id = 0 THEN st.last + 1 ELSE cmd.id
AddedAs(st, id, trim) ==
    [op |-> "xadd", id |-> id, trim |-> streamRewriteTrimArgument(st, trim)]
TrimmedAs(st, trim) ==
    [op |-> "xtrim", trim |-> streamRewriteTrimArgument(st, trim)]

\* An XADD that adds, as a server (b: the replica) carries it out.
Adds(v, s, b, cmd, id) ==
    /\ ~(s.st.last = MaxId \/ id <= s.st.last)
    /\ id \in Id /\ id > s.st.last /\ v \in Server(b)
    /\ v.st = AddedTo(s.st, id, cmd.trim, NodeSize[b])
    /\ AddedAs(v.st, id, cmd.trim) \in Command
    /\ v.out = OutThen(b, s.out, AddedAs(v.st, id, cmd.trim))
    /\ v.wait = s.wait /\ v.new = s.new /\ v.ready = (s.ready \/ s.wait # <<>>)
AddsNot(v, s, id) == v = s /\ (s.st.last = MaxId \/ id <= s.st.last)

LEMMA XaddIs ==
    ASSUME NEW b \in BOOLEAN, NEW s \in Server(b), NEW cmd, cmd.trim \in Trim,
           cmd.id \in 0 .. MaxId, NEW v, v = xaddCommand(s, cmd)
    PROVE  AddsNot(v, s, IdFor(s.st, cmd)) \/ Adds(v, s, b, cmd, IdFor(s.st, cmd))
<1>1. s.st \in StreamOK /\ s.st.last \in 0 .. MaxId /\ s.slave = b
    BY ServerParts, StreamParts
<1>2. PICK id : id = IdFor(s.st, cmd)
    OBVIOUS
<1>3. CASE s.st.last = MaxId \/ id <= s.st.last
    BY <1>2, <1>3 DEF xaddCommand, IdFor, AddsNot
<1>4. CASE ~(s.st.last = MaxId \/ id <= s.st.last)
  <2>1. id \in Id /\ id > s.st.last
      BY <1>1, <1>2, <1>4, Numbers DEF IdFor
  <2>2. PICK a : a = streamAppendItem(s.st, id)
      OBVIOUS
  <2>3. a \in StreamOK /\ a.on
      BY <1>1, <2>1, <2>2, AppendOK
  <2>4. PICK st : st = streamTrim(a, cmd.trim, NodeSize[b])
      OBVIOUS
  <2>5. st \in StreamOK
      BY <2>3, <2>4, TrimOK
  <2>6. PICK as : as = AddedAs(st, id, cmd.trim)
      OBVIOUS
  <2>7. as \in Command
      BY <2>1, <2>5, <2>6, RewriteOK DEF Command, AddedAs
  <2>8. PICK u : DoneTo(u, s, st, as)
      BY DEF DoneTo
  <2>x. DoneParts(u, s, b, st, as)
      BY <2>5, <2>7, <2>8, DoneOK
  <2>9. /\ u \in Server(b) /\ u.st = st /\ u.wait = s.wait /\ u.ready = s.ready
        /\ u.out = OutThen(b, s.out, as) /\ u.new = s.new
      BY <2>x DEF DoneParts
  <2>10. v = streamSignalReady(u)
      BY <1>1, <1>2, <1>4, <2>2, <2>4, <2>6, <2>8
         DEF xaddCommand, IdFor, AddedAs, DoneTo
  <2>11. v \in Server(b) /\ v.st = u.st /\ v.out = u.out
      BY <2>9, <2>10, Signals
  <2>12. v.wait = u.wait /\ v.new = u.new /\ v.ready = (u.ready \/ u.wait # <<>>)
      BY <2>9, <2>10 DEF Server, streamSignalReady
  <2> QED
      BY <1>2, <1>4, <2>1, <2>2, <2>4, <2>6, <2>7, <2>9, <2>11, <2>12
         DEF AddedTo, Adds
<1> QED
    BY <1>3, <1>4

LEMMA XaddOK ==
    ASSUME NEW b \in BOOLEAN, NEW s \in Server(b), NEW cmd, cmd.trim \in Trim,
           cmd.id \in 0 .. MaxId
    PROVE  xaddCommand(s, cmd) \in Server(b)
<1>1. PICK v : v = xaddCommand(s, cmd)
    OBVIOUS
<1>2. AddsNot(v, s, IdFor(s.st, cmd)) \/ Adds(v, s, b, cmd, IdFor(s.st, cmd))
    BY <1>1, XaddIs
<1> QED
    BY <1>1, <1>2 DEF AddsNot, Adds

\* A stream with other items and last ID, and the same groups.
Kin(st, old, items, last) ==
    /\ st \in StreamOK /\ st.on /\ st.items = items /\ st.last = last
    /\ st.grp = old.grp

TrimmedTo(u, st, trim, size) == u = streamTrim(st, trim, size)

\* XTRIM: here and there the same entries are left, or all were left here.
TrimIs(v, s, b, cmd) ==
    \E st : /\ TrimmedTo(st, s.st, cmd.trim, NodeSize[b])
            /\ \/ st.items = s.st.items /\ v = s
               \/ /\ st.items # s.st.items
                  /\ Kin(st, s.st, st.items, s.st.last)
                  /\ TrimmedAs(st, cmd.trim) \in Command
                  /\ DoneTo(v, s, st, TrimmedAs(st, cmd.trim))

LEMMA XtrimIs ==
    ASSUME NEW b \in BOOLEAN, NEW s \in Server(b), NEW cmd, cmd.trim \in Trim,
           NEW v, v = xtrimCommand(s, cmd)
    PROVE  TrimIs(v, s, b, cmd)
<1>1. s.st \in StreamOK /\ s.slave = b
    BY ServerParts
<1>2. PICK st : st = streamTrim(s.st, cmd.trim, NodeSize[b])
    OBVIOUS
<1>3. TrimmedTo(st, s.st, cmd.trim, NodeSize[b])
    BY <1>2 DEF TrimmedTo
<1>4. CASE st.items = s.st.items
    BY <1>1, <1>2, <1>3, <1>4 DEF xtrimCommand, TrimIs
<1>5. CASE st.items # s.st.items
  <2>1. s.st.on
    <3>1. PICK items \in SUBSET s.st.items : st = [s.st EXCEPT !.items = items]
        BY <1>2 DEF streamTrim
    <3>2. s.st \in StreamType
        BY <1>1 DEF StreamOK
    <3>3. st.items = items
        BY <3>1, <3>2 DEF StreamType
    <3> QED
        BY <1>1, <1>5, <3>3, StreamParts
  <2>2. st \in StreamOK /\ st.on /\ st.last = s.st.last /\ st.grp = s.st.grp
      BY <1>1, <1>2, <2>1, TrimOK
  <2>3. Kin(st, s.st, st.items, s.st.last)
      BY <2>2 DEF Kin
  <2>4. TrimmedAs(st, cmd.trim) \in Command
      BY <2>2, RewriteOK DEF Command, TrimmedAs
  <2>5. DoneTo(v, s, st, TrimmedAs(st, cmd.trim))
      BY <1>1, <1>2, <1>5 DEF xtrimCommand, DoneTo, TrimmedAs
  <2> QED
      BY <1>3, <1>5, <2>3, <2>4, <2>5 DEF TrimIs
<1> QED
    BY <1>4, <1>5

LEMMA XtrimOK ==
    ASSUME NEW b \in BOOLEAN, NEW s \in Server(b), NEW cmd, cmd.trim \in Trim
    PROVE  xtrimCommand(s, cmd) \in Server(b)
<1>1. PICK v : v = xtrimCommand(s, cmd)
    OBVIOUS
<1>2. TrimIs(v, s, b, cmd)
    BY <1>1, XtrimIs
<1>3. SUFFICES ASSUME v # s PROVE v \in Server(b)
    BY <1>1
<1>4. PICK st : /\ Kin(st, s.st, st.items, s.st.last)
                /\ TrimmedAs(st, cmd.trim) \in Command
                /\ DoneTo(v, s, st, TrimmedAs(st, cmd.trim))
    BY <1>2, <1>3 DEF TrimIs
<1>5. st \in StreamOK
    BY <1>4 DEF Kin
<1>6. DoneParts(v, s, b, st, TrimmedAs(st, cmd.trim))
    BY <1>4, <1>5, DoneOK
<1> QED
    BY <1>6 DEF DoneParts

\* XDEL and XSETID: not at all, or the same here and there.
DelIs(v, s, cmd) ==
    \/ v = s /\ cmd.id \notin s.st.items
    \/ /\ cmd.id \in s.st.items
       /\ \E st : Kin(st, s.st, s.st.items \ {cmd.id}, s.st.last) /\ DoneTo(v, s, st, cmd)

LEMMA XdelIs ==
    ASSUME NEW b \in BOOLEAN, NEW s \in Server(b), NEW cmd \in Command,
           NEW v, v = xdelCommand(s, cmd)
    PROVE  DelIs(v, s, cmd)
<1>1. s.st \in StreamOK
    BY ServerParts
<1>2. CASE cmd.id \notin s.st.items
    BY <1>2 DEF xdelCommand, DelIs
<1>3. CASE cmd.id \in s.st.items
  <2>1. s.st.on /\ s.st.items \ {cmd.id} \in SUBSET (1 .. s.st.last)
      BY <1>1, <1>3, StreamParts
  <2>2. PICK st : st = [s.st EXCEPT !.items = s.st.items \ {cmd.id}]
      OBVIOUS
  <2>3. Kin(st, s.st, s.st.items \ {cmd.id}, s.st.last)
    <3>1. PICK old \in StreamOK : old = s.st
        BY <1>1
    <3>2. PICK items \in SUBSET (1 .. old.last) : items = s.st.items \ {cmd.id}
        BY <2>1, <3>1
    <3>3. old.on /\ st = [old EXCEPT !.items = items]
        BY <2>1, <2>2, <3>1, <3>2
    <3>4. /\ st \in StreamOK /\ st.on /\ st.items = items /\ st.last = old.last
          /\ st.grp = old.grp
        BY <3>3, PutItems
    <3> QED
        BY <3>1, <3>2, <3>4 DEF Kin
  <2>4. DoneTo(v, s, st, cmd)
      BY <1>3, <2>2 DEF xdelCommand, DoneTo
  <2> QED
      BY <1>3, <2>3, <2>4 DEF DelIs
<1> QED
    BY <1>2, <1>3

SetIs(v, s, cmd) ==
    \/ v = s /\ (~s.st.on \/ cmd.id < streamLastValidID(s.st))
    \/ /\ ~(~s.st.on \/ cmd.id < streamLastValidID(s.st))
       /\ \E st : Kin(st, s.st, s.st.items, cmd.id) /\ DoneTo(v, s, st, cmd)

LEMMA XsetidIs ==
    ASSUME NEW b \in BOOLEAN, NEW s \in Server(b), NEW cmd \in Command,
           cmd.id \in 0 .. MaxId, NEW v, v = xsetidCommand(s, cmd)
    PROVE  SetIs(v, s, cmd)
<1>1. s.st \in StreamOK
    BY ServerParts
<1>2. CASE ~s.st.on \/ cmd.id < streamLastValidID(s.st)
    BY <1>2 DEF xsetidCommand, SetIs
<1>3. CASE ~(~s.st.on \/ cmd.id < streamLastValidID(s.st))
  <2>1. s.st.items \subseteq 1 .. cmd.id
    <3>1. s.st.items \in SUBSET (1 .. s.st.last) /\ s.st.last \in Nat
        BY <1>1, StreamParts
    <3>2. CASE s.st.items = {}
        BY <3>2
    <3>3. CASE s.st.items # {}
      <4>1. Max(s.st.items) \in s.st.items /\ \A x \in s.st.items : x <= Max(s.st.items)
          BY <3>1, <3>3, MaxUpTo
      <4>2. ~(cmd.id < Max(s.st.items))
          BY <1>3, <3>3 DEF streamLastValidID
      <4>3. Max(s.st.items) \in Nat
          BY <3>1, <4>1
      <4> QED
          BY <3>1, <4>1, <4>2, <4>3
    <3> QED
        BY <3>2, <3>3
  <2>2. PICK st : st = [s.st EXCEPT !.last = cmd.id]
      OBVIOUS
  <2>3. /\ st \in StreamType /\ st.on /\ st.items = s.st.items /\ st.last = cmd.id
        /\ st.grp = s.st.grp
      BY <1>1, <1>3, <2>2 DEF StreamOK, StreamType
  <2>4. Kin(st, s.st, s.st.items, cmd.id)
      BY <2>1, <2>3 DEF StreamOK, Kin
  <2>5. DoneTo(v, s, st, cmd)
      BY <1>3, <2>2 DEF xsetidCommand, DoneTo
  <2> QED
      BY <1>3, <2>4, <2>5 DEF SetIs
<1> QED
    BY <1>2, <1>3

LEMMA XdelOK ==
    ASSUME NEW b \in BOOLEAN, NEW s \in Server(b), NEW cmd \in Command
    PROVE  xdelCommand(s, cmd) \in Server(b)
<1>1. PICK v : v = xdelCommand(s, cmd)
    OBVIOUS
<1>2. DelIs(v, s, cmd)
    BY <1>1, XdelIs
<1>3. SUFFICES ASSUME v # s PROVE v \in Server(b)
    BY <1>1
<1>4. PICK st, items, last : Kin(st, s.st, items, last) /\ DoneTo(v, s, st, cmd)
    BY <1>2, <1>3 DEF DelIs
<1>5. st \in StreamOK
    BY <1>4 DEF Kin
<1>6. DoneParts(v, s, b, st, cmd)
    BY <1>4, <1>5, DoneOK
<1> QED
    BY <1>6 DEF DoneParts

LEMMA XsetidOK ==
    ASSUME NEW b \in BOOLEAN, NEW s \in Server(b), NEW cmd \in Command,
           cmd.id \in 0 .. MaxId
    PROVE  xsetidCommand(s, cmd) \in Server(b)
<1>1. PICK v : v = xsetidCommand(s, cmd)
    OBVIOUS
<1>2. SetIs(v, s, cmd)
    BY <1>1, XsetidIs
<1>3. SUFFICES ASSUME v # s PROVE v \in Server(b)
    BY <1>1
<1>4. PICK st, items, last : Kin(st, s.st, items, last) /\ DoneTo(v, s, st, cmd)
    BY <1>2, <1>3 DEF SetIs
<1>5. st \in StreamOK
    BY <1>4 DEF Kin
<1>6. DoneParts(v, s, b, st, cmd)
    BY <1>4, <1>5, DoneOK
<1> QED
    BY <1>6 DEF DoneParts

LEMMA DelOK ==
    ASSUME NEW b \in BOOLEAN, NEW s \in Server(b), NEW cmd \in Command
    PROVE  delStream(s, cmd) \in Server(b)
<1>1. [s EXCEPT !.st = NoStream] \in Server(b)
    BY NoStreamOK, PutStream DEF StreamIn
<1> QED
    BY <1>1, Propagates DEF delStream

\* A group put in its place, and the server with it.
GroupPut(u, s, g, gr) == u = [s EXCEPT !.st.grp[g] = gr]

LEMMA PutInServer ==
    ASSUME NEW b \in BOOLEAN, NEW s \in Server(b), s.st.on, NEW g \in Group,
           NEW gr \in GroupOK, NEW u, GroupPut(u, s, g, gr)
    PROVE  /\ u \in Server(b) /\ u.st \in StreamOK /\ u.st.on
           /\ u.st.items = s.st.items /\ u.st.last = s.st.last
           /\ u.st.grp[g] = gr /\ \A h \in Group : h # g => u.st.grp[h] = s.st.grp[h]
           /\ u.wait = s.wait /\ u.ready = s.ready /\ u.out = s.out
           /\ u.new = s.new /\ u.slave = s.slave
<1>1. s.st \in StreamOK
    BY ServerParts
<1>2. PICK st : GroupIn(st, s.st, g, gr)
    BY DEF GroupIn
<1>3. StreamIn(u, s, st)
    BY <1>2 DEF GroupPut, GroupIn, StreamIn
<1>4. /\ st \in StreamOK /\ st.on /\ st.items = s.st.items /\ st.last = s.st.last
      /\ st.grp[g] = gr /\ \A h \in Group : h # g => st.grp[h] = s.st.grp[h]
    BY <1>1, <1>2, PutGroup
<1>5. /\ u \in Server(b) /\ u.st = st /\ u.wait = s.wait /\ u.ready = s.ready
      /\ u.out = s.out /\ u.new = s.new /\ u.slave = s.slave
    BY <1>3, <1>4, PutStream
<1> QED
    BY <1>4, <1>5

\* A subcommand of XGROUP that does something, and the group it makes.
Changes(st, cmd) ==
    LET gr == st.grp[cmd.g]
    IN  IF cmd.op = "create" THEN ~gr.on
        ELSE st.on /\ gr.on /\ (cmd.op = "createconsumer" => cmd.c \notin gr.known)

NewGroup(st, cmd) ==
    LET gr == st.grp[cmd.g]
        at == IF cmd.id = Top THEN st.last ELSE cmd.id
    IN  IF cmd.op = "create" THEN streamCreateCG(at)
        ELSE IF cmd.op = "setid" THEN [gr EXCEPT !.last = at]
        ELSE IF cmd.op = "destroy" THEN NoGroup
        ELSE IF cmd.op = "createconsumer" THEN streamLookupConsumer(gr, cmd.c)
        ELSE streamDelConsumer(gr, cmd.c)

Regrouped(u, st, g, gr) ==
    /\ u \in StreamOK /\ u.on = TRUE /\ u.items = st.items /\ u.last = st.last
    /\ u.grp[g] = gr /\ \A h \in Group : h # g => u.grp[h] = st.grp[h]

GroupIs(v, s, b, cmd) ==
    \/ v = s /\ ~Changes(s.st, cmd)
    \/ /\ Changes(s.st, cmd)
       /\ Regrouped(v.st, s.st, cmd.g, NewGroup(s.st, cmd))
       /\ v \in Server(b) /\ v.out = OutThen(b, s.out, cmd)
       /\ v.wait = s.wait /\ v.new = s.new /\ (s.ready => v.ready)
       /\ cmd.op = "setid" => v.ready = s.ready

LEMMA NewGroupOK ==
    ASSUME NEW st \in StreamOK, NEW cmd \in Command,
           cmd.op \in {"create", "setid", "destroy", "createconsumer", "delconsumer"}
    PROVE  NewGroup(st, cmd) \in GroupOK
<1> DEFINE gr == st.grp[cmd.g]
           at == IF cmd.id = Top THEN st.last ELSE cmd.id
<1>1. /\ cmd.g \in Group
      /\ cmd.op \in {"create", "setid"} => cmd.id \in 0 .. Top
      /\ cmd.op \in {"createconsumer", "delconsumer"} => cmd.c \in Consumer
    BY CommandsOK DEF XCommandOK
<1>2. gr \in GroupOK /\ st.last \in 0 .. MaxId
    BY <1>1, StreamParts
<1>3. cmd.op \in {"create", "setid"} => at \in 0 .. MaxId
    BY <1>1, <1>2, Numbers
<1> HIDE DEF gr, at
<1>4. CASE cmd.op = "create"
    BY <1>3, <1>4, CreateOK DEF NewGroup, at
<1>5. CASE cmd.op = "setid"
  <2>1. PICK u : LastIn(u, gr, at)
      BY DEF LastIn
  <2>2. u \in GroupOK
      BY <1>2, <1>3, <1>5, <2>1, MovedOK
  <2> QED
      BY <1>5, <2>1, <2>2 DEF NewGroup, LastIn, gr, at
<1>6. CASE cmd.op = "destroy"
    BY <1>6, NoGroupOK DEF NewGroup
<1>7. CASE cmd.op = "createconsumer"
    BY <1>1, <1>2, <1>7, LookupOK DEF NewGroup, gr
<1>8. CASE cmd.op = "delconsumer"
    BY <1>1, <1>2, <1>8, DelConsumerOK DEF NewGroup, gr
<1> QED
    BY <1>4, <1>5, <1>6, <1>7, <1>8

LEMMA XgroupIs ==
    ASSUME NEW b \in BOOLEAN, NEW s \in Server(b), NEW cmd \in Command,
           cmd.op \in {"create", "setid", "destroy", "createconsumer", "delconsumer"},
           NEW v, v = xgroupCommand(s, cmd)
    PROVE  GroupIs(v, s, b, cmd)
<1>1. cmd.g \in Group /\ s.st \in StreamOK
    BY CommandsOK, ServerParts DEF XCommandOK
<1>2. PICK gr \in GroupOK : gr = NewGroup(s.st, cmd)
    BY <1>1, NewGroupOK
<1>3. PICK a : a = [s.st EXCEPT !.grp[cmd.g] = gr, !.on = TRUE]
    OBVIOUS
<1>4. Regrouped(a, s.st, cmd.g, gr)
  <2>1. s.st \in StreamType /\ s.st.items \subseteq 1 .. s.st.last
      BY <1>1 DEF StreamOK
  <2>2. /\ a \in StreamType /\ a.on = TRUE /\ a.items = s.st.items /\ a.last = s.st.last
        /\ a.grp[cmd.g] = gr /\ \A h \in Group : h # cmd.g => a.grp[h] = s.st.grp[h]
      BY <1>1, <1>3, <2>1 DEF StreamType
  <2> QED
      BY <2>1, <2>2 DEF StreamOK, Regrouped
<1>5. PICK u : DoneTo(u, s, a, cmd)
    BY DEF DoneTo
<1>6. u = xpropagate([s EXCEPT !.st.grp[cmd.g] = gr, !.st.on = TRUE], cmd)
  <2>1. [s EXCEPT !.st.grp[cmd.g] = gr, !.st.on = TRUE] = [s EXCEPT !.st = a]
      BY <1>3 DEF Server
  <2> QED
      BY <1>5, <2>1 DEF DoneTo
<1>7. DoneParts(u, s, b, a, cmd)
  <2>1. a \in StreamOK
      BY <1>4 DEF Regrouped
  <2> QED
      BY <1>5, <2>1, DoneOK
<1>8. /\ u \in Server(b) /\ u.st = a /\ u.out = OutThen(b, s.out, cmd)
      /\ u.wait = s.wait /\ u.new = s.new /\ u.ready = s.ready
    BY <1>7 DEF DoneParts
<1>9. CASE ~Changes(s.st, cmd)
  <2>1. v = s
    <3>1. CASE cmd.op = "create"
        BY <1>9, <3>1 DEF Changes, xgroupCommand
    <3>2. CASE cmd.op = "setid"
        BY <1>9, <3>2 DEF Changes, xgroupCommand
    <3>3. CASE cmd.op = "destroy"
        BY <1>9, <3>3 DEF Changes, xgroupCommand
    <3>4. CASE cmd.op = "createconsumer"
        BY <1>9, <3>4 DEF Changes, xgroupCommand
    <3>5. CASE cmd.op = "delconsumer"
        BY <1>9, <3>5 DEF Changes, xgroupCommand
    <3> QED
        BY <3>1, <3>2, <3>3, <3>4, <3>5
  <2> QED
      BY <1>9, <2>1 DEF GroupIs
<1>10. CASE Changes(s.st, cmd)
  <2>1. /\ v = u \/ v = streamSignalReady(u)
        /\ cmd.op = "setid" => v = u
    <3>1. CASE cmd.op = "create"
        BY <1>2, <1>6, <1>10, <3>1 DEF Changes, NewGroup, xgroupCommand
    <3>2. CASE cmd.op = "setid"
        BY <1>2, <1>6, <1>10, <3>2 DEF Changes, NewGroup, xgroupCommand
    <3>3. CASE cmd.op = "destroy"
        BY <1>2, <1>6, <1>10, <3>3 DEF Changes, NewGroup, xgroupCommand
    <3>4. CASE cmd.op = "createconsumer"
        BY <1>2, <1>6, <1>10, <3>4 DEF Changes, NewGroup, xgroupCommand
    <3>5. CASE cmd.op = "delconsumer"
        BY <1>2, <1>6, <1>10, <3>5 DEF Changes, NewGroup, xgroupCommand
    <3> QED
        BY <3>1, <3>2, <3>3, <3>4, <3>5
  <2>2. /\ v \in Server(b) /\ v.st = u.st /\ v.out = u.out
        /\ v.wait = u.wait /\ v.new = u.new /\ (u.ready => v.ready)
        /\ cmd.op = "setid" => v.ready = u.ready
      BY <1>8, <2>1, Signals
  <2> QED
      BY <1>2, <1>4, <1>8, <1>10, <2>2 DEF GroupIs
<1> QED
    BY <1>9, <1>10

LEMMA XgroupOK ==
    ASSUME NEW b \in BOOLEAN, NEW s \in Server(b), NEW cmd \in Command,
           cmd.op \in {"create", "setid", "destroy", "createconsumer", "delconsumer"}
    PROVE  xgroupCommand(s, cmd) \in Server(b)
<1>1. PICK v : v = xgroupCommand(s, cmd)
    OBVIOUS
<1>2. GroupIs(v, s, b, cmd)
    BY <1>1, XgroupIs
<1> QED
    BY <1>1, <1>2 DEF GroupIs

LEMMA XackOK ==
    ASSUME NEW b \in BOOLEAN, NEW s \in Server(b), NEW cmd \in Command,
           cmd.g \in Group, cmd.id \in Id
    PROVE  xackCommand(s, cmd) \in Server(b)
<1> DEFINE gr == s.st.grp[cmd.g]
           t == [s EXCEPT !.st.grp[cmd.g] = Settle(@, cmd.id)]
<1>1. s.st \in StreamOK /\ gr \in GroupOK
    BY ServerParts, StreamParts
<1>2. CASE gr.pel[cmd.id] = NoNack
    BY <1>2 DEF xackCommand
<1>3. CASE gr.pel[cmd.id] # NoNack
  <2>1. s.st.on
    <3>1. NoStream.grp[cmd.g].pel[cmd.id] = NoNack
        BY DEF NoStream, NoGroup
    <3> QED
        BY <1>1, <1>3, <3>1, StreamParts
  <2>2. Settle(gr, cmd.id) \in GroupOK
      BY <1>1, SettleOK
  <2>3. t = [s EXCEPT !.st.grp[cmd.g] = Settle(gr, cmd.id)]
      OBVIOUS
  <2>4. t \in Server(b)
    <3>1. GroupPut(t, s, cmd.g, Settle(gr, cmd.id))
        BY <2>3 DEF GroupPut
    <3> QED
        BY <2>1, <2>2, <3>1, PutInServer
  <2>5. xackCommand(s, cmd) = xpropagate(t, cmd)
      BY <1>3 DEF xackCommand
  <2> HIDE DEF t
  <2> QED
      BY <2>4, <2>5, Propagates
<1> QED
    BY <1>2, <1>3

\* The XCLAIM propagated for a pending entry.
ClaimOf(gr, g, id) ==
    [op |-> "xclaim", g |-> g, c |-> gr.pel[id].owner, ids |-> <<id>>,
     minidle |-> FALSE, force |-> TRUE, justid |-> TRUE, lastid |-> gr.last,
     retry |-> gr.pel[id].count, idle |-> gr.pel[id].idle]

LEMMA PropagateClaim ==
    ASSUME NEW b \in BOOLEAN, NEW s \in Server(b), NEW g \in Group, NEW id \in Id,
           s.st.grp[g].pel[id].owner \in Consumer,
           NEW u, u = streamPropagateXCLAIM(s, g, id)
    PROVE  /\ ClaimOf(s.st.grp[g], g, id) \in Command
           /\ u = xpropagate(s, ClaimOf(s.st.grp[g], g, id))
           /\ u \in Server(b) /\ u.st = s.st /\ u.wait = s.wait /\ u.ready = s.ready
           /\ u.out = (IF b THEN s.out ELSE Append(s.out, ClaimOf(s.st.grp[g], g, id)))
           /\ u.new = s.new
<1> DEFINE gr == s.st.grp[g]
           cl == ClaimOf(gr, g, id)
<1>1. gr \in GroupType
    BY ServerParts, StreamParts DEF GroupOK
<1>2. gr.pel[id].count \in Nat /\ gr.pel[id].idle \in BOOLEAN /\ gr.last \in 0 .. MaxId
    BY <1>1 DEF GroupType, NackType
<1>3. <<id>> \in Seq(Id)
    OBVIOUS
<1>4. gr.pel[id].owner \in Consumer
    OBVIOUS
<1> HIDE DEF gr
<1>5. cl \in Command
    BY <1>2, <1>3, <1>4 DEF Command, ClaimOf
<1>6. u = xpropagate(s, cl)
    BY DEF streamPropagateXCLAIM, ClaimOf, gr
<1> HIDE DEF cl
<1>7. /\ u \in Server(b) /\ u.st = s.st /\ u.wait = s.wait /\ u.ready = s.ready
      /\ u.out = (IF b THEN s.out ELSE Append(s.out, cl)) /\ u.new = s.new
    BY <1>5, <1>6, Propagates
<1> QED
    BY <1>5, <1>6, <1>7 DEF cl, gr

\* The arguments XCLAIM and XAUTOCLAIM take entries with.
ClaimArgs(cmd) ==
    /\ cmd.g \in Group /\ cmd.c \in Consumer
    /\ cmd.minidle \in BOOLEAN /\ cmd.force \in BOOLEAN /\ cmd.justid \in BOOLEAN
    /\ cmd.retry \in Nat /\ cmd.idle \in BOOLEAN

ClaimSkips(s, cmd, id) ==
    LET nack == s.st.grp[cmd.g].pel[id]
    IN  \/ nack = NoNack /\ ~(cmd.force /\ id \in s.st.items)
        \/ nack # NoNack /\ cmd.minidle /\ ~nack.idle

\* Either the entry is left alone or it is the consumer's, and propagated.
ClaimTaken(s, cmd, id, u, count, t, gr) ==
    /\ gr = Assign(streamLookupConsumer(s.st.grp[cmd.g], cmd.c), id, cmd.c,
                   count, cmd.idle)
    /\ GroupPut(t, s, cmd.g, gr)
    /\ s.st.grp[cmd.g].pel[id] # NoNack \/ id \in s.st.items
    /\ gr.pel[id] = [owner |-> cmd.c, count |-> count, idle |-> cmd.idle]
    /\ t.st.grp[cmd.g] = gr
    /\ u = streamPropagateXCLAIM(t, cmd.g, id)
    /\ cmd.retry # 0 => count = cmd.retry

LEMMA ClaimTakes ==
    ASSUME NEW b \in BOOLEAN, NEW s \in Server(b), NEW cmd, ClaimArgs(cmd),
           s.st.grp[cmd.g].on, NEW id \in Id, NEW u, u = Claim(s, cmd, id),
           u # s \/ ~ClaimSkips(s, cmd, id)
    PROVE  \E count \in Nat \ {0}, t \in Server(b), gr \in GroupOK :
                ClaimTaken(s, cmd, id, u, count, t, gr)
<1> DEFINE g == cmd.g
           old == s.st.grp[g]
           nack == old.pel[id]
           was == IF nack = NoNack THEN 1 ELSE nack.count
           count == IF cmd.retry # 0 THEN cmd.retry
                    ELSE IF cmd.justid THEN was ELSE was + 1
           known == streamLookupConsumer(old, cmd.c)
           gr == Assign(known, id, cmd.c, count, cmd.idle)
<1>1. g \in Group /\ cmd.c \in Consumer /\ cmd.retry \in Nat /\ cmd.idle \in BOOLEAN
    BY DEF ClaimArgs
<1>2. s.st \in StreamOK /\ old \in GroupOK /\ s.st.on
    BY <1>1, ServerParts, StreamParts
<1>3. count \in Nat \ {0}
  <2>1. old \in GroupType /\ ListsAgree(old)
      BY <1>2 DEF GroupOK
  <2>2. nack \in NackType
      BY <2>1 DEF GroupType
  <2>3. nack # NoNack => nack.count > 0 /\ nack.count \in Nat
      BY <2>1, <2>2 DEF ListsAgree, NackType
  <2>4. was \in Nat \ {0}
      BY <2>3
  <2> HIDE DEF was
  <2> QED
      BY <1>1, <2>4
<1>4. /\ ~ClaimSkips(s, cmd, id)
      /\ u = streamPropagateXCLAIM([s EXCEPT !.st.grp[g] = gr], g, id)
    BY DEF Claim, ClaimSkips
<1>5. known \in GroupOK /\ cmd.c \in known.known
    BY <1>1, <1>2, LookupOK
<1> HIDE DEF known, count
<1>6. gr \in GroupOK
      /\ gr.pel[id] = [owner |-> cmd.c, count |-> count, idle |-> cmd.idle]
    BY <1>1, <1>3, <1>5, AssignOK DEF AssignedTo
<1> HIDE DEF gr
<1>a. PICK t : GroupPut(t, s, g, gr)
    BY DEF GroupPut
<1>7. t \in Server(b) /\ t.st.grp[g] = gr
    BY <1>1, <1>2, <1>6, <1>a, PutInServer
<1>8. cmd.retry # 0 => count = cmd.retry
    BY DEF count
<1>9. gr = Assign(streamLookupConsumer(s.st.grp[cmd.g], cmd.c), id, cmd.c, count, cmd.idle)
    BY DEF gr, known
<1>10. nack # NoNack \/ id \in s.st.items
    BY <1>4 DEF ClaimSkips
<1>11. t = [s EXCEPT !.st.grp[cmd.g] = gr]
    BY <1>a DEF GroupPut
<1>12. u = streamPropagateXCLAIM(t, g, id)
    BY <1>4, <1>11
<1> QED
    BY <1>3, <1>6, <1>7, <1>8, <1>9, <1>10, <1>a, <1>12 DEF ClaimTaken

LEMMA ClaimOK ==
    ASSUME NEW b \in BOOLEAN, NEW s \in Server(b), NEW cmd, ClaimArgs(cmd),
           s.st.grp[cmd.g].on, NEW id \in Id
    PROVE  Claim(s, cmd, id) \in Server(b) /\ Claim(s, cmd, id).st.grp[cmd.g].on
<1> DEFINE u == Claim(s, cmd, id)
           g == cmd.g
<1>0. g \in Group /\ cmd.c \in Consumer /\ cmd.idle \in BOOLEAN
    BY DEF ClaimArgs
<1>1. CASE u = s
    BY <1>1
<1>2. CASE u # s
  <2>a. PICK count \in Nat \ {0}, t \in Server(b), gr \in GroupOK :
                ClaimTaken(s, cmd, id, u, count, t, gr)
      BY <1>2, ClaimTakes
  <2>1. /\ gr = Assign(streamLookupConsumer(s.st.grp[g], cmd.c),
                       id, cmd.c, count, cmd.idle)
        /\ gr.pel[id] = [owner |-> cmd.c, count |-> count, idle |-> cmd.idle]
        /\ t.st.grp[g] = gr
        /\ u = streamPropagateXCLAIM(t, g, id)
      BY <2>a DEF ClaimTaken
  <2>2. s.st.grp[g] \in GroupOK
      BY <1>0, ServerParts, StreamParts
  <2>3. PICK known : known = streamLookupConsumer(s.st.grp[g], cmd.c)
      OBVIOUS
  <2>4. known \in GroupOK /\ cmd.c \in known.known /\ known["on"] = s.st.grp[g].on
      BY <1>0, <2>2, <2>3, LookupOK
  <2>5. known.on = s.st.grp[g].on
      BY <2>4
  <2>6. gr.on = known.on
      BY <1>0, <2>1, <2>3, <2>4, AssignOK
  <2>7. u \in Server(b) /\ u.st = t.st
      BY <1>0, <2>1, PropagateClaim
  <2> QED
      BY <2>1, <2>5, <2>6, <2>7
<1> QED
    BY <1>1, <1>2

LEMMA ClaimAllOK ==
    ASSUME NEW b \in BOOLEAN, NEW s \in Server(b), NEW cmd, ClaimArgs(cmd),
           s.st.grp[cmd.g].on, NEW ids \in Seq(Id)
    PROVE  /\ ClaimAll(s, cmd, ids) \in Server(b)
           /\ ClaimAll(s, cmd, ids).st.grp[cmd.g].on
<1> DEFINE X == {w \in Server(b) : w.st.grp[cmd.g].on}
<1>1. \A w \in X, id \in Id : Claim(w, cmd, id) \in X
    BY ClaimOK
<1>2. s \in X
    OBVIOUS
<1> HIDE DEF X
<1>3. ClaimAll(s, cmd, ids) \in X
    BY <1>1, <1>2, ClaimAllKeeps
<1> QED
    BY <1>3 DEF X

\* The XGROUP SETID, and the XGROUP CREATECONSUMER, propagated.
GroupIdOf(gr, g) == [op |-> "setid", g |-> g, id |-> gr.last]
CreationOf(g, c) == [op |-> "createconsumer", g |-> g, c |-> c]

LEMMA PropagateGroup ==
    ASSUME NEW b \in BOOLEAN, NEW s \in Server(b), NEW g \in Group,
           NEW u, u = streamPropagateGroupID(s, g)
    PROVE  /\ GroupIdOf(s.st.grp[g], g) \in Command
           /\ u \in Server(b) /\ u.st = s.st /\ u.wait = s.wait /\ u.ready = s.ready
           /\ u.out = (IF b THEN s.out
                       ELSE Append(s.out, GroupIdOf(s.st.grp[g], g)))
           /\ u.new = s.new
<1>1. s.st.grp[g] \in GroupType
    BY ServerParts, StreamParts DEF GroupOK
<1>2. PICK cmd : cmd = GroupIdOf(s.st.grp[g], g)
    OBVIOUS
<1>3. s.st.grp[g].last \in 0 .. MaxId
    BY <1>1 DEF GroupType
<1>4. cmd \in Command
    BY <1>2, <1>3 DEF Command, GroupIdOf
<1>5. u = xpropagate(s, cmd)
    BY <1>2 DEF streamPropagateGroupID, GroupIdOf
<1>6. /\ u \in Server(b) /\ u.st = s.st /\ u.wait = s.wait /\ u.ready = s.ready
      /\ u.out = (IF b THEN s.out ELSE Append(s.out, cmd)) /\ u.new = s.new
    BY <1>4, <1>5, Propagates
<1> QED
    BY <1>2, <1>4, <1>6

LEMMA PropagateConsumer ==
    ASSUME NEW b \in BOOLEAN, NEW s \in Server(b), NEW g \in Group, NEW c \in Consumer,
           NEW u, u = streamPropagateConsumerCreation(s, g, c)
    PROVE  /\ CreationOf(g, c) \in Command
           /\ u \in Server(b) /\ u.st = s.st /\ u.wait = s.wait /\ u.ready = s.ready
           /\ u.out = (IF b THEN s.out
                       ELSE Append(s.out, CreationOf(g, c)))
           /\ u.new = s.new
<1>1. PICK cmd : cmd = CreationOf(g, c)
    OBVIOUS
<1>2. cmd \in Command
    BY <1>1 DEF Command, CreationOf
<1>3. u = xpropagate(s, cmd)
    BY <1>1 DEF streamPropagateConsumerCreation, CreationOf
<1>4. /\ u \in Server(b) /\ u.st = s.st /\ u.wait = s.wait /\ u.ready = s.ready
      /\ u.out = (IF b THEN s.out ELSE Append(s.out, cmd)) /\ u.new = s.new
    BY <1>2, <1>3, Propagates
<1> QED
    BY <1>1, <1>2, <1>4

\* XCLAIM first moves the last ID of the group up to LASTID.
LastUpTo(t, s, g, id) == t = [s EXCEPT !.st.grp[g].last = Max({@, id})]

LEMMA LastIdOK ==
    ASSUME NEW b \in BOOLEAN, NEW s \in Server(b), NEW g \in Group, s.st.grp[g].on,
           NEW id \in 0 .. MaxId, NEW t, LastUpTo(t, s, g, id)
    PROVE  /\ t \in Server(b) /\ t.st \in StreamOK /\ t.st.on
           /\ t.st.items = s.st.items /\ t.st.last = s.st.last
           /\ t.wait = s.wait /\ t.ready = s.ready /\ t.out = s.out /\ t.new = s.new
           /\ t.st.grp[g] \in GroupOK
           /\ t.st.grp[g].on /\ t.st.grp[g].known = s.st.grp[g].known
           /\ t.st.grp[g].cpel = s.st.grp[g].cpel /\ t.st.grp[g].pel = s.st.grp[g].pel
           /\ t.st.grp[g].last = Later(s.st.grp[g].last, id)
           /\ \A h \in Group : h # g => t.st.grp[h] = s.st.grp[h]
<1>1. s.st.grp[g] \in GroupOK /\ s.st.on
    BY ServerParts, StreamParts
<1>2. s.st.grp[g].last \in 0 .. MaxId
    BY <1>1 DEF GroupOK, GroupType
<1>3. PICK last : last = Later(s.st.grp[g].last, id)
    OBVIOUS
<1>4. last \in 0 .. MaxId
  <2>1. s.st.grp[g].last \in Nat /\ id \in Nat
      BY <1>2, Numbers
  <2>2. last \in {s.st.grp[g].last, id}
      BY <1>3, <2>1, LaterIs
  <2> QED
      BY <1>2, <2>2
<1>5. PICK gr : LastIn(gr, s.st.grp[g], last)
    BY DEF LastIn
<1>6. /\ gr \in GroupOK
      /\ gr.on = s.st.grp[g].on /\ gr.last = last /\ gr.known = s.st.grp[g].known
      /\ gr.cpel = s.st.grp[g].cpel /\ gr.pel = s.st.grp[g].pel
  <2>1. ASSUME NEW old \in GroupOK, LastIn(gr, old, last)
        PROVE  /\ gr \in GroupOK
               /\ gr.on = old.on /\ gr.last = last /\ gr.known = old.known
               /\ gr.cpel = old.cpel /\ gr.pel = old.pel
      BY <1>4, <2>1, MovedOK
  <2> QED
      BY <1>1, <1>5, <2>1
<1>7. GroupPut(t, s, g, gr)
    BY <1>3, <1>5 DEF GroupPut, LastUpTo, LastIn, Later
<1>8. /\ t \in Server(b) /\ t.st \in StreamOK /\ t.st.on
      /\ t.st.items = s.st.items /\ t.st.last = s.st.last
      /\ t.st.grp[g] = gr /\ \A h \in Group : h # g => t.st.grp[h] = s.st.grp[h]
      /\ t.wait = s.wait /\ t.ready = s.ready /\ t.out = s.out
      /\ t.new = s.new
    BY <1>1, <1>6, <1>7, PutInServer
<1> QED
    BY <1>3, <1>6, <1>8

LEMMA XclaimOK ==
    ASSUME NEW b \in BOOLEAN, NEW s \in Server(b), NEW cmd, ClaimArgs(cmd),
           cmd.ids \in Seq(Id), cmd.lastid \in 0 .. MaxId
    PROVE  xclaimCommand(s, cmd) \in Server(b)
<1>0. cmd.g \in Group
    BY DEF ClaimArgs
<1>1. CASE ~s.st.grp[cmd.g].on
    BY <1>1 DEF xclaimCommand
<1>2. CASE s.st.grp[cmd.g].on
  <2>1. PICK t : LastUpTo(t, s, cmd.g, cmd.lastid)
      BY DEF LastUpTo
  <2>2. t \in Server(b) /\ t.st.grp[cmd.g].on
      BY <1>0, <1>2, <2>1, LastIdOK
  <2>3. PICK u : u = ClaimAll(t, cmd, cmd.ids)
      OBVIOUS
  <2>4. u \in Server(b)
      BY <2>2, <2>3, ClaimAllOK
  <2>5. streamPropagateGroupID(u, cmd.g) \in Server(b)
      BY <1>0, <2>4, PropagateGroup
  <2>6. xclaimCommand(s, cmd) \in {u, streamPropagateGroupID(u, cmd.g)}
      BY <1>2, <2>1, <2>3 DEF xclaimCommand, LastUpTo
  <2> QED
      BY <2>4, <2>5, <2>6
<1> QED
    BY <1>1, <1>2

\* What XAUTOCLAIM claims with, and what.
AutoClaim(cmd) == [g |-> cmd.g, c |-> cmd.c, minidle |-> cmd.minidle,
                   force |-> FALSE, justid |-> cmd.justid, retry |-> 0,
                   idle |-> FALSE]

FirstOf(ids, n) == SubSeq(Ascending(ids), 1, Min({n, Cardinality(ids)}))

LEMMA FirstOfOK ==
    ASSUME NEW ids \in SUBSET Id, NEW n \in Nat
    PROVE  FirstOf(ids, n) \in Seq(Id)
<1>1. Ascending(ids) \in Seq(ids) /\ Len(Ascending(ids)) = Cardinality(ids)
    BY AscendingSorts
<1>2. Ascending(ids) \in Seq(Id) /\ Cardinality(ids) \in Nat
    BY <1>1
<1>3. PICK m : m = Min({n, Cardinality(ids)})
    OBVIOUS
<1>4. m \in {n, Cardinality(ids)} /\ m <= Cardinality(ids)
  <2>1. {n, Cardinality(ids)} \in SUBSET Nat
      BY <1>2
  <2> QED
      BY <1>3, <2>1, MinIn
<1>5. m \in 0 .. Len(Ascending(ids))
    BY <1>1, <1>2, <1>4
<1>6. SubSeq(Ascending(ids), 1, m) \in Seq(Id)
    BY <1>2, <1>5
<1> QED
    BY <1>3, <1>6 DEF FirstOf

LEMMA XautoclaimIs ==
    ASSUME NEW s, NEW cmd, cmd.count \in Nat, s.st.grp[cmd.g].on
    PROVE  \E ids \in Seq(Id) : xautoclaimCommand(s, cmd) = ClaimAll(s, AutoClaim(cmd), ids)
<1> DEFINE gr == s.st.grp[cmd.g]
           pending == {i \in Id : i >= cmd.start /\ gr.pel[i] # NoNack}
           seen == Range(FirstOf(pending, 10 * cmd.count))
           due == {i \in pending : i \in seen /\ (cmd.minidle => gr.pel[i].idle)}
<1>1. xautoclaimCommand(s, cmd) = ClaimAll(s, AutoClaim(cmd), FirstOf(due, cmd.count))
    BY DEF xautoclaimCommand, AutoClaim, FirstOf
<1>2. due \in SUBSET Id
    OBVIOUS
<1> HIDE DEF due
<1>3. FirstOf(due, cmd.count) \in Seq(Id)
    BY <1>2, FirstOfOK
<1> QED
    BY <1>1, <1>3

LEMMA XautoclaimOK ==
    ASSUME NEW b \in BOOLEAN, NEW s \in Server(b), NEW cmd,
           ClaimArgs(AutoClaim(cmd)), cmd.count \in Nat
    PROVE  xautoclaimCommand(s, cmd) \in Server(b)
<1>1. CASE ~s.st.grp[cmd.g].on
    BY <1>1 DEF xautoclaimCommand
<1>2. CASE s.st.grp[cmd.g].on
  <2>1. PICK ids \in Seq(Id) : xautoclaimCommand(s, cmd) = ClaimAll(s, AutoClaim(cmd), ids)
      BY <1>2, XautoclaimIs
  <2>2. AutoClaim(cmd).g = cmd.g
      BY DEF AutoClaim
  <2> QED
      BY <1>2, <2>1, <2>2, ClaimAllOK
<1> QED
    BY <1>1, <1>2

LEMMA XcallOK ==
    ASSUME NEW b \in BOOLEAN, NEW s \in Server(b), NEW cmd \in Command
    PROVE  xcall(s, cmd) \in Server(b)
<1>0. XCommandOK(cmd)
    BY CommandsOK
<1>1. CASE cmd.op = "xadd"
    BY <1>0, <1>1, XaddOK DEF xcall, XCommandOK
<1>2. CASE cmd.op = "xtrim"
    BY <1>0, <1>2, XtrimOK DEF xcall, XCommandOK
<1>3. CASE cmd.op = "xdel"
    BY <1>3, XdelOK DEF xcall
<1>4. CASE cmd.op = "xsetid"
    BY <1>0, <1>4, XsetidOK DEF xcall, XCommandOK
<1>5. CASE cmd.op = "del"
    BY <1>5, DelOK DEF xcall
<1>6. CASE cmd.op = "xack"
    BY <1>0, <1>6, XackOK DEF xcall, XCommandOK
<1>7. CASE cmd.op = "xclaim"
  <2>1. ClaimArgs(cmd) /\ cmd.ids \in Seq(Id) /\ cmd.lastid \in 0 .. MaxId
      BY <1>0, <1>7 DEF XCommandOK, ClaimArgs
  <2> QED
      BY <1>7, <2>1, XclaimOK DEF xcall
<1>8. CASE cmd.op = "xautoclaim"
  <2>1. ClaimArgs(AutoClaim(cmd)) /\ cmd.count \in Nat
      BY <1>0, <1>8 DEF XCommandOK, ClaimArgs, AutoClaim
  <2> QED
      BY <1>8, <2>1, XautoclaimOK DEF xcall
<1>9. CASE cmd.op \in {"create", "setid", "destroy", "createconsumer", "delconsumer"}
    BY <1>9, XgroupOK DEF xcall
<1> QED
    BY <1>0, <1>1, <1>2, <1>3, <1>4, <1>5, <1>6, <1>7, <1>8, <1>9 DEF XCommandOK

-----------------------------------------------------------------------------
(* So does every read, and the serving of blocked readers.                   *)

Here1 == Server(FALSE)

HandedTo(u, s, g, c, id) ==
    u = [s EXCEPT !.st.grp[g] = HandedOut(@, id), !.new = Append(@, <<g, c, id>>)]

\* An entry handed out moves the last ID of the group, and is noted as new.
LEMMA HandOutOK ==
    ASSUME NEW s \in Here1, NEW g \in Group, s.st.grp[g].on, NEW c \in Consumer,
           NEW id \in Id, NEW u, HandedTo(u, s, g, c, id)
    PROVE  /\ u \in Here1 /\ u.st \in StreamOK /\ u.st.on
           /\ u.st.items = s.st.items /\ u.st.last = s.st.last
           /\ u.wait = s.wait /\ u.ready = s.ready /\ u.out = s.out
           /\ u.new = Append(s.new, <<g, c, id>>)
           /\ u.st.grp[g] \in GroupOK
           /\ u.st.grp[g].on /\ u.st.grp[g].known = s.st.grp[g].known
           /\ u.st.grp[g].cpel = s.st.grp[g].cpel /\ u.st.grp[g].pel = s.st.grp[g].pel
           /\ u.st.grp[g].last = Later(s.st.grp[g].last, id)
           /\ \A h \in Group : h # g => u.st.grp[h] = s.st.grp[h]
<1>1. PICK t : LastUpTo(t, s, g, id)
    BY DEF LastUpTo
<1>2. id \in 0 .. MaxId
    BY Numbers
<1>3. /\ t \in Server(FALSE) /\ t.st \in StreamOK /\ t.st.on
      /\ t.st.items = s.st.items /\ t.st.last = s.st.last
      /\ t.wait = s.wait /\ t.ready = s.ready /\ t.out = s.out /\ t.new = s.new
      /\ t.st.grp[g] \in GroupOK
      /\ t.st.grp[g].on /\ t.st.grp[g].known = s.st.grp[g].known
      /\ t.st.grp[g].cpel = s.st.grp[g].cpel /\ t.st.grp[g].pel = s.st.grp[g].pel
      /\ t.st.grp[g].last = Later(s.st.grp[g].last, id)
      /\ \A h \in Group : h # g => t.st.grp[h] = s.st.grp[h]
  <2>1. PICK b \in BOOLEAN : b = FALSE
      OBVIOUS
  <2>2. s \in Server(b)
      BY <2>1 DEF Here1
  <2>3. t \in Server(b)
      BY <1>1, <1>2, <2>2, LastIdOK
  <2>4. /\ t.st \in StreamOK /\ t.st.on
        /\ t.st.items = s.st.items /\ t.st.last = s.st.last
        /\ t.wait = s.wait /\ t.ready = s.ready /\ t.out = s.out /\ t.new = s.new
        /\ t.st.grp[g] \in GroupOK
        /\ t.st.grp[g].on /\ t.st.grp[g].known = s.st.grp[g].known
        /\ t.st.grp[g].cpel = s.st.grp[g].cpel /\ t.st.grp[g].pel = s.st.grp[g].pel
        /\ t.st.grp[g].last = Later(s.st.grp[g].last, id)
        /\ \A h \in Group : h # g => t.st.grp[h] = s.st.grp[h]
      BY <1>1, <1>2, <2>2, LastIdOK
  <2> QED
      BY <2>1, <2>3, <2>4
<1>4. u = [t EXCEPT !.new = Append(s.new, <<g, c, id>>)]
    BY <1>1 DEF HandedTo, HandedOut, LastUpTo
<1>5. Append(s.new, <<g, c, id>>) \in Seq(Group \X Consumer \X Id)
    BY DEF Server, Here1
<1>6. /\ u \in Server(FALSE) /\ u.st = t.st /\ u.wait = t.wait /\ u.ready = t.ready
      /\ u.out = t.out /\ u.new = Append(s.new, <<g, c, id>>)
    BY <1>3, <1>4, <1>5 DEF Server
<1> QED
    BY <1>3, <1>6 DEF Here1

\* Delivered, it is pending for the consumer and propagated, unless NOACK.
LEMMA DeliverParts ==
    ASSUME NEW s \in Here1, NEW g \in Group, s.st.grp[g].on, NEW c \in Consumer,
           c \in s.st.grp[g].known, NEW id \in Id, NEW noack \in BOOLEAN,
           NEW v, v = Deliver(s, g, c, noack, id)
    PROVE  /\ v \in Here1 /\ v.st.grp[g].on /\ v.st.grp[g].known = s.st.grp[g].known
           /\ v.st.items = s.st.items /\ v.st.last = s.st.last
           /\ v.new = Append(s.new, <<g, c, id>>) /\ v.wait = s.wait
           /\ v.st.grp[g].last = Later(s.st.grp[g].last, id)
           /\ \A h \in Group : h # g => v.st.grp[h] = s.st.grp[h]
           /\ noack => v.out = s.out /\ HandedTo(v, s, g, c, id)
<1>1. PICK u : HandedTo(u, s, g, c, id)
    BY DEF HandedTo
<1>2. /\ u \in Here1 /\ u.st \in StreamOK /\ u.st.on
      /\ u.st.items = s.st.items /\ u.st.last = s.st.last
      /\ u.wait = s.wait /\ u.out = s.out /\ u.new = Append(s.new, <<g, c, id>>)
      /\ u.st.grp[g] \in GroupOK
      /\ u.st.grp[g].on /\ u.st.grp[g].known = s.st.grp[g].known
      /\ u.st.grp[g].last = Later(s.st.grp[g].last, id)
      /\ \A h \in Group : h # g => u.st.grp[h] = s.st.grp[h]
    BY <1>1, HandOutOK
<1>3. CASE noack
  <2>1. v = u
      BY <1>1, <1>3 DEF Deliver, HandedTo
  <2> QED
      BY <1>1, <1>2, <2>1
<1>4. CASE ~noack
  <2>1. PICK gr : gr = Assign(u.st.grp[g], id, c, 1, FALSE)
      OBVIOUS
  <2>2. /\ gr \in GroupOK /\ gr.on /\ gr.last = u.st.grp[g].last
        /\ gr.known = u.st.grp[g].known
        /\ gr.pel[id] = [owner |-> c, count |-> 1, idle |-> FALSE]
    <3>1. c \in u.st.grp[g].known
        BY <1>2
    <3>2. PICK one \in Nat : one = 1 /\ one > 0
        OBVIOUS
    <3>3. PICK no \in BOOLEAN : no = FALSE
        OBVIOUS
    <3>a. one \in Nat /\ one > 0 /\ no \in BOOLEAN
        BY <3>2
    <3>4. gr = Assign(u.st.grp[g], id, c, one, no)
        BY <2>1, <3>2, <3>3
    <3>5. /\ gr \in GroupOK /\ gr.on = u.st.grp[g].on /\ gr.last = u.st.grp[g].last
          /\ gr.known = u.st.grp[g].known
          /\ AssignedTo(gr, u.st.grp[g], id, c, one, no)
      <4>1. PICK old \in GroupOK : old = u.st.grp[g]
          BY ONLY <1>2
      <4>2. c \in old.known /\ gr = Assign(old, id, c, one, no)
          BY ONLY <3>1, <3>4, <4>1
      <4>3. id \in Id /\ c \in Consumer
          OBVIOUS
      <4>4. /\ gr \in GroupOK /\ gr.on = old.on /\ gr.last = old.last
            /\ gr.known = old.known /\ AssignedTo(gr, old, id, c, one, no)
          BY ONLY <3>a, <4>2, <4>3, AssignOK
      <4> QED
          BY ONLY <4>1, <4>4
    <3> QED
        BY <1>2, <3>2, <3>3, <3>5 DEF AssignedTo
  <2>b. PICK b \in BOOLEAN : b = FALSE /\ Server(b) = Here1
      BY DEF Here1
  <2>3. PICK t : GroupPut(t, u, g, gr)
      BY DEF GroupPut
  <2>4. /\ t \in Server(b) /\ t.st.items = u.st.items /\ t.st.last = u.st.last
        /\ t.st.grp[g] = gr /\ \A h \in Group : h # g => t.st.grp[h] = u.st.grp[h]
        /\ t.wait = u.wait /\ t.new = u.new
      BY <1>2, <2>b, <2>2, <2>3, PutInServer
  <2>5. v = streamPropagateXCLAIM(t, g, id)
      BY <1>1, <1>4, <2>1, <2>3 DEF Deliver, HandedTo, GroupPut
  <2>6. t.st.grp[g].pel[id].owner \in Consumer
      BY <2>2, <2>4
  <2>7. v \in Server(b) /\ v.st = t.st /\ v.new = t.new /\ v.wait = t.wait
      BY <2>4, <2>5, <2>6, PropagateClaim
  <2> QED
      BY <1>2, <1>4, <2>b, <2>2, <2>4, <2>7
<1> QED
    BY <1>3, <1>4

\* What reading for a known consumer of a group that is there may start from.
CanDeliver(g, c) == {w \in Here1 : w.st.grp[g].on /\ c \in w.st.grp[g].known}

LEMMA DeliverAllOK ==
    ASSUME NEW g \in Group, NEW c \in Consumer, NEW s \in CanDeliver(g, c),
           NEW noack \in BOOLEAN, NEW ids \in Seq(Id)
    PROVE  DeliverAll(s, g, c, noack, ids) \in CanDeliver(g, c)
<1>1. ASSUME NEW w \in CanDeliver(g, c), NEW id \in Id
      PROVE  Deliver(w, g, c, noack, id) \in CanDeliver(g, c)
  <2>1. PICK v : v = Deliver(w, g, c, noack, id)
      OBVIOUS
  <2>2. w \in Here1 /\ w.st.grp[g].on /\ c \in w.st.grp[g].known
      BY DEF CanDeliver
  <2>3. v \in Here1 /\ v.st.grp[g].on /\ v.st.grp[g].known = w.st.grp[g].known
      BY <2>1, <2>2, DeliverParts
  <2> QED
      BY <2>1, <2>2, <2>3 DEF CanDeliver
<1> QED
    BY <1>1, DeliverAllKeeps

\* A reply is a delivery of entries of the stream after "from".
RepliedWith(v, s, g, c, noack, ids) ==
    \E t : /\ t = DeliverAll(s, g, c, noack, ids)
           /\ v = IF noack /\ t.st.grp[g].last # s.st.grp[g].last
                  THEN streamPropagateGroupID(t, g) ELSE t

\* The first of the items after "from", in their order.
NextOnes(ids, from, items) ==
    /\ \A k \in 1 .. Len(ids) : ids[k] > from
    /\ \A j, k \in 1 .. Len(ids) : j < k => ids[j] < ids[k]
    /\ \A i \in items : i > from =>
          \/ \E k \in 1 .. Len(ids) : ids[k] = i
          \/ ids # <<>> /\ ids[Len(ids)] < i

LEMMA ReplyIs ==
    ASSUME NEW s \in Here1, NEW g \in Group, NEW c, NEW from \in Nat, NEW count \in Nat,
           NEW noack \in BOOLEAN,
           NEW v, v = streamReplyWithRange(s, g, c, from, count, noack)
    PROVE  \E ids \in Seq(s.st.items) :
              /\ ids \in Seq(Id) /\ NextOnes(ids, from, s.st.items)
              /\ RepliedWith(v, s, g, c, noack, ids)
<1> DEFINE due == {i \in s.st.items : i > from}
           range == Ascending(due)
           n == Len(range)
           m == IF count = 0 \/ count >= n THEN n ELSE count
           ids == IF count = 0 \/ count >= n THEN range ELSE SubSeq(range, 1, count)
<1>1. s.st.items \in SUBSET Id /\ due \in SUBSET Id
    BY ServerParts, StreamParts DEF Here1
<1>2. RepliedWith(v, s, g, c, noack, ids)
    BY DEF streamReplyWithRange, RepliedWith
<1>3. /\ \A i \in due : i \in s.st.items /\ i > from /\ i \in Nat
      /\ \A i \in s.st.items : i > from => i \in due
      /\ due \subseteq s.st.items
    BY <1>1, Numbers
<1> HIDE DEF due
<1>4. /\ range \in Seq(due)
      /\ \A j, k \in 1 .. n : j < k => range[j] < range[k]
      /\ \A i \in due : \E k \in 1 .. n : range[k] = i
    BY <1>1, AscendingSorts
<1> HIDE DEF range
<1>5. n \in Nat /\ m \in 0 .. n
    BY <1>4
<1>6. /\ ids \in Seq(due) /\ Len(ids) = m
      /\ \A k \in 1 .. m : ids[k] = range[k] /\ k \in 1 .. n
  <2>1. CASE count = 0 \/ count >= n
      BY <1>4, <1>5, <2>1
  <2>2. CASE ~(count = 0 \/ count >= n)
    <3>1. count \in 1 .. n
        BY <1>5, <2>2
    <3>2. /\ SubSeq(range, 1, count) \in Seq(due) /\ Len(SubSeq(range, 1, count)) = count
          /\ \A k \in 1 .. count : SubSeq(range, 1, count)[k] = range[k]
        BY <1>4, <3>1
    <3>3. \A k \in 1 .. count : k \in 1 .. n
        BY <3>1
    <3> QED
        BY <2>2, <3>2, <3>3
  <2> QED
      BY <2>1, <2>2
<1>7. n > 0 => m > 0
    BY <1>5
<1> HIDE DEF ids
<1>8. ids \in Seq(s.st.items) /\ ids \in Seq(Id)
    BY <1>1, <1>3, <1>6
<1>9. \A k \in 1 .. Len(ids) : ids[k] > from
    BY <1>3, <1>6
<1>10. \A j, k \in 1 .. Len(ids) : j < k => ids[j] < ids[k]
    BY <1>4, <1>6
<1>11. ASSUME NEW i \in s.st.items, i > from
       PROVE  \/ \E k \in 1 .. Len(ids) : ids[k] = i
              \/ ids # <<>> /\ ids[Len(ids)] < i
  <2>1. PICK k \in 1 .. n : range[k] = i
      BY <1>3, <1>4, <1>11
  <2>2. CASE k <= m
      BY <1>5, <1>6, <2>1, <2>2
  <2>3. CASE k > m
    <3>1. m > 0 /\ m \in 1 .. m /\ m \in 1 .. n
        BY <1>5, <1>7, <2>1
    <3>2. ids[m] = range[m]
        BY <1>6, <3>1
    <3>3. range[m] < range[k]
        BY <1>4, <2>1, <2>3, <3>1
    <3>4. ids # <<>>
        BY <1>6, <3>1
    <3> QED
        BY <1>6, <2>1, <3>2, <3>3, <3>4
  <2> QED
      BY <1>5, <2>1, <2>2, <2>3
<1>12. NextOnes(ids, from, s.st.items)
    BY <1>9, <1>10, <1>11 DEF NextOnes
<1> QED
    BY <1>2, <1>8, <1>12

LEMMA ReplyOK ==
    ASSUME NEW g \in Group, NEW c \in Consumer, NEW s \in CanDeliver(g, c),
           NEW from \in Nat, NEW count \in Nat, NEW noack \in BOOLEAN
    PROVE  streamReplyWithRange(s, g, c, from, count, noack) \in CanDeliver(g, c)
<1>1. s \in Here1
    BY DEF CanDeliver
<1>v. PICK v : v = streamReplyWithRange(s, g, c, from, count, noack)
    OBVIOUS
<1>2. PICK ids \in Seq(Id) : RepliedWith(v, s, g, c, noack, ids)
    BY <1>1, <1>v, ReplyIs
<1>3. PICK t : /\ t = DeliverAll(s, g, c, noack, ids)
               /\ v = t \/ v = streamPropagateGroupID(t, g)
    BY <1>2 DEF RepliedWith
<1>4. t \in CanDeliver(g, c)
    BY <1>3, DeliverAllOK
<1>5. PICK u : u = streamPropagateGroupID(t, g)
    OBVIOUS
<1>6. u \in CanDeliver(g, c)
  <2>1. PICK b \in BOOLEAN : b = FALSE /\ Server(b) = Here1
      BY DEF Here1
  <2>2. t \in Server(b) /\ t.st.grp[g].on /\ c \in t.st.grp[g].known
      BY <1>4, <2>1 DEF CanDeliver
  <2>3. u \in Server(b) /\ u.st = t.st
      BY <1>5, <2>2, PropagateGroup
  <2> QED
      BY <2>1, <2>2, <2>3 DEF CanDeliver
<1> QED
    BY <1>v, <1>3, <1>4, <1>5, <1>6

LEMMA WithConsumerOK ==
    ASSUME NEW s \in Here1, NEW g \in Group, s.st.grp[g].on, NEW c \in Consumer,
           NEW noack \in BOOLEAN, NEW v, v = WithConsumer(s, g, c, noack)
    PROVE  /\ v \in CanDeliver(g, c)
           /\ v.wait = s.wait /\ v.new = s.new /\ v.ready = s.ready
           /\ v.st.on /\ v.st.items = s.st.items /\ v.st.last = s.st.last
           /\ v.st.grp[g].on /\ v.st.grp[g].last = s.st.grp[g].last
           /\ v.st.grp[g].cpel = s.st.grp[g].cpel /\ v.st.grp[g].pel = s.st.grp[g].pel
           /\ \A h \in Group : h # g => v.st.grp[h] = s.st.grp[h]
<1>b. PICK b \in BOOLEAN : b = FALSE /\ Server(b) = Here1
    BY DEF Here1
<1>1. s \in Server(b) /\ s.st.grp[g] \in GroupOK /\ s.st.on
    BY <1>b, ServerParts, StreamParts
<1>2. PICK gr : gr = streamLookupConsumer(s.st.grp[g], c)
    OBVIOUS
<1>3. /\ gr \in GroupOK /\ c \in gr.known
      /\ gr["on"] = s.st.grp[g]["on"] /\ gr["last"] = s.st.grp[g]["last"]
      /\ gr["cpel"] = s.st.grp[g]["cpel"] /\ gr["pel"] = s.st.grp[g]["pel"]
    BY <1>1, <1>2, LookupOK
<1>4. PICK t : GroupPut(t, s, g, gr)
    BY DEF GroupPut
<1>5. /\ t \in Server(b) /\ t.st.on
      /\ t.st.items = s.st.items /\ t.st.last = s.st.last
      /\ t.st.grp[g] = gr /\ \A h \in Group : h # g => t.st.grp[h] = s.st.grp[h]
      /\ t.wait = s.wait /\ t.ready = s.ready /\ t.new = s.new
    BY <1>1, <1>3, <1>4, PutInServer
<1>6. v = t \/ v = streamPropagateConsumerCreation(t, g, c)
    BY <1>2, <1>4 DEF WithConsumer, GroupPut
<1>7. PICK u : u = streamPropagateConsumerCreation(t, g, c)
    OBVIOUS
<1>8. /\ u \in Server(b) /\ u.st = t.st /\ u.wait = t.wait /\ u.ready = t.ready
      /\ u.new = t.new
    BY <1>5, <1>7, PropagateConsumer
<1>9. gr.on /\ gr.last = s.st.grp[g].last /\ gr.cpel = s.st.grp[g].cpel
      /\ gr.pel = s.st.grp[g].pel
    BY <1>3
<1>10. CASE v = t
    BY <1>b, <1>3, <1>5, <1>9, <1>10 DEF CanDeliver
<1>11. CASE v = u
    BY <1>b, <1>3, <1>5, <1>8, <1>9, <1>11 DEF CanDeliver
<1> QED
    BY <1>6, <1>7, <1>10, <1>11

\* Reading its history leaves a consumer the same pending entries.
HistoryOf(gr, g, c, items) ==
    [gr EXCEPT !.pel = [i \in Id |->
        IF i \in gr.cpel[c] /\ i \in items
        THEN [owner |-> c, count |-> gr.pel[i].count + 1, idle |-> FALSE]
        ELSE gr.pel[i]]]

LEMMA HistoryOK ==
    ASSUME NEW gr \in GroupOK, NEW g, NEW c \in Consumer, NEW items,
           NEW u, u = HistoryOf(gr, g, c, items)
    PROVE  /\ u \in GroupOK /\ u.on = gr.on /\ u.last = gr.last
           /\ u.known = gr.known /\ u.cpel = gr.cpel
           /\ \A i \in Id : /\ u.pel[i].owner = gr.pel[i].owner
                            /\ u.pel[i].count >= gr.pel[i].count
                            /\ u.pel[i].idle => gr.pel[i].idle
<1>1. gr \in GroupType /\ ListsAgree(gr)
    BY DEF GroupOK
<1>2. \A i \in Id : gr.pel[i] \in NackType
    BY <1>1 DEF GroupType
<1>3. /\ u \in GroupType /\ u.on = gr.on /\ u.last = gr.last
      /\ u.known = gr.known /\ u.cpel = gr.cpel
      /\ \A i \in Id : u.pel[i] = IF i \in gr.cpel[c] /\ i \in items
                THEN [owner |-> c, count |-> gr.pel[i].count + 1, idle |-> FALSE]
                ELSE gr.pel[i]
  <2> DEFINE p == [i \in Id |-> IF i \in gr.cpel[c] /\ i \in items
                THEN [owner |-> c, count |-> gr.pel[i].count + 1, idle |-> FALSE]
                ELSE gr.pel[i]]
  <2>1. \A i \in Id : gr.pel[i].count + 1 \in Nat
      BY <1>2 DEF NackType
  <2>2. p \in [Id -> NackType]
      BY <1>2, <2>1 DEF NackType
  <2>3. u = [gr EXCEPT !.pel = p]
      BY DEF HistoryOf
  <2>4. \A i \in Id : p[i] = IF i \in gr.cpel[c] /\ i \in items
                THEN [owner |-> c, count |-> gr.pel[i].count + 1, idle |-> FALSE]
                ELSE gr.pel[i]
      OBVIOUS
  <2> HIDE DEF p
  <2>5. /\ u \in GroupType /\ u.on = gr.on /\ u.last = gr.last
        /\ u.known = gr.known /\ u.cpel = gr.cpel /\ u.pel = p
      BY <1>1, <2>2, <2>3 DEF GroupType
  <2> QED
      BY <2>4, <2>5
<1>4. ASSUME NEW i \in Id
      PROVE  /\ u.pel[i].owner = gr.pel[i].owner
             /\ u.pel[i].count >= gr.pel[i].count
             /\ u.pel[i].idle => gr.pel[i].idle
             /\ u.pel[i].owner = Nobody => u.pel[i] = gr.pel[i]
  <2>1. gr.pel[i] \in NackType
      BY <1>2
  <2>2. CASE i \in gr.cpel[c] /\ i \in items
    <3>1. gr.pel[i].owner = c
        BY <1>1, <2>2 DEF ListsAgree
    <3>2. u.pel[i] = [owner |-> c, count |-> gr.pel[i].count + 1, idle |-> FALSE]
        BY <1>3, <2>2
    <3>3. c # Nobody
        BY Numbers
    <3> QED
        BY <2>1, <3>1, <3>2, <3>3 DEF NackType
  <2>3. CASE ~(i \in gr.cpel[c] /\ i \in items)
    <3>1. u.pel[i] = gr.pel[i]
        BY <1>3, <2>3
    <3> QED
        BY <2>1, <3>1 DEF NackType
  <2> QED
      BY <2>2, <2>3
<1>5. ListsAgree(u)
  <2>1. \A i \in Id : u.pel[i].count \in Nat /\ gr.pel[i].count \in Nat
      BY <1>2, <1>3 DEF GroupType, NackType
  <2> QED
      BY <1>1, <1>3, <1>4, <2>1 DEF ListsAgree
<1> QED
    BY <1>3, <1>4, <1>5 DEF GroupOK

-----------------------------------------------------------------------------
(* Queues of blocked readers.                                                *)

LEMMA RemoveAtOK ==
    ASSUME NEW S, NEW s \in Seq(S), NEW i \in 1 .. Len(s)
    PROVE  /\ RemoveAt(s, i) \in Seq(S) /\ Len(RemoveAt(s, i)) = Len(s) - 1
           /\ \A k \in 1 .. Len(s) - 1 :
                RemoveAt(s, i)[k] = IF k < i THEN s[k] ELSE s[k + 1]
<1>1. SubSeq(s, 1, i - 1) \in Seq(S) /\ Len(SubSeq(s, 1, i - 1)) = i - 1
      /\ \A k \in 1 .. i - 1 : SubSeq(s, 1, i - 1)[k] = s[k]
    OBVIOUS
<1>2. SubSeq(s, i + 1, Len(s)) \in Seq(S) /\ Len(SubSeq(s, i + 1, Len(s))) = Len(s) - i
      /\ \A k \in 1 .. Len(s) - i : SubSeq(s, i + 1, Len(s))[k] = s[i + k]
    OBVIOUS
<1>3. PICK a : a = SubSeq(s, 1, i - 1)
    OBVIOUS
<1>4. PICK z : z = SubSeq(s, i + 1, Len(s))
    OBVIOUS
<1>5. RemoveAt(s, i) = a \o z
    BY <1>3, <1>4 DEF RemoveAt
<1>6. /\ a \in Seq(S) /\ Len(a) = i - 1 /\ \A k \in 1 .. i - 1 : a[k] = s[k]
      /\ z \in Seq(S) /\ Len(z) = Len(s) - i
      /\ \A k \in 1 .. Len(s) - i : z[k] = s[i + k]
    BY <1>1, <1>2, <1>3, <1>4
<1>7. /\ a \o z \in Seq(S) /\ Len(a \o z) = Len(a) + Len(z)
      /\ \A k \in 1 .. Len(a) + Len(z) :
            (a \o z)[k] = IF k <= Len(a) THEN a[k] ELSE z[k - Len(a)]
  <2>1. a \in Seq(S) /\ z \in Seq(S)
      BY <1>6
  <2>2. a \o z \in Seq(S)
      BY <2>1
  <2>3. Len(a \o z) = Len(a) + Len(z)
      BY <2>1
  <2>4. \A k \in 1 .. Len(a) + Len(z) :
            (a \o z)[k] = IF k <= Len(a) THEN a[k] ELSE z[k - Len(a)]
      BY <2>1
  <2> QED
      BY <2>2, <2>3, <2>4
<1>8. ASSUME NEW k \in 1 .. Len(s) - 1
      PROVE  (a \o z)[k] = IF k < i THEN s[k] ELSE s[k + 1]
  <2>0. k \in 1 .. Len(a) + Len(z) /\ Len(a) = i - 1
      BY <1>6
  <2>1. CASE k < i
      BY <1>6, <1>7, <2>0, <2>1
  <2>2. CASE ~(k < i)
    <3>1. k - (i - 1) \in 1 .. Len(s) - i /\ i + (k - (i - 1)) = k + 1
        BY <2>2
    <3>2. (a \o z)[k] = z[k - (i - 1)]
        BY <1>7, <2>0, <2>2
    <3> QED
        BY <1>6, <2>2, <3>1, <3>2
  <2> QED
      BY <2>1, <2>2
<1>9. Len(a) + Len(z) = Len(s) - 1
    BY <1>6
<1>10. PICK r : r = a \o z
    OBVIOUS
<1>11. r \in Seq(S) /\ Len(r) = Len(s) - 1
    BY <1>7, <1>9, <1>10
<1>12. \A k \in 1 .. Len(s) - 1 : r[k] = IF k < i THEN s[k] ELSE s[k + 1]
    BY <1>8, <1>10
<1> QED
    BY <1>5, <1>10, <1>11, <1>12

LEMMA RemoveFirstOK ==
    ASSUME NEW S, NEW s \in Seq(S), NEW e
    PROVE  \/ RemoveFirst(s, e) = s /\ \A i \in 1 .. Len(s) : s[i] # e
           \/ \E i \in 1 .. Len(s) : s[i] = e /\ RemoveFirst(s, e) = RemoveAt(s, i)
<1>1. CASE \A i \in 1 .. Len(s) : s[i] # e
    BY <1>1 DEF RemoveFirst
<1>2. CASE \E i \in 1 .. Len(s) : s[i] = e
  <2> DEFINE I == {i \in 1 .. Len(s) : s[i] = e}
  <2>1. I \in SUBSET Nat /\ I # {}
      BY <1>2
  <2>2. SelectInSeq(s, LAMBDA v : v = e) = Min(I)
      BY <2>1 DEF SelectInSeq
  <2>3. Min(I) \in I
    <3> HIDE DEF I
    <3> QED
        BY <2>1, MinIn
  <2>4. RemoveFirst(s, e) = RemoveAt(s, Min(I))
      BY <1>2, <2>2 DEF RemoveFirst
  <2> QED
      BY <2>3, <2>4
<1> QED
    BY <1>1, <1>2

LEMMA WokenOK ==
    ASSUME NEW s \in Here1, NEW w, NEW u, u = Woken(s, w)
    PROVE  /\ u \in Here1 /\ u.st = s.st /\ u.ready = s.ready
           /\ u.out = s.out /\ u.new = s.new /\ u.wait = RemoveFirst(s.wait, w)
<1>1. s.wait \in Seq(Reader)
    BY DEF Here1, Server
<1>2. RemoveFirst(s.wait, w) \in Seq(Reader)
    BY <1>1, RemoveFirstOK, RemoveAtOK
<1> QED
    BY <1>2 DEF Woken, Here1, Server


LEMMA ServeReaderOK ==
    ASSUME NEW s \in Here1, NEW w \in Reader, NEW v, v = ServeReader(s, w)
    PROVE  v \in Here1
<1>1. PICK e : e = Woken(s, w)
    OBVIOUS
<1>2. e \in Here1
    BY <1>1, WokenOK
<1>3. /\ w.g \in Group \cup {Nobody} /\ w.c \in Consumer /\ w.noack \in BOOLEAN
      /\ w.count \in Nat
    BY DEF Reader
<1>4. CASE w.g = Nobody \/ ~s.st.grp[w.g].on
    BY <1>1, <1>2, <1>4 DEF ServeReader
<1>5. CASE w.g # Nobody /\ s.st.grp[w.g].on
  <2>1. w.g \in Group
      BY <1>3, <1>5
  <2>2. PICK c : c = WithConsumer(s, w.g, w.c, w.noack)
      OBVIOUS
  <2>3. c \in CanDeliver(w.g, w.c)
      BY <1>3, <1>5, <2>1, <2>2, WithConsumerOK
  <2>4. s.st.grp[w.g].last \in Nat
    <3>1. s.st \in StreamOK
        BY DEF Here1, Server
    <3>2. s.st.grp[w.g] \in GroupOK
        BY <2>1, <3>1, StreamParts
    <3> QED
        BY <3>2, Numbers DEF GroupOK, GroupType
  <2>5. PICK t : t = streamReplyWithRange(c, w.g, w.c, s.st.grp[w.g].last, w.count, w.noack)
      OBVIOUS
  <2>6. t \in CanDeliver(w.g, w.c)
    <3>1. ASSUME NEW from \in Nat, t = streamReplyWithRange(c, w.g, w.c, from, w.count, w.noack)
          PROVE  t \in CanDeliver(w.g, w.c)
        BY <1>3, <2>1, <2>3, <3>1, ReplyOK
    <3> QED
        BY <2>4, <2>5, <3>1
  <2>7. t \in Here1
      BY <2>6 DEF CanDeliver
  <2>8. PICK d : d = Woken(t, w)
      OBVIOUS
  <2>9. d \in Here1
      BY <2>7, <2>8, WokenOK
  <2>10. v = s \/ v = d
      BY <1>5, <2>2, <2>5, <2>8 DEF ServeReader
  <2> QED
      BY <2>9, <2>10
<1> QED
    BY <1>4, <1>5

LEMMA ServedOK ==
    ASSUME NEW s \in Here1, NEW v, v = serveClientsBlockedOnStreamKey(s)
    PROVE  v \in Here1
<1>1. s.wait \in Seq(Reader)
    BY DEF Here1, Server
<1>2. \A t \in Here1, w \in Reader : ServeReader(t, w) \in Here1
    BY ServeReaderOK
<1>3. ServeAll(s, s.wait) \in Here1
    BY <1>1, <1>2, ServeAllKeeps
<1> QED
    BY <1>3 DEF serveClientsBlockedOnStreamKey

LEMMA BlockedOK ==
    ASSUME NEW s \in Here1, NEW r, XReadOK(r), NEW gt \in 0 .. Top,
           NEW v, v = Blocked(s, r, gt)
    PROVE  /\ v \in Here1 /\ v.st = s.st /\ v.out = s.out /\ v.new = s.new
           /\ v.ready = s.ready
<1>1. PICK w : w = [g |-> r.g, c |-> r.c, noack |-> r.noack, count |-> r.count, gt |-> gt]
    OBVIOUS
<1>2. w \in Reader
    BY <1>1 DEF Reader, XReadOK
<1>3. s.wait \in Seq(Reader)
    BY DEF Here1, Server
<1>4. Append(s.wait, w) \in Seq(Reader)
    BY <1>2, <1>3
<1>5. v = [s EXCEPT !.wait = Append(s.wait, w)]
    BY <1>1 DEF Blocked
<1> QED
    BY <1>4, <1>5 DEF Here1, Server

\* The history of a consumer is read from the server's stream.
LEMMA HistoryServed ==
    ASSUME NEW g \in Group, NEW c \in Consumer, NEW s \in CanDeliver(g, c),
           NEW v, v = streamReplyWithRangeFromConsumerPEL(s, g, c)
    PROVE  /\ v \in CanDeliver(g, c)
           /\ v.wait = s.wait /\ v.new = s.new /\ v.ready = s.ready /\ v.out = s.out
           /\ v.st.on /\ v.st.items = s.st.items /\ v.st.last = s.st.last
           /\ v.st.grp[g] = HistoryOf(s.st.grp[g], g, c, s.st.items)
           /\ \A h \in Group : h # g => v.st.grp[h] = s.st.grp[h]
<1>b. PICK b \in BOOLEAN : b = FALSE /\ Server(b) = Here1
    BY DEF Here1
<1>1. s \in Server(b) /\ s.st.grp[g].on /\ c \in s.st.grp[g].known
    BY <1>b DEF CanDeliver
<1>2. s.st.grp[g] \in GroupOK /\ s.st.on
    BY <1>1, ServerParts, StreamParts
<1>3. PICK u : u = HistoryOf(s.st.grp[g], g, c, s.st.items)
    OBVIOUS
<1>4. u \in GroupOK /\ u.on = s.st.grp[g].on /\ u.known = s.st.grp[g].known
  <2>1. ASSUME NEW gr \in GroupOK, NEW items, u = HistoryOf(gr, g, c, items)
        PROVE  u \in GroupOK /\ u.on = gr.on /\ u.known = gr.known
      BY <2>1, HistoryOK
  <2> QED
      BY <1>2, <1>3, <2>1
<1>5. GroupPut(v, s, g, u)
    BY <1>3 DEF GroupPut, streamReplyWithRangeFromConsumerPEL, HistoryOf
<1>6. /\ v \in Server(b) /\ v.st.on
      /\ v.st.items = s.st.items /\ v.st.last = s.st.last
      /\ v.st.grp[g] = u /\ \A h \in Group : h # g => v.st.grp[h] = s.st.grp[h]
      /\ v.wait = s.wait /\ v.ready = s.ready /\ v.out = s.out
      /\ v.new = s.new
    BY <1>1, <1>2, <1>4, <1>5, PutInServer
<1> QED
    BY <1>b, <1>1, <1>3, <1>4, <1>6 DEF CanDeliver

LEMMA XreadOK ==
    ASSUME NEW s \in Here1, NEW r, XReadOK(r), NEW v, v = xreadCommand(s, r)
    PROVE  v \in Here1
<1>1. /\ r.g \in Group \cup {Nobody} /\ r.c \in Consumer /\ r.noack \in BOOLEAN
      /\ r.count \in Nat
    BY DEF XReadOK
<1>2. s.st \in StreamOK
    BY DEF Here1, Server
<1>3. CASE r.g = Nobody
  <2>1. PICK gt : gt = s.st.last
      OBVIOUS
  <2>2. gt \in 0 .. Top
      BY <1>2, <2>1, StreamParts, Numbers
  <2>3. v = Blocked(s, r, gt)
      BY <1>3, <2>1 DEF xreadCommand
  <2> QED
      BY <2>2, <2>3, BlockedOK
<1>4. CASE r.g # Nobody
  <2>1. r.g \in Group
      BY <1>1, <1>4
  <2>2. PICK e : e = Blocked(s, r, Top)
      OBVIOUS
  <2>3. e \in Here1
    <3>1. PICK gt : gt = Top
        OBVIOUS
    <3>2. gt \in 0 .. Top
        BY <3>1, Numbers
    <3> QED
        BY <2>2, <3>1, <3>2, BlockedOK
  <2>4. CASE ~s.st.on \/ ~s.st.grp[r.g].on
      BY <1>4, <2>4 DEF xreadCommand
  <2>5. CASE s.st.on /\ s.st.grp[r.g].on
    <3>1. PICK c : c = WithConsumer(s, r.g, r.c, r.noack)
        OBVIOUS
    <3>2. c \in CanDeliver(r.g, r.c)
        BY <1>1, <2>1, <2>5, <3>1, WithConsumerOK
    <3>3. PICK h : h = streamReplyWithRangeFromConsumerPEL(c, r.g, r.c)
        OBVIOUS
    <3>4. h \in CanDeliver(r.g, r.c)
        BY <1>1, <2>1, <3>2, <3>3, HistoryServed
    <3>5. PICK from : from = s.st.grp[r.g].last
        OBVIOUS
    <3>6. from \in Nat
      <4>1. s.st.grp[r.g] \in GroupOK
          BY <1>2, <2>1, StreamParts
      <4> QED
          BY <3>5, <4>1, Numbers DEF GroupOK, GroupType
    <3>7. PICK t : t = streamReplyWithRange(c, r.g, r.c, from, r.count, r.noack)
        OBVIOUS
    <3>8. t \in CanDeliver(r.g, r.c)
        BY <1>1, <2>1, <3>2, <3>6, <3>7, ReplyOK
    <3>9. v \in {h, t, e}
        BY <1>4, <2>2, <2>5, <3>1, <3>3, <3>5, <3>7 DEF xreadCommand
    <3> QED
        BY <2>3, <3>4, <3>8, <3>9 DEF CanDeliver
  <2> QED
      BY <2>4, <2>5
<1> QED
    BY <1>3, <1>4

-----------------------------------------------------------------------------
(* The replica, and the steps of the specification.                          *)

LEMMA HostOK ==
    ASSUME NEW st \in StreamOK
    PROVE  /\ Host(st, TRUE) \in Server(TRUE) /\ Host(st, TRUE).st = st
           /\ xwait \in Seq(Reader) => Host(st, FALSE) \in Here1
BY DEF Host, Server, Here1

LEMMA CallAllOK ==
    ASSUME NEW b \in BOOLEAN, NEW s \in Server(b), NEW cmds \in Seq(Command)
    PROVE  CallAll(s, cmds) \in Server(b)
BY XcallOK, CallAllKeeps

LEMMA XAppliedOK ==
    ASSUME NEW st \in StreamOK, NEW out \in Seq(Command)
    PROVE  XApplied(st, out) \in StreamOK
<1>1. PICK b \in BOOLEAN : b = TRUE /\ Server(b) = Server(TRUE)
    OBVIOUS
<1>2. PICK h : h = Host(st, TRUE)
    OBVIOUS
<1>3. h \in Server(b)
    BY <1>1, <1>2, HostOK
<1>4. CallAll(h, out) \in Server(b)
    BY <1>3, CallAllOK
<1>5. CallAll(h, out).st \in StreamOK
    BY <1>4, ServerParts
<1> QED
    BY <1>2, <1>5 DEF XApplied

XsInv ==
    /\ xs \in StreamOK
    /\ xr \in StreamOK
    /\ xwait \in Seq(Reader)
    /\ xnew \in Seq(Group \X Consumer \X Id)

LEMMA BecomesOK ==
    ASSUME XsInv, NEW t \in Here1, XBecomes(t)
    PROVE  XsInv'
<1>1. PICK s : /\ s = serveClientsBlockedOnStreamKey(t)
               /\ xs' = s.st /\ xr' = XApplied(xr, s.out)
               /\ xwait' = s.wait /\ xnew' = s.new
    BY DEF XBecomes
<1>2. s \in Here1
    BY <1>1, ServedOK
<1>3. /\ s.st \in StreamOK /\ s.wait \in Seq(Reader) /\ s.out \in Seq(Command)
      /\ s.new \in Seq(Group \X Consumer \X Id)
    BY <1>2 DEF Here1, Server
<1>4. XApplied(xr, s.out) \in StreamOK
    BY <1>3, XAppliedOK DEF XsInv
<1> QED
    BY <1>1, <1>3, <1>4 DEF XsInv

\* Time makes pending entries idle and changes nothing else.
LEMMA AgedGroupOK ==
    ASSUME NEW gr \in GroupOK, NEW u, u = AgedGroup(gr)
    PROVE  /\ u \in GroupOK /\ u.on = gr.on /\ u.last = gr.last
           /\ u.known = gr.known /\ u.cpel = gr.cpel
           /\ \A i \in Id : /\ u.pel[i].owner = gr.pel[i].owner
                            /\ u.pel[i].count = gr.pel[i].count
                            /\ u.pel[i].idle = (gr.pel[i] # NoNack)
<1>1. gr \in GroupType /\ ListsAgree(gr)
    BY DEF GroupOK
<1>2. \A i \in Id : gr.pel[i] \in NackType
    BY <1>1 DEF GroupType
<1>3. PICK p : p = [i \in Id |-> [gr.pel[i] EXCEPT !.idle = gr.pel[i] # NoNack]]
    OBVIOUS
<1>4. ASSUME NEW i \in Id
      PROVE  /\ p[i] \in NackType /\ p[i].owner = gr.pel[i].owner
             /\ p[i].count = gr.pel[i].count /\ p[i].idle = (gr.pel[i] # NoNack)
             /\ gr.pel[i] = NoNack => p[i] = NoNack
  <2>1. p[i] = [gr.pel[i] EXCEPT !.idle = gr.pel[i] # NoNack]
      BY <1>3
  <2>2. gr.pel[i] \in NackType
      BY <1>2
  <2>3. gr.pel[i] = NoNack => [gr.pel[i] EXCEPT !.idle = gr.pel[i] # NoNack] = NoNack
    <3>1. [NoNack EXCEPT !.idle = FALSE] = NoNack
      <4>1. PICK e : e = [NoNack EXCEPT !.idle = FALSE]
          OBVIOUS
      <4>2. NoNack \in NackType
          BY Numbers DEF NoNack, NackType
      <4>3. e \in NackType /\ e.owner = Nobody /\ e.count = 0 /\ e.idle = FALSE
          BY <4>1, <4>2 DEF NoNack, NackType
      <4>4. e = [owner |-> Nobody, count |-> 0, idle |-> FALSE]
          BY <4>3 DEF NackType
      <4> QED
          BY <4>1, <4>4 DEF NoNack
    <3>2. gr.pel[i] = NoNack => (gr.pel[i] # NoNack) = FALSE
        OBVIOUS
    <3> QED
        BY <3>1, <3>2
  <2> QED
      BY <2>1, <2>2, <2>3 DEF NackType
<1>5. p \in [Id -> NackType]
    BY <1>3, <1>4
<1>6. u = [gr EXCEPT !.pel = p]
    BY <1>3 DEF AgedGroup
<1>7. /\ u \in GroupType /\ u.on = gr.on /\ u.last = gr.last
      /\ u.known = gr.known /\ u.cpel = gr.cpel /\ u.pel = p
    BY <1>1, <1>5, <1>6 DEF GroupType
<1>8. ListsAgree(u)
    BY <1>1, <1>4, <1>7 DEF ListsAgree
<1> QED
    BY <1>4, <1>7, <1>8 DEF GroupOK

LEMMA AgedOK ==
    ASSUME NEW st \in StreamOK, NEW u, u = Aged(st)
    PROVE  /\ u \in StreamOK /\ u.on = st.on /\ u.items = st.items /\ u.last = st.last
           /\ \A g \in Group : u.grp[g] = AgedGroup(st.grp[g])
<1>1. st \in StreamType /\ st.items \subseteq 1 .. st.last /\ (~st.on => st = NoStream)
    BY DEF StreamOK
<1>2. \A g \in Group : st.grp[g] \in GroupOK
    BY StreamParts
<1>3. PICK f : f = [g \in Group |-> AgedGroup(st.grp[g])]
    OBVIOUS
<1>4. f \in [Group -> GroupOK]
  <2>1. \A gr \in GroupOK : AgedGroup(gr) \in GroupOK
      BY AgedGroupOK
  <2> QED
      BY <1>2, <1>3, <2>1
<1>5. u = [st EXCEPT !.grp = f]
    BY <1>3 DEF Aged
<1>6. /\ u \in StreamType /\ u.on = st.on /\ u.items = st.items /\ u.last = st.last
      /\ u.grp = f
    BY <1>1, <1>4, <1>5 DEF StreamType
<1>7. ~st.on => u = st
  <2>1. SUFFICES ASSUME st = NoStream PROVE u = st
      BY <1>1
  <2>2. AgedGroup(NoGroup) = NoGroup
    <3>1. [i \in Id |-> [NoGroup.pel[i] EXCEPT !.idle = NoGroup.pel[i] # NoNack]]
            = [i \in Id |-> NoNack]
        BY DEF NoGroup, NoNack
    <3>2. AgedGroup(NoGroup) = [NoGroup EXCEPT !.pel = [i \in Id |-> NoNack]]
        BY <3>1 DEF AgedGroup
    <3> QED
        BY <3>2 DEF NoGroup
  <2>3. \A g \in Group : st.grp[g] = NoGroup
      BY <2>1 DEF NoStream
  <2>4. f = [g \in Group |-> NoGroup]
      BY <1>3, <2>2, <2>3
  <2> QED
      BY <1>5, <2>1, <2>4 DEF NoStream
<1> QED
    BY <1>1, <1>3, <1>6, <1>7 DEF StreamOK

LEMMA XsInit_XsInv == XsInit => XsInv
<1> SUFFICES ASSUME XsInit PROVE XsInv
    OBVIOUS
<1>1. xs = NoStream /\ xr = NoStream /\ xwait = <<>> /\ xnew = <<>>
    BY DEF XsInit
<1>2. <<>> \in Seq(Reader) /\ <<>> \in Seq(Group \X Consumer \X Id)
    OBVIOUS
<1> QED
    BY <1>1, <1>2, NoStreamOK DEF XsInv

LEMMA XsNext_XsInv ==
    ASSUME XsInv, [XsNext]_xsVars
    PROVE  XsInv'
<1>h. Here \in Here1
    BY HostOK DEF XsInv, Here
<1>b. PICK b \in BOOLEAN : b = FALSE /\ Server(b) = Here1
    BY DEF Here1
<1>1. ASSUME NEW cmd \in XCmds, XCommand(cmd)
      PROVE  XsInv'
  <2>1. cmd \in Command
      BY DEF Command
  <2>2. PICK t : t = xcall(Here, cmd) /\ XBecomes(t)
      BY <1>1 DEF XCommand
  <2>3. xcall(Here, cmd) \in Server(b)
      BY <1>h, <1>b, <2>1, XcallOK
  <2> QED
      BY <1>b, <2>2, <2>3, BecomesOK
<1>2. ASSUME NEW cmds \in XTxs, XTransaction(cmds)
      PROVE  XsInv'
  <2>1. cmds \in Seq(Command)
    <3>1. cmds \in Seq(XCmds)
        BY StreamsAssumption
    <3>2. XCmds \subseteq Command
        BY DEF Command
    <3> QED
        BY <3>1, <3>2
  <2>2. PICK t : t = CallAll(Here, cmds) /\ XBecomes(t)
      BY <1>2 DEF XTransaction
  <2>3. CallAll(Here, cmds) \in Server(b)
      BY <1>h, <1>b, <2>1, CallAllOK
  <2> QED
      BY <1>b, <2>2, <2>3, BecomesOK
<1>3. ASSUME NEW r \in XReads, XRead(r)
      PROVE  XsInv'
  <2>1. XReadOK(r)
      BY StreamsAssumption
  <2>2. PICK t : t = xreadCommand(Here, r) /\ XBecomes(t)
      BY <1>3 DEF XRead
  <2>3. t \in Here1
      BY <1>h, <2>1, <2>2, XreadOK
  <2> QED
      BY <2>2, <2>3, BecomesOK
<1>4. ASSUME NEW i \in DOMAIN xwait, XTimeout(i)
      PROVE  XsInv'
  <2>1. i \in 1 .. Len(xwait) /\ xwait \in Seq(Reader)
      BY DEF XsInv
  <2>2. RemoveAt(xwait, i) \in Seq(Reader)
      BY <2>1, RemoveAtOK
  <2>3. xwait' \in Seq(Reader) /\ xnew' = <<>> /\ xs' = xs /\ xr' = xr
      BY <1>4, <2>2 DEF XTimeout
  <2>4. xnew' \in Seq(Group \X Consumer \X Id)
      BY <2>3
  <2> QED
      BY <2>3, <2>4 DEF XsInv
<1>5. CASE XTick
  <2>1. xs' = Aged(xs) /\ xr' = Aged(xr) /\ xnew' = <<>> /\ xwait' = xwait
      BY <1>5 DEF XTick
  <2>2. Aged(xs) \in StreamOK /\ Aged(xr) \in StreamOK
      BY AgedOK DEF XsInv
  <2>3. xnew' \in Seq(Group \X Consumer \X Id)
      BY <2>1
  <2> QED
      BY <2>1, <2>2, <2>3 DEF XsInv
<1>6. CASE UNCHANGED xsVars
    BY <1>6 DEF xsVars, XsInv
<1> QED
    BY <1>1, <1>2, <1>3, <1>4, <1>5, <1>6 DEF XsNext

LEMMA XsInv_Lists == XsInv => PendingListsAgree
<1> SUFFICES ASSUME XsInv, NEW st \in {xs, xr}, NEW g \in Group
             PROVE  LET gr == st.grp[g]
                    IN  /\ \A i \in Id, c \in Consumer :
                              (i \in gr.cpel[c]) = (gr.pel[i].owner = c)
                        /\ \A c \in Consumer : gr.cpel[c] # {} => c \in gr.known
                        /\ \A i \in Id : gr.pel[i].owner # Nobody => gr.pel[i].count > 0
    BY DEF PendingListsAgree
<1>1. st \in StreamOK
    BY DEF XsInv
<1>2. st.grp[g] \in GroupOK
    BY <1>1, StreamParts
<1> QED
    BY <1>2 DEF GroupOK, ListsAgree

\* In every group of the stream, here and at the replica, the list of pending
\* entries and those of the consumers agree, whatever commands, transactions,
\* reads and timeouts there are (streamReplyWithRange, xclaimCommand,
\* xackCommand, streamDelConsumer).
THEOREM PendingListsAlwaysAgree == XsSpec => []PendingListsAgree
<1>1. XsInv /\ [XsNext]_xsVars => XsInv'
    BY XsNext_XsInv
<1> QED
    BY <1>1, XsInit_XsInv, XsInv_Lists, PTL DEF XsSpec

-----------------------------------------------------------------------------
(* The replica follows: an approximate trim, propagated as the exact one with *)
(* the same outcome, keeps the same entries there, whatever its nodes.       *)

LEMMA DivUp ==
    ASSUME NEW a \in Nat, NEW b \in Nat, a <= b, NEW n \in Nat \ {0}
    PROVE  a \div n \in Nat /\ b \div n \in Nat /\ a \div n <= b \div n
<1>1. /\ a = n * (a \div n) + (a % n) /\ a % n \in 0 .. n - 1 /\ a \div n \in Int
      /\ b = n * (b \div n) + (b % n) /\ b % n \in 0 .. n - 1 /\ b \div n \in Int
    OBVIOUS
<1> QED
    BY <1>1

LEMMA TimesUp ==
    ASSUME NEW p \in Nat, NEW q \in Nat, p <= q, NEW n \in Nat
    PROVE  p * n <= q * n /\ p * n \in Nat /\ q * n \in Nat
OBVIOUS

NodeOf(i, size) == (i - 1) \div size
NodeEnd(i, size, last) == Min({(NodeOf(i, size) + 1) * size, last})
ItemsAfter(items, i, approx, size) ==
    {j \in items : IF approx THEN NodeOf(j, size) > NodeOf(i, size) ELSE j > i}
Kept(items, last, trim, size) ==
    {i \in items :
        CASE trim.by = "none" -> TRUE
          [] trim.by = "maxlen" ->
                Cardinality(ItemsAfter(items, i, trim.approx, size)) < trim.n
          [] OTHER -> (IF trim.approx THEN NodeEnd(i, size, last) ELSE i) >= trim.n}

LEMMA TrimKeeps ==
    ASSUME NEW st \in StreamOK, NEW trim, NEW size
    PROVE  streamTrim(st, trim, size).items = Kept(st.items, st.last, trim, size)
<1>1. PICK items : items = Kept(st.items, st.last, trim, size)
    OBVIOUS
<1>2. streamTrim(st, trim, size) = [st EXCEPT !.items = items]
    BY <1>1 DEF streamTrim, Kept, ItemsAfter, NodeEnd, NodeOf
<1> QED
    BY <1>1, <1>2 DEF StreamOK, StreamType

LEMMA NodesInOrder ==
    ASSUME NEW i \in Id, NEW j \in Id, i <= j, NEW size \in Nat \ {0}, NEW last \in Nat
    PROVE  /\ NodeOf(i, size) \in Nat /\ NodeOf(j, size) \in Nat
           /\ NodeOf(i, size) <= NodeOf(j, size)
           /\ NodeEnd(i, size, last) \in Nat
           /\ NodeEnd(i, size, last) <= NodeEnd(j, size, last)
<1>1. i - 1 \in Nat /\ j - 1 \in Nat /\ i - 1 <= j - 1
    BY Numbers
<1>2. PICK a \in Nat, b \in Nat : a = i - 1 /\ b = j - 1 /\ a <= b
    BY <1>1
<1>3. a \div size \in Nat /\ b \div size \in Nat /\ a \div size <= b \div size
    BY <1>2, DivUp
<1>4. /\ NodeOf(i, size) \in Nat /\ NodeOf(j, size) \in Nat
      /\ NodeOf(i, size) <= NodeOf(j, size)
    BY <1>2, <1>3 DEF NodeOf
<1>5. PICK p \in Nat, q \in Nat : /\ p = NodeOf(i, size) + 1 /\ q = NodeOf(j, size) + 1
                                  /\ p <= q
    BY <1>4
<1>6. PICK x \in Nat, y \in Nat : x = p * size /\ y = q * size /\ x <= y
    BY <1>5, TimesUp
<1>7. NodeEnd(i, size, last) = Min({x, last}) /\ NodeEnd(j, size, last) = Min({y, last})
    BY <1>5, <1>6 DEF NodeEnd
<1>8. /\ Min({x, last}) \in {x, last} /\ \A z \in {x, last} : Min({x, last}) <= z
      /\ Min({y, last}) \in {y, last} /\ \A z \in {y, last} : Min({y, last}) <= z
  <2>1. {x, last} \in SUBSET Nat /\ {x, last} # {} /\ {y, last} \in SUBSET Nat /\ {y, last} # {}
      OBVIOUS
  <2>2. PICK m : m = {x, last}
      OBVIOUS
  <2>3. PICK k : k = {y, last}
      OBVIOUS
  <2>4. m \in SUBSET Nat /\ m # {} /\ k \in SUBSET Nat /\ k # {}
      BY <2>1, <2>2, <2>3
  <2>5. /\ Min(m) \in m /\ \A z \in m : Min(m) <= z
        /\ Min(k) \in k /\ \A z \in k : Min(k) <= z
      BY <2>4, MinIn
  <2> QED
      BY <2>2, <2>3, <2>5
<1> QED
    BY <1>4, <1>6, <1>7, <1>8

\* What a trim keeps is what comes last.
LEMMA KeptLast ==
    ASSUME NEW items \in SUBSET Id, NEW last \in Nat, NEW trim \in Trim,
           NEW size \in Nat \ {0}, NEW i \in Kept(items, last, trim, size),
           NEW j \in items, i <= j
    PROVE  j \in Kept(items, last, trim, size)
<1>0. i \in items /\ i \in Id /\ j \in Id
    BY DEF Kept
<1>n. ASSUME NEW k \in Id
      PROVE  NodeOf(k, size) \in Nat /\ NodeEnd(k, size, last) \in Nat
  <2>1. k <= k
      BY Numbers
  <2> QED
      BY <2>1, NodesInOrder
<1>m. /\ NodeOf(i, size) <= NodeOf(j, size)
      /\ NodeEnd(i, size, last) <= NodeEnd(j, size, last)
    BY <1>0, NodesInOrder
<1>1. CASE trim.by = "none"
    BY <1>1 DEF Kept
<1>2. CASE trim.by = "maxlen"
  <2>1. trim.n \in Nat
      BY <1>2 DEF Trim, NoTrim
  <2>2. PICK A : A = ItemsAfter(items, i, trim.approx, size)
      OBVIOUS
  <2>3. PICK B : B = ItemsAfter(items, j, trim.approx, size)
      OBVIOUS
  <2>4. \A k \in items : /\ NodeOf(k, size) \in Nat /\ k \in Nat
                         /\ NodeOf(i, size) \in Nat /\ NodeOf(j, size) \in Nat
                         /\ NodeOf(i, size) <= NodeOf(j, size)
      BY <1>0, <1>n, <1>m, Numbers
  <2>5. B \subseteq A
      BY <1>0, <2>2, <2>3, <2>4, Numbers DEF ItemsAfter
  <2>6. A \in SUBSET Id /\ B \in SUBSET Id
      BY <2>2, <2>3 DEF ItemsAfter
  <2>7. Cardinality(B) <= Cardinality(A) /\ Cardinality(A) \in Nat /\ Cardinality(B) \in Nat
      BY <2>5, <2>6, ItemsCounted, FS_Subset
  <2>8. Cardinality(A) < trim.n
      BY <1>2, <2>2 DEF Kept
  <2>9. Cardinality(B) < trim.n
      BY <2>1, <2>7, <2>8
  <2> QED
      BY <1>2, <2>3, <2>9 DEF Kept
<1>3. CASE trim.by # "none" /\ trim.by # "maxlen"
  <2>1. trim.n \in Nat
      BY <1>3 DEF Trim, NoTrim
  <2>2. /\ NodeEnd(i, size, last) \in Nat
        /\ NodeEnd(i, size, last) <= NodeEnd(j, size, last)
        /\ NodeEnd(j, size, last) \in Nat
      BY <1>0, <1>n, <1>m
  <2>3. (IF trim.approx THEN NodeEnd(i, size, last) ELSE i) >= trim.n
      BY <1>3 DEF Kept
  <2>4. (IF trim.approx THEN NodeEnd(j, size, last) ELSE j) >= trim.n
      BY <1>0, <2>1, <2>2, <2>3, Numbers
  <2> QED
      BY <1>3, <2>4 DEF Kept
<1> QED
    BY <1>1, <1>2, <1>3

\* What comes last is what an exact trim to its number, or its least, keeps.
LEMMA ExactKeeps ==
    ASSUME NEW items \in SUBSET Id, NEW K \in SUBSET items,
           \A i \in K, j \in items : i <= j => j \in K, NEW i \in items
    PROVE  /\ i \in K <=> Cardinality({j \in items : j > i}) < Cardinality(K)
           /\ K # {} => (i \in K <=> i >= Min(K))
<1>0. \A j \in items : j \in Nat
    BY Numbers
<1>1. PICK A : A = {j \in items : j > i}
    OBVIOUS
<1>2. A \in SUBSET Id /\ K \in SUBSET Id
    BY <1>1
<1>3. /\ IsFiniteSet(A) /\ Cardinality(A) \in Nat
      /\ IsFiniteSet(K) /\ Cardinality(K) \in Nat
    BY <1>2, ItemsCounted
<1>4. CASE i \in K
  <2>1. A \subseteq K /\ i \notin A
      BY <1>0, <1>1, <1>4
  <2>2. A # K
      BY <1>4, <2>1
  <2>3. Cardinality(A) < Cardinality(K)
    <3>1. Cardinality(A) <= Cardinality(K)
        BY <1>3, <2>1, FS_Subset
    <3>2. Cardinality(A) # Cardinality(K)
        BY <1>3, <2>1, <2>2, FS_Subset
    <3> QED
        BY <1>3, <3>1, <3>2
  <2>4. i >= Min(K)
    <3>1. K \in SUBSET Nat /\ K # {}
        BY <1>0, <1>4
    <3> QED
        BY <1>0, <1>4, <3>1, MinIn
  <2> QED
      BY <1>1, <1>4, <2>3, <2>4
<1>5. CASE i \notin K
  <2>1. K \subseteq A
      BY <1>0, <1>1, <1>5
  <2>2. Cardinality(K) <= Cardinality(A)
      BY <1>3, <2>1, FS_Subset
  <2>3. ~(Cardinality(A) < Cardinality(K))
      BY <1>3, <2>2
  <2>4. K # {} => ~(i >= Min(K))
    <3>1. SUFFICES ASSUME K # {} PROVE ~(i >= Min(K))
        OBVIOUS
    <3>2. Min(K) \in K
        BY <1>0, <3>1, MinIn
    <3> QED
        BY <1>0, <1>5, <3>2
  <2> QED
      BY <1>1, <1>5, <2>3, <2>4
<1> QED
    BY <1>4, <1>5

SameItems(r, st) == r.items = st.items /\ r.last = st.last

LEMMA TrimAgain ==
    ASSUME NEW st \in StreamOK, NEW r \in StreamOK, SameItems(r, st),
           NEW trim \in Trim, NEW size \in Nat \ {0}, NEW other,
           NEW u, TrimmedTo(u, st, trim, size),
           NEW as, as = streamRewriteTrimArgument(u, trim),
           NEW v, TrimmedTo(v, r, as, other)
    PROVE  v.items = u.items
<1>1. PICK items : items = st.items
    OBVIOUS
<1>2. PICK last : last = st.last
    OBVIOUS
<1>3. items \in SUBSET Id /\ last \in Nat
    BY <1>1, <1>2, StreamParts, Numbers
<1>4. PICK K : K = Kept(items, last, trim, size)
    OBVIOUS
<1>5. u.items = K
    BY <1>1, <1>2, <1>4, TrimKeeps DEF TrimmedTo
<1>7. v.items = Kept(items, last, as, other)
    BY <1>1, <1>2, TrimKeeps DEF TrimmedTo, SameItems
<1>8. K \in SUBSET items /\ \A i \in K, j \in items : i <= j => j \in K
  <2>1. K \in SUBSET items
      BY <1>4 DEF Kept
  <2>2. \A i \in K, j \in items : i <= j => j \in K
      BY <1>3, <1>4, KeptLast
  <2> QED
      BY <2>1, <2>2
<1>9. CASE trim.by = "none"
  <2>1. trim = NoTrim
      BY <1>9 DEF Trim
  <2>2. as = trim
      BY <2>1 DEF streamRewriteTrimArgument
  <2> QED
      BY <1>4, <1>5, <1>7, <1>9, <2>2 DEF Kept
<1>10. CASE trim.by # "none" /\ ~trim.approx
  <2>1. as = trim
      BY <1>10 DEF streamRewriteTrimArgument
  <2>2. Kept(items, last, trim, other) = Kept(items, last, trim, size)
      BY <1>10 DEF Kept, ItemsAfter
  <2> QED
      BY <1>4, <1>5, <1>7, <2>1, <2>2
<1>11. CASE trim.by = "maxlen" /\ trim.approx
  <2>1. trim # NoTrim
      BY <1>11 DEF NoTrim
  <2>2. as.by = "maxlen" /\ as.approx = FALSE /\ as.n = Cardinality(K)
      BY <1>5, <1>11, <2>1 DEF streamRewriteTrimArgument
  <2>3. Kept(items, last, as, other)
            = {i \in items : Cardinality({j \in items : j > i}) < Cardinality(K)}
      BY <2>2 DEF Kept, ItemsAfter
  <2>4. \A i \in items : i \in K <=> Cardinality({j \in items : j > i}) < Cardinality(K)
      BY <1>3, <1>8, ExactKeeps
  <2> QED
      BY <1>5, <1>7, <1>8, <2>3, <2>4
<1>12. CASE trim.by = "minid" /\ trim.approx
  <2>1. trim # NoTrim
      BY <1>12 DEF NoTrim
  <2>2. /\ as.by = "minid" /\ as.approx = FALSE
        /\ as.n = IF K = {} THEN Top ELSE Min(K)
      BY <1>5, <1>12, <2>1 DEF streamRewriteTrimArgument
  <2>3. Kept(items, last, as, other) = {i \in items : i >= as.n}
      BY <2>2 DEF Kept
  <2>4. CASE K = {}
    <3>1. \A i \in items : ~(i >= Top)
        BY <1>3, Numbers
    <3> QED
        BY <1>5, <1>7, <2>2, <2>3, <2>4, <3>1
  <2>5. CASE K # {}
    <3>1. \A i \in items : i \in K <=> i >= Min(K)
        BY <1>3, <1>8, <2>5, ExactKeeps
    <3> QED
        BY <1>5, <1>7, <1>8, <2>2, <2>3, <2>5, <3>1
  <2> QED
      BY <2>4, <2>5
<1>13. trim.by = "none" \/ (trim.by \in {"maxlen", "minid"} /\ trim.approx \in BOOLEAN)
    BY DEF Trim, NoTrim
<1> QED
    BY <1>9, <1>10, <1>11, <1>12, <1>13

-----------------------------------------------------------------------------
(* The replica follows: streams of the replica (r) and the master (m).       *)

PendingFollow(r, m) ==
    /\ r.on = m.on /\ r.known \subseteq m.known
    /\ \A c \in Consumer : r.cpel[c] = m.cpel[c]
    /\ \A i \in Id : /\ r.pel[i].owner = m.pel[i].owner
                     /\ r.pel[i].count <= m.pel[i].count
                     /\ m.pel[i].idle => r.pel[i].idle

GroupFollows(r, m) == PendingFollow(r, m) /\ r.last = m.last

ItemsFollow(r, m) == r.on = m.on /\ r.items = m.items /\ r.last = m.last

Follows(r, m) ==
    /\ ItemsFollow(r, m)
    /\ \A g \in Group : GroupFollows(r.grp[g], m.grp[g])

\* What one propagated command makes of the stream of the replica.
Apply1(r, cmd) == xcall(Host(r, TRUE), cmd).st

\* The servers whose stream the replica, once at st, reaches from what they
\* propagated.
Followed(st) == {h \in Here1 : Follows(XApplied(st, h.out), h.st)}

LEMMA GroupFollowsSelf ==
    ASSUME NEW gr \in GroupOK
    PROVE  GroupFollows(gr, gr)
<1>1. \A i \in Id : gr.pel[i].count \in Nat
    BY DEF GroupOK, GroupType, NackType
<1> QED
    BY <1>1 DEF GroupFollows, PendingFollow

LEMMA ReplicaIs ==
    ASSUME NEW h \in Server(TRUE)
    PROVE  h = Host(h.st, TRUE)
BY DEF Server, Host

LEMMA AppliedParts ==
    ASSUME NEW st \in StreamOK, NEW h \in Followed(st)
    PROVE  /\ h \in Here1 /\ h.st \in StreamOK /\ h.out \in Seq(Command)
           /\ XApplied(st, h.out) \in StreamOK
           /\ Follows(XApplied(st, h.out), h.st)
<1>1. h \in Here1 /\ Follows(XApplied(st, h.out), h.st)
    BY DEF Followed
<1>2. h.st \in StreamOK /\ h.out \in Seq(Command)
    BY <1>1 DEF Here1, Server
<1>3. XApplied(st, h.out) \in StreamOK
    BY <1>2, XAppliedOK
<1> QED
    BY <1>1, <1>2, <1>3

LEMMA AppliedNext ==
    ASSUME NEW st \in StreamOK, NEW out \in Seq(Command), NEW cmd \in Command
    PROVE  XApplied(st, Append(out, cmd)) = Apply1(XApplied(st, out), cmd)
<1>b. PICK b \in BOOLEAN : b = TRUE /\ Server(b) = Server(TRUE)
    OBVIOUS
<1>1. PICK h : h = Host(st, TRUE)
    OBVIOUS
<1>2. h \in Server(b)
    BY <1>b, <1>1, HostOK
<1>3. \A w \in Server(b), f \in Command : xcall(w, f) \in Server(b)
    BY XcallOK
<1>4. CallAll(h, Append(out, cmd)) = xcall(CallAll(h, out), cmd)
    BY <1>2, <1>3, CallAllAppend
<1>5. CallAll(h, out) \in Server(b)
    BY <1>2, CallAllOK
<1>6. CallAll(h, out) = Host(CallAll(h, out).st, TRUE)
    BY <1>b, <1>5, ReplicaIs
<1> QED
    BY <1>1, <1>4, <1>6 DEF XApplied, Apply1

LEMMA Replicated ==
    ASSUME NEW st \in StreamOK, NEW h \in Followed(st), NEW u \in Here1,
           NEW cmd \in Command, u.out = Append(h.out, cmd),
           Follows(Apply1(XApplied(st, h.out), cmd), u.st)
    PROVE  u \in Followed(st)
<1>1. h.out \in Seq(Command)
    BY AppliedParts
<1>2. XApplied(st, u.out) = Apply1(XApplied(st, h.out), cmd)
    BY <1>1, AppliedNext
<1> QED
    BY <1>2 DEF Followed

LEMMA XaddFollows ==
    ASSUME NEW st \in StreamOK, NEW h \in Followed(st), NEW cmd, cmd.trim \in Trim,
           cmd.id \in 0 .. MaxId, NEW v, v = xaddCommand(h, cmd)
    PROVE  v \in Followed(st)
<1>b. PICK b \in BOOLEAN : b = FALSE /\ Server(b) = Here1
    BY DEF Here1
<1>d. PICK d \in BOOLEAN : d = TRUE /\ Server(d) = Server(TRUE)
    OBVIOUS
<1>1. PICK r : r = XApplied(st, h.out)
    OBVIOUS
<1>2. PICK m : m = h.st
    OBVIOUS
<1>3. h \in Server(b) /\ r \in StreamOK /\ m \in StreamOK /\ Follows(r, m)
    BY <1>b, <1>1, <1>2, AppliedParts
<1>4. PICK id : id = IdFor(m, cmd)
    OBVIOUS
<1>5. SUFFICES ASSUME v # h PROVE v \in Followed(st)
    OBVIOUS
<1>6. /\ id \in Id /\ id > m.last /\ v \in Server(b)
      /\ v.st = AddedTo(m, id, cmd.trim, NodeSize[b])
      /\ AddedAs(v.st, id, cmd.trim) \in Command
      /\ v.out = OutThen(b, h.out, AddedAs(v.st, id, cmd.trim))
  <2>1. AddsNot(v, h, IdFor(h.st, cmd)) \/ Adds(v, h, b, cmd, IdFor(h.st, cmd))
      BY <1>3, XaddIs
  <2> QED
      BY <1>2, <1>4, <1>5, <2>1 DEF AddsNot, Adds
<1>7. PICK as : as = AddedAs(v.st, id, cmd.trim)
    OBVIOUS
<1>8. /\ as.op = "xadd" /\ as.id = id
      /\ as.trim = streamRewriteTrimArgument(v.st, cmd.trim)
    BY <1>7 DEF AddedAs
<1>9. PICK a : a = streamAppendItem(m, id)
    OBVIOUS
<1>10. /\ a \in StreamOK /\ a.on /\ a.last = id /\ a.grp = m.grp
       /\ a.items = m.items \cup {id}
    BY <1>3, <1>6, <1>9, AppendOK
<1>11. PICK c : c = streamAppendItem(r, id)
    OBVIOUS
<1>12. /\ c \in StreamOK /\ c.on /\ c.last = id /\ c.grp = r.grp
       /\ c.items = r.items \cup {id}
  <2>1. id > r.last
      BY <1>3, <1>6 DEF Follows, ItemsFollow
  <2> QED
      BY <1>3, <1>6, <1>11, <2>1, AppendOK
<1>13. v.st = streamTrim(a, cmd.trim, NodeSize[b])
    BY <1>6, <1>9 DEF AddedTo
<1>14. /\ v.st \in StreamOK /\ v.st.on /\ v.st.last = id /\ v.st.grp = m.grp
    BY <1>10, <1>13, TrimOK
<1>t. PICK trim, size : trim = as.trim /\ size = NodeSize[d]
    OBVIOUS
<1>15. PICK x : x = streamTrim(c, trim, size)
    OBVIOUS
<1>16. x \in StreamOK /\ x.on /\ x.last = id /\ x.grp = r.grp
    BY <1>12, <1>15, TrimOK
<1>17. x.items = v.st.items
  <2>1. NodeSize[b] \in Nat \ {0}
      BY Numbers
  <2>0. PICK want \in Trim : want = cmd.trim
      OBVIOUS
  <2>2. a.items = c.items /\ a.last = c.last
      BY <1>3, <1>10, <1>12 DEF Follows, ItemsFollow
  <2>3. PICK here \in Nat \ {0} : here = NodeSize[b]
      BY <2>1
  <2>4. v.st = streamTrim(a, want, here)
      BY <1>13, <2>0, <2>3
  <2>5. PICK u : u = v.st
      OBVIOUS
  <2>6. trim = streamRewriteTrimArgument(u, want) /\ x = streamTrim(c, trim, size)
      BY <1>8, <1>t, <1>15, <2>0, <2>5
  <2>7. u = streamTrim(a, want, here)
      BY <2>4, <2>5
  <2>9. TrimmedTo(u, a, want, here) /\ TrimmedTo(x, c, trim, size) /\ SameItems(c, a)
      BY <2>2, <2>6, <2>7 DEF TrimmedTo, SameItems
  <2>8. x.items = u.items
      BY <1>10, <1>12, <2>6, <2>9, TrimAgain
  <2> QED
      BY <2>5, <2>8
<1>18. Follows(x, v.st)
    BY <1>3, <1>14, <1>16, <1>17 DEF Follows, ItemsFollow
<1>19. Apply1(r, as) = x
  <2>1. PICK y : y = Host(r, TRUE)
      OBVIOUS
  <2>2. y \in Server(d) /\ y.st = r
      BY <1>d, <1>3, <2>1, HostOK
  <2>3. PICK z : z = xaddCommand(y, as)
      OBVIOUS
  <2>4. as.trim \in Trim /\ as.id \in 0 .. MaxId
      BY <1>6, <1>8, <1>14, RewriteOK, Numbers
  <2>5. IdFor(r, as) = id
      BY <1>6, <1>8, Numbers DEF IdFor
  <2>6. ~(r.last = MaxId \/ id <= r.last)
      BY <1>3, <1>6, Numbers, StreamParts DEF Follows, ItemsFollow
  <2>7. AddsNot(z, y, IdFor(y.st, as)) \/ Adds(z, y, d, as, IdFor(y.st, as))
      BY <2>2, <2>3, <2>4, XaddIs
  <2>8. z.st = x
      BY <1>t, <1>11, <1>15, <2>2, <2>5, <2>6, <2>7 DEF AddedTo, Adds, AddsNot
  <2> QED
      BY <1>8, <2>1, <2>3, <2>8 DEF Apply1, xcall
<1>20. v \in Here1 /\ v.out = Append(h.out, as) /\ as \in Command
    BY <1>b, <1>6, <1>7 DEF OutThen
<1> QED
    BY <1>1, <1>18, <1>19, <1>20, Replicated

\* The same done here and there.
LEMMA SameDone ==
    ASSUME NEW st \in StreamOK, NEW h \in Followed(st), NEW cmd \in Command,
           NEW a \in StreamOK, NEW v, DoneTo(v, h, a, cmd),
           NEW y, y = Host(XApplied(st, h.out), TRUE),
           NEW c \in StreamOK, NEW z, z = xcall(y, cmd), DoneTo(z, y, c, cmd),
           Follows(c, a)
    PROVE  v \in Followed(st)
<1>b. PICK b \in BOOLEAN : b = FALSE /\ Server(b) = Here1
    BY DEF Here1
<1>d. PICK d \in BOOLEAN : d = TRUE /\ Server(d) = Server(TRUE)
    OBVIOUS
<1>1. PICK r \in StreamOK : r = XApplied(st, h.out)
    BY AppliedParts
<1>2. h \in Server(b)
    BY <1>b, AppliedParts
<1>3. DoneParts(v, h, b, a, cmd)
    BY <1>2, DoneOK
<1>4. v \in Here1 /\ v.st = a /\ v.out = Append(h.out, cmd)
    BY <1>b, <1>3 DEF DoneParts, OutThen
<1>5. y \in Server(d)
    BY <1>d, <1>1, HostOK
<1>6. DoneParts(z, y, d, c, cmd)
    BY <1>5, DoneOK
<1>7. Apply1(r, cmd) = c
    BY <1>1, <1>6 DEF Apply1, DoneParts
<1> QED
    BY <1>1, <1>4, <1>7, Replicated

LEMMA CopyOK ==
    ASSUME NEW st \in StreamOK, NEW h \in Followed(st),
           NEW y, y = Host(XApplied(st, h.out), TRUE)
    PROVE  y \in Server(TRUE) /\ y.st \in StreamOK /\ Follows(y.st, h.st)
<1>1. PICK r \in StreamOK : r = XApplied(st, h.out) /\ Follows(r, h.st)
    BY AppliedParts
<1>2. y = Host(r, TRUE)
    BY <1>1
<1> QED
    BY <1>1, <1>2, HostOK

LEMMA KinFollows ==
    ASSUME NEW m, NEW r, Follows(r, m), NEW items, NEW last,
           NEW a, Kin(a, m, items, last), NEW c, Kin(c, r, items, last)
    PROVE  Follows(c, a)
<1>1. a.on = TRUE /\ c.on = TRUE
    BY DEF Kin, StreamOK, StreamType
<1> QED
    BY <1>1 DEF Follows, ItemsFollow, Kin

LEMMA XdelFollows ==
    ASSUME NEW st \in StreamOK, NEW h \in Followed(st), NEW cmd \in Command,
           cmd.op = "xdel", NEW v, v = xdelCommand(h, cmd)
    PROVE  v \in Followed(st)
<1>b. PICK b \in BOOLEAN : b = FALSE /\ Server(b) = Here1
    BY DEF Here1
<1>d. PICK d \in BOOLEAN : d = TRUE /\ Server(d) = Server(TRUE)
    OBVIOUS
<1>1. SUFFICES ASSUME v # h PROVE v \in Followed(st)
    OBVIOUS
<1>2. h \in Server(b)
    BY <1>b, AppliedParts
<1>3. DelIs(v, h, cmd)
    BY <1>2, XdelIs
<1>4. PICK a : /\ cmd.id \in h.st.items
               /\ Kin(a, h.st, h.st.items \ {cmd.id}, h.st.last) /\ DoneTo(v, h, a, cmd)
    BY <1>1, <1>3 DEF DelIs
<1>5. PICK y : y = Host(XApplied(st, h.out), TRUE)
    OBVIOUS
<1>6. y \in Server(d) /\ Follows(y.st, h.st)
    BY <1>d, <1>5, CopyOK
<1>7. PICK z : z = xdelCommand(y, cmd)
    OBVIOUS
<1>8. DelIs(z, y, cmd)
    BY <1>6, <1>7, XdelIs
<1>9. h.st.items = y.st.items /\ h.st.last = y.st.last
    BY <1>6 DEF Follows, ItemsFollow
<1>10. PICK c : Kin(c, y.st, h.st.items \ {cmd.id}, h.st.last) /\ DoneTo(z, y, c, cmd)
    BY <1>4, <1>8, <1>9 DEF DelIs
<1>11. Follows(c, a)
    BY <1>4, <1>6, <1>10, KinFollows
<1>12. z = xcall(y, cmd)
    BY <1>7 DEF xcall
<1>13. a \in StreamOK /\ c \in StreamOK
    BY <1>4, <1>10 DEF Kin
<1> QED
    BY <1>4, <1>5, <1>10, <1>11, <1>12, <1>13, SameDone

LEMMA XsetidFollows ==
    ASSUME NEW st \in StreamOK, NEW h \in Followed(st), NEW cmd \in Command,
           cmd.op = "xsetid", cmd.id \in 0 .. MaxId, NEW v, v = xsetidCommand(h, cmd)
    PROVE  v \in Followed(st)
<1>b. PICK b \in BOOLEAN : b = FALSE /\ Server(b) = Here1
    BY DEF Here1
<1>d. PICK d \in BOOLEAN : d = TRUE /\ Server(d) = Server(TRUE)
    OBVIOUS
<1>1. SUFFICES ASSUME v # h PROVE v \in Followed(st)
    OBVIOUS
<1>2. h \in Server(b)
    BY <1>b, AppliedParts
<1>3. SetIs(v, h, cmd)
    BY <1>2, XsetidIs
<1>4. PICK a : /\ ~(~h.st.on \/ cmd.id < streamLastValidID(h.st))
               /\ Kin(a, h.st, h.st.items, cmd.id) /\ DoneTo(v, h, a, cmd)
    BY <1>1, <1>3 DEF SetIs
<1>5. PICK y : y = Host(XApplied(st, h.out), TRUE)
    OBVIOUS
<1>6. y \in Server(d) /\ Follows(y.st, h.st)
    BY <1>d, <1>5, CopyOK
<1>7. PICK z : z = xsetidCommand(y, cmd)
    OBVIOUS
<1>8. SetIs(z, y, cmd)
    BY <1>6, <1>7, XsetidIs
<1>9. /\ h.st.items = y.st.items /\ h.st.on = y.st.on
      /\ streamLastValidID(h.st) = streamLastValidID(y.st)
    BY <1>6 DEF Follows, ItemsFollow, streamLastValidID
<1>10. PICK c : Kin(c, y.st, h.st.items, cmd.id) /\ DoneTo(z, y, c, cmd)
    BY <1>4, <1>8, <1>9 DEF SetIs
<1>11. Follows(c, a)
    BY <1>4, <1>6, <1>10, KinFollows
<1>12. z = xcall(y, cmd)
    BY <1>7 DEF xcall
<1>13. a \in StreamOK /\ c \in StreamOK
    BY <1>4, <1>10 DEF Kin
<1> QED
    BY <1>4, <1>5, <1>10, <1>11, <1>12, <1>13, SameDone

LEMMA NoStreamFollows == Follows(NoStream, NoStream)
<1>1. \A g \in Group : NoStream.grp[g] = NoGroup
    BY DEF NoStream
<1>2. GroupFollows(NoGroup, NoGroup)
    BY NoGroupOK, GroupFollowsSelf
<1> QED
    BY <1>1, <1>2 DEF Follows, ItemsFollow

LEMMA DelFollows ==
    ASSUME NEW st \in StreamOK, NEW h \in Followed(st), NEW cmd \in Command,
           cmd.op = "del", NEW v, v = delStream(h, cmd)
    PROVE  v \in Followed(st)
<1>1. SUFFICES ASSUME h.st.on PROVE v \in Followed(st)
    BY DEF delStream
<1>2. PICK none : none = NoStream /\ none \in StreamOK /\ Follows(none, none)
    BY NoStreamOK, NoStreamFollows
<1>3. PICK y : y = Host(XApplied(st, h.out), TRUE)
    OBVIOUS
<1>4. Follows(y.st, h.st)
    BY <1>3, CopyOK
<1>5. y.st.on
    BY <1>1, <1>4 DEF Follows, ItemsFollow
<1>6. PICK z : z = delStream(y, cmd)
    OBVIOUS
<1>7. DoneTo(v, h, none, cmd) /\ DoneTo(z, y, none, cmd)
    BY <1>1, <1>2, <1>5, <1>6 DEF delStream, DoneTo
<1>8. z = xcall(y, cmd)
    BY <1>6 DEF xcall
<1> QED
    BY <1>2, <1>3, <1>7, <1>8, SameDone

LEMMA XtrimFollows ==
    ASSUME NEW st \in StreamOK, NEW h \in Followed(st), NEW cmd, cmd.trim \in Trim,
           NEW v, v = xtrimCommand(h, cmd)
    PROVE  v \in Followed(st)
<1>b. PICK b \in BOOLEAN : b = FALSE /\ Server(b) = Here1
    BY DEF Here1
<1>d. PICK d \in BOOLEAN : d = TRUE /\ Server(d) = Server(TRUE)
    OBVIOUS
<1>1. SUFFICES ASSUME v # h PROVE v \in Followed(st)
    OBVIOUS
<1>2. h \in Server(b) /\ h.st \in StreamOK
    BY <1>b, AppliedParts
<1>3. TrimIs(v, h, b, cmd)
    BY <1>2, XtrimIs
<1>4. PICK a : /\ TrimmedTo(a, h.st, cmd.trim, NodeSize[b])
               /\ a.items # h.st.items
               /\ Kin(a, h.st, a.items, h.st.last)
               /\ TrimmedAs(a, cmd.trim) \in Command
               /\ DoneTo(v, h, a, TrimmedAs(a, cmd.trim))
    BY <1>1, <1>3 DEF TrimIs
<1>5. PICK as \in Command : as = TrimmedAs(a, cmd.trim)
    BY <1>4
<1>6. as.op = "xtrim" /\ as.trim = streamRewriteTrimArgument(a, cmd.trim)
    BY <1>5 DEF TrimmedAs
<1>7. as.trim \in Trim
    BY <1>4, <1>6, RewriteOK DEF Kin
<1>8. PICK y : y = Host(XApplied(st, h.out), TRUE)
    OBVIOUS
<1>9. y \in Server(d) /\ Follows(y.st, h.st) /\ y.st \in StreamOK
    BY <1>d, <1>8, CopyOK
<1>10. PICK z : z = xtrimCommand(y, as)
    OBVIOUS
<1>11. TrimIs(z, y, d, as)
    BY <1>7, <1>9, <1>10, XtrimIs
<1>12. PICK c : /\ TrimmedTo(c, y.st, as.trim, NodeSize[d])
                /\ \/ c.items = y.st.items /\ z = y
                   \/ /\ Kin(c, y.st, c.items, y.st.last)
                      /\ TrimmedAs(c, as.trim) \in Command
                      /\ DoneTo(z, y, c, TrimmedAs(c, as.trim))
    BY <1>11 DEF TrimIs
<1>13. h.st.items = y.st.items /\ h.st.last = y.st.last
    BY <1>9 DEF Follows, ItemsFollow
<1>14. c.items = a.items
  <2>1. PICK trim \in Trim, want \in Trim : trim = as.trim /\ want = cmd.trim
      BY <1>7
  <2>2. NodeSize[b] \in Nat \ {0} /\ NodeSize[d] \in Nat \ {0}
      BY Numbers
  <2>3. PICK size, other \in Nat \ {0} : size = NodeSize[b] /\ other = NodeSize[d]
      BY <2>2
  <2>4. PICK m \in StreamOK, r \in StreamOK : m = h.st /\ r = y.st /\ SameItems(r, m)
      BY <1>2, <1>9, <1>13 DEF SameItems
  <2>5. /\ TrimmedTo(a, m, want, size) /\ TrimmedTo(c, r, trim, other)
        /\ trim = streamRewriteTrimArgument(a, want)
      BY <1>4, <1>6, <1>12, <2>1, <2>3, <2>4
  <2> QED
      BY <2>4, <2>5, TrimAgain
<1>15. Kin(c, y.st, a.items, h.st.last) /\ DoneTo(z, y, c, TrimmedAs(c, as.trim))
    BY <1>4, <1>12, <1>13, <1>14
<1>16. Follows(c, a)
    BY <1>4, <1>9, <1>15, KinFollows
<1>17. Apply1(XApplied(st, h.out), as) = c
  <2>1. z = xcall(y, as)
      BY <1>6, <1>10 DEF xcall
  <2>2. PICK other \in Command : other = TrimmedAs(c, as.trim)
      BY <1>4, <1>12, <1>13, <1>14
  <2>3. DoneParts(z, y, d, c, other)
    <3>1. c \in StreamOK
        BY <1>15 DEF Kin
    <3> QED
        BY <1>9, <1>15, <2>2, <3>1, DoneOK
  <2> QED
      BY <1>8, <2>1, <2>3 DEF Apply1, DoneParts
<1>18. DoneParts(v, h, b, a, as)
  <2>1. a \in StreamOK
      BY <1>4 DEF Kin
  <2> QED
      BY <1>2, <1>4, <1>5, <2>1, DoneOK
<1>19. v \in Here1 /\ v.st = a /\ v.out = Append(h.out, as)
    BY <1>b, <1>18 DEF DoneParts, OutThen
<1> QED
    BY <1>16, <1>17, <1>19, Replicated

\* XGROUP and XACK: the group is made anew here and there.
FollowsBut(r, m, g) ==
    /\ ItemsFollow(r, m)
    /\ \A h \in Group : h # g => GroupFollows(r.grp[h], m.grp[h])

LEMMA RegroupFollows ==
    ASSUME NEW m, NEW r, NEW g \in Group, FollowsBut(r, m, g),
           NEW old, NEW gr, GroupFollows(gr, old),
           NEW a, Regrouped(a, m, g, old), NEW c, Regrouped(c, r, g, gr)
    PROVE  Follows(c, a)
<1>1. ItemsFollow(c, a)
    BY DEF FollowsBut, ItemsFollow, Regrouped
<1>2. ASSUME NEW h \in Group PROVE GroupFollows(c.grp[h], a.grp[h])
  <2>1. CASE h = g
      BY <2>1 DEF Regrouped
  <2>2. CASE h # g
      BY <2>2 DEF FollowsBut, Regrouped
  <2> QED
      BY <2>1, <2>2
<1> QED
    BY <1>1, <1>2 DEF Follows

LEMMA MovedFollows ==
    ASSUME NEW m \in GroupOK, NEW r \in GroupOK, PendingFollow(r, m),
           NEW last \in 0 .. MaxId, NEW a, LastIn(a, m, last),
           NEW c, LastIn(c, r, last)
    PROVE  GroupFollows(c, a)
<1>1. /\ a.on = m.on /\ a.last = last /\ a.known = m.known
      /\ a.cpel = m.cpel /\ a.pel = m.pel
    BY MovedOK
<1>2. /\ c.on = r.on /\ c.last = last /\ c.known = r.known
      /\ c.cpel = r.cpel /\ c.pel = r.pel
    BY MovedOK
<1> QED
    BY <1>1, <1>2 DEF GroupFollows, PendingFollow

LEMMA LookupFollows ==
    ASSUME NEW m \in GroupOK, NEW r \in GroupOK, GroupFollows(r, m),
           NEW c \in Consumer
    PROVE  GroupFollows(streamLookupConsumer(r, c), streamLookupConsumer(m, c))
<1>1. PICK a, x : a = streamLookupConsumer(m, c) /\ x = streamLookupConsumer(r, c)
    OBVIOUS
<1>2. /\ a["on"] = m["on"] /\ a["last"] = m["last"]
      /\ a["cpel"] = m["cpel"] /\ a["pel"] = m["pel"] /\ a.known = m.known \cup {c}
    BY <1>1, LookupOK
<1>3. /\ x["on"] = r["on"] /\ x["last"] = r["last"]
      /\ x["cpel"] = r["cpel"] /\ x["pel"] = r["pel"] /\ x.known = r.known \cup {c}
    BY <1>1, LookupOK
<1>4. GroupFollows(x, a)
    BY <1>2, <1>3 DEF GroupFollows, PendingFollow
<1> QED
    BY <1>1, <1>4

LEMMA DropFollows ==
    ASSUME NEW m \in GroupOK, NEW r \in GroupOK, GroupFollows(r, m),
           NEW c \in Consumer, NEW a, Dropped(a, m, c), NEW x, Dropped(x, r, c)
    PROVE  GroupFollows(x, a)
<1>1. ASSUME NEW i \in Id
      PROVE  /\ x.pel[i].owner = a.pel[i].owner
             /\ x.pel[i].count <= a.pel[i].count
             /\ a.pel[i].idle => x.pel[i].idle
  <2>1. i \in r.cpel[c] <=> i \in m.cpel[c]
      BY DEF GroupFollows, PendingFollow
  <2>2. CASE i \in m.cpel[c]
    <3>1. x.pel[i] = NoNack /\ a.pel[i] = NoNack
        BY <2>1, <2>2 DEF Dropped
    <3> QED
        BY <3>1 DEF NoNack
  <2>3. CASE i \notin m.cpel[c]
    <3>1. x.pel[i] = r.pel[i] /\ a.pel[i] = m.pel[i]
        BY <2>1, <2>3 DEF Dropped
    <3> QED
        BY <3>1 DEF GroupFollows, PendingFollow
  <2> QED
      BY <2>2, <2>3
<1>2. \A d \in Consumer : x.cpel[d] = a.cpel[d]
    BY DEF Dropped, GroupFollows, PendingFollow
<1>3. x.on = a.on /\ x.last = a.last /\ x.known \subseteq a.known
    BY DEF Dropped, GroupFollows, PendingFollow
<1> QED
    BY <1>1, <1>2, <1>3 DEF GroupFollows, PendingFollow

LEMMA SettleFollows ==
    ASSUME NEW m \in GroupOK, NEW r \in GroupOK, GroupFollows(r, m),
           NEW id \in Id, NEW a, Settled(a, m, id), NEW x, Settled(x, r, id)
    PROVE  GroupFollows(x, a)
<1>1. ASSUME NEW i \in Id
      PROVE  /\ x.pel[i].owner = a.pel[i].owner
             /\ x.pel[i].count <= a.pel[i].count
             /\ a.pel[i].idle => x.pel[i].idle
  <2>2. CASE i = id
    <3>1. x.pel[i] = NoNack /\ a.pel[i] = NoNack
        BY <2>2 DEF Settled
    <3> QED
        BY <3>1 DEF NoNack
  <2>3. CASE i # id
    <3>1. x.pel[i] = r.pel[i] /\ a.pel[i] = m.pel[i]
        BY <2>3 DEF Settled
    <3> QED
        BY <3>1 DEF GroupFollows, PendingFollow
  <2> QED
      BY <2>2, <2>3
<1>2. ASSUME NEW d \in Consumer PROVE x.cpel[d] = a.cpel[d]
  <2>1. x.cpel[d] = r.cpel[d] \ {id} /\ a.cpel[d] = m.cpel[d] \ {id}
      BY DEF Settled
  <2>2. r.cpel[d] = m.cpel[d]
      BY DEF GroupFollows, PendingFollow
  <2> QED
      BY <2>1, <2>2
<1>3. x.on = a.on /\ x.last = a.last /\ x.known \subseteq a.known
    BY DEF Settled, GroupFollows, PendingFollow
<1> QED
    BY <1>1, <1>2, <1>3 DEF GroupFollows, PendingFollow

LEMMA NewGroupFollows ==
    ASSUME NEW m \in StreamOK, NEW r \in StreamOK, Follows(r, m), NEW cmd \in Command,
           cmd.op \in {"create", "setid", "destroy", "createconsumer", "delconsumer"}
    PROVE  GroupFollows(NewGroup(r, cmd), NewGroup(m, cmd))
<1>1. /\ cmd.g \in Group
      /\ cmd.op \in {"create", "setid"} => cmd.id \in 0 .. Top
      /\ cmd.op \in {"createconsumer", "delconsumer"} => cmd.c \in Consumer
    BY CommandsOK DEF XCommandOK
<1>2. PICK gm \in GroupOK, gr \in GroupOK : gm = m.grp[cmd.g] /\ gr = r.grp[cmd.g]
    BY <1>1, StreamParts
<1>3. GroupFollows(gr, gm) /\ PendingFollow(gr, gm)
    BY <1>1, <1>2 DEF Follows, GroupFollows
<1>4. PICK at : at = IF cmd.id = Top THEN m.last ELSE cmd.id
    OBVIOUS
<1>5. at = (IF cmd.id = Top THEN r.last ELSE cmd.id)
    BY <1>4 DEF Follows, ItemsFollow
<1>6. cmd.op \in {"create", "setid"} => at \in 0 .. MaxId
    BY <1>1, <1>4, StreamParts, Numbers
<1>7. CASE cmd.op = "create"
  <2>1. PICK new \in GroupOK : new = streamCreateCG(at)
      BY <1>6, <1>7, CreateOK
  <2>2. GroupFollows(new, new)
      BY GroupFollowsSelf
  <2> QED
      BY <1>4, <1>5, <1>7, <2>1, <2>2 DEF NewGroup
<1>8. CASE cmd.op = "setid"
  <2>1. PICK a, c : LastIn(a, gm, at) /\ LastIn(c, gr, at)
      BY DEF LastIn
  <2>2. GroupFollows(c, a)
      BY <1>3, <1>6, <1>8, <2>1, MovedFollows
  <2> QED
      BY <1>2, <1>4, <1>5, <1>8, <2>1, <2>2 DEF NewGroup, LastIn
<1>9. CASE cmd.op = "destroy"
  <2>1. GroupFollows(NoGroup, NoGroup)
      BY NoGroupOK, GroupFollowsSelf
  <2> QED
      BY <1>9, <2>1 DEF NewGroup
<1>10. CASE cmd.op = "createconsumer"
  <2>1. GroupFollows(streamLookupConsumer(gr, cmd.c), streamLookupConsumer(gm, cmd.c))
      BY <1>1, <1>3, <1>10, LookupFollows
  <2> QED
      BY <1>2, <1>10, <2>1 DEF NewGroup
<1>11. CASE cmd.op = "delconsumer"
  <2>1. PICK a, c : a = streamDelConsumer(gm, cmd.c) /\ c = streamDelConsumer(gr, cmd.c)
      OBVIOUS
  <2>2. Dropped(a, gm, cmd.c) /\ Dropped(c, gr, cmd.c)
      BY <1>1, <1>11, <2>1, DelConsumerOK
  <2>3. GroupFollows(c, a)
      BY <1>1, <1>3, <1>11, <2>2, DropFollows
  <2> QED
      BY <1>2, <1>11, <2>1, <2>3 DEF NewGroup
<1> QED
    BY <1>7, <1>8, <1>9, <1>10, <1>11

\* What changes a group here changes it there: a consumer that is new here
\* is new there.
LEMMA ChangesThere ==
    ASSUME NEW m, NEW r, Follows(r, m), NEW cmd, cmd.g \in Group, Changes(m, cmd)
    PROVE  Changes(r, cmd)
<1>1. r.on = m.on /\ r.grp[cmd.g].on = m.grp[cmd.g].on
      /\ r.grp[cmd.g].known \subseteq m.grp[cmd.g].known
    BY DEF Follows, ItemsFollow, GroupFollows, PendingFollow
<1> QED
    BY <1>1 DEF Changes

LEMMA XgroupFollows ==
    ASSUME NEW st \in StreamOK, NEW h \in Followed(st), NEW cmd \in Command,
           cmd.op \in {"create", "setid", "destroy", "createconsumer", "delconsumer"},
           NEW v, v = xgroupCommand(h, cmd)
    PROVE  v \in Followed(st)
<1>b. PICK b \in BOOLEAN : b = FALSE /\ Server(b) = Here1
    BY DEF Here1
<1>d. PICK d \in BOOLEAN : d = TRUE /\ Server(d) = Server(TRUE)
    OBVIOUS
<1>1. SUFFICES ASSUME v # h PROVE v \in Followed(st)
    OBVIOUS
<1>2. h \in Server(b) /\ h.st \in StreamOK /\ cmd.g \in Group
    BY <1>b, AppliedParts, CommandsOK DEF XCommandOK
<1>3. GroupIs(v, h, b, cmd)
    BY <1>2, XgroupIs
<1>4. /\ Changes(h.st, cmd) /\ v \in Server(b) /\ v.out = OutThen(b, h.out, cmd)
      /\ Regrouped(v.st, h.st, cmd.g, NewGroup(h.st, cmd))
    BY <1>1, <1>3 DEF GroupIs
<1>5. PICK y : y = Host(XApplied(st, h.out), TRUE)
    OBVIOUS
<1>6. y \in Server(d) /\ y.st \in StreamOK /\ Follows(y.st, h.st)
    BY <1>d, <1>5, CopyOK
<1>7. PICK z : z = xgroupCommand(y, cmd)
    OBVIOUS
<1>8. GroupIs(z, y, d, cmd)
    BY <1>6, <1>7, XgroupIs
<1>9. Changes(y.st, cmd)
    BY <1>2, <1>4, <1>6, ChangesThere
<1>10. Regrouped(z.st, y.st, cmd.g, NewGroup(y.st, cmd))
    BY <1>8, <1>9 DEF GroupIs
<1>11. GroupFollows(NewGroup(y.st, cmd), NewGroup(h.st, cmd))
    BY <1>2, <1>6, NewGroupFollows
<1>12. Follows(z.st, v.st)
  <2>1. FollowsBut(y.st, h.st, cmd.g)
      BY <1>6 DEF Follows, FollowsBut
  <2> QED
      BY <1>2, <1>4, <1>10, <1>11, <2>1, RegroupFollows
<1>13. Apply1(XApplied(st, h.out), cmd) = z.st
    BY <1>5, <1>7 DEF Apply1, xcall
<1>14. v \in Here1 /\ v.out = Append(h.out, cmd)
    BY <1>b, <1>4 DEF OutThen
<1> QED
    BY <1>12, <1>13, <1>14, Replicated

AckIs(v, s, b, cmd) ==
    \/ v = s /\ s.st.grp[cmd.g].pel[cmd.id] = NoNack
    \/ /\ s.st.grp[cmd.g].pel[cmd.id] # NoNack
       /\ Regrouped(v.st, s.st, cmd.g, Settle(s.st.grp[cmd.g], cmd.id))
       /\ v \in Server(b) /\ v.out = OutThen(b, s.out, cmd)
       /\ v.wait = s.wait /\ v.new = s.new /\ v.ready = s.ready

LEMMA XackIs ==
    ASSUME NEW b \in BOOLEAN, NEW s \in Server(b), NEW cmd \in Command,
           cmd.g \in Group, cmd.id \in Id, NEW v, v = xackCommand(s, cmd)
    PROVE  AckIs(v, s, b, cmd)
<1>1. s.st \in StreamOK /\ s.st.grp[cmd.g] \in GroupOK
    BY ServerParts, StreamParts
<1>2. CASE s.st.grp[cmd.g].pel[cmd.id] = NoNack
    BY <1>2 DEF xackCommand, AckIs
<1>3. CASE s.st.grp[cmd.g].pel[cmd.id] # NoNack
  <2>1. s.st.on
    <3>1. NoStream.grp[cmd.g].pel[cmd.id] = NoNack
        BY DEF NoStream, NoGroup
    <3> QED
        BY <1>1, <1>3, <3>1, StreamParts
  <2>2. PICK gr \in GroupOK : gr = Settle(s.st.grp[cmd.g], cmd.id)
      BY <1>1, SettleOK
  <2>3. PICK t : GroupPut(t, s, cmd.g, gr)
      BY DEF GroupPut
  <2>4. /\ t \in Server(b) /\ t.st \in StreamOK /\ t.st.on
        /\ t.st.items = s.st.items /\ t.st.last = s.st.last
        /\ t.st.grp[cmd.g] = gr
        /\ \A h \in Group : h # cmd.g => t.st.grp[h] = s.st.grp[h]
        /\ t.out = s.out /\ t.wait = s.wait /\ t.new = s.new /\ t.ready = s.ready
      BY <2>1, <2>3, PutInServer
  <2>5. v = xpropagate(t, cmd)
      BY <1>3, <2>2, <2>3 DEF xackCommand, GroupPut
  <2>6. /\ v \in Server(b) /\ v.st = t.st /\ v.out = OutThen(b, t.out, cmd)
        /\ v.wait = t.wait /\ v.new = t.new /\ v.ready = t.ready
      BY <2>4, <2>5, Propagates DEF OutThen
  <2>7. t.st.on = TRUE
      BY <2>4 DEF StreamOK, StreamType
  <2> QED
      BY <1>3, <2>2, <2>4, <2>6, <2>7 DEF AckIs, Regrouped
<1> QED
    BY <1>2, <1>3

\* An entry is pending in the group just if a consumer owns it.
LEMMA OwnedIs ==
    ASSUME NEW gr \in GroupOK, NEW i \in Id
    PROVE  gr.pel[i] = NoNack <=> gr.pel[i].owner = Nobody
<1>1. ListsAgree(gr)
    BY DEF GroupOK
<1>2. NoNack.owner = Nobody
    BY DEF NoNack
<1> QED
    BY <1>1, <1>2 DEF ListsAgree

LEMMA XackFollows ==
    ASSUME NEW st \in StreamOK, NEW h \in Followed(st), NEW cmd \in Command,
           cmd.op = "xack", cmd.g \in Group, cmd.id \in Id,
           NEW v, v = xackCommand(h, cmd)
    PROVE  v \in Followed(st)
<1>b. PICK b \in BOOLEAN : b = FALSE /\ Server(b) = Here1
    BY DEF Here1
<1>d. PICK d \in BOOLEAN : d = TRUE /\ Server(d) = Server(TRUE)
    OBVIOUS
<1>1. SUFFICES ASSUME v # h PROVE v \in Followed(st)
    OBVIOUS
<1>2. h \in Server(b) /\ h.st \in StreamOK
    BY <1>b, AppliedParts
<1>3. AckIs(v, h, b, cmd)
    BY <1>2, XackIs
<1>4. PICK y : y = Host(XApplied(st, h.out), TRUE)
    OBVIOUS
<1>5. y \in Server(d) /\ y.st \in StreamOK /\ Follows(y.st, h.st)
    BY <1>d, <1>4, CopyOK
<1>6. PICK gm \in GroupOK, gr \in GroupOK : gm = h.st.grp[cmd.g] /\ gr = y.st.grp[cmd.g]
    BY <1>2, <1>5, StreamParts
<1>7. GroupFollows(gr, gm)
    BY <1>5, <1>6 DEF Follows
<1>8. PICK a, c : a = Settle(gm, cmd.id) /\ c = Settle(gr, cmd.id)
    OBVIOUS
<1>9. /\ gm.pel[cmd.id] # NoNack
      /\ v \in Server(b) /\ v.out = OutThen(b, h.out, cmd)
      /\ Regrouped(v.st, h.st, cmd.g, a)
    BY <1>1, <1>3, <1>6, <1>8 DEF AckIs
<1>10. PICK z : z = xackCommand(y, cmd)
    OBVIOUS
<1>11. AckIs(z, y, d, cmd)
    BY <1>5, <1>10, XackIs
<1>12. gr.pel[cmd.id] # NoNack
  <2>1. gr.pel[cmd.id].owner = gm.pel[cmd.id].owner
      BY <1>7 DEF GroupFollows, PendingFollow
  <2> QED
      BY <1>9, <2>1, OwnedIs
<1>13. Regrouped(z.st, y.st, cmd.g, c)
    BY <1>6, <1>8, <1>11, <1>12 DEF AckIs
<1>14. GroupFollows(c, a)
  <2>1. Settled(a, gm, cmd.id) /\ Settled(c, gr, cmd.id)
      BY <1>8, SettleOK
  <2> QED
      BY <1>7, <2>1, SettleFollows
<1>15. Follows(z.st, v.st)
  <2>1. FollowsBut(y.st, h.st, cmd.g)
      BY <1>5 DEF Follows, FollowsBut
  <2> QED
      BY <1>9, <1>13, <1>14, <2>1, RegroupFollows
<1>16. Apply1(XApplied(st, h.out), cmd) = z.st
    BY <1>4, <1>10 DEF Apply1, xcall
<1>17. v \in Here1 /\ v.out = Append(h.out, cmd)
    BY <1>b, <1>9 DEF OutThen
<1> QED
    BY <1>15, <1>16, <1>17, Replicated

-----------------------------------------------------------------------------
(* The replica follows: XCLAIM, XAUTOCLAIM and the delivery of news.         *)

\* The replica's group has still to hear of the last ID the master's has.
Behind(r, m, g) ==
    /\ FollowsBut(r, m, g)
    /\ PendingFollow(r.grp[g], m.grp[g])
    /\ r.grp[g].last <= m.grp[g].last

LEMMA FollowsBehind ==
    ASSUME NEW m \in StreamOK, NEW r, Follows(r, m), NEW g \in Group
    PROVE  Behind(r, m, g)
<1>1. m.grp[g] \in GroupOK
    BY StreamParts
<1>2. m.grp[g].last \in Nat
    BY <1>1, Numbers DEF GroupOK, GroupType
<1> QED
    BY <1>2 DEF Follows, Behind, FollowsBut, GroupFollows

LEMMA RegroupedSelf ==
    ASSUME NEW m \in StreamOK, m.on, NEW g
    PROVE  Regrouped(m, m, g, m.grp[g])
BY DEF Regrouped, StreamOK, StreamType

\* The XGROUP SETID that is propagated brings it there.
LEMMA SetidCatchesUp ==
    ASSUME NEW st \in StreamOK, NEW u \in Here1, NEW g \in Group, u.st.grp[g].on,
           Behind(XApplied(st, u.out), u.st, g),
           NEW v, v = streamPropagateGroupID(u, g)
    PROVE  v \in Followed(st)
<1>b. PICK b \in BOOLEAN : b = FALSE /\ Server(b) = Here1
    BY DEF Here1
<1>d. PICK d \in BOOLEAN : d = TRUE /\ Server(d) = Server(TRUE)
    OBVIOUS
<1>1. u \in Server(b) /\ u.st \in StreamOK /\ u.out \in Seq(Command) /\ u.st.on
  <2>1. u.st \in StreamOK /\ u.out \in Seq(Command)
      BY DEF Here1, Server
  <2> QED
      BY <1>b, <2>1, StreamParts
<1>2. PICK r \in StreamOK : r = XApplied(st, u.out)
    BY <1>1, XAppliedOK
<1>3. PICK m \in StreamOK : m = u.st
    BY <1>1
<1>4. PICK gm \in GroupOK, gr \in GroupOK : gm = m.grp[g] /\ gr = r.grp[g]
    BY StreamParts
<1>5. FollowsBut(r, m, g) /\ PendingFollow(gr, gm) /\ gr.on
    BY <1>2, <1>3, <1>4 DEF Behind, PendingFollow
<1>6. gm.last \in 0 .. MaxId
    BY DEF GroupOK, GroupType
<1>7. PICK cmd : cmd = GroupIdOf(gm, g)
    OBVIOUS
<1>8. cmd \in Command /\ v \in Server(b) /\ v.st = m /\ v.out = Append(u.out, cmd)
  <2>1. cmd = GroupIdOf(u.st.grp[g], g)
      BY <1>3, <1>4, <1>7
  <2>2. /\ GroupIdOf(u.st.grp[g], g) \in Command
        /\ v \in Server(b) /\ v.st = u.st
        /\ v.out = (IF b THEN u.out ELSE Append(u.out, GroupIdOf(u.st.grp[g], g)))
      BY <1>1, PropagateGroup
  <2> QED
      BY <1>b, <1>3, <2>1, <2>2
<1>9. cmd.op = "setid" /\ cmd.g = g /\ cmd.id = gm.last
    BY <1>7 DEF GroupIdOf
<1>10. PICK y : y = Host(r, TRUE)
    OBVIOUS
<1>11. y \in Server(d) /\ y.st = r
    BY <1>d, <1>10, HostOK
<1>12. PICK z : z = xgroupCommand(y, cmd)
    OBVIOUS
<1>13. GroupIs(z, y, d, cmd)
    BY <1>8, <1>9, <1>11, <1>12, XgroupIs
<1>14. Changes(r, cmd)
  <2>1. r.on
      BY <1>4, <1>5, StreamParts
  <2> QED
      BY <1>4, <1>5, <1>9, <2>1 DEF Changes
<1>15. PICK c : LastIn(c, gr, gm.last)
    BY DEF LastIn
<1>16. NewGroup(r, cmd) = c
  <2>1. cmd.id # Top
      BY <1>6, <1>9, Numbers
  <2> QED
      BY <1>4, <1>9, <1>15, <2>1 DEF NewGroup, LastIn
<1>17. Regrouped(z.st, r, g, c)
    BY <1>9, <1>11, <1>13, <1>14, <1>16 DEF GroupIs
<1>18. GroupFollows(c, gm)
  <2>1. PICK last \in 0 .. MaxId : last = gm.last
      BY <1>6
  <2>2. LastIn(c, gr, last)
      BY <1>15, <2>1
  <2>3. /\ c.on = gr.on /\ c.last = last /\ c.known = gr.known
        /\ c.cpel = gr.cpel /\ c.pel = gr.pel
      BY <2>2, MovedOK
  <2> QED
      BY <1>5, <2>1, <2>3 DEF GroupFollows, PendingFollow
<1>19. Follows(z.st, m)
  <2>1. Regrouped(m, m, g, gm)
      BY <1>1, <1>3, <1>4, RegroupedSelf
  <2> QED
      BY <1>5, <1>17, <1>18, <2>1, RegroupFollows
<1>20. Apply1(r, cmd) = z.st
    BY <1>9, <1>10, <1>12 DEF Apply1, xcall
<1>21. XApplied(st, v.out) = z.st
  <2>1. XApplied(st, Append(u.out, cmd)) = Apply1(XApplied(st, u.out), cmd)
      BY <1>1, <1>8, AppliedNext
  <2> QED
      BY <1>2, <1>8, <1>20, <2>1
<1> QED
    BY <1>b, <1>8, <1>19, <1>21 DEF Followed

LEMMA ClaimAllOne ==
    ASSUME NEW s, NEW cmd, NEW id
    PROVE  ClaimAll(s, cmd, <<id>>) = Claim(s, cmd, id)
<1> DEFINE one == <<id>>
           Equation(h) == h = [D \in SUBSET DOMAIN one |->
                IF D = {} THEN s ELSE Claim(h[D \ {Max(D)}], cmd, one[Max(D)])]
           h == CHOOSE g : Equation(g)
<1>1. DOMAIN one = {1} /\ SUBSET DOMAIN one = {{}, {1}} /\ one[1] = id
    OBVIOUS
<1>2. Max({1}) = 1
    BY DEF Max
<1>3. {1} \ {1} = {} /\ {1} # {}
    OBVIOUS
<1> HIDE DEF one
<1>4. PICK f : f = [D \in {{}, {1}} |-> IF D = {} THEN s ELSE Claim(s, cmd, id)]
    OBVIOUS
<1>5. f[{}] = s /\ f[{1}] = Claim(s, cmd, id)
    BY <1>3, <1>4
<1>6. Equation(f)
  <2>1. ASSUME NEW D \in {{}, {1}}
        PROVE  (IF D = {} THEN s ELSE Claim(s, cmd, id))
                 = (IF D = {} THEN s ELSE Claim(f[D \ {Max(D)}], cmd, one[Max(D)]))
    <3>1. CASE D = {}
        BY <3>1
    <3>2. CASE D = {1}
        BY <1>1, <1>2, <1>3, <1>5, <3>2
    <3> QED
        BY <3>1, <3>2
  <2>2. f = [D \in {{}, {1}} |->
                IF D = {} THEN s ELSE Claim(f[D \ {Max(D)}], cmd, one[Max(D)])]
      BY <1>4, <2>1
  <2> QED
      BY <1>1, <2>2
<1>7. Equation(h)
    BY <1>6
<1>8. ClaimAll(s, cmd, one) = h[{1}]
    BY <1>1 DEF ClaimAll, FoldLeft, MapThenFoldSet
<1> HIDE DEF h
<1>9. h[{}] = s
    BY <1>1, <1>7
<1>10. h[{1}] = Claim(h[{1} \ {Max({1})}], cmd, one[Max({1})])
    BY <1>1, <1>3, <1>7
<1> QED
    BY <1>1, <1>2, <1>3, <1>8, <1>9, <1>10 DEF one

\* A pending entry passes to a consumer, which is known from then on.
Claimed(u, gr, id, c, count, idle) ==
    /\ u.on = gr.on /\ u.last = gr.last /\ u.known = gr.known \cup {c}
    /\ AssignedTo(u, gr, id, c, count, idle)

LEMMA ClaimedIs ==
    ASSUME NEW gr \in GroupOK, NEW id \in Id, NEW c \in Consumer,
           NEW count \in Nat, count > 0, NEW idle \in BOOLEAN,
           NEW u, u = Assign(streamLookupConsumer(gr, c), id, c, count, idle)
    PROVE  u \in GroupOK /\ Claimed(u, gr, id, c, count, idle)
<1>1. PICK k : k = streamLookupConsumer(gr, c)
    OBVIOUS
<1>2. /\ k \in GroupOK /\ c \in k.known /\ k.known = gr.known \cup {c}
      /\ k["on"] = gr["on"] /\ k["last"] = gr["last"]
      /\ k["cpel"] = gr["cpel"] /\ k["pel"] = gr["pel"]
    BY <1>1, LookupOK
<1>3. k.on = gr.on /\ k.last = gr.last /\ k.cpel = gr.cpel /\ k.pel = gr.pel
    BY <1>2
<1>4. /\ u \in GroupOK /\ u.on = k.on /\ u.last = k.last /\ u.known = k.known
      /\ AssignedTo(u, k, id, c, count, idle)
    BY <1>1, <1>2, AssignOK
<1> QED
    BY <1>2, <1>3, <1>4 DEF Claimed, AssignedTo

LEMMA ClaimedFollows ==
    ASSUME NEW m \in GroupOK, NEW r \in GroupOK, PendingFollow(r, m),
           NEW id \in Id, NEW c \in Consumer, NEW count \in Nat, NEW idle \in BOOLEAN,
           NEW a, Claimed(a, m, id, c, count, idle),
           NEW x, Claimed(x, r, id, c, count, idle)
    PROVE  PendingFollow(x, a)
<1>1. ASSUME NEW i \in Id
      PROVE  /\ x.pel[i].owner = a.pel[i].owner
             /\ x.pel[i].count <= a.pel[i].count
             /\ a.pel[i].idle => x.pel[i].idle
  <2>1. CASE i = id
    <3>1. PICK nack : nack = [owner |-> c, count |-> count, idle |-> idle]
        OBVIOUS
    <3>2. x.pel[i] = nack /\ a.pel[i] = nack /\ nack.count = count
        BY <2>1, <3>1 DEF Claimed, AssignedTo
    <3> QED
        BY <3>2
  <2>2. CASE i # id
    <3>1. x.pel[i] = r.pel[i] /\ a.pel[i] = m.pel[i]
        BY <2>2 DEF Claimed, AssignedTo
    <3> QED
        BY <3>1 DEF PendingFollow
  <2> QED
      BY <2>1, <2>2
<1>2. ASSUME NEW e \in Consumer PROVE x.cpel[e] = a.cpel[e]
  <2>1. r.cpel[e] = m.cpel[e]
      BY DEF PendingFollow
  <2>2. CASE e = c
    <3>1. x.cpel[e] = r.cpel[e] \cup {id} /\ a.cpel[e] = m.cpel[e] \cup {id}
        BY <2>2 DEF Claimed, AssignedTo
    <3> QED
        BY <2>1, <3>1
  <2>3. CASE e # c
    <3>1. x.cpel[e] = r.cpel[e] \ {id} /\ a.cpel[e] = m.cpel[e] \ {id}
        BY <2>3 DEF Claimed, AssignedTo
    <3> QED
        BY <2>1, <3>1
  <2> QED
      BY <2>2, <2>3
<1>3. x.on = a.on /\ x.known \subseteq a.known
    BY DEF Claimed, PendingFollow
<1> QED
    BY <1>1, <1>2, <1>3 DEF PendingFollow

\* The XCLAIM that is propagated makes the same entry pending there, and
\* brings the last ID of the group with it.
LEMMA ClaimCatchesUp ==
    ASSUME NEW m \in StreamOK, NEW r \in StreamOK, NEW g \in Group, m.grp[g].on,
           Behind(r, m, g), NEW id \in Id, NEW c \in Consumer,
           NEW count \in Nat, count > 0, NEW idle \in BOOLEAN,
           m.grp[g].pel[id] # NoNack \/ id \in m.items,
           NEW gm \in GroupOK, Claimed(gm, m.grp[g], id, c, count, idle),
           NEW a, Regrouped(a, m, g, gm), NEW cmd, cmd = ClaimOf(gm, g, id)
    PROVE  Follows(Apply1(r, cmd), a)
<1>d. PICK d \in BOOLEAN : d = TRUE /\ Server(d) = Server(TRUE)
    OBVIOUS
<1>1. PICK old \in GroupOK, gr \in GroupOK : old = m.grp[g] /\ gr = r.grp[g]
    BY StreamParts
<1>2. FollowsBut(r, m, g) /\ PendingFollow(gr, old) /\ gr.on /\ gr.last <= old.last
    BY <1>1 DEF Behind, PendingFollow
<1>3. gm.last = old.last /\ gm.last \in 0 .. MaxId
    BY <1>1 DEF Claimed, GroupOK, GroupType
<1>4. gm.pel[id] = [owner |-> c, count |-> count, idle |-> idle]
    BY DEF Claimed, AssignedTo
<1>5. /\ cmd.op = "xclaim" /\ cmd.g = g /\ cmd.c = c /\ cmd.ids = <<id>>
      /\ cmd.minidle = FALSE /\ cmd.force = TRUE /\ cmd.justid = TRUE
      /\ cmd.lastid = gm.last /\ cmd.retry = count /\ cmd.idle = idle
    BY <1>4 DEF ClaimOf
<1>6. ClaimArgs(cmd)
    BY <1>5 DEF ClaimArgs
<1>7. PICK y : y = Host(r, TRUE)
    OBVIOUS
<1>8. y \in Server(d) /\ y.st = r
    BY <1>d, <1>7, HostOK
<1>9. PICK last \in 0 .. MaxId : last = gm.last
    BY <1>3
<1>10. PICK t : LastUpTo(t, y, g, last)
    BY DEF LastUpTo
<1>11. /\ t \in Server(d) /\ t.st \in StreamOK /\ t.st.on
       /\ t.st.items = y.st.items /\ t.st.last = y.st.last
       /\ t.st.grp[g] \in GroupOK
       /\ t.st.grp[g].on /\ t.st.grp[g].known = y.st.grp[g].known
       /\ t.st.grp[g].cpel = y.st.grp[g].cpel /\ t.st.grp[g].pel = y.st.grp[g].pel
       /\ t.st.grp[g].last = Later(y.st.grp[g].last, last)
       /\ \A h \in Group : h # g => t.st.grp[h] = y.st.grp[h]
  <2>1. y.st.grp[g].on
      BY <1>1, <1>2, <1>8
  <2> QED
      BY <1>8, <1>10, <2>1, LastIdOK
<1>12. PICK gt \in GroupOK : gt = t.st.grp[g]
    BY <1>11
<1>13. PendingFollow(gt, old) /\ gt.last = gm.last
  <2>1. PendingFollow(gt, old)
      BY <1>1, <1>2, <1>8, <1>11, <1>12 DEF PendingFollow
  <2>2. gr.last \in Nat /\ last \in Nat /\ gr.last <= last
      BY <1>2, <1>3, <1>9, Numbers DEF GroupOK, GroupType
  <2>3. Later(gr.last, last) = last
    <3>1. PICK from \in Nat, upto \in Nat : from = gr.last /\ upto = last /\ from <= upto
        BY <2>2
    <3>2. PICK k : k = Later(from, upto)
        OBVIOUS
    <3>3. (k = from \/ k = upto) /\ upto <= k /\ k \in Nat
        BY <3>2, LaterIs
    <3> QED
        BY <3>1, <3>2, <3>3
  <2> QED
      BY <1>1, <1>8, <1>9, <1>11, <1>12, <2>1, <2>3
<1>14. ~ClaimSkips(t, cmd, id)
  <2>1. gt.pel[id] = NoNack => id \in t.st.items
    <3>1. gt.pel[id].owner = old.pel[id].owner
        BY <1>13 DEF PendingFollow
    <3>2. gt.pel[id] = NoNack => old.pel[id] = NoNack
        BY <3>1, OwnedIs
    <3> QED
        BY <1>1, <1>2, <1>8, <1>11, <3>2 DEF FollowsBut, ItemsFollow
  <2> QED
      BY <1>5, <1>12, <2>1 DEF ClaimSkips
<1>15. PICK u : u = Claim(t, cmd, id)
    OBVIOUS
<1>16. PICK n \in Nat \ {0}, t2 \in Server(d), x \in GroupOK :
            ClaimTaken(t, cmd, id, u, n, t2, x)
  <2>1. t.st.grp[cmd.g].on
      BY <1>5, <1>11
  <2> QED
      BY <1>6, <1>11, <1>14, <1>15, <2>1, ClaimTakes
<1>17. /\ x = Assign(streamLookupConsumer(gt, c), id, c, count, idle)
       /\ GroupPut(t2, t, g, x) /\ t2.st.grp[g] = x
       /\ u = streamPropagateXCLAIM(t2, g, id) /\ x.pel[id].owner = c
    BY <1>5, <1>12, <1>16 DEF ClaimTaken
<1>18. Claimed(x, gt, id, c, count, idle)
    BY <1>17, ClaimedIs
<1>19. GroupFollows(x, gm)
  <2>1. Claimed(gm, old, id, c, count, idle)
      BY <1>1
  <2>2. PendingFollow(x, gm)
      BY <1>13, <1>18, <2>1, ClaimedFollows
  <2> QED
      BY <1>13, <1>18, <2>2 DEF GroupFollows, Claimed
<1>20. /\ t2.st \in StreamOK /\ t2.st.on
       /\ t2.st.items = t.st.items /\ t2.st.last = t.st.last
       /\ \A h \in Group : h # g => t2.st.grp[h] = t.st.grp[h]
    BY <1>11, <1>17, PutInServer
<1>21. u \in Server(d) /\ u.st = t2.st
  <2>1. t2.st.grp[g].pel[id].owner \in Consumer
      BY <1>17
  <2> QED
      BY <1>17, <2>1, PropagateClaim
<1>22. PICK z : z = xclaimCommand(y, cmd)
    OBVIOUS
<1>23. z.st = t2.st
  <2>1. ClaimAll(t, cmd, cmd.ids) = u
      BY <1>5, <1>15, ClaimAllOne
  <2>2. PICK w : w = streamPropagateGroupID(u, g)
      OBVIOUS
  <2>3. w.st = u.st
      BY <1>21, <2>2, PropagateGroup
  <2>4. y.st.grp[cmd.g].on
      BY <1>1, <1>2, <1>5, <1>8
  <2>5. t = [y EXCEPT !.st.grp[cmd.g].last = Max({@, cmd.lastid})]
      BY <1>5, <1>9, <1>10 DEF LastUpTo
  <2>6. z \in {u, w}
      BY <1>5, <1>22, <2>1, <2>2, <2>4, <2>5 DEF xclaimCommand
  <2> QED
      BY <1>21, <2>3, <2>6
<1>24. Regrouped(z.st, r, g, x)
  <2>1. z.st.on = TRUE
      BY <1>20, <1>23 DEF StreamOK, StreamType
  <2> QED
      BY <1>8, <1>11, <1>17, <1>20, <1>23, <2>1 DEF Regrouped
<1>25. Follows(z.st, a)
    BY <1>2, <1>19, <1>24, RegroupFollows
<1>26. Apply1(r, cmd) = z.st
    BY <1>5, <1>7, <1>22 DEF Apply1, xcall
<1> QED
    BY <1>25, <1>26

\* An entry passed to a consumer and propagated is the consumer's there too.
LEMMA PutClaimFollows ==
    ASSUME NEW st \in StreamOK, NEW w \in Here1, NEW g \in Group, w.st.grp[g].on,
           Behind(XApplied(st, w.out), w.st, g), NEW id \in Id, NEW c \in Consumer,
           NEW count \in Nat, count > 0, NEW idle \in BOOLEAN,
           w.st.grp[g].pel[id] # NoNack \/ id \in w.st.items,
           NEW gr \in GroupOK, Claimed(gr, w.st.grp[g], id, c, count, idle),
           NEW t, GroupPut(t, w, g, gr), NEW v, v = streamPropagateXCLAIM(t, g, id)
    PROVE  /\ v \in Followed(st) /\ v.st.grp[g].on /\ v.st.items = w.st.items
           /\ v.st.grp[g].known = w.st.grp[g].known \cup {c}
<1>b. PICK b \in BOOLEAN : b = FALSE /\ Server(b) = Here1
    BY DEF Here1
<1>1. w \in Server(b) /\ w.st \in StreamOK /\ w.out \in Seq(Command)
    BY <1>b DEF Here1, Server
<1>2. gr.on = w.st.grp[g].on /\ gr.known = w.st.grp[g].known \cup {c}
    BY DEF Claimed
<1>3. gr.pel[id].owner = c
    BY DEF Claimed, AssignedTo
<1>4. /\ t \in Server(b) /\ t.st \in StreamOK /\ t.st.on
      /\ t.st.items = w.st.items /\ t.st.last = w.st.last /\ t.out = w.out
      /\ t.st.grp[g] = gr /\ \A h \in Group : h # g => t.st.grp[h] = w.st.grp[h]
  <2>1. w.st.on
      BY <1>1, StreamParts
  <2> QED
      BY <1>1, <2>1, PutInServer
<1>5. Regrouped(t.st, w.st, g, gr)
  <2>1. t.st.on = TRUE
      BY <1>4 DEF StreamOK, StreamType
  <2> QED
      BY <1>4, <2>1 DEF Regrouped
<1>6. PICK cl : cl = ClaimOf(gr, g, id)
    OBVIOUS
<1>7. cl \in Command /\ v \in Server(b) /\ v.st = t.st /\ v.out = Append(w.out, cl)
  <2>1. t.st.grp[g].pel[id].owner \in Consumer
      BY <1>3, <1>4
  <2>2. cl = ClaimOf(t.st.grp[g], g, id)
      BY <1>4, <1>6
  <2>3. /\ ClaimOf(t.st.grp[g], g, id) \in Command
        /\ v \in Server(b) /\ v.st = t.st
        /\ v.out = (IF b THEN t.out ELSE Append(t.out, ClaimOf(t.st.grp[g], g, id)))
      BY <1>4, <2>1, PropagateClaim
  <2> QED
      BY <1>b, <1>4, <2>2, <2>3
<1>8. PICK r \in StreamOK, m \in StreamOK : r = XApplied(st, w.out) /\ m = w.st
    BY <1>1, XAppliedOK
<1>9. Follows(Apply1(r, cl), t.st)
  <2>1. Behind(r, m, g) /\ Regrouped(t.st, m, g, gr) /\ m.grp[g].on
      BY <1>5, <1>8
  <2>2. m.grp[g].pel[id] # NoNack \/ id \in m.items
      BY <1>8
  <2>3. Claimed(gr, m.grp[g], id, c, count, idle)
      BY <1>8
  <2> QED
      BY <1>6, <2>1, <2>2, <2>3, ClaimCatchesUp
<1>10. XApplied(st, v.out) = Apply1(r, cl)
  <2>1. XApplied(st, Append(w.out, cl)) = Apply1(XApplied(st, w.out), cl)
      BY <1>1, <1>7, AppliedNext
  <2> QED
      BY <1>7, <1>8, <2>1
<1> QED
    BY <1>b, <1>2, <1>4, <1>7, <1>9, <1>10 DEF Followed

\* A claim here is one there.
LEMMA ClaimFollows ==
    ASSUME NEW st \in StreamOK, NEW w \in Here1, NEW cmd, ClaimArgs(cmd),
           w.st.grp[cmd.g].on, Behind(XApplied(st, w.out), w.st, cmd.g),
           NEW id \in Id, NEW v, v = Claim(w, cmd, id), v # w
    PROVE  v \in Followed(st) /\ v.st.grp[cmd.g].on
<1>b. PICK b \in BOOLEAN : b = FALSE /\ Server(b) = Here1
    BY DEF Here1
<1>1. PICK g \in Group, c \in Consumer, idle \in BOOLEAN :
            g = cmd.g /\ c = cmd.c /\ idle = cmd.idle
    BY DEF ClaimArgs
<1>2. w \in Server(b) /\ w.st \in StreamOK
    BY <1>b DEF Here1, Server
<1>3. PICK count \in Nat \ {0}, t \in Server(b), gr \in GroupOK :
            ClaimTaken(w, cmd, id, v, count, t, gr)
    BY <1>2, ClaimTakes
<1>4. PICK old \in GroupOK : old = w.st.grp[g]
    BY <1>2, StreamParts
<1>5. /\ gr = Assign(streamLookupConsumer(old, c), id, c, count, idle)
      /\ GroupPut(t, w, g, gr)
      /\ old.pel[id] # NoNack \/ id \in w.st.items
      /\ v = streamPropagateXCLAIM(t, g, id)
    BY <1>1, <1>3, <1>4 DEF ClaimTaken
<1>6. Claimed(gr, old, id, c, count, idle)
    BY <1>5, ClaimedIs
<1>7. /\ w.st.grp[g].on /\ Behind(XApplied(st, w.out), w.st, g)
      /\ w.st.grp[g].pel[id] # NoNack \/ id \in w.st.items
      /\ Claimed(gr, w.st.grp[g], id, c, count, idle)
    BY <1>1, <1>4, <1>5, <1>6
<1>8. v \in Followed(st) /\ v.st.grp[g].on
    BY <1>5, <1>7, PutClaimFollows
<1> QED
    BY <1>1, <1>8

LEMMA FollowedBehind ==
    ASSUME NEW st \in StreamOK, NEW h \in Followed(st), NEW g \in Group
    PROVE  Behind(XApplied(st, h.out), h.st, g)
<1>1. h.st \in StreamOK /\ Follows(XApplied(st, h.out), h.st)
    BY AppliedParts
<1> QED
    BY <1>1, FollowsBehind

\* Claims on a stream the replica is behind with: none, or it follows.
LEMMA ClaimsFollow ==
    ASSUME NEW st \in StreamOK, NEW t \in Here1, NEW cmd, ClaimArgs(cmd),
           t.st.grp[cmd.g].on, Behind(XApplied(st, t.out), t.st, cmd.g),
           NEW ids \in Seq(Id), NEW u, u = ClaimAll(t, cmd, ids)
    PROVE  u.st.grp[cmd.g].on /\ (u = t \/ u \in Followed(st))
<1> DEFINE X == {w \in Here1 : w.st.grp[cmd.g].on /\ (w = t \/ w \in Followed(st))}
<1>0. cmd.g \in Group
    BY DEF ClaimArgs
<1>1. ASSUME NEW w \in X, NEW id \in Id PROVE Claim(w, cmd, id) \in X
  <2>1. w \in Here1 /\ w.st.grp[cmd.g].on /\ (w = t \/ w \in Followed(st))
      OBVIOUS
  <2>2. Behind(XApplied(st, w.out), w.st, cmd.g)
      BY <1>0, <2>1, FollowedBehind
  <2>3. PICK v : v = Claim(w, cmd, id)
      OBVIOUS
  <2>4. CASE v = w
      BY <2>3, <2>4
  <2>5. CASE v # w
    <3>1. v \in Followed(st) /\ v.st.grp[cmd.g].on
        BY <2>1, <2>2, <2>3, <2>5, ClaimFollows
    <3>2. v \in Here1
        BY <3>1 DEF Followed
    <3> QED
        BY <2>3, <3>1, <3>2
  <2> QED
      BY <2>4, <2>5
<1>2. t \in X
    OBVIOUS
<1>3. \A w \in X : w.st.grp[cmd.g].on /\ (w = t \/ w \in Followed(st))
    OBVIOUS
<1> HIDE DEF X
<1>4. ClaimAll(t, cmd, ids) \in X
    BY <1>1, <1>2, ClaimAllKeeps
<1> QED
    BY <1>3, <1>4

\* The last ID of a group that moves on leaves the replica behind.
Advanced(t, m, g) ==
    /\ t \in StreamOK /\ t.on /\ t.items = m.items /\ t.last = m.last
    /\ t.grp[g].on /\ t.grp[g].known = m.grp[g].known
    /\ t.grp[g].cpel = m.grp[g].cpel /\ t.grp[g].pel = m.grp[g].pel
    /\ m.grp[g].last <= t.grp[g].last
    /\ \A h \in Group : h # g => t.grp[h] = m.grp[h]

LEMMA AdvancedBehind ==
    ASSUME NEW m \in StreamOK, NEW r \in StreamOK, NEW g \in Group, m.grp[g].on,
           Behind(r, m, g), NEW t, Advanced(t, m, g)
    PROVE  Behind(r, t, g)
<1>1. PICK old \in GroupOK, new \in GroupOK, gr \in GroupOK :
            old = m.grp[g] /\ new = t.grp[g] /\ gr = r.grp[g]
    BY StreamParts DEF Advanced
<1>2. /\ m.on = TRUE /\ t.on = TRUE /\ old.on = TRUE /\ new.on = TRUE
      /\ old.last \in Nat /\ new.last \in Nat /\ gr.last \in Nat
  <2>1. m.on
      BY StreamParts
  <2>2. t.on /\ t \in StreamOK /\ new.on /\ old.on
      BY <1>1 DEF Advanced
  <2> QED
      BY <2>1, <2>2, Numbers DEF GroupOK, GroupType, StreamOK, StreamType
<1>3. FollowsBut(r, t, g)
    BY <1>2 DEF Behind, FollowsBut, ItemsFollow, Advanced
<1>4. PendingFollow(gr, new)
  <2>1. new.known = old.known /\ new.cpel = old.cpel /\ new.pel = old.pel
      BY <1>1 DEF Advanced
  <2>2. PendingFollow(gr, old)
      BY <1>1 DEF Behind
  <2> QED
      BY <1>2, <2>1, <2>2 DEF PendingFollow
<1>5. gr.last <= new.last
  <2>1. gr.last <= old.last /\ old.last <= new.last
      BY <1>1 DEF Behind, Advanced
  <2> QED
      BY <1>2, <2>1
<1> QED
    BY <1>1, <1>3, <1>4, <1>5 DEF Behind

LEMMA XclaimFollows ==
    ASSUME NEW st \in StreamOK, NEW h \in Followed(st), NEW cmd, ClaimArgs(cmd),
           cmd.ids \in Seq(Id), cmd.lastid \in 0 .. MaxId,
           NEW v, v = xclaimCommand(h, cmd)
    PROVE  v \in Followed(st)
<1>b. PICK b \in BOOLEAN : b = FALSE /\ Server(b) = Here1
    BY DEF Here1
<1>0. cmd.g \in Group
    BY DEF ClaimArgs
<1>1. h \in Server(b) /\ h.st \in StreamOK /\ Follows(XApplied(st, h.out), h.st)
    BY <1>b, AppliedParts
<1>2. CASE ~h.st.grp[cmd.g].on
    BY <1>2 DEF xclaimCommand
<1>3. CASE h.st.grp[cmd.g].on
  <2>1. PICK t : LastUpTo(t, h, cmd.g, cmd.lastid)
      BY DEF LastUpTo
  <2>2. /\ t \in Server(b) /\ t.st \in StreamOK /\ t.st.on
        /\ t.st.items = h.st.items /\ t.st.last = h.st.last /\ t.out = h.out
        /\ t.st.grp[cmd.g].on /\ t.st.grp[cmd.g].known = h.st.grp[cmd.g].known
        /\ t.st.grp[cmd.g].cpel = h.st.grp[cmd.g].cpel
        /\ t.st.grp[cmd.g].pel = h.st.grp[cmd.g].pel
        /\ t.st.grp[cmd.g].last = Later(h.st.grp[cmd.g].last, cmd.lastid)
        /\ \A x \in Group : x # cmd.g => t.st.grp[x] = h.st.grp[x]
      BY <1>0, <1>1, <1>3, <2>1, LastIdOK
  <2>3. Behind(XApplied(st, t.out), t.st, cmd.g)
    <3>1. PICK r \in StreamOK, m \in StreamOK : r = XApplied(st, h.out) /\ m = h.st
        BY AppliedParts
    <3>2. Behind(r, m, cmd.g)
        BY <1>0, <1>1, <3>1, FollowsBehind
    <3>3. PICK from \in Nat, upto \in Nat : from = m.grp[cmd.g].last /\ upto = cmd.lastid
      <4>1. m.grp[cmd.g] \in GroupOK
          BY <1>0, StreamParts
      <4> QED
          BY <4>1, Numbers DEF GroupOK, GroupType
    <3>4. from <= Later(from, upto)
        BY LaterIs
    <3>5. Advanced(t.st, m, cmd.g)
        BY <2>2, <3>1, <3>3, <3>4 DEF Advanced
    <3> QED
        BY <1>0, <1>3, <2>2, <3>1, <3>2, <3>5, AdvancedBehind
  <2>4. PICK u : u = ClaimAll(t, cmd, cmd.ids)
      OBVIOUS
  <2>5. u.st.grp[cmd.g].on /\ (u = t \/ u \in Followed(st))
      BY <1>b, <2>2, <2>3, <2>4, ClaimsFollow
  <2>6. u \in Here1 /\ Behind(XApplied(st, u.out), u.st, cmd.g)
    <3>1. CASE u = t
        BY <1>b, <2>2, <2>3, <3>1
    <3>2. CASE u \in Followed(st)
        BY <1>0, <3>2, FollowedBehind DEF Followed
    <3> QED
        BY <2>5, <3>1, <3>2
  <2>7. PICK w : w = streamPropagateGroupID(u, cmd.g)
      OBVIOUS
  <2>8. w \in Followed(st)
      BY <1>0, <2>5, <2>6, <2>7, SetidCatchesUp
  <2>9. v = IF u.out = h.out /\ t # h THEN w ELSE u
      BY <1>3, <2>1, <2>4, <2>7 DEF xclaimCommand, LastUpTo
  <2>10. CASE u = t
      BY <2>2, <2>8, <2>9, <2>10
  <2>11. CASE u \in Followed(st)
      BY <2>8, <2>9, <2>11
  <2> QED
      BY <2>5, <2>10, <2>11
<1> QED
    BY <1>2, <1>3

LEMMA XautoclaimFollows ==
    ASSUME NEW st \in StreamOK, NEW h \in Followed(st), NEW cmd,
           ClaimArgs(AutoClaim(cmd)), cmd.count \in Nat,
           NEW v, v = xautoclaimCommand(h, cmd)
    PROVE  v \in Followed(st)
<1>1. CASE ~h.st.grp[cmd.g].on
    BY <1>1 DEF xautoclaimCommand
<1>2. CASE h.st.grp[cmd.g].on
  <2>1. PICK ids \in Seq(Id) : v = ClaimAll(h, AutoClaim(cmd), ids)
      BY <1>2, XautoclaimIs
  <2>2. PICK cl : cl = AutoClaim(cmd)
      OBVIOUS
  <2>3. cl.g = cmd.g /\ ClaimArgs(cl) /\ cl.g \in Group
      BY <2>2 DEF AutoClaim, ClaimArgs
  <2>4. Behind(XApplied(st, h.out), h.st, cl.g) /\ h \in Here1
      BY <2>3, FollowedBehind, AppliedParts
  <2> QED
      BY <1>2, <2>1, <2>2, <2>3, <2>4, ClaimsFollow
<1> QED
    BY <1>1, <1>2

LEMMA XcallFollows ==
    ASSUME NEW st \in StreamOK, NEW h \in Followed(st), NEW cmd \in Command
    PROVE  xcall(h, cmd) \in Followed(st)
<1>0. XCommandOK(cmd)
    BY CommandsOK
<1>v. PICK v : v = xcall(h, cmd)
    OBVIOUS
<1>1. CASE cmd.op = "xadd"
    BY <1>0, <1>1, XaddFollows DEF xcall, XCommandOK
<1>2. CASE cmd.op = "xtrim"
    BY <1>0, <1>2, XtrimFollows DEF xcall, XCommandOK
<1>3. CASE cmd.op = "xdel"
    BY <1>3, XdelFollows DEF xcall
<1>4. CASE cmd.op = "xsetid"
    BY <1>0, <1>4, XsetidFollows DEF xcall, XCommandOK
<1>5. CASE cmd.op = "del"
    BY <1>5, DelFollows DEF xcall
<1>6. CASE cmd.op = "xack"
    BY <1>0, <1>6, XackFollows DEF xcall, XCommandOK
<1>7. CASE cmd.op = "xclaim"
  <2>1. ClaimArgs(cmd) /\ cmd.ids \in Seq(Id) /\ cmd.lastid \in 0 .. MaxId
      BY <1>0, <1>7 DEF XCommandOK, ClaimArgs
  <2> QED
      BY <1>7, <2>1, XclaimFollows DEF xcall
<1>8. CASE cmd.op = "xautoclaim"
  <2>1. ClaimArgs(AutoClaim(cmd)) /\ cmd.count \in Nat
      BY <1>0, <1>8 DEF XCommandOK, ClaimArgs, AutoClaim
  <2> QED
      BY <1>8, <2>1, XautoclaimFollows DEF xcall
<1>9. CASE cmd.op \in {"create", "setid", "destroy", "createconsumer", "delconsumer"}
    BY <1>9, XgroupFollows DEF xcall
<1> QED
    BY <1>0, <1>1, <1>2, <1>3, <1>4, <1>5, <1>6, <1>7, <1>8, <1>9 DEF XCommandOK

LEMMA CallAllFollows ==
    ASSUME NEW st \in StreamOK, NEW h \in Followed(st), NEW cmds \in Seq(Command)
    PROVE  CallAll(h, cmds) \in Followed(st)
BY XcallFollows, CallAllKeeps

\* News delivered here is pending there, unless it was read with NOACK.
LEMMA HandedBehind ==
    ASSUME NEW st \in StreamOK, NEW s \in Here1, NEW g \in Group, s.st.grp[g].on,
           Behind(XApplied(st, s.out), s.st, g), NEW c \in Consumer, NEW id \in Id,
           NEW u, HandedTo(u, s, g, c, id)
    PROVE  /\ u \in Here1 /\ u.st.grp[g].on /\ u.out = s.out
           /\ u.st.items = s.st.items /\ u.st.grp[g].known = s.st.grp[g].known
           /\ Behind(XApplied(st, u.out), u.st, g)
<1>1. /\ u \in Here1 /\ u.st \in StreamOK /\ u.st.on
      /\ u.st.items = s.st.items /\ u.st.last = s.st.last /\ u.out = s.out
      /\ u.st.grp[g].on /\ u.st.grp[g].known = s.st.grp[g].known
      /\ u.st.grp[g].cpel = s.st.grp[g].cpel /\ u.st.grp[g].pel = s.st.grp[g].pel
      /\ u.st.grp[g].last = Later(s.st.grp[g].last, id)
      /\ \A h \in Group : h # g => u.st.grp[h] = s.st.grp[h]
    BY HandOutOK
<1>2. s.st \in StreamOK /\ s.out \in Seq(Command)
    BY DEF Here1, Server
<1>3. PICK r \in StreamOK, m \in StreamOK : r = XApplied(st, s.out) /\ m = s.st
    BY <1>2, XAppliedOK
<1>4. PICK from \in Nat, upto \in Nat : from = m.grp[g].last /\ upto = id
  <2>1. m.grp[g] \in GroupOK
      BY StreamParts
  <2> QED
      BY <2>1, Numbers DEF GroupOK, GroupType
<1>5. from <= Later(from, upto)
    BY LaterIs
<1>6. Advanced(u.st, m, g)
    BY <1>1, <1>3, <1>4, <1>5 DEF Advanced
<1>7. Behind(r, u.st, g)
    BY <1>3, <1>6, AdvancedBehind
<1> QED
    BY <1>1, <1>3, <1>7

LEMMA DeliverFollows ==
    ASSUME NEW st \in StreamOK, NEW g \in Group, NEW c \in Consumer,
           NEW s \in CanDeliver(g, c), Behind(XApplied(st, s.out), s.st, g),
           NEW id \in Id, id \in s.st.items, NEW noack \in BOOLEAN, ~noack,
           NEW v, v = Deliver(s, g, c, noack, id)
    PROVE  v \in Followed(st) /\ v \in CanDeliver(g, c) /\ v.st.items = s.st.items
<1>1. s \in Here1 /\ s.st.grp[g].on /\ c \in s.st.grp[g].known
    BY DEF CanDeliver
<1>2. PICK u : HandedTo(u, s, g, c, id)
    BY DEF HandedTo
<1>3. /\ u \in Here1 /\ u.st.grp[g].on /\ u.out = s.out
      /\ u.st.items = s.st.items /\ u.st.grp[g].known = s.st.grp[g].known
      /\ Behind(XApplied(st, u.out), u.st, g)
    BY <1>1, <1>2, HandedBehind
<1>4. PICK one \in Nat, no \in BOOLEAN : one = 1 /\ one > 0 /\ no = FALSE
    OBVIOUS
<1>5. PICK old \in GroupOK : old = u.st.grp[g]
  <2>1. u.st \in StreamOK
      BY <1>3 DEF Here1, Server
  <2> QED
      BY <2>1, StreamParts
<1>6. PICK gr : gr = Assign(old, id, c, one, no)
    OBVIOUS
<1>7. /\ gr \in GroupOK /\ gr.on = old.on /\ gr.last = old.last /\ gr.known = old.known
      /\ AssignedTo(gr, old, id, c, one, no)
  <2>1. c \in old.known
      BY <1>1, <1>3, <1>5
  <2> QED
      BY <1>4, <1>6, <2>1, AssignOK
<1>8. Claimed(gr, u.st.grp[g], id, c, one, no)
  <2>1. old.known = old.known \cup {c}
      BY <1>1, <1>3, <1>5
  <2> QED
      BY <1>5, <1>7, <2>1 DEF Claimed
<1>9. PICK t : GroupPut(t, u, g, gr)
    BY DEF GroupPut
<1>10. v = streamPropagateXCLAIM(t, g, id)
    BY <1>2, <1>4, <1>5, <1>6, <1>9 DEF Deliver, HandedTo, GroupPut
<1>11. u.st.grp[g].pel[id] # NoNack \/ id \in u.st.items
    BY <1>3
<1>12. /\ v \in Followed(st) /\ v.st.grp[g].on /\ v.st.items = u.st.items
       /\ v.st.grp[g].known = u.st.grp[g].known \cup {c}
    BY <1>3, <1>4, <1>7, <1>8, <1>9, <1>10, <1>11, PutClaimFollows
<1>13. v \in Here1
    BY <1>12 DEF Followed
<1> QED
    BY <1>3, <1>12, <1>13 DEF CanDeliver

LEMMA DeliverAllFollows ==
    ASSUME NEW st \in StreamOK, NEW g \in Group, NEW c \in Consumer,
           NEW s \in CanDeliver(g, c), s \in Followed(st),
           NEW ids \in Seq(s.st.items), NEW noack \in BOOLEAN, ~noack,
           NEW v, v = DeliverAll(s, g, c, noack, ids)
    PROVE  v \in Followed(st) /\ v \in CanDeliver(g, c)
<1> DEFINE X == {w \in CanDeliver(g, c) : w \in Followed(st) /\ w.st.items = s.st.items}
           E == s.st.items
<1>0. E \in SUBSET Id
  <2>1. s.st \in StreamOK
      BY AppliedParts
  <2> QED
      BY <2>1, StreamParts
<1>1. ASSUME NEW w \in X, NEW id \in E PROVE Deliver(w, g, c, noack, id) \in X
  <2>1. w \in CanDeliver(g, c) /\ w \in Followed(st) /\ w.st.items = s.st.items
      OBVIOUS
  <2>2. Behind(XApplied(st, w.out), w.st, g)
      BY <2>1, FollowedBehind
  <2>3. PICK u : u = Deliver(w, g, c, noack, id)
      OBVIOUS
  <2>4. id \in Id /\ id \in w.st.items
      BY <1>0, <2>1
  <2>5. u \in Followed(st) /\ u \in CanDeliver(g, c) /\ u.st.items = w.st.items
      BY <2>1, <2>2, <2>3, <2>4, DeliverFollows
  <2> QED
      BY <2>1, <2>3, <2>5
<1>2. s \in X /\ ids \in Seq(E)
    OBVIOUS
<1>3. \A w \in X : w \in Followed(st) /\ w \in CanDeliver(g, c)
    OBVIOUS
<1> HIDE DEF X, E
<1>4. v \in X
    BY <1>1, <1>2, DeliverAllKeeps
<1> QED
    BY <1>3, <1>4

\* With NOACK only the last ID of the group moves here, and nothing there.
LEMMA DeliverAllBehind ==
    ASSUME NEW st \in StreamOK, NEW g \in Group, NEW c \in Consumer,
           NEW s \in CanDeliver(g, c), s \in Followed(st),
           NEW ids \in Seq(Id), NEW noack \in BOOLEAN, noack,
           NEW v, v = DeliverAll(s, g, c, noack, ids)
    PROVE  /\ v \in CanDeliver(g, c) /\ v.out = s.out
           /\ Behind(XApplied(st, v.out), v.st, g)
<1> DEFINE X == {w \in CanDeliver(g, c) :
                    w.out = s.out /\ Behind(XApplied(st, w.out), w.st, g)}
<1>1. ASSUME NEW w \in X, NEW id \in Id PROVE Deliver(w, g, c, noack, id) \in X
  <2>1. /\ w \in Here1 /\ w.st.grp[g].on /\ c \in w.st.grp[g].known
        /\ w.out = s.out /\ Behind(XApplied(st, w.out), w.st, g)
      BY DEF CanDeliver
  <2>2. PICK u : HandedTo(u, w, g, c, id)
      BY DEF HandedTo
  <2>3. /\ u \in Here1 /\ u.st.grp[g].on /\ u.out = w.out
        /\ u.st.items = w.st.items /\ u.st.grp[g].known = w.st.grp[g].known
        /\ Behind(XApplied(st, u.out), u.st, g)
      BY <2>1, <2>2, HandedBehind
  <2>4. Deliver(w, g, c, noack, id) = u
      BY <2>2 DEF Deliver, HandedTo
  <2> QED
      BY <2>1, <2>3, <2>4 DEF CanDeliver
<1>2. s \in X
    BY FollowedBehind
<1>3. \A w \in X : /\ w \in CanDeliver(g, c) /\ w.out = s.out
                   /\ Behind(XApplied(st, w.out), w.st, g)
    OBVIOUS
<1> HIDE DEF X
<1>4. v \in X
    BY <1>1, <1>2, DeliverAllKeeps
<1> QED
    BY <1>3, <1>4

LEMMA ReplyFollows ==
    ASSUME NEW st \in StreamOK, NEW g \in Group, NEW c \in Consumer,
           NEW s \in CanDeliver(g, c), s \in Followed(st),
           NEW from \in Nat, NEW count \in Nat, NEW noack \in BOOLEAN,
           NEW v, v = streamReplyWithRange(s, g, c, from, count, noack)
    PROVE  v \in Followed(st)
<1>1. s \in Here1 /\ s.st.grp[g].on /\ s.st \in StreamOK
    BY AppliedParts DEF CanDeliver
<1>2. PICK ids \in Seq(s.st.items) : ids \in Seq(Id) /\ RepliedWith(v, s, g, c, noack, ids)
    BY <1>1, ReplyIs
<1>3. PICK t : /\ t = DeliverAll(s, g, c, noack, ids)
               /\ v = IF noack /\ t.st.grp[g].last # s.st.grp[g].last
                      THEN streamPropagateGroupID(t, g) ELSE t
    BY <1>2 DEF RepliedWith
<1>4. CASE ~noack
    BY <1>3, <1>4, DeliverAllFollows
<1>5. CASE noack
  <2>1. /\ t \in CanDeliver(g, c) /\ t.out = s.out
        /\ Behind(XApplied(st, t.out), t.st, g)
    <3>1. PICK some \in Seq(Id) : some = ids
        BY <1>2
    <3>2. PICK yes \in BOOLEAN : yes = noack /\ yes
        BY <1>5
    <3>3. t = DeliverAll(s, g, c, yes, some)
        BY <1>3, <3>1, <3>2
    <3> QED
        BY <3>2, <3>3, DeliverAllBehind
  <2>2. t \in Here1 /\ t.st.grp[g].on
      BY <2>1 DEF CanDeliver
  <2>3. CASE t.st.grp[g].last # s.st.grp[g].last
    <3>1. v = streamPropagateGroupID(t, g)
        BY <1>3, <1>5, <2>3
    <3> QED
        BY <2>1, <2>2, <3>1, SetidCatchesUp
  <2>4. CASE t.st.grp[g].last = s.st.grp[g].last
    <3>1. v = t
        BY <1>3, <2>4
    <3>2. PICK r : r = XApplied(st, t.out)
        OBVIOUS
    <3>3. r.grp[g].last = t.st.grp[g].last
      <4>1. Follows(r, s.st)
          BY <2>1, <3>2, AppliedParts
      <4> QED
          BY <2>4, <4>1 DEF Follows, GroupFollows
    <3>4. Follows(r, t.st)
        BY <2>1, <3>2, <3>3 DEF Behind, FollowsBut, Follows, GroupFollows
    <3> QED
        BY <2>2, <3>1, <3>2, <3>4 DEF Followed
  <2> QED
      BY <2>3, <2>4
<1> QED
    BY <1>4, <1>5

\* A consumer that is new is known here, and there if it came with NOACK.
LEMMA WithConsumerFollows ==
    ASSUME NEW st \in StreamOK, NEW s \in Followed(st), NEW g \in Group,
           s.st.grp[g].on, NEW c \in Consumer, NEW noack \in BOOLEAN,
           NEW v, v = WithConsumer(s, g, c, noack)
    PROVE  v \in Followed(st)
<1>b. PICK b \in BOOLEAN : b = FALSE /\ Server(b) = Here1
    BY DEF Here1
<1>d. PICK d \in BOOLEAN : d = TRUE /\ Server(d) = Server(TRUE)
    OBVIOUS
<1>1. s \in Server(b) /\ s.st \in StreamOK /\ s.out \in Seq(Command)
    BY <1>b, AppliedParts
<1>2. PICK r \in StreamOK, m \in StreamOK :
            r = XApplied(st, s.out) /\ m = s.st /\ Follows(r, m)
    BY <1>1, AppliedParts
<1>3. PICK old \in GroupOK, gr \in GroupOK : old = m.grp[g] /\ gr = r.grp[g]
    BY StreamParts
<1>4. GroupFollows(gr, old) /\ FollowsBut(r, m, g)
    BY <1>2, <1>3 DEF Follows, FollowsBut
<1>5. PICK new, x : new = streamLookupConsumer(old, c) /\ x = streamLookupConsumer(gr, c)
    OBVIOUS
<1>6. new \in GroupOK /\ x \in GroupOK /\ GroupFollows(x, new)
    BY <1>4, <1>5, LookupOK, LookupFollows
<1>7. PICK t : GroupPut(t, s, g, new)
    BY DEF GroupPut
<1>8. /\ t \in Server(b) /\ t.st \in StreamOK /\ t.st.on
      /\ t.st.items = s.st.items /\ t.st.last = s.st.last
      /\ t.st.grp[g] = new /\ \A h \in Group : h # g => t.st.grp[h] = s.st.grp[h]
      /\ t.out = s.out
  <2>1. s.st.on
      BY <1>1, StreamParts
  <2> QED
      BY <1>1, <1>6, <1>7, <2>1, PutInServer
<1>9. Regrouped(t.st, m, g, new)
  <2>1. t.st.on = TRUE
      BY <1>8 DEF StreamOK, StreamType
  <2> QED
      BY <1>2, <1>8, <2>1 DEF Regrouped
<1>10. v = IF noack /\ c \notin old.known THEN streamPropagateConsumerCreation(t, g, c)
           ELSE t
    BY <1>2, <1>3, <1>5, <1>7 DEF WithConsumer, GroupPut
<1>11. CASE noack /\ c \notin old.known
  <2>1. PICK cmd : cmd = CreationOf(g, c)
      OBVIOUS
  <2>2. cmd \in Command /\ v \in Server(b) /\ v.st = t.st /\ v.out = Append(s.out, cmd)
    <3>1. v = streamPropagateConsumerCreation(t, g, c)
        BY <1>10, <1>11
    <3>2. /\ CreationOf(g, c) \in Command
          /\ v \in Server(b) /\ v.st = t.st
          /\ v.out = (IF b THEN t.out ELSE Append(t.out, CreationOf(g, c)))
        BY <1>8, <3>1, PropagateConsumer
    <3> QED
        BY <1>b, <1>8, <2>1, <3>2
  <2>3. cmd.op = "createconsumer" /\ cmd.g = g /\ cmd.c = c
      BY <2>1 DEF CreationOf
  <2>4. PICK y : y = Host(r, TRUE)
      OBVIOUS
  <2>5. y \in Server(d) /\ y.st = r
      BY <1>d, <2>4, HostOK
  <2>6. PICK z : z = xgroupCommand(y, cmd)
      OBVIOUS
  <2>7. GroupIs(z, y, d, cmd)
      BY <2>2, <2>3, <2>5, <2>6, XgroupIs
  <2>8. Changes(r, cmd)
    <3>1. gr.on /\ c \notin gr.known
      <4>1. gr.on = old.on /\ gr.known \subseteq old.known
          BY <1>4 DEF GroupFollows, PendingFollow
      <4> QED
          BY <1>2, <1>3, <1>11, <4>1
    <3>2. r.on
        BY <1>3, <3>1, StreamParts
    <3> QED
        BY <1>3, <2>3, <3>1, <3>2 DEF Changes
  <2>9. NewGroup(r, cmd) = x
      BY <1>3, <1>5, <2>3 DEF NewGroup
  <2>10. Regrouped(z.st, r, g, x)
      BY <2>3, <2>5, <2>7, <2>8, <2>9 DEF GroupIs
  <2>11. Follows(z.st, t.st)
      BY <1>4, <1>6, <1>9, <2>10, RegroupFollows
  <2>12. Apply1(r, cmd) = z.st
      BY <2>3, <2>4, <2>6 DEF Apply1, xcall
  <2>13. Follows(Apply1(XApplied(st, s.out), cmd), v.st) /\ v \in Here1
      BY <1>b, <1>2, <2>2, <2>11, <2>12
  <2> QED
      BY <2>2, <2>13, Replicated
<1>12. CASE ~(noack /\ c \notin old.known)
  <2>1. v = t
      BY <1>10, <1>12
  <2>2. GroupFollows(gr, new)
    <3>1. /\ new["on"] = old["on"] /\ new["last"] = old["last"]
          /\ new["cpel"] = old["cpel"] /\ new["pel"] = old["pel"]
          /\ new.known = old.known \cup {c}
        BY <1>5, LookupOK
    <3> QED
        BY <1>4, <3>1 DEF GroupFollows, PendingFollow
  <2>3. Regrouped(r, r, g, gr)
    <3>1. r.on
      <4>1. m.on
          BY <1>2, StreamParts
      <4> QED
          BY <1>2, <4>1 DEF Follows, ItemsFollow
    <3> QED
        BY <1>3, <3>1, RegroupedSelf
  <2>4. Follows(r, t.st)
      BY <1>4, <1>9, <2>2, <2>3, RegroupFollows
  <2> QED
      BY <1>b, <1>2, <1>8, <2>1, <2>4 DEF Followed
<1> QED
    BY <1>11, <1>12

\* Reading its history again counts here only, and only more.
LEMMA HistoryFollows ==
    ASSUME NEW st \in StreamOK, NEW g \in Group, NEW c \in Consumer,
           NEW s \in CanDeliver(g, c), s \in Followed(st),
           NEW v, v = streamReplyWithRangeFromConsumerPEL(s, g, c)
    PROVE  v \in Followed(st)
<1>1. s.st \in StreamOK
    BY AppliedParts
<1>2. PICK r \in StreamOK, m \in StreamOK :
            r = XApplied(st, s.out) /\ m = s.st /\ Follows(r, m)
    BY AppliedParts
<1>3. PICK old \in GroupOK, gr \in GroupOK : old = m.grp[g] /\ gr = r.grp[g]
    BY StreamParts
<1>4. PICK new : new = HistoryOf(old, g, c, m.items)
    OBVIOUS
<1>5. /\ v \in CanDeliver(g, c) /\ v.out = s.out
      /\ v.st.on /\ v.st.items = m.items /\ v.st.last = m.last
      /\ v.st.grp[g] = new /\ \A h \in Group : h # g => v.st.grp[h] = m.grp[h]
    BY <1>2, <1>3, <1>4, HistoryServed
<1>6. /\ new \in GroupOK /\ new.on = old.on /\ new.last = old.last
      /\ new.known = old.known /\ new.cpel = old.cpel
      /\ \A i \in Id : /\ new.pel[i].owner = old.pel[i].owner
                       /\ new.pel[i].count >= old.pel[i].count
                       /\ new.pel[i].idle => old.pel[i].idle
    BY <1>4, HistoryOK
<1>7. GroupFollows(gr, old) /\ FollowsBut(r, m, g) /\ ItemsFollow(r, m)
    BY <1>2, <1>3 DEF Follows, FollowsBut
<1>8. GroupFollows(gr, new)
  <2>1. \A i \in Id : /\ gr.pel[i].count \in Nat /\ old.pel[i].count \in Nat
                      /\ new.pel[i].count \in Nat
      BY <1>6 DEF GroupOK, GroupType, NackType
  <2>2. ASSUME NEW i \in Id
        PROVE  /\ gr.pel[i].owner = new.pel[i].owner
               /\ gr.pel[i].count <= new.pel[i].count
               /\ new.pel[i].idle => gr.pel[i].idle
      BY <1>6, <1>7, <2>1 DEF GroupFollows, PendingFollow
  <2> QED
      BY <1>6, <1>7, <2>2 DEF GroupFollows, PendingFollow
<1>9. m.on
  <2>1. m.grp[g].on
      BY <1>2 DEF CanDeliver
  <2> QED
      BY <2>1, StreamParts
<1>10. v.st.on = TRUE
  <2>1. v.st \in StreamOK
      BY <1>5 DEF CanDeliver, Here1, Server
  <2> QED
      BY <1>5, <2>1 DEF StreamOK, StreamType
<1>11. Regrouped(v.st, m, g, new)
  <2>1. PICK w \in StreamOK : w = v.st
      BY <1>5 DEF CanDeliver, Here1, Server
  <2>2. /\ w.on = TRUE /\ w.items = m.items /\ w.last = m.last /\ w.grp[g] = new
        /\ \A h \in Group : h # g => w.grp[h] = m.grp[h]
      BY <1>5, <1>10, <2>1
  <2> QED
      BY <2>1, <2>2 DEF Regrouped
<1>12. Regrouped(r, r, g, gr)
  <2>1. r.on
      BY <1>7, <1>9 DEF ItemsFollow
  <2> QED
      BY <1>3, <2>1, RegroupedSelf
<1>13. Follows(r, v.st)
    BY <1>7, <1>8, <1>11, <1>12, RegroupFollows
<1> QED
    BY <1>2, <1>5, <1>13 DEF Followed, CanDeliver

-----------------------------------------------------------------------------
(* The replica follows: reads, the readers served, and time.                 *)

LEMMA SameFollows ==
    ASSUME NEW st \in StreamOK, NEW s \in Followed(st), NEW u \in Here1,
           u.st = s.st, u.out = s.out
    PROVE  u \in Followed(st)
BY DEF Followed

LEMMA NewsFollows ==
    ASSUME NEW st \in StreamOK, NEW s \in Followed(st), NEW g \in Group,
           s.st.grp[g].on, NEW c \in Consumer, NEW noack \in BOOLEAN,
           NEW count \in Nat,
           NEW t, t = streamReplyWithRange(WithConsumer(s, g, c, noack), g, c,
                                           s.st.grp[g].last, count, noack)
    PROVE  t \in Followed(st)
<1>1. s \in Here1 /\ s.st \in StreamOK
    BY AppliedParts
<1>2. PICK a : a = WithConsumer(s, g, c, noack)
    OBVIOUS
<1>3. a \in CanDeliver(g, c)
    BY <1>1, <1>2, WithConsumerOK
<1>4. a \in Followed(st)
    BY <1>2, WithConsumerFollows
<1>5. s.st.grp[g].last \in Nat
  <2>1. s.st.grp[g] \in GroupOK
      BY <1>1, StreamParts
  <2> QED
      BY <2>1, Numbers DEF GroupOK, GroupType
<1>6. PICK from \in Nat : from = s.st.grp[g].last
    BY <1>5
<1>7. t = streamReplyWithRange(a, g, c, from, count, noack)
    BY <1>2, <1>6
<1> QED
    BY <1>3, <1>4, <1>7, ReplyFollows

LEMMA ServeReaderFollows ==
    ASSUME NEW st \in StreamOK, NEW s \in Followed(st), NEW w \in Reader
    PROVE  ServeReader(s, w) \in Followed(st)
<1>0. s \in Here1
    BY AppliedParts
<1>1. PICK e : e = Woken(s, w)
    OBVIOUS
<1>2. e \in Followed(st)
    BY <1>0, <1>1, WokenOK, SameFollows
<1>3. /\ w.g \in Group \cup {Nobody} /\ w.c \in Consumer /\ w.noack \in BOOLEAN
      /\ w.count \in Nat
    BY DEF Reader
<1>4. CASE w.g = Nobody \/ ~s.st.grp[w.g].on
    BY <1>1, <1>2, <1>4 DEF ServeReader
<1>5. CASE ~(w.g = Nobody \/ ~s.st.grp[w.g].on)
  <2>1. w.g \in Group /\ s.st.grp[w.g].on
      BY <1>3, <1>5
  <2>2. PICK t : t = streamReplyWithRange(WithConsumer(s, w.g, w.c, w.noack),
                        w.g, w.c, s.st.grp[w.g].last, w.count, w.noack)
      OBVIOUS
  <2>3. t \in Followed(st)
    <3>1. ASSUME NEW g \in Group, NEW c \in Consumer, NEW noack \in BOOLEAN,
                 NEW count \in Nat, s.st.grp[g].on,
                 t = streamReplyWithRange(WithConsumer(s, g, c, noack), g, c,
                                          s.st.grp[g].last, count, noack)
          PROVE  t \in Followed(st)
        BY <3>1, NewsFollows
    <3> QED
        BY <1>3, <2>1, <2>2, <3>1
  <2>4. PICK d : d = Woken(t, w)
      OBVIOUS
  <2>5. t \in Here1
      BY <2>3, AppliedParts
  <2>6. d \in Followed(st)
      BY <2>3, <2>4, <2>5, WokenOK, SameFollows
  <2>7. ServeReader(s, w) = s \/ ServeReader(s, w) = d
      BY <1>5, <2>2, <2>4 DEF ServeReader
  <2> QED
      BY <2>6, <2>7
<1> QED
    BY <1>4, <1>5

LEMMA ServedFollows ==
    ASSUME NEW st \in StreamOK, NEW s \in Followed(st)
    PROVE  serveClientsBlockedOnStreamKey(s) \in Followed(st)
<1>1. s.wait \in Seq(Reader)
    BY AppliedParts DEF Here1, Server
<1>2. \A t \in Followed(st), w \in Reader : ServeReader(t, w) \in Followed(st)
    BY ServeReaderFollows
<1>3. ServeAll(s, s.wait) \in Followed(st)
    BY <1>1, <1>2, ServeAllKeeps
<1> QED
    BY <1>3 DEF serveClientsBlockedOnStreamKey

LEMMA XreadFollows ==
    ASSUME NEW st \in StreamOK, NEW s \in Followed(st), NEW r, XReadOK(r),
           NEW v, v = xreadCommand(s, r)
    PROVE  v \in Followed(st)
<1>1. /\ r.g \in Group \cup {Nobody} /\ r.c \in Consumer /\ r.noack \in BOOLEAN
      /\ r.count \in Nat
    BY DEF XReadOK
<1>2. s \in Here1 /\ s.st \in StreamOK
    BY AppliedParts
<1>3. CASE r.g = Nobody
  <2>1. PICK gt \in 0 .. Top : gt = s.st.last
      BY <1>2, StreamParts, Numbers
  <2>2. v = Blocked(s, r, gt)
      BY <1>3, <2>1 DEF xreadCommand
  <2>3. v \in Here1 /\ v.st = s.st /\ v.out = s.out
      BY <1>2, <2>2, BlockedOK
  <2> QED
      BY <2>3, SameFollows
<1>4. CASE r.g # Nobody
  <2>1. r.g \in Group
      BY <1>1, <1>4
  <2>2. PICK e : e = Blocked(s, r, Top)
      OBVIOUS
  <2>3. e \in Followed(st)
    <3>1. PICK gt \in 0 .. Top : gt = Top
        BY Numbers
    <3>2. e \in Here1 /\ e.st = s.st /\ e.out = s.out
        BY <1>2, <2>2, <3>1, BlockedOK
    <3> QED
        BY <3>2, SameFollows
  <2>4. CASE ~(s.st.on /\ s.st.grp[r.g].on)
      BY <1>4, <2>4 DEF xreadCommand
  <2>5. CASE s.st.on /\ s.st.grp[r.g].on
    <3>1. PICK c : c = WithConsumer(s, r.g, r.c, r.noack)
        OBVIOUS
    <3>2. c \in CanDeliver(r.g, r.c)
        BY <1>1, <1>2, <2>1, <2>5, <3>1, WithConsumerOK
    <3>3. c \in Followed(st)
        BY <1>1, <2>1, <2>5, <3>1, WithConsumerFollows
    <3>4. PICK h : h = streamReplyWithRangeFromConsumerPEL(c, r.g, r.c)
        OBVIOUS
    <3>5. h \in Followed(st)
        BY <1>1, <2>1, <3>2, <3>3, <3>4, HistoryFollows
    <3>6. PICK t : t = streamReplyWithRange(WithConsumer(s, r.g, r.c, r.noack),
                        r.g, r.c, s.st.grp[r.g].last, r.count, r.noack)
        OBVIOUS
    <3>7. t \in Followed(st)
      <4>1. ASSUME NEW g \in Group, NEW d \in Consumer, NEW noack \in BOOLEAN,
                   NEW count \in Nat, s.st.grp[g].on,
                   t = streamReplyWithRange(WithConsumer(s, g, d, noack), g, d,
                                            s.st.grp[g].last, count, noack)
            PROVE  t \in Followed(st)
          BY <4>1, NewsFollows
      <4> QED
          BY <1>1, <2>1, <2>5, <3>6, <4>1
    <3>8. v \in {h, t, e}
        BY <1>4, <2>2, <2>5, <3>1, <3>4, <3>6 DEF xreadCommand
    <3> QED
        BY <2>3, <3>5, <3>7, <3>8
  <2> QED
      BY <2>4, <2>5
<1> QED
    BY <1>3, <1>4

\* Time passes at the replica as well.
LEMMA AgedFollows ==
    ASSUME NEW r \in StreamOK, NEW m \in StreamOK, Follows(r, m)
    PROVE  Follows(Aged(r), Aged(m))
<1>1. PICK a : a = Aged(m)
    OBVIOUS
<1>2. PICK c : c = Aged(r)
    OBVIOUS
<1>3. /\ a \in StreamOK /\ a.on = m.on /\ a.items = m.items /\ a.last = m.last
      /\ \A g \in Group : a.grp[g] = AgedGroup(m.grp[g])
    BY <1>1, AgedOK
<1>4. /\ c \in StreamOK /\ c.on = r.on /\ c.items = r.items /\ c.last = r.last
      /\ \A g \in Group : c.grp[g] = AgedGroup(r.grp[g])
    BY <1>2, AgedOK
<1>5. ItemsFollow(c, a)
    BY <1>3, <1>4 DEF Follows, ItemsFollow
<1>6. ASSUME NEW g \in Group PROVE GroupFollows(c.grp[g], a.grp[g])
  <2>1. PICK old \in GroupOK, gr \in GroupOK : old = m.grp[g] /\ gr = r.grp[g]
      BY StreamParts
  <2>2. GroupFollows(gr, old)
      BY <2>1 DEF Follows
  <2>3. PICK u : u = AgedGroup(old)
      OBVIOUS
  <2>4. PICK x : x = AgedGroup(gr)
      OBVIOUS
  <2>5. /\ u.on = old.on /\ u.last = old.last /\ u.known = old.known /\ u.cpel = old.cpel
        /\ \A i \in Id : /\ u.pel[i].owner = old.pel[i].owner
                         /\ u.pel[i].count = old.pel[i].count
                         /\ u.pel[i].idle = (old.pel[i] # NoNack)
      BY <2>3, AgedGroupOK
  <2>6. /\ x.on = gr.on /\ x.last = gr.last /\ x.known = gr.known /\ x.cpel = gr.cpel
        /\ \A i \in Id : /\ x.pel[i].owner = gr.pel[i].owner
                         /\ x.pel[i].count = gr.pel[i].count
                         /\ x.pel[i].idle = (gr.pel[i] # NoNack)
      BY <2>4, AgedGroupOK
  <2>7. \A i \in Id : gr.pel[i] = NoNack <=> old.pel[i] = NoNack
    <3>1. \A i \in Id : gr.pel[i].owner = old.pel[i].owner
        BY <2>2 DEF GroupFollows, PendingFollow
    <3> QED
        BY <3>1, OwnedIs
  <2>8. GroupFollows(x, u)
      BY <2>2, <2>5, <2>6, <2>7 DEF GroupFollows, PendingFollow
  <2> QED
      BY <1>3, <1>4, <2>1, <2>3, <2>4, <2>8
<1> QED
    BY <1>1, <1>2, <1>5, <1>6 DEF Follows

LEMMA BecomesFollows ==
    ASSUME XsInv, NEW t \in Followed(xr), XBecomes(t)
    PROVE  Follows(xr', xs')
<1>0. xr \in StreamOK
    BY DEF XsInv
<1>1. PICK s : /\ s = serveClientsBlockedOnStreamKey(t)
               /\ xs' = s.st /\ xr' = XApplied(xr, s.out)
    BY DEF XBecomes
<1>2. s \in Followed(xr)
    BY <1>0, <1>1, ServedFollows
<1> QED
    BY <1>1, <1>2 DEF Followed

XsFollowed == XsInv /\ Follows(xr, xs)

LEMMA XsNext_Follows ==
    ASSUME XsFollowed, [XsNext]_xsVars
    PROVE  Follows(xr', xs')
<1>0. XsInv /\ Follows(xr, xs) /\ xs \in StreamOK /\ xr \in StreamOK
    BY DEF XsFollowed, XsInv
<1>h. Here \in Followed(xr)
  <2>1. Here \in Here1 /\ Here.st = xs /\ Here.out = <<>>
      BY <1>0, HostOK DEF XsInv, Here, Host
  <2>2. PICK h : h = Host(xr, TRUE)
      OBVIOUS
  <2>3. h.st = xr
      BY <1>0, <2>2, HostOK
  <2>4. CallAll(h, <<>>) = h
      BY CallAllNothing
  <2>5. XApplied(xr, <<>>) = xr
      BY <2>2, <2>3, <2>4 DEF XApplied
  <2> QED
      BY <1>0, <2>1, <2>5 DEF Followed
<1>1. ASSUME NEW cmd \in XCmds, XCommand(cmd)
      PROVE  Follows(xr', xs')
  <2>1. cmd \in Command
      BY DEF Command
  <2>2. PICK t : t = xcall(Here, cmd) /\ XBecomes(t)
      BY <1>1 DEF XCommand
  <2>3. t \in Followed(xr)
      BY <1>0, <1>h, <2>1, <2>2, XcallFollows
  <2> QED
      BY <1>0, <2>2, <2>3, BecomesFollows
<1>2. ASSUME NEW cmds \in XTxs, XTransaction(cmds)
      PROVE  Follows(xr', xs')
  <2>1. cmds \in Seq(Command)
    <3>1. cmds \in Seq(XCmds)
        BY StreamsAssumption
    <3>2. XCmds \subseteq Command
        BY DEF Command
    <3> QED
        BY <3>1, <3>2
  <2>2. PICK t : t = CallAll(Here, cmds) /\ XBecomes(t)
      BY <1>2 DEF XTransaction
  <2>3. t \in Followed(xr)
      BY <1>0, <1>h, <2>1, <2>2, CallAllFollows
  <2> QED
      BY <1>0, <2>2, <2>3, BecomesFollows
<1>3. ASSUME NEW r \in XReads, XRead(r)
      PROVE  Follows(xr', xs')
  <2>1. XReadOK(r)
      BY StreamsAssumption
  <2>2. PICK t : t = xreadCommand(Here, r) /\ XBecomes(t)
      BY <1>3 DEF XRead
  <2>3. t \in Followed(xr)
      BY <1>0, <1>h, <2>1, <2>2, XreadFollows
  <2> QED
      BY <1>0, <2>2, <2>3, BecomesFollows
<1>4. ASSUME NEW i \in DOMAIN xwait, XTimeout(i)
      PROVE  Follows(xr', xs')
    BY <1>0, <1>4 DEF XTimeout
<1>5. CASE XTick
    BY <1>0, <1>5, AgedFollows DEF XTick
<1>6. CASE UNCHANGED xsVars
    BY <1>0, <1>6 DEF xsVars
<1> QED
    BY <1>1, <1>2, <1>3, <1>4, <1>5, <1>6 DEF XsNext

LEMMA XsFollowed_Property == XsFollowed => StreamReplicaFollows
<1> SUFFICES ASSUME XsInv, Follows(xr, xs) PROVE StreamReplicaFollows
    BY DEF XsFollowed
<1>0. xs \in StreamOK /\ xr \in StreamOK
    BY DEF XsInv
<1>1. xr.on = xs.on /\ xr.items = xs.items /\ xr.last = xs.last
    BY DEF Follows, ItemsFollow
<1>2. ASSUME NEW g \in Group
      PROVE  /\ <<xr.grp[g].on, xr.grp[g].last, xr.grp[g].cpel>>
                    = <<xs.grp[g].on, xs.grp[g].last, xs.grp[g].cpel>>
             /\ xr.grp[g].known \subseteq xs.grp[g].known
             /\ \A i \in Id : /\ xr.grp[g].pel[i].owner = xs.grp[g].pel[i].owner
                              /\ xr.grp[g].pel[i].count <= xs.grp[g].pel[i].count
                              /\ xs.grp[g].pel[i].idle => xr.grp[g].pel[i].idle
  <2>1. PICK m \in GroupOK, s \in GroupOK : m = xs.grp[g] /\ s = xr.grp[g]
      BY <1>0, StreamParts
  <2>2. GroupFollows(s, m)
      BY <2>1 DEF Follows
  <2>3. s.cpel = m.cpel
    <3>1. s.cpel \in [Consumer -> SUBSET Id] /\ m.cpel \in [Consumer -> SUBSET Id]
        BY DEF GroupOK, GroupType
    <3>2. \A c \in Consumer : s.cpel[c] = m.cpel[c]
        BY <2>2 DEF GroupFollows, PendingFollow
    <3> QED
        BY <3>1, <3>2
  <2>4. /\ s.on = m.on /\ s.last = m.last /\ s.known \subseteq m.known
        /\ \A i \in Id : /\ s.pel[i].owner = m.pel[i].owner
                         /\ s.pel[i].count <= m.pel[i].count
                         /\ m.pel[i].idle => s.pel[i].idle
      BY <2>2 DEF GroupFollows, PendingFollow
  <2> QED
      BY <2>1, <2>3, <2>4
<1> QED
    BY <1>1, <1>2 DEF StreamReplicaFollows

\* Whatever commands, transactions, reads and timeouts there are, the replica
\* has the entries, the groups and their last IDs, and the same consumers own
\* the same pending entries there, from what is propagated: exact trims for
\* approximate ones, and an XCLAIM for each entry delivered or claimed
\* (streamPropagateXCLAIM, streamPropagateGroupID, streamRewriteTrimArgument).
THEOREM StreamReplicaAlwaysFollows == XsSpec => []StreamReplicaFollows
<1>1. XsInit => XsFollowed
  <2> SUFFICES ASSUME XsInit PROVE XsFollowed
      OBVIOUS
  <2>1. xs = NoStream /\ xr = NoStream
      BY DEF XsInit
  <2>2. Follows(xr, xs)
      BY <2>1, NoStreamFollows
  <2> QED
      BY <2>2, XsInit_XsInv DEF XsFollowed
<1>2. XsFollowed /\ [XsNext]_xsVars => XsFollowed'
  <2> SUFFICES ASSUME XsFollowed, [XsNext]_xsVars PROVE XsFollowed'
      OBVIOUS
  <2>1. XsInv'
      BY XsNext_XsInv DEF XsFollowed
  <2>2. Follows(xr', xs')
      BY XsNext_Follows
  <2>3. XsFollowed' <=> XsInv' /\ Follows(xr', xs')
      BY DEF XsFollowed
  <2> QED
      BY <2>1, <2>2, <2>3
<1> QED
    BY <1>1, <1>2, XsFollowed_Property, PTL DEF XsSpec

-----------------------------------------------------------------------------
(* What is handed out as new, and what a read leaves as it was.              *)

\* The entries of group g in new: in order, after from and up to to, and every
\* item there is between these.
NewIn(new, g, from, to, items) ==
    /\ \A i, j \in 1 .. Len(new) :
            new[i][1] = g /\ new[j][1] = g /\ i < j => new[i][3] < new[j][3]
    /\ \A i \in 1 .. Len(new) : new[i][1] = g => new[i][3] > from /\ new[i][3] <= to
    /\ \A id \in items : id > from /\ id <= to =>
            \E i \in 1 .. Len(new) : new[i][1] = g /\ new[i][3] = id

News == Group \X Consumer \X Id

LEMMA NewInMore ==
    ASSUME NEW new \in Seq(News), NEW g \in Group, NEW from \in Nat, NEW to \in Nat,
           from <= to, NEW items \in SUBSET Id, NewIn(new, g, from, to, items),
           NEW c \in Consumer, NEW id \in Id, id > to,
           \A i \in items : ~(to < i /\ i < id)
    PROVE  NewIn(Append(new, <<g, c, id>>), g, from, id, items)
<1> DEFINE n == Len(new)
<1>b. PICK e : e = <<g, c, id>>
    OBVIOUS
<1>0. e \in News /\ e[1] = g /\ e[3] = id
    BY <1>b DEF News
<1>a. id \in Nat /\ \A i \in items : i \in Nat
    BY Numbers
<1>1. PICK more : more = Append(new, e)
    OBVIOUS
<1>2. /\ n \in Nat /\ Len(more) = n + 1 /\ more[n + 1] = e
      /\ \A i \in 1 .. n : more[i] = new[i] /\ new[i] \in News /\ i \in 1 .. n + 1
    BY <1>1
<1>3. \A i \in 1 .. n : new[i][3] \in Nat
    BY <1>2, Numbers DEF News
<1>4. ASSUME NEW i \in 1 .. n + 1 PROVE i \in 1 .. n \/ i = n + 1
    BY <1>2
<1>5. ASSUME NEW i \in 1 .. n + 1, NEW j \in 1 .. n + 1,
             more[i][1] = g, more[j][1] = g, i < j
      PROVE  more[i][3] < more[j][3]
  <2>1. i \in 1 .. n
      BY <1>2, <1>5
  <2>2. CASE j \in 1 .. n
      BY <1>2, <1>5, <2>1, <2>2 DEF NewIn
  <2>3. CASE j = n + 1
    <3>1. new[i][3] <= to
        BY <1>2, <1>5, <2>1 DEF NewIn
    <3> QED
        BY <1>0, <1>a, <1>2, <1>3, <2>1, <2>3, <3>1
  <2> QED
      BY <1>4, <2>2, <2>3
<1>6. ASSUME NEW i \in 1 .. n + 1, more[i][1] = g
      PROVE  more[i][3] > from /\ more[i][3] <= id
  <2>1. CASE i \in 1 .. n
    <3>1. new[i][3] > from /\ new[i][3] <= to
        BY <1>2, <1>6, <2>1 DEF NewIn
    <3> QED
        BY <1>a, <1>2, <1>3, <2>1, <3>1
  <2>2. CASE i = n + 1
      BY <1>0, <1>a, <1>2, <2>2
  <2> QED
      BY <1>4, <2>1, <2>2
<1>7. ASSUME NEW k \in items, k > from, k <= id
      PROVE  \E i \in 1 .. n + 1 : more[i][1] = g /\ more[i][3] = k
  <2>1. CASE k <= to
    <3>1. PICK i \in 1 .. n : new[i][1] = g /\ new[i][3] = k
        BY <1>7, <2>1 DEF NewIn
    <3> QED
        BY <1>2, <3>1
  <2>2. CASE ~(k <= to)
    <3>1. k = id
        BY <1>a, <1>7, <2>2
    <3>2. n + 1 \in 1 .. n + 1
        BY <1>2
    <3> QED
        BY <1>0, <1>2, <3>1, <3>2
  <2> QED
      BY <2>1, <2>2
<1>8. NewIn(more, g, from, id, items)
    BY <1>2, <1>5, <1>6, <1>7 DEF NewIn
<1> QED
    BY <1>b, <1>1, <1>8

LEMMA NewInOther ==
    ASSUME NEW new \in Seq(News), NEW g \in Group, NEW from \in Nat, NEW to \in Nat,
           NEW items, NewIn(new, g, from, to, items),
           NEW h \in Group, h # g, NEW c \in Consumer, NEW id \in Id
    PROVE  NewIn(Append(new, <<h, c, id>>), g, from, to, items)
<1> DEFINE n == Len(new)
<1>b. PICK e : e = <<h, c, id>>
    OBVIOUS
<1>0. e \in News /\ e[1] = h
    BY <1>b DEF News
<1>1. PICK more : more = Append(new, e)
    OBVIOUS
<1>2. /\ n \in Nat /\ Len(more) = n + 1 /\ more[n + 1] = e
      /\ \A i \in 1 .. n : more[i] = new[i] /\ i \in 1 .. n + 1
    BY <1>1
<1>4. ASSUME NEW i \in 1 .. n + 1, more[i][1] = g PROVE i \in 1 .. n
    BY <1>0, <1>2, <1>4
<1>8. NewIn(more, g, from, to, items)
    BY <1>2, <1>4 DEF NewIn
<1> QED
    BY <1>b, <1>1, <1>8

\* Reading leaves the entries and the groups; last IDs of groups move up.
SameGround(u, st) ==
    /\ u.st.on = st.on /\ u.st.items = st.items /\ u.st.last = st.last
    /\ \A g \in Group : /\ u.st.grp[g].on = st.grp[g].on
                        /\ u.st.grp[g].last >= st.grp[g].last

\* The servers that, from the stream st on, handed out as new what a group had
\* not handed out, in order and all of it.
HandsOut(u, st) ==
    /\ u \in Here1
    /\ SameGround(u, st)
    /\ \A g \in Group : NewIn(u.new, g, st.grp[g].last, u.st.grp[g].last, st.items)
    /\ \A i \in 1 .. Len(u.new) : st.grp[u.new[i][1]].on

LEMMA LastNat ==
    ASSUME NEW st \in StreamOK, NEW g \in Group
    PROVE  st.grp[g].last \in Nat /\ st.last \in Nat /\ st.items \in SUBSET Id
           /\ st.grp[g].on \in BOOLEAN
<1>1. st.grp[g] \in GroupOK /\ st.last \in 0 .. MaxId /\ st.items \in SUBSET Id
    BY StreamParts
<1> QED
    BY <1>1, Numbers DEF GroupOK, GroupType

LEMMA Here1Parts ==
    ASSUME NEW u \in Here1
    PROVE  u.st \in StreamOK /\ u.new \in Seq(News) /\ u.wait \in Seq(Reader)
           /\ u.ready \in BOOLEAN /\ u.out \in Seq(Command) /\ u.slave = FALSE
    BY DEF Here1, Server, News

LEMMA GroundTwice ==
    ASSUME NEW u \in Here1, NEW v \in Here1, NEW st \in StreamOK,
           SameGround(u, st), SameGround(v, u.st)
    PROVE  SameGround(v, st)
<1>1. \A g \in Group : /\ st.grp[g].last \in Nat /\ u.st.grp[g].last \in Nat
                       /\ v.st.grp[g].last \in Nat
    BY Here1Parts, LastNat
<1> QED
    BY <1>1 DEF SameGround

\* A server with the stream's entries and groups' last IDs, and the same news.
LEMMA HandsOutSame ==
    ASSUME NEW st \in StreamOK, NEW u, HandsOut(u, st), NEW v \in Here1,
           v.new = u.new, v.st.on = u.st.on, v.st.items = u.st.items,
           v.st.last = u.st.last,
           \A g \in Group : v.st.grp[g].on = u.st.grp[g].on
                            /\ v.st.grp[g].last = u.st.grp[g].last
    PROVE  HandsOut(v, st) /\ SameGround(v, u.st)
<1>1. \A g \in Group : u.st.grp[g].last \in Nat
    BY Here1Parts, LastNat DEF HandsOut
<1> QED
    BY <1>1 DEF HandsOut, SameGround

\* A delivery of the next entry there is.
LEMMA DeliverHands ==
    ASSUME NEW st \in StreamOK, NEW g \in Group, NEW c \in Consumer,
           NEW s \in CanDeliver(g, c), HandsOut(s, st), NEW noack \in BOOLEAN,
           NEW id \in Id, id > s.st.grp[g].last,
           \A i \in st.items : ~(s.st.grp[g].last < i /\ i < id),
           NEW v, v = Deliver(s, g, c, noack, id)
    PROVE  /\ HandsOut(v, st) /\ v \in CanDeliver(g, c) /\ v.wait = s.wait
           /\ v.st.grp[g].last = id /\ SameGround(v, s.st)
<1>1. s \in Here1 /\ s.st.grp[g].on /\ c \in s.st.grp[g].known
    BY DEF CanDeliver
<1>2. /\ v \in Here1 /\ v.st.grp[g].on /\ v.st.grp[g].known = s.st.grp[g].known
      /\ v.st.items = s.st.items /\ v.st.last = s.st.last
      /\ v.new = Append(s.new, <<g, c, id>>) /\ v.wait = s.wait
      /\ v.st.grp[g].last = Later(s.st.grp[g].last, id)
      /\ \A h \in Group : h # g => v.st.grp[h] = s.st.grp[h]
    BY <1>1, DeliverParts
<1>3. /\ \A h \in Group : /\ s.st.grp[h].last \in Nat /\ st.grp[h].last \in Nat
                          /\ v.st.grp[h].last \in Nat
      /\ id \in Nat /\ st.items \in SUBSET Id /\ s.new \in Seq(News)
  <2>1. s.st \in StreamOK /\ v.st \in StreamOK /\ s.new \in Seq(News)
      BY <1>1, <1>2, Here1Parts
  <2>2. \A x \in StreamOK : \A h \in Group : x.grp[h].last \in Nat
      BY LastNat
  <2>3. st.items \in SUBSET Id
      BY StreamParts
  <2> QED
      BY <2>1, <2>2, <2>3, Numbers
<1>4. v.st.grp[g].last = id
  <2>1. PICK a \in Nat : a = s.st.grp[g].last
      BY <1>3
  <2>2. /\ Later(a, id) = a \/ Later(a, id) = id
        /\ id <= Later(a, id)
      BY <1>3, LaterIs
  <2> QED
      BY <1>2, <1>3, <2>1, <2>2
<1>5. v.st.on /\ s.st.on
  <2>1. v.st \in StreamOK /\ s.st \in StreamOK
      BY <1>1, <1>2, Here1Parts
  <2> QED
      BY <1>1, <1>2, <2>1, StreamParts
<1>b. v.st.on \in BOOLEAN /\ s.st.on \in BOOLEAN
      /\ v.st.grp[g].on \in BOOLEAN /\ s.st.grp[g].on \in BOOLEAN
    BY <1>1, <1>2, Here1Parts, StreamParts
<1>6. SameGround(v, s.st)
  <2>1. ASSUME NEW h \in Group
        PROVE  v.st.grp[h].on = s.st.grp[h].on /\ v.st.grp[h].last >= s.st.grp[h].last
    <3>1. CASE h = g
      <4>1. v.st.grp[g].on = s.st.grp[g].on
          BY <1>1, <1>2, <1>b
      <4>2. v.st.grp[g].last >= s.st.grp[g].last
          BY <1>3, <1>4
      <4> QED
          BY <3>1, <4>1, <4>2
    <3>2. CASE h # g
      <4>1. v.st.grp[h] = s.st.grp[h]
          BY <1>2, <3>2
      <4> QED
          BY <1>3, <4>1
    <3> QED
        BY <3>1, <3>2
  <2>2. v.st.on = s.st.on
      BY <1>5, <1>b
  <2> QED
      BY <1>2, <2>1, <2>2 DEF SameGround
<1>7. SameGround(v, st)
    BY <1>1, <1>2, <1>6, GroundTwice DEF HandsOut
<1>8. ASSUME NEW h \in Group
      PROVE  NewIn(v.new, h, st.grp[h].last, v.st.grp[h].last, st.items)
  <2>1. PICK from \in Nat, to \in Nat : from = st.grp[h].last /\ to = s.st.grp[h].last
      BY <1>3
  <2>2. from <= to
      BY <1>3, <2>1 DEF HandsOut, SameGround
  <2>3. NewIn(s.new, h, from, to, st.items)
      BY <2>1 DEF HandsOut
  <2>4. CASE h = g
    <3>1. NewIn(Append(s.new, <<h, c, id>>), h, from, id, st.items)
      <4>1. id > to /\ \A i \in st.items : ~(to < i /\ i < id)
          BY <2>1, <2>4
      <4> QED
          BY <1>3, <2>2, <2>3, <4>1, NewInMore
    <3> QED
        BY <1>2, <1>4, <2>1, <2>4, <3>1
  <2>5. CASE h # g
    <3>1. NewIn(Append(s.new, <<g, c, id>>), h, from, to, st.items)
        BY <1>3, <2>3, <2>5, NewInOther
    <3> QED
        BY <1>2, <2>1, <2>5, <3>1
  <2> QED
      BY <2>4, <2>5
<1>9. ASSUME NEW i \in 1 .. Len(v.new) PROVE st.grp[v.new[i][1]].on
  <2>1. PICK e : e = <<g, c, id>>
      OBVIOUS
  <2>2. e[1] = g /\ v.new = Append(s.new, e)
      BY <1>2, <2>1
  <2>3. CASE i = Len(s.new) + 1
    <3>1. v.new[i] = e
        BY <1>3, <2>2, <2>3
    <3>2. st.grp[g].on
        BY <1>1 DEF HandsOut, SameGround
    <3> QED
        BY <2>2, <3>1, <3>2
  <2>4. CASE i # Len(s.new) + 1
    <3>1. i \in 1 .. Len(s.new) /\ v.new[i] = s.new[i]
        BY <1>3, <2>2, <2>4
    <3> QED
        BY <3>1 DEF HandsOut
  <2> QED
      BY <2>3, <2>4
<1>10. HandsOut(v, st)
    BY <1>2, <1>7, <1>8, <1>9 DEF HandsOut
<1>11. v \in CanDeliver(g, c)
    BY <1>1, <1>2 DEF CanDeliver
<1> QED
    BY <1>2, <1>4, <1>6, <1>10, <1>11

\* There is no item between the two.
Adjacent(items, to, id) == id > to /\ \A i \in items : ~(to < i /\ i < id)

\* The ID the group has before the k-th of them.
Before(ids, from, k) == IF k = 1 THEN from ELSE ids[k - 1]

LEMMA NextOne ==
    ASSUME NEW items \in SUBSET Id, NEW ids \in Seq(Id), NEW from \in Nat,
           NextOnes(ids, from, items), NEW k \in 1 .. Len(ids),
           NEW to \in Nat, to = Before(ids, from, k)
    PROVE  Adjacent(items, to, ids[k])
<1> DEFINE n == Len(ids)
<1>1. n \in Nat /\ \A j \in 1 .. n : ids[j] \in Nat
    BY Numbers
<1>b. to = IF k = 1 THEN from ELSE ids[k - 1]
    BY DEF Before
<1>2. \A i \in items : i \in Nat
    BY Numbers
<1>3. ids[k] > to
  <2>1. CASE k = 1
      BY <1>b, <2>1 DEF NextOnes
  <2>2. CASE k # 1
    <3>1. k - 1 \in 1 .. n /\ k - 1 < k
        BY <1>1, <2>2
    <3>2. ids[k - 1] < ids[k]
        BY <3>1 DEF NextOnes
    <3> QED
        BY <1>1, <1>b, <2>2, <3>1, <3>2
  <2> QED
      BY <2>1, <2>2
<1>4. to >= from
  <2>1. CASE k = 1
      BY <1>b, <2>1
  <2>2. CASE k # 1
    <3>1. k - 1 \in 1 .. n
        BY <1>1, <2>2
    <3>2. ids[k - 1] > from
        BY <3>1 DEF NextOnes
    <3> QED
        BY <1>1, <1>b, <2>2, <3>1, <3>2
  <2> QED
      BY <2>1, <2>2
<1>5. ASSUME NEW i \in items, to < i, i < ids[k] PROVE FALSE
  <2>1. i > from
      BY <1>2, <1>4, <1>5
  <2>2. \A j \in 1 .. n : k < j => ids[k] < ids[j]
      BY DEF NextOnes
  <2>3. CASE \E j \in 1 .. n : ids[j] = i
    <3>1. PICK j \in 1 .. n : ids[j] = i
        BY <2>3
    <3>2. j < k
        BY <1>1, <1>2, <1>5, <2>2, <3>1
    <3>3. k # 1 /\ k - 1 \in 1 .. n /\ to = ids[k - 1]
        BY <1>1, <1>b, <3>2
    <3>4. j = k - 1 \/ j < k - 1
        BY <3>2
    <3>5. j < k - 1 => ids[j] < ids[k - 1]
        BY <3>3 DEF NextOnes
    <3> QED
        BY <1>1, <1>2, <1>5, <3>1, <3>3, <3>4, <3>5
  <2>4. CASE ids # <<>> /\ ids[n] < i
    <3>1. n \in 1 .. n
        BY <1>1
    <3>2. k = n \/ ids[k] < ids[n]
        BY <1>1, <2>2, <3>1
    <3> QED
        BY <1>1, <1>2, <1>5, <2>4, <3>1, <3>2
  <2> QED
      BY <2>1, <2>3, <2>4 DEF NextOnes
<1> QED
    BY <1>3, <1>5 DEF Adjacent

\* A reply to a group read hands out the next entries.
LEMMA DeliverAllHands ==
    ASSUME NEW st \in StreamOK, NEW g \in Group, NEW c \in Consumer,
           NEW s \in CanDeliver(g, c), HandsOut(s, st), NEW noack \in BOOLEAN,
           NEW ids \in Seq(Id), NEW from \in Nat, from = s.st.grp[g].last,
           NextOnes(ids, from, st.items),
           NEW v, v = DeliverAll(s, g, c, noack, ids)
    PROVE  /\ HandsOut(v, st) /\ v \in CanDeliver(g, c) /\ v.wait = s.wait
           /\ SameGround(v, s.st)
           /\ ids # <<>> => v.st.grp[g].last = ids[Len(ids)]
<1> DEFINE n == Len(ids)
           to(k) == IF k = 0 THEN from ELSE ids[k]
<1>1. n \in Nat /\ \A k \in 1 .. n : ids[k] \in Id /\ ids[k] \in Nat
    BY Numbers
<1>2. ASSUME NEW w \in CanDeliver(g, c), NEW id \in Id
      PROVE  Deliver(w, g, c, noack, id) \in CanDeliver(g, c)
  <2>1. PICK d : d = Deliver(w, g, c, noack, id)
      OBVIOUS
  <2>2. w \in Here1 /\ w.st.grp[g].on /\ c \in w.st.grp[g].known
      BY DEF CanDeliver
  <2>3. d \in Here1 /\ d.st.grp[g].on /\ d.st.grp[g].known = w.st.grp[g].known
      BY <2>1, <2>2, DeliverParts
  <2> QED
      BY <2>1, <2>2, <2>3 DEF CanDeliver
<1>3. PICK R \in [0 .. n -> CanDeliver(g, c)] :
            DeliverRun(R, s, g, c, noack, ids) /\ v = R[n]
  <2>1. DeliveredIn(CanDeliver(g, c), s, g, c, noack, ids)
      BY <1>2, DeliverAllRuns
  <2> QED
      BY <2>1 DEF DeliveredIn
<1> HIDE DEF n
<1> DEFINE Good(k) == /\ HandsOut(R[k], st) /\ R[k].wait = s.wait
                      /\ SameGround(R[k], s.st) /\ R[k].st.grp[g].last = to(k)
           S == {k \in Nat : k <= n => Good(k)}
<1>a. s \in Here1 /\ s.st \in StreamOK /\ st.items \in SUBSET Id
    BY Here1Parts, LastNat DEF CanDeliver
<1>4. 0 \in S
  <2>1. R[0] = s
      BY <1>3 DEF DeliverRun
  <2>2. SameGround(s, s.st)
    <3>1. \A h \in Group : s.st.grp[h].last \in Nat
        BY <1>a, LastNat
    <3> QED
        BY <3>1 DEF SameGround
  <2> QED
      BY <2>1, <2>2
<1>5. ASSUME NEW k \in Nat, k \in S PROVE k + 1 \in S
  <2> SUFFICES ASSUME k + 1 <= n PROVE Good(k + 1)
      OBVIOUS
  <2>1. k + 1 \in 1 .. n /\ (k + 1) - 1 = k /\ k <= n /\ k \in 0 .. n
        /\ (k # 0 => k \in 1 .. n) /\ k + 1 \in 0 .. n /\ k + 1 # 0
      BY <1>1
  <2>2. Good(k)
      BY <1>5, <2>1
  <2>a. PICK w \in CanDeliver(g, c) : w = R[k]
      BY <1>3, <2>1
  <2>b. PICK d : d = R[k + 1]
      OBVIOUS
  <2>c. PICK id \in Id : id = ids[k + 1]
      BY <1>1, <2>1
  <2>3. w = R[k] /\ d = R[k + 1] /\ id = ids[k + 1]
      BY <2>a, <2>b, <2>c
  <2>4. d = Deliver(w, g, c, noack, id)
      BY <1>3, <2>1, <2>3 DEF DeliverRun, n
  <2>5. id > w.st.grp[g].last /\ \A i \in st.items : ~(w.st.grp[g].last < i /\ i < id)
    <3>1. PICK t \in Nat : t = to(k)
        BY <1>1, <2>1
    <3>2. t = Before(ids, from, k + 1)
        BY <2>1, <3>1 DEF Before
    <3>3. PICK p \in 1 .. Len(ids) : p = k + 1
        BY <2>1 DEF n
    <3>4. ids[p] > t /\ \A i \in st.items : ~(t < i /\ i < ids[p])
      <4>1. t = Before(ids, from, p)
          BY <3>2, <3>3
      <4>2. Adjacent(st.items, t, ids[p])
          BY <1>a, <4>1, NextOne
      <4> QED
          BY <4>2 DEF Adjacent
    <3> QED
        BY <2>2, <2>3, <3>1, <3>3, <3>4
  <2>6. HandsOut(w, st)
      BY <2>2, <2>3
  <2>7. /\ HandsOut(d, st) /\ d.wait = w.wait
        /\ d.st.grp[g].last = id /\ SameGround(d, w.st)
      BY <2>3, <2>4, <2>5, <2>6, DeliverHands
  <2>8. SameGround(d, s.st)
    <3>1. d \in Here1 /\ w \in Here1
        BY <2>3, <2>7 DEF CanDeliver, HandsOut
    <3>2. SameGround(w, s.st)
        BY <2>2, <2>3
    <3> QED
        BY <1>a, <2>7, <3>1, <3>2, GroundTwice
  <2>9. to(k + 1) = id
      BY <2>1, <2>3
  <2> QED
      BY <2>2, <2>3, <2>7, <2>8, <2>9
<1>6. Good(n)
  <2>1. \A k \in Nat : k \in S
    <3> HIDE DEF S
    <3> QED
        BY <1>4, <1>5, Induction
  <2> QED
      BY <1>1, <2>1
<1>7. ids # <<>> => n # 0
    BY DEF n
<1>8. n \in 0 .. n
    BY <1>1
<1> QED
    BY <1>3, <1>6, <1>7, <1>8 DEF n

\* A reply to a group read.
LEMMA ReplyHands ==
    ASSUME NEW st \in StreamOK, NEW g \in Group, NEW c \in Consumer,
           NEW s \in CanDeliver(g, c), HandsOut(s, st), NEW noack \in BOOLEAN,
           NEW from \in Nat, from = s.st.grp[g].last, NEW count \in Nat,
           NEW v, v = streamReplyWithRange(s, g, c, from, count, noack)
    PROVE  HandsOut(v, st) /\ v.wait = s.wait /\ SameGround(v, s.st)
<1>a. s \in Here1 /\ s.st \in StreamOK /\ st.items \in SUBSET Id
    BY Here1Parts, LastNat DEF CanDeliver
<1>1. PICK ids \in Seq(s.st.items) :
            /\ ids \in Seq(Id) /\ NextOnes(ids, from, s.st.items)
            /\ RepliedWith(v, s, g, c, noack, ids)
    BY <1>a, ReplyIs
<1>2. NextOnes(ids, from, st.items)
  <2>1. s.st.items = st.items
      BY DEF HandsOut, SameGround
  <2> QED
      BY <1>1, <2>1
<1>3. PICK t : t = DeliverAll(s, g, c, noack, ids)
               /\ v = IF noack /\ t.st.grp[g].last # s.st.grp[g].last
                      THEN streamPropagateGroupID(t, g) ELSE t
    BY <1>1 DEF RepliedWith
<1>4. HandsOut(t, st) /\ t \in CanDeliver(g, c) /\ t.wait = s.wait /\ SameGround(t, s.st)
    BY <1>1, <1>2, <1>3, DeliverAllHands
<1>5. CASE v = t
    BY <1>4, <1>5
<1>6. CASE v # t
  <2>1. v = streamPropagateGroupID(t, g)
      BY <1>3, <1>6
  <2>2. PICK b \in BOOLEAN : b = FALSE /\ Server(b) = Here1
      BY DEF Here1
  <2>3. t \in Server(b)
      BY <1>4, <2>2 DEF CanDeliver
  <2>4. v \in Server(b) /\ v.st = t.st /\ v.wait = t.wait /\ v.new = t.new
      BY <2>1, <2>3, PropagateGroup
  <2>5. v \in Here1
      BY <2>2, <2>4
  <2>6. HandsOut(v, st)
      BY <1>4, <2>4, <2>5, HandsOutSame
  <2> QED
      BY <1>4, <2>4, <2>6 DEF SameGround
<1> QED
    BY <1>5, <1>6

\* Before anything is handed out.
LEMMA HandsOutNothing ==
    ASSUME NEW s \in Here1, s.new = <<>>
    PROVE  HandsOut(s, s.st)
<1>1. \A g \in Group : s.st.grp[g].last \in Nat
    BY Here1Parts, LastNat
<1>2. s.st.items \in SUBSET Id
    BY Here1Parts, StreamParts
<1>3. SameGround(s, s.st)
    BY <1>1 DEF SameGround
<1>4. Len(s.new) = 0 /\ 1 .. Len(s.new) = {}
    OBVIOUS
<1>5. ASSUME NEW g \in Group
      PROVE  NewIn(s.new, g, s.st.grp[g].last, s.st.grp[g].last, s.st.items)
  <2>1. \A id \in s.st.items : id \in Nat
      BY <1>2, Numbers
  <2>2. \A id \in s.st.items : ~(id > s.st.grp[g].last /\ id <= s.st.grp[g].last)
      BY <1>1, <2>1
  <2> QED
      BY <1>4, <2>2 DEF NewIn
<1> QED
    BY <1>3, <1>4, <1>5 DEF HandsOut

\* A consumer, new or known, that reads what is new to its group.
LEMMA NewsHands ==
    ASSUME NEW st \in StreamOK, NEW s, HandsOut(s, st), NEW g \in Group,
           s.st.grp[g].on, NEW c \in Consumer, NEW noack \in BOOLEAN,
           NEW count \in Nat,
           NEW t, t = streamReplyWithRange(WithConsumer(s, g, c, noack), g, c,
                                           s.st.grp[g].last, count, noack)
    PROVE  HandsOut(t, st) /\ t.wait = s.wait /\ SameGround(t, s.st)
<1>1. s \in Here1
    BY DEF HandsOut
<1>2. PICK u : u = WithConsumer(s, g, c, noack)
    OBVIOUS
<1>3. /\ u \in CanDeliver(g, c)
      /\ u.wait = s.wait /\ u.new = s.new /\ u.ready = s.ready
      /\ u.st.on /\ u.st.items = s.st.items /\ u.st.last = s.st.last
      /\ u.st.grp[g].on /\ u.st.grp[g].last = s.st.grp[g].last
      /\ u.st.grp[g].cpel = s.st.grp[g].cpel /\ u.st.grp[g].pel = s.st.grp[g].pel
      /\ \A h \in Group : h # g => u.st.grp[h] = s.st.grp[h]
    BY <1>1, <1>2, WithConsumerOK
<1>4. u \in Here1
    BY <1>3 DEF CanDeliver
<1>5. /\ \A h \in Group : u.st.grp[h].on = s.st.grp[h].on
                          /\ u.st.grp[h].last = s.st.grp[h].last
      /\ u.st.on = s.st.on
  <2>1. u.st \in StreamOK /\ s.st \in StreamOK
      BY <1>1, <1>4, Here1Parts
  <2>2. /\ s.st.on \in BOOLEAN /\ u.st.on \in BOOLEAN /\ s.st.on
        /\ u.st.grp[g].on \in BOOLEAN /\ s.st.grp[g].on \in BOOLEAN
      BY <2>1, StreamParts
  <2>3. u.st.grp[g].on = s.st.grp[g].on
      BY <1>3, <2>2
  <2>4. u.st.on = s.st.on
      BY <1>3, <2>2
  <2> QED
      BY <1>3, <2>3, <2>4
<1>6. HandsOut(u, st) /\ SameGround(u, s.st)
    BY <1>3, <1>4, <1>5, HandsOutSame
<1>7. PICK from \in Nat : from = u.st.grp[g].last
    BY <1>4, Here1Parts, LastNat
<1>8. t = streamReplyWithRange(u, g, c, from, count, noack)
    BY <1>2, <1>3, <1>7
<1>9. HandsOut(t, st) /\ t.wait = u.wait /\ SameGround(t, u.st)
    BY <1>3, <1>6, <1>7, <1>8, ReplyHands
<1>10. t \in Here1 /\ s.st \in StreamOK
    BY <1>1, <1>9, Here1Parts DEF HandsOut
<1>11. SameGround(t, s.st)
    BY <1>4, <1>6, <1>9, <1>10, GroundTwice
<1> QED
    BY <1>3, <1>9, <1>11

\* A blocked reader there is nothing for.
Contented(st, w) ==
    IF w.g = Nobody THEN w.gt >= st.last
    ELSE st.grp[w.g].on /\ st.grp[w.g].last >= st.last

\* A blocked reader that is tried: it has nothing to have, or is gone.
LEMMA ServeReaderHands ==
    ASSUME NEW st \in StreamOK, NEW s, HandsOut(s, st), NEW w \in Reader,
           NEW v, v = ServeReader(s, w)
    PROVE  /\ HandsOut(v, st) /\ SameGround(v, s.st)
           /\ \/ v = s /\ Contented(s.st, w)
              \/ v.wait = RemoveFirst(s.wait, w)
<1>1. s \in Here1 /\ s.st \in StreamOK
    BY Here1Parts DEF HandsOut
<1>2. ASSUME NEW u, HandsOut(u, st), SameGround(u, s.st), u.wait = s.wait,
             v = Woken(u, w)
      PROVE  HandsOut(v, st) /\ SameGround(v, s.st) /\ v.wait = RemoveFirst(s.wait, w)
  <2>1. u \in Here1
      BY <1>2 DEF HandsOut
  <2>2. /\ v \in Here1 /\ v.st = u.st /\ v.new = u.new
        /\ v.wait = RemoveFirst(u.wait, w)
      BY <1>2, <2>1, WokenOK
  <2>3. HandsOut(v, st)
      BY <1>2, <2>2, HandsOutSame
  <2> QED
      BY <1>2, <2>2, <2>3 DEF SameGround
<1>3. SameGround(s, s.st)
  <2>1. \A h \in Group : s.st.grp[h].last \in Nat
      BY <1>1, LastNat
  <2> QED
      BY <2>1 DEF SameGround
<1>4. /\ w.g \in Group \cup {Nobody} /\ w.c \in Consumer /\ w.noack \in BOOLEAN
      /\ w.count \in Nat /\ w.gt \in Nat
    BY Numbers DEF Reader
<1>5. s.st.last \in Nat /\ \A h \in Group : s.st.grp[h].last \in Nat
    BY <1>1, LastNat, StreamParts, Numbers
<1>6. CASE w.g = Nobody
  <2>1. CASE s.st.last <= w.gt
    <3>1. v = s
        BY <1>6, <2>1 DEF ServeReader
    <3>2. Contented(s.st, w)
        BY <1>4, <1>5, <1>6, <2>1 DEF Contented
    <3> QED
        BY <1>3, <3>1, <3>2
  <2>2. CASE ~(s.st.last <= w.gt)
    <3>1. v = Woken(s, w)
        BY <1>6, <2>2 DEF ServeReader
    <3> QED
        BY <1>2, <1>3, <3>1
  <2> QED
      BY <2>1, <2>2
<1>7. CASE w.g # Nobody
  <2>1. w.g \in Group
      BY <1>4, <1>7
  <2>2. CASE ~s.st.grp[w.g].on
    <3>1. v = Woken(s, w)
        BY <1>7, <2>2 DEF ServeReader
    <3> QED
        BY <1>2, <1>3, <3>1
  <2>3. CASE s.st.grp[w.g].on
    <3>1. PICK t : t = streamReplyWithRange(WithConsumer(s, w.g, w.c, w.noack), w.g, w.c,
                                            s.st.grp[w.g].last, w.count, w.noack)
        OBVIOUS
    <3>2. HandsOut(t, st) /\ t.wait = s.wait /\ SameGround(t, s.st)
        BY <1>4, <2>1, <2>3, <3>1, NewsHands
    <3>3. CASE s.st.last <= s.st.grp[w.g].last
      <4>1. v = s
          BY <1>7, <2>3, <3>3 DEF ServeReader
      <4>2. Contented(s.st, w)
          BY <1>5, <1>7, <2>1, <2>3, <3>3 DEF Contented
      <4> QED
          BY <1>3, <4>1, <4>2
    <3>4. CASE ~(s.st.last <= s.st.grp[w.g].last)
      <4>1. v = Woken(t, w)
          BY <1>7, <2>3, <3>1, <3>4 DEF ServeReader
      <4> QED
          BY <1>2, <3>2, <4>1
    <3> QED
        BY <3>3, <3>4
  <2> QED
      BY <2>2, <2>3
<1> QED
    BY <1>6, <1>7

\* Each connection waits once (XREAD is sent by one that is not blocked).
NoTwice(q) == \A i, j \in 1 .. Len(q) : i # j => q[i].c # q[j].c

LEMMA FirstRemoved ==
    ASSUME NEW q \in Seq(Reader), NoTwice(q), NEW w, NEW u, u = RemoveFirst(q, w)
    PROVE  /\ u \in Seq(Reader) /\ NoTwice(u)
           /\ \A i \in 1 .. Len(u) : u[i] # w /\ \E j \in 1 .. Len(q) : u[i] = q[j]
<1>1. CASE u = q /\ \A i \in 1 .. Len(q) : q[i] # w
    BY <1>1
<1>2. CASE \E i \in 1 .. Len(q) : q[i] = w /\ u = RemoveAt(q, i)
  <2>1. PICK k \in 1 .. Len(q) : q[k] = w /\ u = RemoveAt(q, k)
      BY <1>2
  <2>2. /\ u \in Seq(Reader) /\ Len(u) = Len(q) - 1
        /\ \A i \in 1 .. Len(q) - 1 : u[i] = IF i < k THEN q[i] ELSE q[i + 1]
      BY <2>1, RemoveAtOK
  <2> DEFINE from(i) == IF i < k THEN i ELSE i + 1
  <2>3. ASSUME NEW i \in 1 .. Len(u)
        PROVE  from(i) \in 1 .. Len(q) /\ u[i] = q[from(i)] /\ from(i) # k
      BY <2>2
  <2>4. \A i, j \in 1 .. Len(u) : i # j => from(i) # from(j)
      OBVIOUS
  <2> HIDE DEF from
  <2>5. NoTwice(u)
      BY <2>3, <2>4 DEF NoTwice
  <2>6. ASSUME NEW i \in 1 .. Len(u) PROVE u[i] # w
    <3>1. q[from(i)].c # q[k].c
        BY <2>3 DEF NoTwice
    <3> QED
        BY <2>1, <2>3, <3>1
  <2> QED
      BY <2>2, <2>3, <2>5, <2>6
<1> QED
    BY <1>1, <1>2, RemoveFirstOK

LEMMA ContentedStays ==
    ASSUME NEW st \in StreamOK, NEW v \in Here1, SameGround(v, st), NEW w \in Reader,
           Contented(st, w)
    PROVE  Contented(v.st, w)
<1>1. \A g \in Group : st.grp[g].last \in Nat /\ v.st.grp[g].last \in Nat
    BY Here1Parts, LastNat
<1>2. w.g \in Group \cup {Nobody} /\ st.last \in Nat
    BY StreamParts, Numbers DEF Reader
<1>3. CASE w.g = Nobody
    BY <1>3 DEF Contented, SameGround
<1>4. CASE w.g # Nobody
  <2>1. w.g \in Group
      BY <1>2, <1>4
  <2> QED
      BY <1>1, <1>2, <1>4, <2>1 DEF Contented, SameGround
<1> QED
    BY <1>3, <1>4

\* The readers of q from the k-th on are still to be tried.
StillToTry(u, q, k) ==
    \A i \in 1 .. Len(u.wait) :
        \/ Contented(u.st, u.wait[i])
        \/ \E m \in 1 .. Len(q) : m >= k /\ q[m] = u.wait[i]

\* Every blocked reader is tried once: those left have nothing to have.
LEMMA ServeAllHands ==
    ASSUME NEW st \in StreamOK, NEW s, HandsOut(s, st), NoTwice(s.wait),
           NEW v, v = ServeAll(s, s.wait)
    PROVE  /\ HandsOut(v, st) /\ NoTwice(v.wait) /\ SameGround(v, s.st)
           /\ \A i \in 1 .. Len(v.wait) : Contented(v.st, v.wait[i])
<1> DEFINE q == s.wait
           n == Len(q)
<1>a. s \in Here1 /\ s.st \in StreamOK /\ q \in Seq(Reader)
    BY Here1Parts DEF HandsOut
<1>1. n \in Nat /\ \A k \in 1 .. n : q[k] \in Reader
    BY <1>a
<1>2. \A t \in Here1, w \in Reader : ServeReader(t, w) \in Here1
    BY ServeReaderOK
<1>3. PICK R \in [0 .. n -> Here1] : ServeRun(R, s, q) /\ v = R[n]
    BY <1>2, <1>a, ServeAllRuns
<1> HIDE DEF n, q
<1> DEFINE Good(k) == /\ HandsOut(R[k], st) /\ NoTwice(R[k].wait)
                      /\ SameGround(R[k], s.st) /\ StillToTry(R[k], q, k + 1)
           S == {k \in Nat : k <= n => Good(k)}
<1>4. 0 \in S
  <2>1. R[0] = s
      BY <1>3 DEF ServeRun
  <2>2. SameGround(s, s.st)
    <3>1. \A h \in Group : s.st.grp[h].last \in Nat
        BY <1>a, LastNat
    <3> QED
        BY <3>1 DEF SameGround
  <2>3. StillToTry(s, q, 1)
      BY DEF StillToTry, q
  <2> QED
      BY <2>1, <2>2, <2>3
<1>5. ASSUME NEW k \in Nat, k \in S PROVE k + 1 \in S
  <2> SUFFICES ASSUME k + 1 <= n PROVE Good(k + 1)
      OBVIOUS
  <2>1. k + 1 \in 1 .. n /\ (k + 1) - 1 = k /\ k <= n /\ k \in 0 .. n
      BY <1>1
  <2>2. Good(k)
      BY <1>5, <2>1
  <2>a. PICK u \in Here1 : u = R[k]
      BY <1>3, <2>1
  <2>b. PICK d : d = R[k + 1]
      OBVIOUS
  <2>c. PICK w \in Reader : w = q[k + 1]
      BY <1>1, <2>1
  <2>3. d = ServeReader(u, w)
      BY <1>3, <2>1, <2>a, <2>b, <2>c DEF ServeRun, n
  <2>4. HandsOut(u, st) /\ NoTwice(u.wait) /\ SameGround(u, s.st) /\ StillToTry(u, q, k + 1)
      BY <2>2, <2>a
  <2>5. /\ HandsOut(d, st) /\ SameGround(d, u.st)
        /\ \/ d = u /\ Contented(u.st, w)
           \/ d.wait = RemoveFirst(u.wait, w)
      BY <2>3, <2>4, ServeReaderHands
  <2>6. d \in Here1 /\ u.st \in StreamOK /\ u.wait \in Seq(Reader) /\ d.wait \in Seq(Reader)
      BY <2>5, Here1Parts DEF HandsOut
  <2>7. SameGround(d, s.st)
      BY <1>a, <2>4, <2>5, <2>6, GroundTwice
  <2>8. /\ NoTwice(d.wait)
        /\ \A i \in 1 .. Len(d.wait) : \E j \in 1 .. Len(u.wait) : d.wait[i] = u.wait[j]
        /\ \A i \in 1 .. Len(d.wait) : d.wait[i] = w => Contented(d.st, w)
    <3>1. CASE d = u /\ Contented(u.st, w)
        BY <2>4, <3>1
    <3>2. CASE d.wait = RemoveFirst(u.wait, w)
        BY <2>4, <2>6, <3>2, FirstRemoved
    <3> QED
        BY <2>5, <3>1, <3>2
  <2>9. StillToTry(d, q, (k + 1) + 1)
    <3> SUFFICES ASSUME NEW i \in 1 .. Len(d.wait), ~Contented(d.st, d.wait[i])
                 PROVE  \E m \in 1 .. Len(q) : m >= (k + 1) + 1 /\ q[m] = d.wait[i]
        BY DEF StillToTry
    <3>1. PICK j \in 1 .. Len(u.wait) : d.wait[i] = u.wait[j]
        BY <2>8
    <3>2. d.wait[i] \in Reader /\ d.wait[i] # w
        BY <2>6, <2>8
    <3>3. ~Contented(u.st, u.wait[j])
        BY <2>5, <2>6, <3>1, <3>2, ContentedStays
    <3>4. PICK m \in 1 .. Len(q) : m >= k + 1 /\ q[m] = u.wait[j]
        BY <2>4, <3>3 DEF StillToTry
    <3>5. m # k + 1
        BY <2>c, <3>1, <3>2, <3>4
    <3> QED
        BY <3>1, <3>4, <3>5
  <2> QED
      BY <2>b, <2>5, <2>7, <2>8, <2>9
<1>6. Good(n)
  <2>1. \A k \in Nat : k \in S
    <3> HIDE DEF S
    <3> QED
        BY <1>4, <1>5, Induction
  <2> QED
      BY <1>1, <2>1
<1>7. ASSUME NEW i \in 1 .. Len(v.wait) PROVE Contented(v.st, v.wait[i])
  <2>1. ~\E m \in 1 .. Len(q) : m >= n + 1 /\ q[m] = v.wait[i]
      BY <1>1 DEF n
  <2> QED
      BY <1>3, <1>6, <2>1 DEF StillToTry
<1> QED
    BY <1>3, <1>6, <1>7

LEMMA ServedHands ==
    ASSUME NEW st \in StreamOK, NEW s, HandsOut(s, st), NoTwice(s.wait),
           NEW v, v = serveClientsBlockedOnStreamKey(s)
    PROVE  /\ HandsOut(v, st) /\ NoTwice(v.wait) /\ SameGround(v, s.st)
           /\ ~(s.ready /\ s.st.on) => v = s
           /\ s.ready /\ s.st.on =>
                \A i \in 1 .. Len(v.wait) : Contented(v.st, v.wait[i])
<1>1. SameGround(s, s.st)
  <2>1. \A h \in Group : s.st.grp[h].last \in Nat
      BY Here1Parts, LastNat DEF HandsOut
  <2> QED
      BY <2>1 DEF SameGround
<1>2. CASE s.ready /\ s.st.on
  <2>1. v = ServeAll(s, s.wait)
      BY <1>2 DEF serveClientsBlockedOnStreamKey
  <2>2. /\ HandsOut(v, st) /\ NoTwice(v.wait) /\ SameGround(v, s.st)
        /\ \A i \in 1 .. Len(v.wait) : Contented(v.st, v.wait[i])
      BY <2>1, ServeAllHands
  <2> QED
      BY <1>2, <2>2
<1>3. CASE ~(s.ready /\ s.st.on)
  <2>1. v = s
      BY <1>3 DEF serveClientsBlockedOnStreamKey
  <2> QED
      BY <1>1, <1>3, <2>1
<1> QED
    BY <1>2, <1>3

-----------------------------------------------------------------------------
(* What a command does to the groups, and when it makes the key ready.       *)

LastKept(u, s, g) ==
    u.st.grp[g].on => s.st.grp[g].on /\ u.st.grp[g].last = s.st.grp[g].last

\* A command that makes the key ready sets no last ID of a group it found.
KeptBy(u, s, cmd, g) ==
    \/ LastKept(u, s, g)
    \/ SetsLastId(cmd, g) /\ ~(u.ready /\ ~s.ready /\ s.st.grp[g].on)

\* It hands out nothing, and new entries make the key ready.
Quiet(u, s) ==
    /\ u.wait = s.wait /\ u.new = s.new /\ (s.ready => u.ready)
    /\ u.st.items \subseteq s.st.items \/ u.ready \/ s.wait = <<>>

Effect(u, s, cmd) ==
    u \in Here1 /\ Quiet(u, s) /\ \A g \in Group : KeptBy(u, s, cmd, g)

LEMMA SameEffect ==
    ASSUME NEW s \in Here1, NEW cmd
    PROVE  Effect(s, s, cmd)
    BY DEF Effect, Quiet, KeptBy, LastKept

LEMMA SameGroups ==
    ASSUME NEW s \in Here1, NEW u \in Here1, u.st.grp = s.st.grp, Quiet(u, s), NEW cmd
    PROVE  Effect(u, s, cmd)
    BY DEF Effect, KeptBy, LastKept

LEMMA XaddEffect ==
    ASSUME NEW s \in Here1, NEW cmd, cmd.trim \in Trim, cmd.id \in 0 .. MaxId,
           NEW u, u = xaddCommand(s, cmd)
    PROVE  Effect(u, s, cmd)
<1>b. PICK b \in BOOLEAN : b = FALSE /\ Server(b) = Here1
    BY DEF Here1
<1>1. PICK id : id = IdFor(s.st, cmd)
    OBVIOUS
<1>2. AddsNot(u, s, id) \/ Adds(u, s, b, cmd, id)
  <2>1. s \in Server(b)
      BY <1>b
  <2> QED
      BY <1>1, <2>1, XaddIs
<1>3. CASE AddsNot(u, s, id)
    BY <1>3, SameEffect DEF AddsNot
<1>4. CASE Adds(u, s, b, cmd, id)
  <2>1. /\ id \in Id /\ id > s.st.last /\ u \in Here1
        /\ u.st = AddedTo(s.st, id, cmd.trim, NodeSize[b])
        /\ u.wait = s.wait /\ u.new = s.new /\ u.ready = (s.ready \/ s.wait # <<>>)
      BY <1>b, <1>4 DEF Adds
  <2>2. PICK a : a = streamAppendItem(s.st, id)
      OBVIOUS
  <2>3. s.st \in StreamOK
      BY Here1Parts
  <2>4. a \in StreamOK /\ a.on /\ a.grp = s.st.grp
      BY <2>1, <2>2, <2>3, AppendOK
  <2>5. u.st = streamTrim(a, cmd.trim, NodeSize[b])
      BY <2>1, <2>2 DEF AddedTo
  <2>6. u.st.grp = a.grp
    <3>1. PICK x : x = u.st
        OBVIOUS
    <3>2. PICK size : size = NodeSize[b]
        OBVIOUS
    <3>3. x = streamTrim(a, cmd.trim, size)
        BY <2>5, <3>1, <3>2
    <3>4. x.grp = a.grp
        BY <2>4, <3>3, TrimOK
    <3> QED
        BY <3>1, <3>4
  <2>7. Quiet(u, s)
      BY <2>1 DEF Quiet
  <2> QED
      BY <2>1, <2>4, <2>6, <2>7, SameGroups
<1> QED
    BY <1>2, <1>3, <1>4

\* A stream with fewer entries put in its place.
LEMMA FewerEffect ==
    ASSUME NEW s \in Here1, NEW cmd, NEW st, NEW items, NEW last,
           Kin(st, s.st, items, last), items \subseteq s.st.items,
           NEW as \in Command, NEW u, DoneTo(u, s, st, as)
    PROVE  Effect(u, s, cmd)
<1>b. PICK b \in BOOLEAN : b = FALSE /\ Server(b) = Here1
    BY DEF Here1
<1>1. st \in StreamOK /\ st.items = items /\ st.grp = s.st.grp
    BY DEF Kin
<1>2. DoneParts(u, s, b, st, as)
    BY <1>b, <1>1, DoneOK
<1>3. u \in Here1 /\ u.st = st /\ u.wait = s.wait /\ u.ready = s.ready /\ u.new = s.new
    BY <1>b, <1>2 DEF DoneParts
<1>4. Quiet(u, s)
    BY <1>1, <1>3 DEF Quiet
<1> QED
    BY <1>1, <1>3, <1>4, SameGroups

LEMMA XtrimEffect ==
    ASSUME NEW s \in Here1, NEW cmd, cmd.trim \in Trim,
           NEW u, u = xtrimCommand(s, cmd)
    PROVE  Effect(u, s, cmd)
<1>b. PICK b \in BOOLEAN : b = FALSE /\ Server(b) = Here1
    BY DEF Here1
<1>1. TrimIs(u, s, b, cmd)
    BY <1>b, XtrimIs
<1>2. PICK st : /\ TrimmedTo(st, s.st, cmd.trim, NodeSize[b])
                /\ \/ st.items = s.st.items /\ u = s
                   \/ /\ st.items # s.st.items
                      /\ Kin(st, s.st, st.items, s.st.last)
                      /\ TrimmedAs(st, cmd.trim) \in Command
                      /\ DoneTo(u, s, st, TrimmedAs(st, cmd.trim))
    BY <1>1 DEF TrimIs
<1>3. CASE u = s
    BY <1>3, SameEffect
<1>4. CASE u # s
  <2>1. PICK as : as = TrimmedAs(st, cmd.trim)
      OBVIOUS
  <2>2. /\ Kin(st, s.st, st.items, s.st.last)
        /\ as \in Command /\ DoneTo(u, s, st, as)
      BY <1>2, <1>4, <2>1
  <2>3. st.items \subseteq s.st.items
    <3>1. s.st \in StreamOK
        BY Here1Parts
    <3>2. st.items = Kept(s.st.items, s.st.last, cmd.trim, NodeSize[b])
        BY <1>2, <3>1, TrimKeeps DEF TrimmedTo
    <3> QED
        BY <3>2 DEF Kept
  <2> QED
      BY <2>2, <2>3, FewerEffect
<1> QED
    BY <1>3, <1>4

LEMMA XdelEffect ==
    ASSUME NEW s \in Here1, NEW cmd \in Command, NEW u, u = xdelCommand(s, cmd)
    PROVE  Effect(u, s, cmd)
<1>b. PICK b \in BOOLEAN : b = FALSE /\ Server(b) = Here1
    BY DEF Here1
<1>1. DelIs(u, s, cmd)
    BY <1>b, XdelIs
<1>2. CASE u = s
    BY <1>2, SameEffect
<1>3. CASE u # s
  <2>1. PICK items : items = s.st.items \ {cmd.id}
      OBVIOUS
  <2>2. PICK st : Kin(st, s.st, items, s.st.last) /\ DoneTo(u, s, st, cmd)
      BY <1>1, <1>3, <2>1 DEF DelIs
  <2>3. items \subseteq s.st.items
      BY <2>1
  <2> QED
      BY <2>2, <2>3, FewerEffect
<1> QED
    BY <1>2, <1>3

LEMMA XsetidEffect ==
    ASSUME NEW s \in Here1, NEW cmd \in Command, cmd.id \in 0 .. MaxId,
           NEW u, u = xsetidCommand(s, cmd)
    PROVE  Effect(u, s, cmd)
<1>b. PICK b \in BOOLEAN : b = FALSE /\ Server(b) = Here1
    BY DEF Here1
<1>1. SetIs(u, s, cmd)
    BY <1>b, XsetidIs
<1>2. CASE u = s
    BY <1>2, SameEffect
<1>3. CASE u # s
  <2>2. PICK st : Kin(st, s.st, s.st.items, cmd.id) /\ DoneTo(u, s, st, cmd)
      BY <1>1, <1>3 DEF SetIs
  <2> QED
      BY <2>2, FewerEffect
<1> QED
    BY <1>2, <1>3

LEMMA DelEffect ==
    ASSUME NEW s \in Here1, NEW cmd \in Command, NEW u, u = delStream(s, cmd)
    PROVE  Effect(u, s, cmd)
<1>b. PICK b \in BOOLEAN : b = FALSE /\ Server(b) = Here1
    BY DEF Here1
<1>1. CASE ~s.st.on
    BY <1>1, SameEffect DEF delStream
<1>2. CASE s.st.on
  <2>1. PICK none : none = NoStream /\ none \in StreamOK
      BY NoStreamOK
  <2>2. DoneTo(u, s, none, cmd)
      BY <1>2, <2>1 DEF delStream, DoneTo
  <2>3. DoneParts(u, s, b, none, cmd)
      BY <1>b, <2>1, <2>2, DoneOK
  <2>4. u \in Here1 /\ u.st = none /\ u.wait = s.wait /\ u.ready = s.ready /\ u.new = s.new
      BY <1>b, <2>3 DEF DoneParts
  <2>5. none.items = {} /\ \A g \in Group : ~none.grp[g].on
      BY <2>1 DEF NoStream, NoGroup
  <2>6. Quiet(u, s)
      BY <2>4, <2>5 DEF Quiet
  <2> QED
      BY <2>4, <2>5, <2>6 DEF Effect, KeptBy, LastKept
<1> QED
    BY <1>1, <1>2

LEMMA XackEffect ==
    ASSUME NEW s \in Here1, NEW cmd \in Command, cmd.g \in Group, cmd.id \in Id,
           NEW u, u = xackCommand(s, cmd)
    PROVE  Effect(u, s, cmd)
<1>b. PICK b \in BOOLEAN : b = FALSE /\ Server(b) = Here1
    BY DEF Here1
<1>1. AckIs(u, s, b, cmd)
    BY <1>b, XackIs
<1>2. CASE u = s
    BY <1>2, SameEffect
<1>3. CASE u # s
  <2>1. PICK gr : gr = Settle(s.st.grp[cmd.g], cmd.id)
      OBVIOUS
  <2>2. /\ Regrouped(u.st, s.st, cmd.g, gr) /\ u \in Here1
        /\ u.wait = s.wait /\ u.new = s.new /\ u.ready = s.ready
      BY <1>b, <1>1, <1>3, <2>1 DEF AckIs
  <2>3. s.st.grp[cmd.g] \in GroupOK
      BY Here1Parts, StreamParts
  <2>4. Settled(gr, s.st.grp[cmd.g], cmd.id)
      BY <2>1, <2>3, SettleOK
  <2>5. gr.on = s.st.grp[cmd.g].on /\ gr.last = s.st.grp[cmd.g].last
      BY <2>4 DEF Settled
  <2>6. u.st.items = s.st.items /\ u.st.grp[cmd.g] = gr
        /\ \A h \in Group : h # cmd.g => u.st.grp[h] = s.st.grp[h]
      BY <2>2 DEF Regrouped
  <2>7. \A g \in Group : LastKept(u, s, g)
      BY <2>5, <2>6 DEF LastKept
  <2>8. Quiet(u, s)
      BY <2>2, <2>6 DEF Quiet
  <2> QED
      BY <2>2, <2>7, <2>8 DEF Effect, KeptBy
<1> QED
    BY <1>2, <1>3

LEMMA XgroupEffect ==
    ASSUME NEW s \in Here1, NEW cmd \in Command, cmd.g \in Group,
           cmd.op \in {"create", "setid", "destroy", "createconsumer", "delconsumer"},
           cmd.op \in {"createconsumer", "delconsumer"} => cmd.c \in Consumer,
           NEW u, u = xgroupCommand(s, cmd)
    PROVE  Effect(u, s, cmd)
<1>b. PICK b \in BOOLEAN : b = FALSE /\ Server(b) = Here1
    BY DEF Here1
<1>1. GroupIs(u, s, b, cmd)
    BY <1>b, XgroupIs
<1>2. CASE u = s
    BY <1>2, SameEffect
<1>3. CASE u # s
  <2>1. PICK gr : gr = NewGroup(s.st, cmd)
      OBVIOUS
  <2>2. /\ Changes(s.st, cmd) /\ Regrouped(u.st, s.st, cmd.g, gr) /\ u \in Here1
        /\ u.wait = s.wait /\ u.new = s.new /\ (s.ready => u.ready)
        /\ cmd.op = "setid" => u.ready = s.ready
      BY <1>b, <1>1, <1>3, <2>1 DEF GroupIs
  <2>3. PICK old \in GroupOK : old = s.st.grp[cmd.g]
      BY Here1Parts, StreamParts
  <2>4. u.st.items = s.st.items /\ u.st.grp[cmd.g] = gr
        /\ \A h \in Group : h # cmd.g => u.st.grp[h] = s.st.grp[h]
      BY <2>2 DEF Regrouped
  <2>5. Quiet(u, s)
      BY <2>2, <2>4 DEF Quiet
  <2>6. KeptBy(u, s, cmd, cmd.g)
    <3>1. CASE cmd.op = "create"
      <4>1. ~s.st.grp[cmd.g].on
          BY <2>2, <3>1 DEF Changes
      <4>2. SetsLastId(cmd, cmd.g)
          BY <3>1 DEF SetsLastId
      <4> QED
          BY <4>1, <4>2 DEF KeptBy
    <3>2. CASE cmd.op = "setid"
      <4>1. SetsLastId(cmd, cmd.g)
          BY <3>2 DEF SetsLastId
      <4> QED
          BY <2>2, <3>2, <4>1 DEF KeptBy
    <3>3. CASE cmd.op = "destroy"
      <4>1. gr = NoGroup
          BY <2>1, <3>3 DEF NewGroup
      <4>2. ~gr.on
          BY <4>1 DEF NoGroup
      <4> QED
          BY <2>4, <4>2 DEF KeptBy, LastKept
    <3>4. CASE cmd.op = "createconsumer"
      <4>1. gr = streamLookupConsumer(old, cmd.c)
          BY <2>1, <2>3, <3>4 DEF NewGroup
      <4>2. \A f \in {"on", "last", "cpel", "pel"} : gr[f] = old[f]
          BY <3>4, <4>1, LookupOK
      <4>3. gr.on = old.on /\ gr.last = old.last
          BY <4>2
      <4> QED
          BY <2>3, <2>4, <4>3 DEF KeptBy, LastKept
    <3>5. CASE cmd.op = "delconsumer"
      <4>1. gr = streamDelConsumer(old, cmd.c)
          BY <2>1, <2>3, <3>5 DEF NewGroup
      <4>2. Dropped(gr, old, cmd.c)
          BY <3>5, <4>1, DelConsumerOK
      <4> QED
          BY <2>3, <2>4, <4>2 DEF KeptBy, LastKept, Dropped
    <3> QED
        BY <3>1, <3>2, <3>3, <3>4, <3>5
  <2>7. \A h \in Group : h # cmd.g => KeptBy(u, s, cmd, h)
      BY <2>4 DEF KeptBy, LastKept
  <2> QED
      BY <2>2, <2>5, <2>6, <2>7 DEF Effect
<1> QED
    BY <1>2, <1>3

\* Claims move pending entries only.
Still(u, s) ==
    /\ u \in Here1 /\ u.wait = s.wait /\ u.new = s.new /\ u.ready = s.ready
    /\ u.st.items = s.st.items
    /\ \A g \in Group : /\ u.st.grp[g].on = s.st.grp[g].on
                        /\ u.st.grp[g].last = s.st.grp[g].last

LEMMA ClaimStill ==
    ASSUME NEW s, NEW w, Still(w, s), NEW cmd, ClaimArgs(cmd),
           w.st.grp[cmd.g].on, NEW id \in Id, NEW u, u = Claim(w, cmd, id)
    PROVE  Still(u, s) /\ u.st.grp[cmd.g].on
<1>b. PICK b \in BOOLEAN : b = FALSE /\ Server(b) = Here1
    BY DEF Here1
<1>0. PICK g \in Group : g = cmd.g /\ cmd.c \in Consumer /\ cmd.idle \in BOOLEAN
    BY DEF ClaimArgs
<1>1. CASE u = w
    BY <1>1
<1>2. CASE u # w
  <2>0. w \in Server(b)
      BY <1>b DEF Still
  <2>a. PICK count \in Nat \ {0}, t \in Server(b), gr \in GroupOK :
                ClaimTaken(w, cmd, id, u, count, t, gr)
      BY <1>2, <2>0, ClaimTakes
  <2>1. /\ gr = Assign(streamLookupConsumer(w.st.grp[g], cmd.c),
                       id, cmd.c, count, cmd.idle)
        /\ gr.pel[id] = [owner |-> cmd.c, count |-> count, idle |-> cmd.idle]
        /\ t.st.grp[g] = gr /\ GroupPut(t, w, g, gr)
        /\ u = streamPropagateXCLAIM(t, g, id)
      BY <1>0, <2>a DEF ClaimTaken
  <2>2. w.st.grp[g] \in GroupOK /\ w.st.on
      BY <1>0, <2>0, ServerParts, StreamParts
  <2>3. PICK old \in GroupOK : old = w.st.grp[g]
      BY <2>2
  <2>4. gr.on = old.on /\ gr.last = old.last
    <3>1. gr = Assign(streamLookupConsumer(old, cmd.c), id, cmd.c, count, cmd.idle)
        BY <2>1, <2>3
    <3>2. count \in Nat /\ count > 0
        OBVIOUS
    <3>3. Claimed(gr, old, id, cmd.c, count, cmd.idle)
        BY <1>0, <3>1, <3>2, ClaimedIs
    <3> QED
        BY <3>3 DEF Claimed
  <2>5. /\ t.st.items = w.st.items
        /\ \A h \in Group : h # g => t.st.grp[h] = w.st.grp[h]
        /\ t.wait = w.wait /\ t.ready = w.ready /\ t.new = w.new
      BY <2>0, <2>1, <2>2, PutInServer
  <2>6. /\ u \in Server(b) /\ u.st = t.st /\ u.wait = t.wait
        /\ u.ready = t.ready /\ u.new = t.new
    <3>1. t.st.grp[g].pel[id].owner \in Consumer
        BY <1>0, <2>1
    <3> QED
        BY <2>1, <3>1, PropagateClaim
  <2>7. \A h \in Group : /\ u.st.grp[h].on = w.st.grp[h].on
                         /\ u.st.grp[h].last = w.st.grp[h].last
      BY <2>1, <2>3, <2>4, <2>5, <2>6
  <2>8. u \in Here1
      BY <1>b, <2>6
  <2>9. Still(u, s)
      BY <2>5, <2>6, <2>7, <2>8 DEF Still
  <2> QED
      BY <1>0, <2>7, <2>9
<1> QED
    BY <1>1, <1>2

LEMMA ClaimAllStill ==
    ASSUME NEW s \in Here1, NEW cmd, ClaimArgs(cmd), s.st.grp[cmd.g].on,
           NEW ids \in Seq(Id), NEW u, u = ClaimAll(s, cmd, ids)
    PROVE  Still(u, s)
<1> DEFINE X == {w \in Here1 : Still(w, s) /\ w.st.grp[cmd.g].on}
<1>1. \A w \in X, id \in Id : Claim(w, cmd, id) \in X
  <2>1. ASSUME NEW w \in X, NEW id \in Id PROVE Claim(w, cmd, id) \in X
    <3>1. PICK d : d = Claim(w, cmd, id)
        OBVIOUS
    <3>2. Still(d, s) /\ d.st.grp[cmd.g].on
        BY <3>1, ClaimStill
    <3>3. d \in Here1
        BY <3>2 DEF Still
    <3> QED
        BY <3>1, <3>2, <3>3
  <2> QED
      BY <2>1
<1>2. s \in X
    BY DEF Still
<1> HIDE DEF X
<1>3. u \in X
    BY <1>1, <1>2, ClaimAllKeeps
<1> QED
    BY <1>3 DEF X

LEMMA XclaimEffect ==
    ASSUME NEW s \in Here1, NEW cmd, ClaimArgs(cmd), cmd.op = "xclaim",
           cmd.ids \in Seq(Id), cmd.lastid \in 0 .. MaxId,
           NEW u, u = xclaimCommand(s, cmd)
    PROVE  Effect(u, s, cmd)
<1>b. PICK b \in BOOLEAN : b = FALSE /\ Server(b) = Here1
    BY DEF Here1
<1>0. PICK g \in Group : g = cmd.g
    BY DEF ClaimArgs
<1>1. CASE ~s.st.grp[g].on
    BY <1>0, <1>1, SameEffect DEF xclaimCommand
<1>2. CASE s.st.grp[g].on
  <2>1. PICK t : LastUpTo(t, s, g, cmd.lastid)
      BY DEF LastUpTo
  <2>2. /\ t \in Server(b) /\ t.st.items = s.st.items
        /\ t.wait = s.wait /\ t.ready = s.ready /\ t.new = s.new
        /\ t.st.grp[g].on
        /\ t.st.grp[g].last = Later(s.st.grp[g].last, cmd.lastid)
        /\ \A h \in Group : h # g => t.st.grp[h] = s.st.grp[h]
      BY <1>b, <1>2, <2>1, LastIdOK
  <2>3. PICK w : w = ClaimAll(t, cmd, cmd.ids)
      OBVIOUS
  <2>4. Still(w, t)
    <3>1. t \in Here1 /\ t.st.grp[cmd.g].on
        BY <1>b, <1>0, <2>2
    <3> QED
        BY <2>3, <3>1, ClaimAllStill
  <2>5. u = w \/ u = streamPropagateGroupID(w, g)
      BY <1>0, <1>2, <2>1, <2>3 DEF xclaimCommand, LastUpTo
  <2>6. u \in Here1 /\ u.st = w.st /\ u.wait = w.wait /\ u.ready = w.ready /\ u.new = w.new
    <3>1. w \in Server(b) /\ w \in Here1
        BY <1>b, <2>4 DEF Still
    <3>2. CASE u = w
        BY <3>1, <3>2
    <3>3. CASE u = streamPropagateGroupID(w, g)
      <4>1. u \in Server(b) /\ u.st = w.st /\ u.wait = w.wait /\ u.ready = w.ready
            /\ u.new = w.new
          BY <3>1, <3>3, PropagateGroup
      <4> QED
          BY <1>b, <4>1
    <3> QED
        BY <2>5, <3>2, <3>3
  <2>7. Quiet(u, s)
      BY <2>2, <2>4, <2>6 DEF Quiet, Still
  <2>8. u.ready = s.ready
      BY <2>2, <2>4, <2>6 DEF Still
  <2>9. \A h \in Group : h # g => LastKept(u, s, h)
      BY <2>2, <2>4, <2>6 DEF LastKept, Still
  <2>10. KeptBy(u, s, cmd, g)
    <3>1. CASE cmd.lastid > 0
      <4>1. SetsLastId(cmd, g)
          BY <1>0, <3>1 DEF SetsLastId
      <4> QED
          BY <2>8, <4>1 DEF KeptBy
    <3>2. CASE ~(cmd.lastid > 0)
      <4>a. PICK last \in Nat : last = s.st.grp[g].last
          BY Here1Parts, LastNat
      <4>b. PICK zero \in Nat : zero = cmd.lastid /\ zero = 0
          BY <3>2, Numbers
      <4>1. last = s.st.grp[g].last /\ zero = cmd.lastid /\ zero = 0
          BY <4>a, <4>b
      <4>2. /\ Later(last, zero) = last \/ Later(last, zero) = zero
            /\ last <= Later(last, zero)
          BY LaterIs
      <4>3. t.st.grp[g].last = s.st.grp[g].last
          BY <2>2, <4>1, <4>2
      <4>4. u.st.grp[g].last = s.st.grp[g].last
          BY <2>4, <2>6, <4>3 DEF Still
      <4> QED
          BY <1>2, <4>4 DEF KeptBy, LastKept
    <3> QED
        BY <3>1, <3>2
  <2> QED
      BY <2>6, <2>7, <2>9, <2>10 DEF Effect, KeptBy
<1> QED
    BY <1>1, <1>2

LEMMA XautoclaimEffect ==
    ASSUME NEW s \in Here1, NEW cmd, ClaimArgs(AutoClaim(cmd)), cmd.count \in Nat,
           NEW u, u = xautoclaimCommand(s, cmd)
    PROVE  Effect(u, s, cmd)
<1>1. CASE ~s.st.grp[cmd.g].on
    BY <1>1, SameEffect DEF xautoclaimCommand
<1>2. CASE s.st.grp[cmd.g].on
  <2>1. PICK ids \in Seq(Id) : u = ClaimAll(s, AutoClaim(cmd), ids)
      BY <1>2, XautoclaimIs
  <2>2. PICK cl : cl = AutoClaim(cmd)
      OBVIOUS
  <2>3. ClaimArgs(cl) /\ s.st.grp[cl.g].on
      BY <1>2, <2>2 DEF AutoClaim
  <2>4. Still(u, s)
      BY <2>1, <2>2, <2>3, ClaimAllStill
  <2> QED
      BY <2>4 DEF Still, Effect, Quiet, KeptBy, LastKept
<1> QED
    BY <1>1, <1>2

LEMMA XcallEffect ==
    ASSUME NEW s \in Here1, NEW cmd \in Command, NEW u, u = xcall(s, cmd)
    PROVE  Effect(u, s, cmd)
<1>0. XCommandOK(cmd)
    BY CommandsOK
<1>1. CASE cmd.op = "xadd"
    BY <1>0, <1>1, XaddEffect DEF xcall, XCommandOK
<1>2. CASE cmd.op = "xtrim"
    BY <1>0, <1>2, XtrimEffect DEF xcall, XCommandOK
<1>3. CASE cmd.op = "xdel"
    BY <1>3, XdelEffect DEF xcall
<1>4. CASE cmd.op = "xsetid"
    BY <1>0, <1>4, XsetidEffect DEF xcall, XCommandOK
<1>5. CASE cmd.op = "del"
    BY <1>5, DelEffect DEF xcall
<1>6. CASE cmd.op = "xack"
    BY <1>0, <1>6, XackEffect DEF xcall, XCommandOK
<1>7. CASE cmd.op = "xclaim"
  <2>1. ClaimArgs(cmd) /\ cmd.ids \in Seq(Id) /\ cmd.lastid \in 0 .. MaxId
      BY <1>0, <1>7 DEF XCommandOK, ClaimArgs
  <2> QED
      BY <1>7, <2>1, XclaimEffect DEF xcall
<1>8. CASE cmd.op = "xautoclaim"
  <2>1. ClaimArgs(AutoClaim(cmd)) /\ cmd.count \in Nat
      BY <1>0, <1>8 DEF XCommandOK, ClaimArgs, AutoClaim
  <2> QED
      BY <1>8, <2>1, XautoclaimEffect DEF xcall
<1>9. CASE cmd.op \in {"create", "setid", "destroy", "createconsumer", "delconsumer"}
  <2>1. /\ cmd.g \in Group
        /\ cmd.op \in {"createconsumer", "delconsumer"} => cmd.c \in Consumer
      BY <1>0, <1>9 DEF XCommandOK
  <2>2. u = xgroupCommand(s, cmd)
      BY <1>9 DEF xcall
  <2> QED
      BY <1>9, <2>1, <2>2, XgroupEffect
<1> QED
    BY <1>0, <1>1, <1>2, <1>3, <1>4, <1>5, <1>6, <1>7, <1>8, <1>9 DEF XCommandOK

\* A transaction that sets no last ID of a group leaves it as it was.
LEMMA CallAllEffect ==
    ASSUME NEW s \in Here1, NEW cmds \in Seq(Command), NEW u, u = CallAll(s, cmds)
    PROVE  /\ u \in Here1 /\ Quiet(u, s)
           /\ \A g \in Group : \/ LastKept(u, s, g)
                               \/ \E k \in DOMAIN cmds : SetsLastId(cmds[k], g)
<1> DEFINE n == Len(cmds)
           Sets(g) == \E k \in DOMAIN cmds : SetsLastId(cmds[k], g)
           X == {w \in Here1 : Quiet(w, s)
                               /\ \A g \in Group : LastKept(w, s, g) \/ Sets(g)}
           E == {cmds[k] : k \in DOMAIN cmds}
<1>1. cmds \in Seq(E) /\ \A e \in E : e \in Command
    OBVIOUS
<1>2. ASSUME NEW w \in X, NEW e \in E PROVE xcall(w, e) \in X
  <2>1. PICK d : d = xcall(w, e)
      OBVIOUS
  <2>2. Effect(d, w, e)
      BY <1>1, <2>1, XcallEffect
  <2>3. Quiet(d, w) /\ Quiet(w, s) /\ d \in Here1
      BY <2>2 DEF Effect
  <2>4. Quiet(d, s)
      BY <2>3 DEF Quiet
  <2>5. ASSUME NEW g \in Group PROVE LastKept(d, s, g) \/ Sets(g)
    <3>1. SetsLastId(e, g) => Sets(g)
        OBVIOUS
    <3>2. LastKept(d, w, g) \/ SetsLastId(e, g)
        BY <2>2 DEF Effect, KeptBy
    <3>3. LastKept(w, s, g) \/ Sets(g)
        OBVIOUS
    <3> HIDE DEF Sets
    <3> QED
        BY <3>1, <3>2, <3>3 DEF LastKept
  <2> QED
      BY <2>1, <2>3, <2>4, <2>5
<1>3. s \in X
    BY DEF Quiet, LastKept
<1> HIDE DEF X, E
<1>4. u \in X
    BY <1>1, <1>2, <1>3, CallAllKeeps
<1> QED
    BY <1>4 DEF X

-----------------------------------------------------------------------------
(* What an action hands out, and whom it leaves blocked.                     *)

\* A read is served at once, blocks, or does nothing.
LEMMA XreadHands ==
    ASSUME NEW s \in Here1, s.new = <<>>, NEW r, XReadOK(r), NEW v, v = xreadCommand(s, r)
    PROVE  /\ HandsOut(v, s.st)
           /\ \/ v.wait = s.wait
              \/ \E w \in Reader : w.c = r.c /\ v.wait = Append(s.wait, w)
<1>1. /\ r.g \in Group \cup {Nobody} /\ r.c \in Consumer /\ r.noack \in BOOLEAN
      /\ r.count \in Nat
    BY DEF XReadOK
<1>2. s.st \in StreamOK /\ HandsOut(s, s.st)
    BY Here1Parts, HandsOutNothing
<1>3. ASSUME NEW gt \in 0 .. Top, v = Blocked(s, r, gt)
      PROVE  /\ HandsOut(v, s.st)
             /\ \E w \in Reader : w.c = r.c /\ v.wait = Append(s.wait, w)
  <2>1. v \in Here1 /\ v.st = s.st /\ v.new = s.new
      BY <1>3, BlockedOK
  <2>2. HandsOut(v, s.st)
      BY <1>2, <2>1, HandsOutSame
  <2>3. PICK w : w = [g |-> r.g, c |-> r.c, noack |-> r.noack, count |-> r.count, gt |-> gt]
      OBVIOUS
  <2>4. w \in Reader /\ w.c = r.c
      BY <1>1, <2>3 DEF Reader
  <2>5. v = [s EXCEPT !.wait = Append(s.wait, w)]
      BY <1>3, <2>3 DEF Blocked
  <2>6. v.wait = Append(s.wait, w)
      BY <2>5 DEF Here1, Server
  <2> QED
      BY <2>2, <2>4, <2>6
<1>4. CASE r.g = Nobody
  <2>1. PICK gt : gt = s.st.last
      OBVIOUS
  <2>2. gt \in 0 .. Top
      BY <1>2, <2>1, StreamParts, Numbers
  <2>3. v = Blocked(s, r, gt)
      BY <1>4, <2>1 DEF xreadCommand
  <2> QED
      BY <1>3, <2>2, <2>3
<1>5. CASE r.g # Nobody
  <2>1. PICK g \in Group : g = r.g
      BY <1>1, <1>5
  <2>2. CASE ~s.st.on \/ ~s.st.grp[g].on
    <3>1. v = s
        BY <1>5, <2>1, <2>2 DEF xreadCommand
    <3> QED
        BY <1>2, <3>1
  <2>3. CASE s.st.on /\ s.st.grp[g].on
    <3>1. CASE r.history
      <4>1. PICK u : u = WithConsumer(s, g, r.c, r.noack)
          OBVIOUS
      <4>2. /\ u \in CanDeliver(g, r.c)
            /\ u.wait = s.wait /\ u.new = s.new /\ u.ready = s.ready
            /\ u.st.on /\ u.st.items = s.st.items /\ u.st.last = s.st.last
            /\ u.st.grp[g].on /\ u.st.grp[g].last = s.st.grp[g].last
            /\ u.st.grp[g].cpel = s.st.grp[g].cpel /\ u.st.grp[g].pel = s.st.grp[g].pel
            /\ \A h \in Group : h # g => u.st.grp[h] = s.st.grp[h]
          BY <1>1, <2>3, <4>1, WithConsumerOK
      <4>3. v = streamReplyWithRangeFromConsumerPEL(u, g, r.c)
          BY <1>5, <2>1, <2>3, <3>1, <4>1 DEF xreadCommand
      <4>4. /\ v \in CanDeliver(g, r.c)
            /\ v.wait = u.wait /\ v.new = u.new /\ v.ready = u.ready /\ v.out = u.out
            /\ v.st.on /\ v.st.items = u.st.items /\ v.st.last = u.st.last
            /\ v.st.grp[g] = HistoryOf(u.st.grp[g], g, r.c, u.st.items)
            /\ \A h \in Group : h # g => v.st.grp[h] = u.st.grp[h]
          BY <1>1, <4>2, <4>3, HistoryServed
      <4>5. v \in Here1 /\ v.st.grp[g].on
          BY <4>4 DEF CanDeliver
      <4>6. u \in Here1 /\ u.st.grp[g] \in GroupOK
          BY <4>2, Here1Parts, StreamParts DEF CanDeliver
      <4>7. v.st.grp[g].last = u.st.grp[g].last
        <5>a. PICK old \in GroupOK : old = u.st.grp[g]
            BY <4>6
        <5>b. PICK new, items : new = v.st.grp[g] /\ items = u.st.items
            OBVIOUS
        <5>1. old = u.st.grp[g] /\ new = v.st.grp[g]
            BY <5>a, <5>b
        <5>2. new = HistoryOf(old, g, r.c, items)
            BY <4>4, <5>a, <5>b
        <5>c. PICK c \in Consumer : c = r.c
            BY <1>1
        <5>3. /\ new \in GroupOK /\ new.on = old.on /\ new.last = old.last
              /\ new.known = old.known /\ new.cpel = old.cpel
              /\ \A i \in Id : /\ new.pel[i].owner = old.pel[i].owner
                               /\ new.pel[i].count >= old.pel[i].count
                               /\ new.pel[i].idle => old.pel[i].idle
          <6>1. new = HistoryOf(old, g, c, items)
              BY <5>2, <5>c
          <6> QED
              BY <6>1, HistoryOK
        <5> QED
            BY <5>1, <5>3
      <4>8. v.st.grp[g].on = s.st.grp[g].on /\ v.st.on = s.st.on
        <5>1. /\ v.st.grp[g].on \in BOOLEAN /\ s.st.grp[g].on \in BOOLEAN
              /\ v.st.on \in BOOLEAN /\ s.st.on \in BOOLEAN
            BY <4>5, Here1Parts, StreamParts
        <5>2. v.st.grp[g].on = s.st.grp[g].on
            BY <2>3, <4>5, <5>1
        <5>3. v.st.on = s.st.on
            BY <2>3, <4>4, <5>1
        <5> QED
            BY <5>2, <5>3
      <4>9. \A h \in Group : v.st.grp[h].on = s.st.grp[h].on
                             /\ v.st.grp[h].last = s.st.grp[h].last
          BY <4>2, <4>4, <4>7, <4>8
      <4>10. HandsOut(v, s.st)
          BY <1>2, <4>2, <4>4, <4>5, <4>8, <4>9, HandsOutSame
      <4> QED
          BY <4>2, <4>4, <4>10
    <3>2. CASE ~r.history
      <4>1. PICK t : t = streamReplyWithRange(WithConsumer(s, g, r.c, r.noack), g, r.c,
                                              s.st.grp[g].last, r.count, r.noack)
          OBVIOUS
      <4>2. HandsOut(t, s.st) /\ t.wait = s.wait
          BY <1>1, <1>2, <2>3, <4>1, NewsHands
      <4>3. PICK gt : gt = Top
          OBVIOUS
      <4>4. gt \in 0 .. Top
          BY <4>3, Numbers
      <4>5. v = t \/ v = Blocked(s, r, gt)
          BY <1>5, <2>1, <2>3, <3>2, <4>1, <4>3 DEF xreadCommand
      <4> QED
          BY <1>3, <4>2, <4>4, <4>5
    <3> QED
        BY <3>1, <3>2
  <2> QED
      BY <2>2, <2>3
<1> QED
    BY <1>4, <1>5

\* The connections that wait are all different.
XsWaiting == XsInv /\ NoTwice(xwait)

LEMMA HereParts ==
    ASSUME XsInv, NEW s, s = Here
    PROVE  /\ s \in Here1 /\ s.st = xs /\ s.wait = xwait /\ s.ready = FALSE
           /\ s.new = <<>> /\ s.out = <<>>
  BY HostOK DEF XsInv, Here, Host

\* From what a command, a transaction or a read has made of the server.
LEMMA BecomesHands ==
    ASSUME XsWaiting, NEW st \in StreamOK, NEW t, HandsOut(t, st), NoTwice(t.wait),
           XBecomes(t)
    PROVE  \E v : /\ v = serveClientsBlockedOnStreamKey(t)
                  /\ xs' = v.st /\ xwait' = v.wait /\ xnew' = v.new
                  /\ HandsOut(v, st) /\ NoTwice(v.wait) /\ SameGround(v, t.st)
                  /\ ~(t.ready /\ t.st.on) => v = t
                  /\ t.ready /\ t.st.on =>
                        \A i \in 1 .. Len(v.wait) : Contented(v.st, v.wait[i])
<1>1. PICK v : /\ v = serveClientsBlockedOnStreamKey(t)
               /\ xs' = v.st /\ xwait' = v.wait /\ xnew' = v.new
    BY DEF XBecomes
<1>2. /\ HandsOut(v, st) /\ NoTwice(v.wait) /\ SameGround(v, t.st)
      /\ ~(t.ready /\ t.st.on) => v = t
      /\ t.ready /\ t.st.on =>
            \A i \in 1 .. Len(v.wait) : Contented(v.st, v.wait[i])
    BY <1>1, ServedHands
<1> QED
    BY <1>1, <1>2

\* News of group g from the stream st on.
HandedOutFrom(g, st) ==
    /\ NewIn(xnew', g, st.grp[g].last, xs'.grp[g].last, st.items)
    /\ xs'.items = st.items
    /\ \A i \in 1 .. Len(xnew') : xnew'[i][1] = g => st.grp[g].on

\* The commands of other clients hand out what they leave the group to have.
LEMMA CommandHands ==
    ASSUME XsWaiting, NEW s, s = Here, NEW t \in Here1, Quiet(t, s), XBecomes(t)
    PROVE  /\ NoTwice(xwait')
           /\ \A g \in Group : HandedOutFrom(g, t.st)
           /\ ~t.ready => xnew' = <<>>
           /\ xs'.items = t.st.items /\ xs'.last = t.st.last
           /\ t.ready /\ t.st.on =>
                \A i \in 1 .. Len(xwait') : Contented(xs', xwait'[i])
           /\ ~t.ready => xwait' = xwait
<1>1. s \in Here1 /\ s.wait = xwait /\ s.new = <<>> /\ s.ready = FALSE
    BY HereParts DEF XsWaiting
<1>2. t.wait = xwait /\ t.new = <<>>
    BY <1>1 DEF Quiet
<1>3. t.st \in StreamOK /\ HandsOut(t, t.st)
    BY <1>2, Here1Parts, HandsOutNothing
<1>4. PICK v : /\ v = serveClientsBlockedOnStreamKey(t)
               /\ xs' = v.st /\ xwait' = v.wait /\ xnew' = v.new
               /\ HandsOut(v, t.st) /\ NoTwice(v.wait) /\ SameGround(v, t.st)
               /\ ~(t.ready /\ t.st.on) => v = t
               /\ t.ready /\ t.st.on =>
                     \A i \in 1 .. Len(v.wait) : Contented(v.st, v.wait[i])
  <2>1. NoTwice(t.wait)
      BY <1>2 DEF XsWaiting
  <2> QED
      BY <1>3, <2>1, BecomesHands
<1>5. \A g \in Group : HandedOutFrom(g, t.st)
    BY <1>4 DEF HandedOutFrom, HandsOut, SameGround
<1> QED
    BY <1>2, <1>4, <1>5 DEF SameGround

\* What GroupHandsOutOnce says of group g and a step.
OnceIn(g) ==
    LET last == xs.grp[g].last
        news == {i \in DOMAIN xnew' : xnew'[i][1] = g}
        set == \E cmds \in XTxs :
                    /\ \E k \in DOMAIN cmds : SetsLastId(cmds[k], g)
                    /\ XTransaction(cmds)
    IN  /\ \A i, j \in news : i < j => xnew'[i][3] < xnew'[j][3]
        /\ xs.grp[g].on /\ news # {} /\ ~set =>
            /\ \A i \in news : xnew'[i][3] > last
            /\ \A id \in xs'.items :
                    id > last /\ id <= xs'.grp[g].last =>
                        \E i \in news : xnew'[i][3] = id

\* What NewsWakesReaders says of a step.
Woke ==
    xs'.last > xs.last /\ xs'.items \ xs.items # {} =>
        \A w \in Range(xwait') :
            /\ w.g = Nobody => w.gt >= xs'.last
            /\ w.g # Nobody => xs'.grp[w.g].on /\ xs'.grp[w.g].last >= xs'.last

LEMMA OnceNothing ==
    ASSUME NEW g, xnew' = <<>>
    PROVE  OnceIn(g)
<1>1. DOMAIN xnew' = {}
    OBVIOUS
<1> QED
    BY <1>1 DEF OnceIn

\* The stream st has the last ID the group had, unless a transaction set it.
StartsFrom(g, st) ==
    st.grp[g].on =>
        \/ xs.grp[g].on => st.grp[g].last = xs.grp[g].last
        \/ \E cmds \in XTxs : /\ \E k \in DOMAIN cmds : SetsLastId(cmds[k], g)
                              /\ XTransaction(cmds)

\* The news are those from the last ID the group had before the step.
LEMMA OnceHandedOut ==
    ASSUME XsInv', NEW st, NEW g \in Group, HandedOutFrom(g, st), StartsFrom(g, st)
    PROVE  OnceIn(g)
<1>1. DOMAIN xnew' = 1 .. Len(xnew')
    BY DEF XsInv
<1>2. PICK from : from = st.grp[g].last
    OBVIOUS
<1>3. /\ NewIn(xnew', g, from, xs'.grp[g].last, st.items)
      /\ xs'.items = st.items
      /\ \A i \in 1 .. Len(xnew') : xnew'[i][1] = g => st.grp[g].on
    BY <1>2 DEF HandedOutFrom
<1> DEFINE news == {i \in DOMAIN xnew' : xnew'[i][1] = g}
           set == \E cmds \in XTxs :
                    /\ \E k \in DOMAIN cmds : SetsLastId(cmds[k], g)
                    /\ XTransaction(cmds)
<1>4. \A i, j \in news : i < j => xnew'[i][3] < xnew'[j][3]
    BY <1>1, <1>3 DEF NewIn
<1>5. ASSUME xs.grp[g].on, news # {}, ~set
      PROVE  /\ \A i \in news : xnew'[i][3] > xs.grp[g].last
             /\ \A id \in xs'.items :
                    id > xs.grp[g].last /\ id <= xs'.grp[g].last =>
                        \E i \in news : xnew'[i][3] = id
  <2>1. st.grp[g].on
      BY <1>1, <1>3, <1>5
  <2>2. from = xs.grp[g].last
      BY <1>2, <1>5, <2>1 DEF StartsFrom
  <2>3. NewIn(xnew', g, xs.grp[g].last, xs'.grp[g].last, xs'.items)
      BY <1>3, <2>2
  <2>4. \A i \in 1 .. Len(xnew') : xnew'[i][1] = g => xnew'[i][3] > xs.grp[g].last
      BY <2>3 DEF NewIn
  <2>5. \A id \in xs'.items : id > xs.grp[g].last /\ id <= xs'.grp[g].last =>
            \E i \in 1 .. Len(xnew') : xnew'[i][1] = g /\ xnew'[i][3] = id
      BY <2>3 DEF NewIn
  <2>6. \A i \in news : i \in 1 .. Len(xnew') /\ xnew'[i][1] = g
      BY <1>1
  <2>7. \A i \in 1 .. Len(xnew') : xnew'[i][1] = g => i \in news
      BY <1>1
  <2> HIDE DEF news
  <2>8. \A i \in news : xnew'[i][3] > xs.grp[g].last
      BY <2>4, <2>6
  <2>9. \A id \in xs'.items : id > xs.grp[g].last /\ id <= xs'.grp[g].last =>
            \E i \in news : xnew'[i][3] = id
      BY <2>5, <2>7
  <2> QED
      BY <2>8, <2>9
<1> HIDE DEF set, news
<1>6. /\ \A i, j \in news : i < j => xnew'[i][3] < xnew'[j][3]
      /\ xs.grp[g].on /\ news # {} /\ ~set =>
            /\ \A i \in news : xnew'[i][3] > xs.grp[g].last
            /\ \A id \in xs'.items :
                    id > xs.grp[g].last /\ id <= xs'.grp[g].last =>
                        \E i \in news : xnew'[i][3] = id
    BY <1>4, <1>5
<1> QED
    BY <1>6 DEF OnceIn, set, news

\* No reader that could have had something is left.
LEMMA WokeAll ==
    ASSUME XsInv', xs'.last \in Nat,
           \A i \in 1 .. Len(xwait') : Contented(xs', xwait'[i])
    PROVE  Woke
<1>1. DOMAIN xwait' = 1 .. Len(xwait')
    BY DEF XsInv
<1>2. \A w \in Range(xwait') : Contented(xs', w)
    BY <1>1 DEF Range
<1> QED
    BY <1>2 DEF Woke, Contented

LEMMA WokeNothing ==
    ASSUME xs'.items \subseteq xs.items
    PROVE  Woke
    BY DEF Woke

LEMMA XsInit_XsWaiting == XsInit => XsWaiting
    BY XsInit_XsInv DEF XsWaiting, XsInit, NoTwice

\* What the two properties say of a step.
XsStepOK == (\A g \in Group : OnceIn(g)) /\ Woke

\* A command or a transaction of another client.
LEMMA CallStep ==
    ASSUME XsWaiting, XsInv', NEW s, s = Here, NEW t \in Here1, Quiet(t, s), XBecomes(t),
           \A g \in Group : ~t.ready \/ StartsFrom(g, t.st)
    PROVE  NoTwice(xwait') /\ XsStepOK
<1>1. /\ NoTwice(xwait')
      /\ \A g \in Group : HandedOutFrom(g, t.st)
      /\ ~t.ready => xnew' = <<>>
      /\ xs'.items = t.st.items /\ xs'.last = t.st.last
      /\ t.ready /\ t.st.on => \A i \in 1 .. Len(xwait') : Contented(xs', xwait'[i])
      /\ ~t.ready => xwait' = xwait
    BY CommandHands
<1>2. ASSUME NEW g \in Group PROVE OnceIn(g)
  <2>1. CASE ~t.ready
      BY <1>1, <2>1, OnceNothing
  <2>2. CASE ~(~t.ready)
      BY <1>1, <2>2, OnceHandedOut
  <2> QED
      BY <2>1, <2>2
<1>3. Woke
  <2>1. s.wait = xwait /\ s.st = xs /\ (t.st.items \subseteq xs.items \/ t.ready \/ xwait = <<>>)
      BY HereParts DEF Quiet, XsWaiting
  <2>2. CASE xs'.items \subseteq xs.items
      BY <2>2, WokeNothing
  <2>3. CASE t.ready /\ ~(xs'.items \subseteq xs.items)
    <3>1. t.st \in StreamOK /\ xs' \in StreamOK
        BY Here1Parts DEF XsInv
    <3>2. t.st.on
        BY <1>1, <2>3, <3>1, StreamParts
    <3>3. xs'.last \in Nat
        BY <3>1, StreamParts, Numbers
    <3> QED
        BY <1>1, <2>3, <3>2, <3>3, WokeAll
  <2>4. CASE ~t.ready /\ xwait = <<>>
    <3>1. xwait' = <<>>
        BY <1>1, <2>4
    <3>2. Range(xwait') = {}
        BY <3>1 DEF Range
    <3> QED
        BY <3>2 DEF Woke
  <2> QED
      BY <1>1, <2>1, <2>2, <2>3, <2>4
<1> QED
    BY <1>1, <1>2, <1>3 DEF XsStepOK

\* A reader reads, or blocks.
LEMMA ReadStep ==
    ASSUME XsWaiting, XsInv', NEW r \in XReads, XRead(r)
    PROVE  NoTwice(xwait') /\ XsStepOK
<1>1. PICK s : s = Here
    OBVIOUS
<1>2. s \in Here1 /\ s.st = xs /\ s.wait = xwait /\ s.ready = FALSE /\ s.new = <<>>
    BY <1>1, HereParts DEF XsWaiting
<1>3. PICK t : t = xreadCommand(s, r) /\ XBecomes(t)
    BY <1>1 DEF XRead
<1>4. XReadOK(r)
    BY StreamsAssumption
<1>5. /\ HandsOut(t, s.st)
      /\ \/ t.wait = s.wait
         \/ \E w \in Reader : w.c = r.c /\ t.wait = Append(s.wait, w)
    BY <1>2, <1>3, <1>4, XreadHands
<1>6. NoTwice(t.wait)
  <2>1. xwait \in Seq(Reader) /\ NoTwice(xwait)
      BY DEF XsWaiting, XsInv
  <2>2. CASE t.wait = xwait
      BY <2>1, <2>2
  <2>3. CASE \E w \in Reader : w.c = r.c /\ t.wait = Append(xwait, w)
    <3>1. PICK w \in Reader : w.c = r.c /\ t.wait = Append(xwait, w)
        BY <2>3
    <3>2. \A i \in 1 .. Len(xwait) : xwait[i].c # w.c
        BY <2>1, <3>1 DEF XRead
    <3> QED
        BY <2>1, <3>1, <3>2 DEF NoTwice
  <2> QED
      BY <1>2, <1>5, <2>2, <2>3
<1>7. PICK st \in StreamOK : st = xs /\ HandsOut(t, st)
    BY <1>2, <1>5 DEF XsWaiting, XsInv
<1>8. PICK v : /\ v = serveClientsBlockedOnStreamKey(t)
               /\ xs' = v.st /\ xwait' = v.wait /\ xnew' = v.new
               /\ HandsOut(v, st) /\ NoTwice(v.wait) /\ SameGround(v, t.st)
               /\ ~(t.ready /\ t.st.on) => v = t
               /\ t.ready /\ t.st.on =>
                     \A i \in 1 .. Len(v.wait) : Contented(v.st, v.wait[i])
    BY <1>3, <1>6, <1>7, BecomesHands
<1>9. \A g \in Group : HandedOutFrom(g, st)
    BY <1>8 DEF HandedOutFrom, HandsOut, SameGround
<1>10. \A g \in Group : StartsFrom(g, st)
    BY <1>7 DEF StartsFrom
<1>11. \A g \in Group : OnceIn(g)
    BY <1>9, <1>10, OnceHandedOut
<1>12. Woke
  <2>1. xs'.items = xs.items
      BY <1>7, <1>8 DEF HandsOut, SameGround
  <2> QED
      BY <2>1, WokeNothing
<1> QED
    BY <1>8, <1>11, <1>12 DEF XsStepOK

LEMMA XsNext_XsWaiting ==
    ASSUME XsWaiting, XsNext
    PROVE  XsWaiting' /\ XsStepOK
<1>i. XsInv /\ XsInv'
    BY XsNext_XsInv DEF XsWaiting
<1>h. PICK s : s = Here
    OBVIOUS
<1>s. s \in Here1 /\ s.st = xs /\ s.wait = xwait /\ s.ready = FALSE
    BY <1>h, <1>i, HereParts
<1>1. ASSUME NEW cmd \in XCmds, XCommand(cmd)
      PROVE  NoTwice(xwait') /\ XsStepOK
  <2>1. cmd \in Command
      BY DEF Command
  <2>2. PICK t : t = xcall(s, cmd) /\ XBecomes(t)
      BY <1>1, <1>h DEF XCommand
  <2>3. Effect(t, s, cmd)
      BY <1>s, <2>1, <2>2, XcallEffect
  <2>4. t \in Here1 /\ Quiet(t, s) /\ \A g \in Group : KeptBy(t, s, cmd, g)
      BY <2>3 DEF Effect
  <2>5. \A g \in Group : ~t.ready \/ StartsFrom(g, t.st)
      BY <1>s, <2>4 DEF KeptBy, LastKept, StartsFrom
  <2> QED
      BY <1>h, <1>i, <2>2, <2>4, <2>5, CallStep
<1>2. ASSUME NEW cmds \in XTxs, XTransaction(cmds)
      PROVE  NoTwice(xwait') /\ XsStepOK
  <2>1. cmds \in Seq(Command)
    <3>1. cmds \in Seq(XCmds)
        BY StreamsAssumption
    <3>2. XCmds \subseteq Command
        BY DEF Command
    <3> QED
        BY <3>1, <3>2
  <2>2. PICK t : t = CallAll(s, cmds) /\ XBecomes(t)
      BY <1>2, <1>h DEF XTransaction
  <2>3. /\ t \in Here1 /\ Quiet(t, s)
        /\ \A g \in Group : \/ LastKept(t, s, g)
                            \/ \E k \in DOMAIN cmds : SetsLastId(cmds[k], g)
      BY <1>s, <2>1, <2>2, CallAllEffect
  <2>4. ASSUME NEW g \in Group PROVE StartsFrom(g, t.st)
    <3>1. CASE LastKept(t, s, g)
        BY <1>s, <3>1 DEF LastKept, StartsFrom
    <3>2. CASE \E k \in DOMAIN cmds : SetsLastId(cmds[k], g)
        BY <1>2, <3>2 DEF StartsFrom
    <3> QED
        BY <2>3, <3>1, <3>2
  <2> QED
      BY <1>h, <1>i, <2>2, <2>3, <2>4, CallStep
<1>3. ASSUME NEW r \in XReads, XRead(r)
      PROVE  NoTwice(xwait') /\ XsStepOK
    BY <1>3, <1>i, ReadStep
<1>4. ASSUME NEW i \in DOMAIN xwait, XTimeout(i)
      PROVE  NoTwice(xwait') /\ XsStepOK
  <2>1. xwait \in Seq(Reader) /\ i \in 1 .. Len(xwait) /\ NoTwice(xwait)
      BY DEF XsWaiting, XsInv
  <2>2. PICK u : u = RemoveAt(xwait, i)
      OBVIOUS
  <2>3. /\ u \in Seq(Reader) /\ Len(u) = Len(xwait) - 1
        /\ \A k \in 1 .. Len(xwait) - 1 :
              u[k] = IF k < i THEN xwait[k] ELSE xwait[k + 1]
      BY <2>1, <2>2, RemoveAtOK
  <2>4. NoTwice(u)
    <3> DEFINE from(k) == IF k < i THEN k ELSE k + 1
    <3>1. ASSUME NEW k \in 1 .. Len(u)
          PROVE  from(k) \in 1 .. Len(xwait) /\ u[k] = xwait[from(k)]
        BY <2>1, <2>3
    <3>2. \A j, k \in 1 .. Len(u) : j # k => from(j) # from(k)
        BY <2>1
    <3> HIDE DEF from
    <3> QED
        BY <2>1, <3>1, <3>2 DEF NoTwice
  <2>5. xwait' = u /\ xnew' = <<>> /\ xs' = xs
      BY <1>4, <2>2 DEF XTimeout
  <2> QED
      BY <2>4, <2>5, OnceNothing, WokeNothing DEF XsStepOK
<1>5. ASSUME XTick PROVE NoTwice(xwait') /\ XsStepOK
  <2>1. xnew' = <<>> /\ xwait' = xwait /\ xs' = Aged(xs) /\ NoTwice(xwait) /\ xs \in StreamOK
      BY <1>5, <1>i DEF XTick, XsWaiting, XsInv
  <2>2. xs'.items = xs.items
      BY <2>1, AgedOK
  <2>3. NoTwice(xwait')
      BY <2>1
  <2>4. Woke
      BY <2>2, WokeNothing
  <2>5. \A g \in Group : OnceIn(g)
      BY <2>1, OnceNothing
  <2> QED
      BY <2>3, <2>4, <2>5 DEF XsStepOK
<1>6. NoTwice(xwait') /\ XsStepOK
  <2>1. CASE \E cmd \in XCmds : XCommand(cmd)
      BY <2>1, <1>1
  <2>2. CASE \E cmds \in XTxs : XTransaction(cmds)
      BY <2>2, <1>2
  <2>3. CASE \E r \in XReads : XRead(r)
      BY <2>3, <1>3
  <2>4. CASE \E i \in DOMAIN xwait : XTimeout(i)
      BY <2>4, <1>4
  <2> QED
      BY <1>5, <2>1, <2>2, <2>3, <2>4 DEF XsNext
<1> QED
    BY <1>i, <1>6 DEF XsWaiting

LEMMA XsNext_XsStep ==
    ASSUME XsWaiting, [XsNext]_xsVars
    PROVE  XsWaiting' /\ [XsStepOK]_xsVars
<1>1. CASE XsNext
    BY <1>1, XsNext_XsWaiting
<1>2. CASE UNCHANGED xsVars
  <2>1. XsInv'
      BY XsNext_XsInv DEF XsWaiting
  <2> QED
      BY <1>2, <2>1 DEF XsWaiting, xsVars
<1> QED
    BY <1>1, <1>2

\* However commands, transactions, reads and timeouts interleave, a group
\* hands out entries as new in the order of their IDs, none twice, and skips
\* none that is still there, until its last ID is set (xreadCommand,
\* streamReplyWithRange, serveClientsBlockedOnStreamKey).
THEOREM EntriesHandedOutOnce == XsSpec => GroupHandsOutOnce
<1>1. XsWaiting /\ [XsNext]_xsVars => XsWaiting' /\ [XsStepOK]_xsVars
    BY XsNext_XsStep
<1>2. [XsStepOK]_xsVars =>
        [\A g \in Group :
            LET last == xs.grp[g].last
                news == {i \in DOMAIN xnew' : xnew'[i][1] = g}
                set == \E cmds \in XTxs :
                            /\ \E k \in DOMAIN cmds : SetsLastId(cmds[k], g)
                            /\ XTransaction(cmds)
            IN  /\ \A i, j \in news : i < j => xnew'[i][3] < xnew'[j][3]
                /\ xs.grp[g].on /\ news # {} /\ ~set =>
                    /\ \A i \in news : xnew'[i][3] > last
                    /\ \A id \in xs'.items :
                            id > last /\ id <= xs'.grp[g].last =>
                                \E i \in news : xnew'[i][3] = id]_xsVars
    BY Zenon DEF XsStepOK, OnceIn
<1> QED
    BY <1>1, <1>2, XsInit_XsWaiting, PTL DEF XsSpec, GroupHandsOutOnce

\* An entry that arrives leaves no reader blocked that could have had it,
\* whichever others are served first and whatever became of the group
\* meanwhile (signalKeyAsReady in xaddCommand, serveClientsBlockedOnStreamKey).
THEOREM NewsAlwaysWakesReaders == XsSpec => NewsWakesReaders
<1>1. XsWaiting /\ [XsNext]_xsVars => XsWaiting' /\ [XsStepOK]_xsVars
    BY XsNext_XsStep
<1>2. [XsStepOK]_xsVars =>
        [xs'.last > xs.last /\ xs'.items \ xs.items # {} =>
            \A w \in Range(xwait') :
                /\ w.g = Nobody => w.gt >= xs'.last
                /\ w.g # Nobody => xs'.grp[w.g].on /\ xs'.grp[w.g].last >= xs'.last
        ]_xsVars
    BY DEF XsStepOK, Woke
<1> QED
    BY <1>1, <1>2, XsInit_XsWaiting, PTL DEF XsSpec, NewsWakesReaders
=============================================================================
