----------------------------- MODULE AofProofs ------------------------------
(* Proofs about Aof: what is on its way to the file, and to the file a       *)
(* rewrite is making, loads to the data in memory; with appendfsync always   *)
(* an acknowledged write is synced.                                          *)
EXTENDS Aof, FoldLemmas

-----------------------------------------------------------------------------
(* Folds over the tokens of a file.                                          *)

\* h folds ReplayOne over the tokens at each set of positions.
FoldsSets(h, base, toks, D) ==
    h = [s \in SUBSET D |-> IF s = {} THEN base
                            ELSE ReplayOne(h[s \ {Max(s)}], toks[Max(s)])]

LEMMA FoldExists ==
    ASSUME NEW base, NEW toks
    PROVE  \A n \in Nat : \E h : FoldsSets(h, base, toks, 1 .. n)
<1> DEFINE S == {n \in Nat : \E h : FoldsSets(h, base, toks, 1 .. n)}
<1>1. 0 \in S
  <2>1. SUBSET (1 .. 0) = {{}}
      OBVIOUS
  <2>2. FoldsSets([s \in SUBSET (1 .. 0) |-> base], base, toks, 1 .. 0)
      BY <2>1 DEF FoldsSets
  <2> QED
      BY <2>2
<1>2. ASSUME NEW n \in Nat, n \in S
      PROVE  n + 1 \in S
  <2>1. PICK h : FoldsSets(h, base, toks, 1 .. n)
      BY <1>2
  <2> DEFINE h2 == [s \in SUBSET (1 .. n + 1) |->
                        IF n + 1 \in s THEN ReplayOne(h[s \ {n + 1}], toks[n + 1]) ELSE h[s]]
  <2>2. ASSUME NEW s \in SUBSET (1 .. n + 1)
        PROVE  h2[s] = IF s = {} THEN base ELSE ReplayOne(h2[s \ {Max(s)}], toks[Max(s)])
    <3>1. CASE n + 1 \in s
      <4>1. Max(s) = n + 1
          BY <3>1, TopIsMax
      <4>2. s \ {n + 1} \in SUBSET (1 .. n + 1) /\ n + 1 \notin s \ {n + 1}
          OBVIOUS
      <4>3. h2[s \ {n + 1}] = h[s \ {n + 1}]
          BY <4>2
      <4> QED
          BY <3>1, <4>1, <4>3
    <3>2. CASE n + 1 \notin s
      <4>1. s \in SUBSET (1 .. n)
          BY <3>2
      <4>2. h2[s] = h[s]
          BY <3>2
      <4>3. CASE s = {}
          BY <2>1, <4>1, <4>2, <4>3 DEF FoldsSets
      <4>4. CASE s # {}
        <5>1. s \ {Max(s)} \in SUBSET (1 .. n)
            BY <4>1
        <5>2. h2[s \ {Max(s)}] = h[s \ {Max(s)}]
            BY <3>2, <5>1
        <5>3. h[s] = ReplayOne(h[s \ {Max(s)}], toks[Max(s)])
            BY <2>1, <4>1, <4>4 DEF FoldsSets
        <5> QED
            BY <4>2, <4>4, <5>2, <5>3
      <4> QED
          BY <4>3, <4>4
    <3> QED
        BY <3>1, <3>2
  <2>3. FoldsSets(h2, base, toks, 1 .. n + 1)
    <3>1. h2 = [s \in SUBSET (1 .. n + 1) |-> h2[s]]
        OBVIOUS
    <3> HIDE DEF h2
    <3> QED
        BY <2>2, <3>1 DEF FoldsSets
  <2> QED
      BY <2>3
<1>3. \A n \in Nat : n \in S
  <2> HIDE DEF S
  <2> QED
      BY <1>1, <1>2, Induction
<1> QED
    BY <1>3

\* What the fold computes command by command.
RunOf(R, base, toks, n) ==
    /\ R[0] = base
    /\ \A i \in 1 .. n : R[i] = ReplayOne(R[i - 1], toks[i])

LEMMA FoldIsRun ==
    ASSUME NEW base, NEW toks, NEW n \in Nat, DOMAIN toks = 1 .. n,
           NEW R, RunOf(R, base, toks, n)
    PROVE  FoldLeft(ReplayOne, base, toks) = R[n]
<1> DEFINE h == CHOOSE g : FoldsSets(g, base, toks, 1 .. n)
           S == {k \in Nat : k <= n => h[1 .. k] = R[k]}
<1>1. FoldLeft(ReplayOne, base, toks)
        = (CHOOSE g : g = [s \in SUBSET DOMAIN toks |->
                IF s = {} THEN base ELSE ReplayOne(g[s \ {Max(s)}], toks[Max(s)])])[DOMAIN toks]
    BY DEF FoldLeft, MapThenFoldSet
<1>2. FoldLeft(ReplayOne, base, toks) = h[1 .. n]
    BY <1>1 DEF FoldsSets
<1>3. FoldsSets(h, base, toks, 1 .. n)
    BY FoldExists
<1> HIDE DEF h
<1>4. 0 \in S
  <2>1. 1 .. 0 = {} /\ {} \in SUBSET (1 .. n)
      OBVIOUS
  <2>2. h[{}] = base
      BY <1>3, <2>1 DEF FoldsSets
  <2> QED
      BY <2>1, <2>2 DEF RunOf
<1>5. ASSUME NEW k \in Nat, k \in S
      PROVE  k + 1 \in S
  <2> SUFFICES ASSUME k + 1 <= n PROVE h[1 .. k + 1] = R[k + 1]
      OBVIOUS
  <2>1. 1 .. k + 1 \in SUBSET (1 .. n) /\ 1 .. k + 1 # {} /\ k + 1 \in 1 .. n
    <3>1. k + 1 \in 1 .. n
        OBVIOUS
    <3>2. \A i \in 1 .. k + 1 : i \in 1 .. n
        OBVIOUS
    <3> QED
        BY <3>1, <3>2
  <2>2. Max(1 .. k + 1) = k + 1
      BY <2>1, TopIsMax
  <2>3. (1 .. k + 1) \ {k + 1} = 1 .. k
      OBVIOUS
  <2>4. h[1 .. k + 1] = ReplayOne(h[1 .. k], toks[k + 1])
    <3>1. ASSUME NEW s \in SUBSET (1 .. n), s # {}
          PROVE  h[s] = ReplayOne(h[s \ {Max(s)}], toks[Max(s)])
        BY <1>3, <3>1 DEF FoldsSets
    <3> DEFINE s == 1 .. k + 1
    <3>2. h[s] = ReplayOne(h[s \ {Max(s)}], toks[Max(s)])
      <4> HIDE DEF s
      <4>1. s \in SUBSET (1 .. n) /\ s # {}
          BY <2>1 DEF s
      <4> QED
          BY <3>1, <4>1
    <3> QED
        BY <3>2, <2>2, <2>3
  <2>5. h[1 .. k] = R[k]
      BY <1>5
  <2>6. R[k + 1] = ReplayOne(R[k], toks[k + 1])
      BY <2>1 DEF RunOf
  <2> QED
      BY <2>4, <2>5, <2>6
<1>6. n \in S
  <2> HIDE DEF S
  <2> QED
      BY <1>4, <1>5, Induction
<1> QED
    BY <1>2, <1>6

LEMMA RunExists ==
    ASSUME NEW base, NEW toks
    PROVE  \A n \in Nat : \E R : RunOf(R, base, toks, n)
<1> DEFINE S == {n \in Nat : \E R : RunOf(R, base, toks, n)}
<1>1. 0 \in S
  <2>1. RunOf([i \in {0} |-> base], base, toks, 0)
      BY DEF RunOf
  <2> QED
      BY <2>1
<1>2. ASSUME NEW n \in Nat, n \in S
      PROVE  n + 1 \in S
  <2>1. PICK R : RunOf(R, base, toks, n)
      BY <1>2
  <2> DEFINE last == ReplayOne(R[n], toks[n + 1])
             R2 == [i \in 0 .. n + 1 |-> IF i = n + 1 THEN last ELSE R[i]]
  <2>2. R2[0] = base
      BY <2>1 DEF RunOf
  <2>3. ASSUME NEW i \in 1 .. n + 1
        PROVE  R2[i] = ReplayOne(R2[i - 1], toks[i])
    <3> HIDE DEF last
    <3>1. R2[i - 1] = R[i - 1]
        OBVIOUS
    <3> HIDE DEF R2
    <3>2. CASE i = n + 1
        BY <3>1, <3>2 DEF last, R2
    <3>3. CASE i # n + 1
      <4>1. i \in 1 .. n /\ R2[i] = R[i]
          BY <3>3 DEF R2
      <4> QED
          BY <2>1, <3>1, <4>1 DEF RunOf
    <3> QED
        BY <3>2, <3>3
  <2>4. RunOf(R2, base, toks, n + 1)
    <3> HIDE DEF R2
    <3> QED
        BY <2>2, <2>3 DEF RunOf
  <2> QED
      BY <2>4
<1>3. \A n \in Nat : n \in S
  <2> HIDE DEF S
  <2> QED
      BY <1>1, <1>2, Induction
<1> QED
    BY <1>3

-----------------------------------------------------------------------------
(* Loading: what the commands of a file may be, and what loading them does.  *)

Wr == Nat \X {0, 1, 2}
AfDataType == [Db -> Seq(Wr)]
Token == [t : {"select"}, d : Db] \cup [t : {"write"}, w : Wr]
            \cup [t : {"rdb"}, data : AfDataType] \cup {AfMulti, AfExec}
LoadState == [data : AfDataType, cur : Db, tx : BOOLEAN, queue : Seq(Wr)]

Both(n) == <<<<n, 1>>, <<n, 2>>>>
PairedSeq(q) == \A n \in Nat : (<<n, 1>> \in Range(q)) <=> (<<n, 2>> \in Range(q))
Paired(data) == \A d \in Db : PairedSeq(data[d])

\* The state of loadAppendOnlyFile between two commands.
GoodState(s) ==
    /\ s \in LoadState
    /\ Paired(s.data)
    /\ ~s.tx => s.queue = <<>>
    /\ s.tx => s.queue = <<>> \/ \E n \in Nat : s.queue \in {<<<<n, 1>>>>, Both(n)}

\* The command may come next.
Allowed(s, tok) ==
    /\ tok.t \in {"select", "rdb", "multi"} => ~s.tx
    /\ tok.t = "rdb" => Paired(tok.data)
    /\ tok.t = "exec" => s.tx /\ \E n \in Nat : s.queue = Both(n)
    /\ tok.t = "write" /\ ~s.tx => tok.w[2] = 0
    /\ tok.t = "write" /\ s.tx =>
          \E n \in Nat : \/ s.queue = <<>> /\ tok.w = <<n, 1>>
                         \/ s.queue = <<<<n, 1>>>> /\ tok.w = <<n, 2>>

Loaded(toks) == FoldLeft(ReplayOne, NothingLoaded, toks)

LEMMA LoadedEmpty == Loaded(<<>>) = NothingLoaded
<1> DEFINE none == <<>>
<1>1. DOMAIN none = 1 .. 0
    OBVIOUS
<1> HIDE DEF none
<1>2. PICK R : RunOf(R, NothingLoaded, none, 0)
    BY RunExists, 0 \in Nat
<1>3. FoldLeft(ReplayOne, NothingLoaded, none) = R[0]
    BY <1>1, <1>2, FoldIsRun, 0 \in Nat
<1> QED
    BY <1>2, <1>3 DEF Loaded, RunOf, none

LEMMA LoadedAppend ==
    ASSUME NEW toks \in Seq(Token), NEW tok \in Token
    PROVE  Loaded(Append(toks, tok)) = ReplayOne(Loaded(toks), tok)
<1> DEFINE n == Len(toks)
           more == Append(toks, tok)
<1>1. /\ n \in Nat /\ DOMAIN toks = 1 .. n /\ DOMAIN more = 1 .. n + 1
      /\ \A i \in 1 .. n : more[i] = toks[i]
      /\ more[n + 1] = tok
    OBVIOUS
<1> HIDE DEF n, more
<1>2. PICK R : RunOf(R, NothingLoaded, more, n + 1)
    BY <1>1, RunExists, n + 1 \in Nat
<1>3. FoldLeft(ReplayOne, NothingLoaded, more) = R[n + 1]
    BY <1>1, <1>2, FoldIsRun, n + 1 \in Nat
<1>4. RunOf(R, NothingLoaded, toks, n)
  <2>1. ASSUME NEW i \in 1 .. n
        PROVE  R[i] = ReplayOne(R[i - 1], toks[i])
    <3>1. i \in 1 .. n + 1 /\ more[i] = toks[i]
        BY <1>1
    <3> QED
        BY <1>2, <3>1 DEF RunOf
  <2> QED
      BY <1>2, <2>1 DEF RunOf
<1>5. FoldLeft(ReplayOne, NothingLoaded, toks) = R[n]
    BY <1>1, <1>2, <1>4, FoldIsRun
<1>6. R[n + 1] = ReplayOne(R[n], tok)
  <2>1. n + 1 \in 1 .. n + 1 /\ (n + 1) - 1 = n
      BY <1>1
  <2> QED
      BY <1>1, <1>2, <2>1 DEF RunOf
<1> QED
    BY <1>3, <1>5, <1>6 DEF Loaded, more

\* Every command of the file may come where it comes.
Well(toks) ==
    /\ toks \in Seq(Token)
    /\ \A i \in 1 .. Len(toks) : Allowed(Loaded(SubSeq(toks, 1, i - 1)), toks[i])

LEMMA PrefixOfPrefix ==
    ASSUME NEW toks \in Seq(Token), NEW n \in 0 .. Len(toks), NEW i \in 0 .. n
    PROVE  /\ SubSeq(toks, 1, n) \in Seq(Token)
           /\ Len(SubSeq(toks, 1, n)) = n
           /\ SubSeq(SubSeq(toks, 1, n), 1, i) = SubSeq(toks, 1, i)
           /\ i \in 1 .. n => SubSeq(toks, 1, n)[i] = toks[i]
    OBVIOUS

LEMMA WellPrefix ==
    ASSUME NEW toks, Well(toks), NEW n \in 0 .. Len(toks)
    PROVE  Well(SubSeq(toks, 1, n))
<1> DEFINE part == SubSeq(toks, 1, n)
<1>1. toks \in Seq(Token) /\ part \in Seq(Token) /\ Len(part) = n
    BY PrefixOfPrefix DEF Well
<1>2. ASSUME NEW i \in 1 .. n
      PROVE  SubSeq(part, 1, i - 1) = SubSeq(toks, 1, i - 1) /\ part[i] = toks[i]
  <2>1. i \in 0 .. n /\ i - 1 \in 0 .. n
      BY <1>1
  <2> QED
      BY <1>1, <2>1, PrefixOfPrefix
<1>3. ASSUME NEW i \in 1 .. n
      PROVE  Allowed(Loaded(SubSeq(toks, 1, i - 1)), toks[i])
  <2>1. i \in 1 .. Len(toks)
      BY <1>1
  <2> QED
      BY <2>1 DEF Well
<1> HIDE DEF part
<1>4. Well(part)
    BY <1>1, <1>2, <1>3 DEF Well
<1> QED
    BY <1>4 DEF part

LEMMA WellAppend ==
    ASSUME NEW toks, Well(toks), NEW tok \in Token, Allowed(Loaded(toks), tok)
    PROVE  /\ Well(Append(toks, tok))
           /\ Loaded(Append(toks, tok)) = ReplayOne(Loaded(toks), tok)
<1> DEFINE more == Append(toks, tok)
           n == Len(toks)
<1>1. /\ toks \in Seq(Token) /\ n \in Nat
      /\ more \in Seq(Token) /\ Len(more) = n + 1 /\ more[n + 1] = tok
      /\ SubSeq(more, 1, n) = toks /\ SubSeq(toks, 1, n) = toks
    BY DEF Well
<1>2. \A i \in 1 .. n : more[i] = toks[i]
    BY <1>1
<1>3. ASSUME NEW i \in 1 .. n
      PROVE  SubSeq(more, 1, i - 1) = SubSeq(toks, 1, i - 1)
  <2>1. i - 1 \in 0 .. n /\ n \in 0 .. Len(more)
      BY <1>1
  <2>2. SubSeq(SubSeq(more, 1, n), 1, i - 1) = SubSeq(more, 1, i - 1)
      BY <1>1, <2>1, PrefixOfPrefix
  <2> QED
      BY <1>1, <2>2
<1> HIDE DEF more, n
<1>4. ASSUME NEW i \in 1 .. n + 1
      PROVE  Allowed(Loaded(SubSeq(more, 1, i - 1)), more[i])
  <2>1. CASE i = n + 1
    <3>1. SubSeq(more, 1, i - 1) = toks /\ more[i] = tok
        BY <1>1, <2>1
    <3> QED
        BY <3>1
  <2>2. CASE i # n + 1
    <3>1. i \in 1 .. n
        BY <1>1, <2>2
    <3> QED
        BY <1>2, <1>3, <3>1 DEF Well, n
  <2> QED
      BY <2>1, <2>2
<1>5. Well(more)
    BY <1>1, <1>4 DEF Well
<1> QED
    BY <1>1, <1>5, LoadedAppend DEF more

LEMMA WellStep ==
    ASSUME NEW toks, Well(toks), NEW i \in 1 .. Len(toks)
    PROVE  Loaded(SubSeq(toks, 1, i)) = ReplayOne(Loaded(SubSeq(toks, 1, i - 1)), toks[i])
<1>1. /\ SubSeq(toks, 1, i - 1) \in Seq(Token) /\ toks[i] \in Token
      /\ SubSeq(toks, 1, i) = Append(SubSeq(toks, 1, i - 1), toks[i])
    BY DEF Well
<1> QED
    BY <1>1, LoadedAppend

LEMMA RangeConcat ==
    ASSUME NEW q \in Seq(Wr), NEW r \in Seq(Wr)
    PROVE  Range(q \o r) = Range(q) \cup Range(r)
<1>1. DOMAIN (q \o r) = 1 .. Len(q) + Len(r)
    OBVIOUS
<1>2. \A i \in 1 .. Len(q) : (q \o r)[i] = q[i]
    OBVIOUS
<1>3. \A i \in 1 .. Len(r) : (q \o r)[Len(q) + i] = r[i]
    OBVIOUS
<1>4. ASSUME NEW i \in 1 .. Len(q) + Len(r)
      PROVE  (q \o r)[i] \in Range(q) \cup Range(r)
  <2>1. CASE i <= Len(q)
      BY <1>2, <2>1 DEF Range
  <2>2. CASE i > Len(q)
    <3>1. i - Len(q) \in 1 .. Len(r) /\ i = Len(q) + (i - Len(q))
        BY <2>2
    <3> QED
        BY <1>3, <3>1 DEF Range
  <2> QED
      BY <2>1, <2>2
<1>5. ASSUME NEW i \in 1 .. Len(q) PROVE q[i] \in Range(q \o r)
  <2>1. i \in 1 .. Len(q) + Len(r)
      OBVIOUS
  <2> QED
      BY <1>1, <1>2, <2>1 DEF Range
<1>6. ASSUME NEW i \in 1 .. Len(r) PROVE r[i] \in Range(q \o r)
  <2>1. Len(q) + i \in 1 .. Len(q) + Len(r)
      OBVIOUS
  <2> QED
      BY <1>1, <1>3, <2>1 DEF Range
<1>7. DOMAIN q = 1 .. Len(q) /\ DOMAIN r = 1 .. Len(r)
    OBVIOUS
<1>8. \A x \in Range(q \o r) : x \in Range(q) \cup Range(r)
    BY <1>1, <1>4 DEF Range
<1>9. \A x \in Range(q) : x \in Range(q \o r)
    BY <1>5, <1>7 DEF Range
<1>10. \A x \in Range(r) : x \in Range(q \o r)
    BY <1>6, <1>7 DEF Range
<1> QED
    BY <1>8, <1>9, <1>10

LEMMA RangeAppend ==
    ASSUME NEW q \in Seq(Wr), NEW w \in Wr
    PROVE  Range(Append(q, w)) = Range(q) \cup {w}
<1>1. Append(q, w) = q \o <<w>> /\ <<w>> \in Seq(Wr)
    OBVIOUS
<1>2. Range(<<w>>) = {w}
    BY DEF Range
<1> QED
    BY <1>1, <1>2, RangeConcat

LEMMA PairedAppend ==
    ASSUME NEW q \in Seq(Wr), PairedSeq(q), NEW n \in Nat
    PROVE  /\ \A w \in Wr : w[2] = 0 => PairedSeq(Append(q, w))
           /\ PairedSeq(q \o Both(n))
           /\ Both(n) \in Seq(Wr)
<1>1. \A w \in Wr : w[2] = 0 => PairedSeq(Append(q, w))
  <2> SUFFICES ASSUME NEW w \in Wr, w[2] = 0, NEW m \in Nat
               PROVE  (<<m, 1>> \in Range(Append(q, w))) <=> (<<m, 2>> \in Range(Append(q, w)))
      BY DEF PairedSeq
  <2>1. <<m, 1>> # w /\ <<m, 2>> # w
      OBVIOUS
  <2> QED
      BY <2>1, RangeAppend DEF PairedSeq
<1>2. Both(n) \in Seq(Wr)
    BY DEF Both, Wr
<1>3. Range(Both(n)) = {<<n, 1>>, <<n, 2>>}
  <2>1. DOMAIN Both(n) = {1, 2} /\ Both(n)[1] = <<n, 1>> /\ Both(n)[2] = <<n, 2>>
      BY DEF Both
  <2> QED
      BY <2>1 DEF Range
<1>4. Range(q \o Both(n)) = Range(q) \cup {<<n, 1>>, <<n, 2>>}
    BY <1>2, <1>3, RangeConcat
<1>5. PairedSeq(q \o Both(n))
  <2> SUFFICES ASSUME NEW m \in Nat
               PROVE  (<<m, 1>> \in Range(q \o Both(n))) <=> (<<m, 2>> \in Range(q \o Both(n)))
      BY DEF PairedSeq
  <2>1. (<<m, 1>> \in Range(q)) <=> (<<m, 2>> \in Range(q))
      BY DEF PairedSeq
  <2>2. /\ <<m, 1>> # <<n, 2>> /\ <<m, 2>> # <<n, 1>>
        /\ (<<m, 1>> = <<n, 1>>) <=> (<<m, 2>> = <<n, 2>>)
      OBVIOUS
  <2> QED
      BY <1>4, <2>1, <2>2
<1> QED
    BY <1>1, <1>2, <1>5

LEMMA PairedStore ==
    ASSUME NEW data \in AfDataType, Paired(data), NEW d \in Db,
           NEW q \in Seq(Wr), PairedSeq(q)
    PROVE  /\ [data EXCEPT ![d] = q] \in AfDataType
           /\ Paired([data EXCEPT ![d] = q])
    BY DEF AfDataType, Paired

LEMMA GoodNothing == AofAssumption => GoodState(NothingLoaded)
<1> SUFFICES ASSUME AofAssumption PROVE GoodState(NothingLoaded)
    OBVIOUS
<1>1. (CHOOSE d \in Db : TRUE) \in Db
    BY DEF AofAssumption
<1>2. NoData \in AfDataType
    BY DEF NoData, AfDataType
<1>3. Paired(NoData)
    BY DEF Paired, PairedSeq, NoData, Range
<1> QED
    BY <1>1, <1>2, <1>3 DEF GoodState, NothingLoaded, LoadState

LEMMA GoodStep ==
    ASSUME NEW s, GoodState(s), NEW tok \in Token, Allowed(s, tok)
    PROVE  GoodState(ReplayOne(s, tok))
<1> DEFINE s2 == ReplayOne(s, tok)
<1>0. s \in LoadState /\ s.data \in AfDataType /\ s.cur \in Db /\ s.tx \in BOOLEAN
         /\ s.queue \in Seq(Wr) /\ Paired(s.data)
    BY DEF GoodState, LoadState
<1>1. CASE tok.t = "rdb"
  <2>1. s2 = [s EXCEPT !.data = tok.data] /\ tok.data \in AfDataType
      BY <1>1 DEF ReplayOne, Token, AfMulti, AfExec
  <2>2. Paired(tok.data) /\ ~s.tx
      BY <1>1 DEF Allowed
  <2> QED
      BY <2>1, <2>2 DEF GoodState, LoadState
<1>2. CASE tok.t = "select"
  <2>1. s2 = [s EXCEPT !.cur = tok.d] /\ tok.d \in Db
      BY <1>2 DEF ReplayOne, Token, AfMulti, AfExec
  <2> QED
      BY <2>1 DEF GoodState, LoadState
<1>3. CASE tok.t = "multi"
  <2>1. s2 = [s EXCEPT !.tx = TRUE] /\ ~s.tx
      BY <1>3 DEF ReplayOne, Allowed
  <2> QED
      BY <2>1 DEF GoodState, LoadState
<1>4. CASE tok.t = "exec"
  <2>1. PICK n \in Nat : s.queue = Both(n)
      BY <1>4 DEF Allowed, GoodState
  <2>2. s2 = [s EXCEPT !.data[s.cur] = @ \o s.queue, !.tx = FALSE, !.queue = <<>>]
      BY <1>4 DEF ReplayOne
  <2>3. /\ s.data[s.cur] \in Seq(Wr) /\ PairedSeq(s.data[s.cur])
        /\ s.data[s.cur] \o s.queue \in Seq(Wr)
      BY <1>0 DEF Paired, AfDataType
  <2>4. PairedSeq(s.data[s.cur] \o s.queue)
      BY <2>1, <2>3, PairedAppend
  <2> DEFINE data == [s.data EXCEPT ![s.cur] = s.data[s.cur] \o s.queue]
  <2>5. data \in AfDataType /\ Paired(data)
      BY <1>0, <2>3, <2>4, PairedStore
  <2>6. s2 = [s EXCEPT !.data = data, !.tx = FALSE, !.queue = <<>>]
      BY <1>0, <2>2 DEF LoadState
  <2> HIDE DEF data
  <2>7. s2 \in LoadState /\ s2.data = data /\ s2.tx = FALSE /\ s2.queue = <<>>
    <3> DEFINE none == <<>>
    <3>1. none \in Seq(Wr) /\ FALSE \in BOOLEAN
        OBVIOUS
    <3> HIDE DEF none, s2
    <3>2. s2 = [s EXCEPT !.data = data, !.tx = FALSE, !.queue = none]
        BY <2>6 DEF none
    <3>3. s2 = [data |-> data, cur |-> s.cur, tx |-> FALSE, queue |-> none]
        BY <1>0, <3>2 DEF LoadState
    <3>4. s2 \in LoadState /\ s2.data = data /\ s2.tx = FALSE /\ s2.queue = none
        BY <1>0, <2>5, <3>1, <3>3 DEF LoadState
    <3> QED
        BY <3>4 DEF none
  <2> HIDE DEF s2
  <2>8. GoodState(s2)
      BY <2>5, <2>7 DEF GoodState
  <2> QED
      BY <2>8 DEF s2
<1>5. CASE tok.t = "write" /\ s.tx
  <2>1. s2 = [s EXCEPT !.queue = Append(@, tok.w)] /\ tok.w \in Wr
      BY <1>5 DEF ReplayOne, Token, AfMulti, AfExec
  <2>2. PICK n \in Nat : \/ s.queue = <<>> /\ tok.w = <<n, 1>>
                         \/ s.queue = <<<<n, 1>>>> /\ tok.w = <<n, 2>>
      BY <1>5 DEF Allowed
  <2> DEFINE q == Append(s.queue, tok.w)
  <2>3. q \in Seq(Wr) /\ (q = <<<<n, 1>>>> \/ q = Both(n))
    <3>1. q \in Seq(Wr)
        BY <1>0, <2>1
    <3>2. CASE s.queue = <<>> /\ tok.w = <<n, 1>>
        BY <3>1, <3>2
    <3>3. CASE s.queue = <<<<n, 1>>>> /\ tok.w = <<n, 2>>
      <4>1. Len(q) = 2 /\ q[1] = <<n, 1>> /\ q[2] = <<n, 2>>
          BY <1>0, <3>3
      <4>2. \A r \in Seq(Wr) : Len(r) = 2 => r = <<r[1], r[2]>>
          OBVIOUS
      <4> QED
          BY <3>1, <4>1, <4>2 DEF Both
    <3> QED
        BY <2>2, <3>2, <3>3
  <2>4. s2 = [s EXCEPT !.queue = q]
      BY <2>1
  <2> HIDE DEF q
  <2> QED
      BY <1>5, <2>3, <2>4 DEF GoodState, LoadState
<1>6. CASE tok.t = "write" /\ ~s.tx
  <2>1. s2 = [s EXCEPT !.data[s.cur] = Append(@, tok.w)] /\ tok.w \in Wr
      BY <1>6 DEF ReplayOne, Token, AfMulti, AfExec
  <2>2. s.data[s.cur] \in Seq(Wr) /\ PairedSeq(s.data[s.cur]) /\ tok.w[2] = 0
      BY <1>0, <1>6 DEF Paired, AfDataType, Allowed
  <2>3. Append(s.data[s.cur], tok.w) \in Seq(Wr) /\ PairedSeq(Append(s.data[s.cur], tok.w))
    <3>1. \A w \in Wr : w[2] = 0 => PairedSeq(Append(s.data[s.cur], w))
        BY <2>2, PairedAppend, 0 \in Nat
    <3> QED
        BY <2>1, <2>2, <3>1
  <2> DEFINE data == [s.data EXCEPT ![s.cur] = Append(s.data[s.cur], tok.w)]
  <2>4. data \in AfDataType /\ Paired(data)
      BY <1>0, <2>3, PairedStore
  <2>5. s2 = [s EXCEPT !.data = data]
      BY <1>0, <2>1 DEF LoadState
  <2> HIDE DEF data
  <2> QED
      BY <2>4, <2>5 DEF GoodState, LoadState
<1> QED
    BY <1>1, <1>2, <1>3, <1>4, <1>5, <1>6 DEF Token, AfMulti, AfExec

LEMMA WellGood ==
    ASSUME AofAssumption, NEW toks, Well(toks)
    PROVE  /\ toks \in Seq(Token)
           /\ \A n \in 0 .. Len(toks) : GoodState(Loaded(SubSeq(toks, 1, n)))
           /\ GoodState(Loaded(toks))
<1>0. toks \in Seq(Token) /\ SubSeq(toks, 1, Len(toks)) = toks /\ Len(toks) \in Nat
    BY DEF Well
<1> DEFINE S == {n \in Nat : n <= Len(toks) => GoodState(Loaded(SubSeq(toks, 1, n)))}
<1>1. 0 \in S
  <2>1. SubSeq(toks, 1, 0) = <<>>
      BY <1>0
  <2> QED
      BY <2>1, LoadedEmpty, GoodNothing
<1>2. ASSUME NEW n \in Nat, n \in S
      PROVE  n + 1 \in S
  <2> SUFFICES ASSUME n + 1 <= Len(toks)
               PROVE  GoodState(Loaded(SubSeq(toks, 1, n + 1)))
      OBVIOUS
  <2>1. n + 1 \in 1 .. Len(toks) /\ (n + 1) - 1 = n /\ toks[n + 1] \in Token
      BY <1>0
  <2>2. GoodState(Loaded(SubSeq(toks, 1, n)))
      BY <1>2, <1>0
  <2>3. Allowed(Loaded(SubSeq(toks, 1, n)), toks[n + 1])
      BY <2>1 DEF Well
  <2>4. Loaded(SubSeq(toks, 1, n + 1)) = ReplayOne(Loaded(SubSeq(toks, 1, n)), toks[n + 1])
      BY <2>1, WellStep
  <2> QED
      BY <2>1, <2>2, <2>3, <2>4, GoodStep
<1>3. \A n \in Nat : n \in S
  <2> HIDE DEF S
  <2> QED
      BY <1>1, <1>2, Induction
<1>4. \A n \in 0 .. Len(toks) : GoodState(Loaded(SubSeq(toks, 1, n)))
    BY <1>0, <1>3
<1>5. Len(toks) \in 0 .. Len(toks)
    BY <1>0
<1>6. GoodState(Loaded(toks))
    BY <1>0, <1>4, <1>5
<1> QED
    BY <1>0, <1>4, <1>6

-----------------------------------------------------------------------------
(* What feedAppendOnlyFile adds.                                             *)

\* The commands load to the data; the next is for database sel, if any is
\* selected.
Loads(toks, data, sel) ==
    /\ Well(toks)
    /\ Loaded(toks).data = data
    /\ ~Loaded(toks).tx
    /\ sel # NoDb => Loaded(toks).cur = sel

LEMMA LoadsTyped ==
    ASSUME AofAssumption, NEW toks, NEW data, NEW sel, Loads(toks, data, sel)
    PROVE  /\ toks \in Seq(Token)
           /\ data \in AfDataType /\ Paired(data)
           /\ Loads(toks, data, NoDb)
           /\ Loaded(toks) \in LoadState
           /\ Loaded(toks).queue = <<>>
           /\ Loaded(toks) = [data |-> data, cur |-> Loaded(toks).cur, tx |-> FALSE, queue |-> <<>>]
<1>1. GoodState(Loaded(toks)) /\ toks \in Seq(Token)
    BY WellGood DEF Loads
<1>2. Loaded(toks) \in LoadState /\ Loaded(toks).queue = <<>> /\ Paired(Loaded(toks).data)
    BY <1>1 DEF GoodState, Loads
<1>3. Loaded(toks).data = data /\ Loaded(toks).tx = FALSE
    BY <1>2 DEF Loads, LoadState
<1>4. data \in AfDataType
    BY <1>2, <1>3 DEF LoadState
<1>5. Loaded(toks) = [data |-> data, cur |-> Loaded(toks).cur, tx |-> FALSE, queue |-> <<>>]
    BY <1>2, <1>3 DEF LoadState
<1> QED
    BY <1>1, <1>2, <1>3, <1>4, <1>5 DEF Loads

LEMMA AppendIsConcat ==
    ASSUME NEW S, NEW q \in Seq(S), NEW a \in S
    PROVE  q \o <<a>> = Append(q, a)
    OBVIOUS

LEMMA ReplayMulti ==
    ASSUME NEW data, NEW cur
    PROVE  ReplayOne([data |-> data, cur |-> cur, tx |-> FALSE, queue |-> <<>>], AfMulti)
            = [data |-> data, cur |-> cur, tx |-> TRUE, queue |-> <<>>]
<1> DEFINE s == [data |-> data, cur |-> cur, tx |-> FALSE, queue |-> <<>>]
<1>1. ReplayOne(s, AfMulti) = [s EXCEPT !.tx = TRUE]
    BY DEF ReplayOne, AfMulti
<1> QED
    BY <1>1

LEMMA ReplayQueued ==
    ASSUME NEW data, NEW cur, NEW queue, NEW w
    PROVE  ReplayOne([data |-> data, cur |-> cur, tx |-> TRUE, queue |-> queue], Write(w))
            = [data |-> data, cur |-> cur, tx |-> TRUE, queue |-> Append(queue, w)]
<1> DEFINE s == [data |-> data, cur |-> cur, tx |-> TRUE, queue |-> queue]
<1>1. ReplayOne(s, Write(w)) = [s EXCEPT !.queue = Append(@, w)]
    BY DEF ReplayOne, Write
<1> QED
    BY <1>1

LEMMA ReplayExec ==
    ASSUME NEW data, NEW cur, NEW queue
    PROVE  ReplayOne([data |-> data, cur |-> cur, tx |-> TRUE, queue |-> queue], AfExec)
            = [data |-> [data EXCEPT ![cur] = @ \o queue], cur |-> cur, tx |-> FALSE,
               queue |-> <<>>]
<1> DEFINE s == [data |-> data, cur |-> cur, tx |-> TRUE, queue |-> queue]
<1>1. ReplayOne(s, AfExec)
        = [s EXCEPT !.data[s.cur] = @ \o s.queue, !.tx = FALSE, !.queue = <<>>]
    BY DEF ReplayOne, AfExec
<1> QED
    BY <1>1

LEMMA FeedSelect ==
    ASSUME AofAssumption, NEW toks, NEW data, NEW sel, Loads(toks, data, sel), NEW d \in Db
    PROVE  Loads(toks \o <<Select(d)>>, data, d)
<1>1. Select(d) \in Token /\ toks \in Seq(Token) /\ Loaded(toks) \in LoadState
    BY LoadsTyped DEF Select, Token
<1>2. Allowed(Loaded(toks), Select(d))
    BY DEF Allowed, Select, Loads
<1>3. ReplayOne(Loaded(toks), Select(d)) = [Loaded(toks) EXCEPT !.cur = d]
    BY DEF ReplayOne, Select
<1>4. /\ Well(Append(toks, Select(d)))
      /\ Loaded(Append(toks, Select(d))) = [Loaded(toks) EXCEPT !.cur = d]
    BY <1>1, <1>2, <1>3, WellAppend DEF Loads
<1>5. toks \o <<Select(d)>> = Append(toks, Select(d))
    BY <1>1, AppendIsConcat
<1>6. Loads(Append(toks, Select(d)), data, d)
    BY <1>1, <1>4 DEF Loads, LoadState
<1> QED
    BY <1>5, <1>6

LEMMA FeedWrite ==
    ASSUME AofAssumption, NEW toks, NEW data, NEW d \in Db, Loads(toks, data, d), NEW n \in Nat
    PROVE  Loads(toks \o <<Write(<<n, 0>>)>>, [data EXCEPT ![d] = @ \o <<<<n, 0>>>>], d)
<1> DEFINE s == Loaded(toks)
           w == <<n, 0>>
<1>1. /\ Write(w) \in Token /\ w \in Wr /\ toks \in Seq(Token)
      /\ s \in LoadState /\ data \in AfDataType /\ s.data = data /\ s.cur = d /\ ~s.tx
    BY LoadsTyped DEF Write, Token, Wr, Loads, AofAssumption
<1>2. Allowed(s, Write(w))
    BY <1>1 DEF Allowed, Write
<1>3. ReplayOne(s, Write(w)) = [s EXCEPT !.data = [data EXCEPT ![d] = Append(@, w)]]
    BY <1>1 DEF ReplayOne, Write, LoadState
<1>4. Well(Append(toks, Write(w))) /\ Loaded(Append(toks, Write(w))) = ReplayOne(s, Write(w))
    BY <1>1, <1>2, WellAppend DEF Loads
<1>5. [data EXCEPT ![d] = @ \o <<w>>] = [data EXCEPT ![d] = Append(@, w)]
  <2>1. data[d] \in Seq(Wr)
      BY <1>1 DEF AfDataType
  <2>2. data[d] \o <<w>> = Append(data[d], w)
      BY <1>1, <2>1, AppendIsConcat
  <2> QED
      BY <2>2
<1> HIDE DEF s, w
<1>6. Loads(Append(toks, Write(w)), [data EXCEPT ![d] = Append(@, w)], d)
    BY <1>1, <1>3, <1>4 DEF Loads, LoadState
<1> QED
    BY <1>1, <1>5, <1>6, AppendIsConcat DEF w

LEMMA FeedTransaction ==
    ASSUME AofAssumption, NEW toks, NEW data, NEW d \in Db, Loads(toks, data, d), NEW n \in Nat
    PROVE  Loads(toks \o <<AfMulti, Write(<<n, 1>>), Write(<<n, 2>>), AfExec>>,
                 [data EXCEPT ![d] = @ \o Both(n)], d)
<1> DEFINE s == Loaded(toks)
           w1 == <<n, 1>>
           w2 == <<n, 2>>
           t1 == Append(toks, AfMulti)
           t2 == Append(t1, Write(w1))
           t3 == Append(t2, Write(w2))
           t4 == Append(t3, AfExec)
           data2 == [data EXCEPT ![d] = @ \o Both(n)]
<1>1. /\ {AfMulti, AfExec, Write(w1), Write(w2)} \subseteq Token /\ toks \in Seq(Token)
      /\ w1 \in Wr /\ w2 \in Wr
      /\ s = [data |-> data, cur |-> d, tx |-> FALSE, queue |-> <<>>]
  <2>1. toks \in Seq(Token) /\ s.cur = d
           /\ s = [data |-> data, cur |-> s.cur, tx |-> FALSE, queue |-> <<>>]
      BY LoadsTyped DEF Loads, AofAssumption
  <2>2. {AfMulti, AfExec, Write(w1), Write(w2)} \subseteq Token /\ w1 \in Wr /\ w2 \in Wr
      BY DEF Write, Token, Wr
  <2> HIDE DEF s, w1, w2
  <2> QED
      BY <2>1, <2>2
<1>2. Well(t1) /\ Loaded(t1) = [data |-> data, cur |-> d, tx |-> TRUE, queue |-> <<>>]
  <2>1. Allowed(s, AfMulti)
      BY <1>1 DEF Allowed, AfMulti
  <2>2. ReplayOne(s, AfMulti) = [data |-> data, cur |-> d, tx |-> TRUE, queue |-> <<>>]
    <3>1. ReplayOne([data |-> data, cur |-> d, tx |-> FALSE, queue |-> <<>>], AfMulti)
            = [data |-> data, cur |-> d, tx |-> TRUE, queue |-> <<>>]
        BY ReplayMulti
    <3> QED
        BY <1>1, <3>1
  <2> QED
      BY <1>1, <2>1, <2>2, WellAppend DEF Loads
<1>3. Well(t2) /\ Loaded(t2) = [data |-> data, cur |-> d, tx |-> TRUE, queue |-> <<w1>>]
  <2>1. Allowed(Loaded(t1), Write(w1))
      BY <1>2 DEF Allowed, Write
  <2>2. ReplayOne(Loaded(t1), Write(w1))
            = [data |-> data, cur |-> d, tx |-> TRUE, queue |-> Append(<<>>, w1)]
    <3>1. ReplayOne([data |-> data, cur |-> d, tx |-> TRUE, queue |-> <<>>], Write(w1))
            = [data |-> data, cur |-> d, tx |-> TRUE, queue |-> Append(<<>>, w1)]
        <4> DEFINE q == <<>>
        <4> HIDE DEF q, w1
        <4>1. ReplayOne([data |-> data, cur |-> d, tx |-> TRUE, queue |-> q], Write(w1))
                = [data |-> data, cur |-> d, tx |-> TRUE, queue |-> Append(q, w1)]
            BY ReplayQueued
        <4> QED
            BY <4>1 DEF q
    <3> QED
        BY <1>2, <3>1
  <2>3. Append(<<>>, w1) = <<w1>>
      OBVIOUS
  <2> QED
      BY <1>1, <1>2, <2>1, <2>2, <2>3, WellAppend
<1>4. Well(t3) /\ Loaded(t3) = [data |-> data, cur |-> d, tx |-> TRUE, queue |-> Both(n)]
  <2>1. Allowed(Loaded(t2), Write(w2))
      BY <1>3 DEF Allowed, Write
  <2>2. ReplayOne(Loaded(t2), Write(w2))
            = [data |-> data, cur |-> d, tx |-> TRUE, queue |-> Append(<<w1>>, w2)]
    <3> DEFINE q == <<w1>>
    <3> HIDE DEF q, w2
    <3>1. ReplayOne([data |-> data, cur |-> d, tx |-> TRUE, queue |-> q], Write(w2))
            = [data |-> data, cur |-> d, tx |-> TRUE, queue |-> Append(q, w2)]
        BY ReplayQueued
    <3> USE DEF q
    <3> QED
        BY <1>3, <3>1
  <2>3. Append(<<w1>>, w2) = <<w1, w2>>
    <3>1. /\ Append(<<w1>>, w2) \in Seq(Wr) /\ Len(Append(<<w1>>, w2)) = 2
          /\ Append(<<w1>>, w2)[1] = w1 /\ Append(<<w1>>, w2)[2] = w2
        BY <1>1
    <3>2. \A r \in Seq(Wr) : Len(r) = 2 => r = <<r[1], r[2]>>
        OBVIOUS
    <3> HIDE DEF w1, w2
    <3> QED
        BY <3>1, <3>2
  <2> QED
      BY <1>1, <1>3, <2>1, <2>2, <2>3, WellAppend DEF Both
<1>5. Well(t4) /\ Loaded(t4) = [data |-> data2, cur |-> d, tx |-> FALSE, queue |-> <<>>]
  <2>1. Allowed(Loaded(t3), AfExec)
      BY <1>4 DEF Allowed, AfExec
  <2>2. ReplayOne(Loaded(t3), AfExec)
            = [data |-> data2, cur |-> d, tx |-> FALSE, queue |-> <<>>]
    <3>1. ReplayOne([data |-> data, cur |-> d, tx |-> TRUE, queue |-> Both(n)], AfExec)
            = [data |-> data2, cur |-> d, tx |-> FALSE, queue |-> <<>>]
        BY ReplayExec
    <3> QED
        BY <1>4, <3>1
  <2> QED
      BY <1>1, <1>4, <2>1, <2>2, WellAppend
<1>6. t4 = toks \o <<AfMulti, Write(w1), Write(w2), AfExec>>
  <2>1. ASSUME NEW S, NEW q \in Seq(S), NEW a \in S, NEW b \in S, NEW c \in S, NEW e \in S
        PROVE  q \o <<a, b, c, e>> = Append(Append(Append(Append(q, a), b), c), e)
      OBVIOUS
  <2> HIDE DEF w1, w2
  <2> QED
      BY <1>1, <2>1
<1> HIDE DEF t4, data2
<1>7. Loads(t4, data2, d)
    BY <1>5 DEF Loads
<1> QED
    BY <1>6, <1>7 DEF data2

LEMMA FeedTokens ==
    ASSUME NEW n \in Nat, NEW tx \in BOOLEAN
    PROVE  LET ws == IF tx THEN Both(n) ELSE <<<<n, 0>>>>
               cmds == [i \in DOMAIN ws |-> Write(ws[i])]
           IN  /\ tx => <<AfMulti>> \o cmds \o <<AfExec>>
                            = <<AfMulti, Write(<<n, 1>>), Write(<<n, 2>>), AfExec>>
               /\ ~tx => cmds = <<Write(<<n, 0>>)>>
               /\ {AfMulti, AfExec, Write(<<n, 0>>), Write(<<n, 1>>), Write(<<n, 2>>)} \subseteq Token
<1>1. {AfMulti, AfExec, Write(<<n, 0>>), Write(<<n, 1>>), Write(<<n, 2>>)} \subseteq Token
    BY DEF Token, Write, Wr
<1>2. ASSUME NEW a \in Token, NEW b \in Token, NEW c \in Token, NEW d \in Token
      PROVE  <<a>> \o <<b, c>> \o <<d>> = <<a, b, c, d>>
  <2>1. ASSUME NEW q \in Seq(Token) PROVE q \o <<d>> = Append(q, d)
      OBVIOUS
  <2>2. <<a>> \o <<b, c>> = Append(Append(<<a>>, b), c)
      OBVIOUS
  <2>3. <<>> \o <<a, b, c, d>> = Append(Append(Append(Append(<<>>, a), b), c), d)
    <3>1. <<>> \in Seq(Token)
        OBVIOUS
    <3>2. \A q \in Seq(Token) :
            q \o <<a, b, c, d>> = Append(Append(Append(Append(q, a), b), c), d)
        OBVIOUS
    <3> QED
        BY <3>1, <3>2
  <2>4. Append(<<>>, a) = <<a>> /\ <<>> \o <<a, b, c, d>> = <<a, b, c, d>>
      OBVIOUS
  <2>5. <<a>> \o <<b, c>> \in Seq(Token)
      OBVIOUS
  <2> QED
      BY <2>1, <2>2, <2>3, <2>4, <2>5
<1>3. [i \in DOMAIN Both(n) |-> Write(Both(n)[i])] = <<Write(<<n, 1>>), Write(<<n, 2>>)>>
    BY DEF Both
<1>4. [i \in DOMAIN <<<<n, 0>>>> |-> Write(<<<<n, 0>>>>[i])] = <<Write(<<n, 0>>)>>
    OBVIOUS
<1>5. CASE tx
  <2>1. <<AfMulti>> \o <<Write(<<n, 1>>), Write(<<n, 2>>)>> \o <<AfExec>>
            = <<AfMulti, Write(<<n, 1>>), Write(<<n, 2>>), AfExec>>
      BY <1>1, <1>2
  <2> QED
      BY <1>1, <1>3, <1>5, <2>1
<1>6. CASE ~tx
    BY <1>1, <1>4, <1>6
<1> QED
    BY <1>5, <1>6

-----------------------------------------------------------------------------
(* An incomplete transaction at the end of the file.                         *)

\* Inside a transaction its MULTI has no EXEC behind it.
LEMMA OpenMulti ==
    ASSUME AofAssumption, NEW toks, Well(toks), Loaded(toks).tx
    PROVE  \E m \in 1 .. Len(toks) : /\ toks[m] = AfMulti
                                     /\ \A j \in m + 1 .. Len(toks) : toks[j] # AfExec
<1> DEFINE At(n) == Loaded(SubSeq(toks, 1, n))
           Open(n) == \E m \in 1 .. n : /\ toks[m] = AfMulti
                                        /\ \A j \in m + 1 .. n : toks[j] # AfExec
           S == {n \in Nat : n <= Len(toks) /\ At(n).tx => Open(n)}
<1>0. /\ toks \in Seq(Token) /\ Len(toks) \in Nat
      /\ \A n \in 0 .. Len(toks) : GoodState(At(n))
      /\ SubSeq(toks, 1, Len(toks)) = toks
    BY WellGood DEF Well
<1>1. 0 \in S
  <2>1. SubSeq(toks, 1, 0) = <<>>
      BY <1>0
  <2>2. At(0) = NothingLoaded
      BY <2>1, LoadedEmpty
  <2> QED
      BY <2>2 DEF NothingLoaded
<1>2. ASSUME NEW n \in Nat, n \in S
      PROVE  n + 1 \in S
  <2> SUFFICES ASSUME n + 1 <= Len(toks), At(n + 1).tx
               PROVE  Open(n + 1)
      OBVIOUS
  <2>1. /\ n + 1 \in 1 .. Len(toks) /\ (n + 1) - 1 = n /\ toks[n + 1] \in Token
        /\ n \in 0 .. Len(toks)
      BY <1>0
  <2>2. At(n + 1) = ReplayOne(At(n), toks[n + 1])
      BY <2>1, WellStep
  <2>3. GoodState(At(n))
      BY <1>0, <2>1
  <2> HIDE DEF At
  <2>4. CASE toks[n + 1] = AfMulti
    <3>1. n + 1 \in 1 .. n + 1 /\ \A j \in (n + 1) + 1 .. n + 1 : toks[j] # AfExec
        OBVIOUS
    <3> QED
        BY <2>4, <3>1
  <2>5. CASE toks[n + 1] # AfMulti
    <3>1. toks[n + 1] # AfExec /\ At(n).tx
      <4>1. At(n) \in LoadState
          BY <2>3 DEF GoodState
      <4> DEFINE tok == toks[n + 1]
                 s == At(n)
                 s2 == At(n + 1)
      <4> HIDE DEF tok, s, s2
      <4>2. s \in LoadState /\ tok \in Token /\ tok # AfMulti /\ s2 = ReplayOne(s, tok) /\ s2.tx
          BY <2>1, <2>2, <2>5, <4>1 DEF tok, s, s2
      <4>3. tok.t \in {"rdb", "select", "exec", "write"}
          BY <4>2 DEF Token, AfMulti, AfExec
      <4>4. tok # AfExec /\ s.tx
        <5>1. CASE tok.t = "rdb"
          <6>1. s2 = [s EXCEPT !.data = tok.data]
              BY <4>2, <5>1 DEF ReplayOne
          <6> QED
              BY <4>2, <5>1, <6>1 DEF LoadState, AfExec
        <5>2. CASE tok.t = "select"
          <6>1. s2 = [s EXCEPT !.cur = tok.d]
              BY <4>2, <5>2 DEF ReplayOne
          <6> QED
              BY <4>2, <5>2, <6>1 DEF LoadState, AfExec
        <5>3. CASE tok.t = "exec"
            BY <4>2, <5>3 DEF ReplayOne, LoadState
        <5>4. CASE tok.t = "write" /\ s.tx
            BY <5>4 DEF AfExec
        <5>5. CASE tok.t = "write" /\ ~s.tx
            BY <4>2, <5>5 DEF ReplayOne, LoadState
        <5> QED
            BY <4>3, <5>1, <5>2, <5>3, <5>4, <5>5
      <4> QED
          BY <4>4 DEF tok, s
    <3>2. PICK m \in 1 .. n : toks[m] = AfMulti /\ \A j \in m + 1 .. n : toks[j] # AfExec
        BY <1>2, <2>1, <3>1
    <3>3. m \in 1 .. n + 1 /\ \A j \in m + 1 .. n + 1 : toks[j] # AfExec
        BY <3>1, <3>2
    <3> QED
        BY <3>2, <3>3
  <2> QED
      BY <2>4, <2>5
<1>3. \A n \in Nat : n \in S
  <2> HIDE DEF S
  <2> QED
      BY <1>1, <1>2, Induction
<1>4. Len(toks) \in S
  <2> HIDE DEF S
  <2> QED
      BY <1>0, <1>3
<1>5. At(Len(toks)).tx
    BY <1>0
<1> HIDE DEF Open, At
<1>6. Open(Len(toks))
    BY <1>0, <1>4, <1>5
<1> QED
    BY <1>6 DEF Open

\* Behind a MULTI without EXEC nothing changes the data.
LEMMA NothingAfterOpen ==
    ASSUME AofAssumption, NEW toks, Well(toks), NEW m \in 1 .. Len(toks),
           toks[m] = AfMulti, \A j \in 1 .. Len(toks) : j > m => toks[j] # AfExec
    PROVE  /\ ~Loaded(SubSeq(toks, 1, m - 1)).tx
           /\ Loaded(SubSeq(toks, 1, m - 1)).data = Loaded(toks).data
<1> DEFINE At(n) == Loaded(SubSeq(toks, 1, n))
           S == {n \in Nat : m <= n /\ n <= Len(toks) =>
                                At(n).tx /\ At(n).data = At(m - 1).data}
<1>0. /\ toks \in Seq(Token) /\ Len(toks) \in Nat
      /\ \A n \in 0 .. Len(toks) : GoodState(At(n))
      /\ \A n \in 1 .. Len(toks) : Allowed(At(n - 1), toks[n])
      /\ SubSeq(toks, 1, Len(toks)) = toks
    BY WellGood DEF Well
<1>1. At(m) = ReplayOne(At(m - 1), toks[m]) /\ Allowed(At(m - 1), toks[m])
    BY <1>0, WellStep
<1>2. GoodState(At(m - 1))
    BY <1>0
<1> HIDE DEF At
<1>3. ~At(m - 1).tx
    BY <1>1 DEF Allowed, AfMulti
<1>4. At(m).tx /\ At(m).data = At(m - 1).data
  <2>1. At(m) = [At(m - 1) EXCEPT !.tx = TRUE] /\ At(m - 1) \in LoadState
      BY <1>1, <1>2 DEF ReplayOne, AfMulti, GoodState
  <2> QED
      BY <2>1 DEF LoadState
<1>5. 0 \in S
    OBVIOUS
<1>6. ASSUME NEW n \in Nat, n \in S
      PROVE  n + 1 \in S
  <2> SUFFICES ASSUME m <= n + 1, n + 1 <= Len(toks)
               PROVE  At(n + 1).tx /\ At(n + 1).data = At(m - 1).data
      OBVIOUS
  <2>1. CASE m = n + 1
      BY <1>4, <2>1
  <2>2. CASE m # n + 1
    <3> DEFINE tok == toks[n + 1]
               s == At(n)
    <3>1. n + 1 \in 1 .. Len(toks) /\ n + 1 > m /\ (n + 1) - 1 = n /\ m <= n /\ n <= Len(toks)
        BY <2>2
    <3>2. s.tx /\ s.data = At(m - 1).data
        BY <1>6, <3>1
    <3>3. At(n + 1) = ReplayOne(s, tok)
        BY <3>1, WellStep DEF At
    <3>4. tok \in Token /\ tok # AfExec /\ Allowed(s, tok)
        BY <1>0, <3>1
    <3>5. s \in LoadState
        BY <1>0, <3>1 DEF GoodState
    <3> HIDE DEF tok, s
    <3>6. tok.t = "write"
        BY <3>2, <3>4 DEF Token, AfMulti, AfExec, Allowed
    <3>7. At(n + 1) = [s EXCEPT !.queue = Append(@, tok.w)]
        BY <3>2, <3>3, <3>6 DEF ReplayOne
    <3> QED
        BY <3>2, <3>5, <3>7 DEF LoadState
  <2> QED
      BY <2>1, <2>2
<1>7. \A n \in Nat : n \in S
  <2> HIDE DEF S
  <2> QED
      BY <1>5, <1>6, Induction
<1>8. Len(toks) \in S
  <2> HIDE DEF S
  <2> QED
      BY <1>0, <1>7
<1>9. At(Len(toks)).data = At(m - 1).data
    BY <1>0, <1>8
<1> QED
    BY <1>0, <1>3, <1>9 DEF At

\* What is kept of a file loads to what the file loads to.
LEMMA ValidPartLoads ==
    ASSUME AofAssumption, NEW toks, Well(toks)
    PROVE  /\ Loads(ValidPart(toks), Replay(toks), NoDb)
           /\ ValidPart(toks) \in Seq(Token)
<1> DEFINE n == Len(toks)
           multis == {i \in DOMAIN toks : toks[i] = AfMulti}
           open == {i \in multis : \A j \in DOMAIN toks : j > i => toks[j] # AfExec}
<1>0. toks \in Seq(Token) /\ n \in Nat /\ DOMAIN toks = 1 .. n
    BY DEF Well
<1>1. CASE open = {}
  <2>1. ~Loaded(toks).tx
    <3> SUFFICES ASSUME Loaded(toks).tx PROVE FALSE
        OBVIOUS
    <3>1. PICK m \in 1 .. n : toks[m] = AfMulti /\ \A j \in m + 1 .. n : toks[j] # AfExec
        BY OpenMulti
    <3>2. \A j \in DOMAIN toks : j > m => j \in m + 1 .. n
        BY <1>0, <3>1
    <3>3. m \in open
        BY <1>0, <3>1, <3>2
    <3> QED
        BY <1>1, <3>3
  <2>2. ValidPart(toks) = toks
      BY <1>1 DEF ValidPart
  <2>3. Loads(toks, Replay(toks), NoDb)
      BY <2>1 DEF Loads, Loaded, Replay
  <2> QED
      BY <1>0, <2>2, <2>3
<1>2. CASE open # {}
  <2> DEFINE m == Min(open)
  <2>1. open \in SUBSET Nat
      BY <1>0
  <2>2. m \in open
    <3> HIDE DEF open
    <3> QED
        BY <1>2, <2>1, MinIn
  <2>3. m \in 1 .. n /\ toks[m] = AfMulti /\ \A j \in 1 .. n : j > m => toks[j] # AfExec
      BY <1>0, <2>2
  <2>4. ValidPart(toks) = SubSeq(toks, 1, m - 1)
      BY <1>2 DEF ValidPart
  <2> HIDE DEF m
  <2>5. m - 1 \in 0 .. n
      BY <1>0, <2>3
  <2>6. Well(SubSeq(toks, 1, m - 1)) /\ SubSeq(toks, 1, m - 1) \in Seq(Token)
      BY <1>0, <2>5, WellPrefix DEF Well
  <2>7. /\ ~Loaded(SubSeq(toks, 1, m - 1)).tx
        /\ Loaded(SubSeq(toks, 1, m - 1)).data = Loaded(toks).data
      BY <2>3, NothingAfterOpen
  <2>8. Loads(SubSeq(toks, 1, m - 1), Replay(toks), NoDb)
      BY <2>6, <2>7 DEF Loads, Loaded, Replay
  <2> QED
      BY <2>4, <2>6, <2>8
<1> QED
    BY <1>1, <1>2

-----------------------------------------------------------------------------
(* The inductive invariant.                                                  *)

OneFile(jobs) == \A i, j \in DOMAIN jobs : jobs[i] = "file" /\ jobs[j] = "file" => i = j
DiskType == [file : Seq(Token), synced : Nat, offset : Nat, buf : Seq(Token),
             jobs : Seq({"file", "replaced"}), due : BOOLEAN, postponed : 0 .. 3,
             err : BOOLEAN]
ChildType == [kind : {"none", "rdb", "aof"}, stage : {"dump", "asked", "done", "failed"},
              snap : AfDataType, got : Seq(Token), pipe : Seq(Token), stop : BOOLEAN]

DiskOK(a) == a \in DiskType /\ a.synced <= Len(a.file) /\ OneFile(a.jobs)
ChildOK(c) ==
    /\ c \in ChildType
    /\ c.kind # "aof" => c.stage = "dump"
    /\ c.stage = "done" => c.stop /\ c.pipe = <<>>

ClientsOK ==
    /\ afReply \in [AfClients -> SUBSET Wr]
    /\ afHandler \in [AfClients -> {"none", "plain", "barrier"}]
    /\ afRead \subseteq AfClients
    /\ afAcked \subseteq Wr /\ afAhead \subseteq Wr

AofTypes ==
    /\ afPolicy \in Policies /\ afState \in {"on", "wait", "off"}
    /\ afData \in AfDataType /\ Paired(afData)
    /\ afNext \in Nat /\ afSel \in Db \cup {NoDb}
    /\ DiskOK(afDisk) /\ ChildOK(afChild)
    /\ afDiff \in Seq(Token) /\ (afDiff # <<>> => afChild.kind = "aof")
    /\ afSched \in BOOLEAN /\ afNoFsync \in BOOLEAN
    /\ ClientsOK

\* The file with its buffer, and the file being made with what it still gets,
\* load to the data in memory; what is fed next is for database afSel in both.
Backed(state, disk, child, diff, data, sel) ==
    /\ state = "on" => Loads(disk.file \o disk.buf, data, sel)
    /\ state # "off" /\ child.kind = "aof" =>
        Loads(<<Preamble(child.snap)>> \o child.got \o child.pipe \o diff, data, sel)

AofInv == AofTypes /\ Backed(afState, afDisk, afChild, afDiff, afData, afSel)

\* What is loaded from the synced part of the file.
Writes(data) == UNION {Range(data[d]) : d \in Db}
Kept(disk) == Writes(Replay(SubSeq(disk.file, 1, disk.synced)))

\* No reply to c goes out before the loop sleeps.
Held(c) == afHandler[c] = "none" \/ (afHandler[c] = "barrier" /\ c \in afRead)

\* The writes of a client that has its reply, or is about to get it, are synced
\* or go ahead of the fsync; other replies wait for the buffer to be flushed.
\* With "always" no flush fails or waits, and the bio thread has nothing to do.
Safe(writes) == writes \subseteq Kept(afDisk) \cup afAhead
Calm(a) == ~a.err /\ a.postponed = 0 /\ a.jobs = <<>>
AckedInv ==
    /\ Pending \cup afAcked \subseteq Writes(afData)
    /\ afPolicy = "always" => Calm(afDisk)
    /\ InForce =>
        /\ Safe(afAcked)
        /\ \A c \in AfClients : Safe(afReply[c]) \/ (afDisk.buf # <<>> /\ Held(c))

LEMMA SplitSeq ==
    ASSUME NEW S, NEW q \in Seq(S), NEW n \in 0 .. Len(q)
    PROVE  /\ SubSeq(q, 1, n) \in Seq(S) /\ SubSeq(q, n + 1, Len(q)) \in Seq(S)
           /\ SubSeq(q, 1, n) \o SubSeq(q, n + 1, Len(q)) = q
           /\ n = Len(q) => SubSeq(q, n + 1, Len(q)) = <<>>
<1> DEFINE a == SubSeq(q, 1, n)
           b == SubSeq(q, n + 1, Len(q))
<1>1. a \in Seq(S) /\ Len(a) = n /\ \A i \in 1 .. n : a[i] = q[i]
    OBVIOUS
<1>2. b \in Seq(S) /\ Len(b) = Len(q) - n /\ \A i \in 1 .. Len(q) - n : b[i] = q[n + i]
    OBVIOUS
<1>5. n = Len(q) => b = <<>>
    OBVIOUS
<1> HIDE DEF a, b
<1>3. a \o b \in Seq(S) /\ Len(a \o b) = Len(q)
    BY <1>1, <1>2
<1>4. ASSUME NEW i \in 1 .. Len(q) PROVE (a \o b)[i] = q[i]
  <2>1. CASE i <= n
      BY <1>1, <1>2, <2>1
  <2>2. CASE i > n
    <3>1. i - n \in 1 .. Len(q) - n /\ n + (i - n) = i
        BY <2>2
    <3>2. (a \o b)[i] = b[i - n]
        BY <1>1, <1>2, <2>2
    <3> QED
        BY <1>2, <3>1, <3>2
  <2>3. i <= n \/ i > n
      OBVIOUS
  <2> QED
      BY <2>1, <2>2, <2>3
<1>6. \A r \in Seq(S) : Len(r) = Len(q) /\ (\A i \in 1 .. Len(q) : r[i] = q[i]) => r = q
    OBVIOUS
<1>7. a \o b = q
    BY <1>3, <1>4, <1>6
<1> QED
    BY <1>1, <1>2, <1>5, <1>7 DEF a, b

LEMMA TokensConcat ==
    ASSUME NEW q \in Seq(Token), NEW r \in Seq(Token), NEW s \in Seq(Token)
    PROVE  /\ q \o r \in Seq(Token)
           /\ (q \o r) \o s = q \o (r \o s)
           /\ q \o <<>> = q /\ <<>> \in Seq(Token)
    OBVIOUS

-----------------------------------------------------------------------------
(* Flushing.                                                                 *)

\* The disk says the same; with "always" all of it is written, and synced
\* unless that is put off.
SameDisk(a, b) ==
    /\ DiskOK(b)
    /\ b.file \o b.buf = a.file \o a.buf
    /\ afPolicy = "always" /\ ~a.err =>
        /\ ~b.err
        /\ a.postponed = 0 => b.postponed = 0
        /\ b.jobs = a.jobs
        /\ IF a.buf = <<>> THEN b = a
           ELSE /\ b.buf = <<>> /\ b.file = a.file \o a.buf
                /\ b.synced = IF FsyncPutOff THEN a.synced ELSE Len(b.file)

LEMMA SyncKeeps ==
    ASSUME NEW a, DiskOK(a), NEW busy \in BOOLEAN,
           afPolicy = "everysec" /\ ~busy => a.jobs = <<>>
    PROVE  LET b == TryFsync(a, busy)
           IN  /\ DiskOK(b) /\ b.file = a.file /\ b.buf = a.buf /\ b.err = a.err
               /\ b.postponed = a.postponed
               /\ afPolicy = "always" =>
                    /\ b.jobs = a.jobs
                    /\ b.synced = IF FsyncPutOff THEN a.synced ELSE Len(b.file)
<1> DEFINE b == TryFsync(a, busy)
<1>0. a \in DiskType /\ a.file \in Seq(Token) /\ Len(a.file) \in Nat
    BY DEF DiskOK, DiskType
<1>5. CASE FsyncPutOff
    BY <1>5 DEF TryFsync
<1>1. CASE ~FsyncPutOff /\ afPolicy = "always"
  <2>1. b = [a EXCEPT !.synced = Len(a.file), !.offset = Len(a.file), !.due = FALSE]
      BY <1>1 DEF TryFsync
  <2>2. b \in DiskType
      BY <1>0, <2>1 DEF DiskType
  <2>3. b.file = a.file /\ b.buf = a.buf /\ b.err = a.err /\ b.jobs = a.jobs
            /\ b.synced = Len(a.file) /\ b.postponed = a.postponed
      BY <1>0, <2>1 DEF DiskType
  <2> HIDE DEF b
  <2>4. DiskOK(b) /\ b.synced = Len(b.file)
      BY <1>0, <2>2, <2>3 DEF DiskOK
  <2> QED
      BY <1>1, <2>3, <2>4 DEF b
<1>2. CASE ~FsyncPutOff /\ afPolicy = "everysec" /\ a.due /\ busy
  <2>1. b = [a EXCEPT !.due = FALSE]
      BY <1>2 DEF TryFsync
  <2> QED
      BY <1>0, <1>2, <2>1 DEF DiskOK, DiskType
<1>3. CASE ~FsyncPutOff /\ afPolicy = "everysec" /\ a.due /\ ~busy
  <2>1. b = [a EXCEPT !.jobs = Append(@, "file"), !.offset = Len(a.file), !.due = FALSE]
      BY <1>3 DEF TryFsync
  <2>2. /\ Append(a.jobs, "file") \in Seq({"file", "replaced"})
        /\ DOMAIN Append(a.jobs, "file") = {1}
    <3>1. Append(a.jobs, "file") = <<"file">>
      <4>1. a.jobs = <<>>
          BY <1>3
      <4>2. Append(<<>>, "file") = <<"file">>
          OBVIOUS
      <4> QED
          BY <4>1, <4>2
    <3>2. <<"file">> \in Seq({"file", "replaced"}) /\ DOMAIN <<"file">> = {1}
        OBVIOUS
    <3> QED
        BY <3>1, <3>2
  <2>3. OneFile(Append(a.jobs, "file"))
      BY <2>2 DEF OneFile
  <2> DEFINE jobs == Append(a.jobs, "file")
  <2>4. b = [a EXCEPT !.jobs = jobs, !.offset = Len(a.file), !.due = FALSE]
      BY <2>1
  <2> HIDE DEF jobs
  <2> QED
      BY <1>0, <1>3, <2>2, <2>3, <2>4 DEF DiskOK, DiskType, jobs
<1>4. CASE ~FsyncPutOff /\ afPolicy # "always" /\ ~(afPolicy = "everysec" /\ a.due)
  <2>1. b = a
      BY <1>4 DEF TryFsync
  <2> QED
      BY <1>4, <2>1
<1> QED
    BY <1>1, <1>2, <1>3, <1>4, <1>5

LEMMA FlushKeeps ==
    ASSUME NEW a, DiskOK(a), NEW force \in BOOLEAN, NEW n \in Written(a)
    PROVE  SameDisk(a, flushAppendOnlyFile(a, force, n))
<1> DEFINE busy == afPolicy = "everysec" /\ SyncInProgress(a)
           w == [a EXCEPT !.file = @ \o SubSeq(a.buf, 1, n),
                          !.buf = SubSeq(@, n + 1, Len(@)),
                          !.postponed = 0, !.err = n < Len(a.buf)]
           b == flushAppendOnlyFile(a, force, n)
<1>0. /\ a \in DiskType /\ a.file \in Seq(Token) /\ Len(a.file) \in Nat
      /\ a.buf \in Seq(Token) /\ Len(a.buf) \in Nat /\ busy \in BOOLEAN
      /\ a.synced <= Len(a.file) /\ OneFile(a.jobs)
    BY DEF DiskOK, DiskType
<1>1. n \in 0 .. Len(a.buf) /\ (afPolicy = "always" => n = Len(a.buf))
    BY <1>0 DEF Written
<1>2. afPolicy = "everysec" /\ ~busy => a.jobs = <<>>
    BY DEF SyncInProgress
<1>3. CASE a.buf = <<>>
  <2>1. SameDisk(a, a)
      BY <1>3 DEF SameDisk
  <2>2. CASE b = a
      BY <2>1, <2>2
  <2>3. CASE b # a
    <3>1. b = TryFsync(a, FALSE) /\ afPolicy = "everysec" /\ ~busy
        BY <1>3, <2>3 DEF flushAppendOnlyFile
    <3>2. DiskOK(b) /\ b.file = a.file /\ b.buf = a.buf /\ b.err = a.err
        BY <1>2, <3>1, SyncKeeps, FALSE \in BOOLEAN
    <3> QED
        BY <3>1, <3>2 DEF SameDisk
  <2> QED
      BY <2>2, <2>3
<1>4. CASE a.buf # <<>>
  <2>1. CASE busy /\ ~force /\ a.postponed = 0
    <3>1. b = [a EXCEPT !.postponed = 1]
        BY <1>4, <2>1 DEF flushAppendOnlyFile
    <3>2. b \in DiskType
        BY <1>0, <3>1 DEF DiskType
    <3>3. b.file = a.file /\ b.buf = a.buf /\ b.err = a.err /\ b.jobs = a.jobs
            /\ b.synced = a.synced
        BY <1>0, <3>1 DEF DiskType
    <3> HIDE DEF b
    <3>4. DiskOK(b) /\ afPolicy # "always"
        BY <1>0, <2>1, <3>2, <3>3 DEF DiskOK
    <3>5. SameDisk(a, b)
        BY <3>3, <3>4 DEF SameDisk
    <3> QED
        BY <3>5 DEF b
  <2>2. CASE busy /\ ~force /\ a.postponed # 0 /\ a.postponed < 3
    <3>1. b = a
        BY <1>4, <2>2 DEF flushAppendOnlyFile
    <3> QED
        BY <2>2, <3>1 DEF SameDisk
  <2>3. CASE ~(busy /\ ~force /\ a.postponed = 0)
                /\ ~(busy /\ ~force /\ a.postponed < 3)
    <3>1. b = IF w.err THEN w ELSE TryFsync(w, busy)
        BY <1>4, <2>3 DEF flushAppendOnlyFile
    <3> DEFINE head == SubSeq(a.buf, 1, n)
               rest == SubSeq(a.buf, n + 1, Len(a.buf))
               short == n < Len(a.buf)
    <3>2. /\ head \in Seq(Token) /\ rest \in Seq(Token) /\ head \o rest = a.buf
          /\ n = Len(a.buf) => rest = <<>>
        BY <1>0, <1>1, SplitSeq
    <3>3. short \in BOOLEAN /\ (afPolicy = "always" => ~short)
        BY <1>0, <1>1
    <3>4. w = [a EXCEPT !.file = @ \o head, !.buf = rest, !.postponed = 0, !.err = short]
        BY <1>0 DEF DiskType
    <3> HIDE DEF head, rest, short, w
    <3>5. /\ a.file \o head \in Seq(Token) /\ Len(a.file) <= Len(a.file \o head)
          /\ (a.file \o head) \o rest = a.file \o a.buf
      <4>1. ASSUME NEW q \in Seq(Token), NEW r \in Seq(Token) PROVE Len(q) <= Len(q \o r)
          OBVIOUS
      <4>2. /\ a.file \o head \in Seq(Token)
            /\ (a.file \o head) \o rest = a.file \o (head \o rest)
        <5> DEFINE f == a.file
        <5>1. f \in Seq(Token) /\ head \in Seq(Token) /\ rest \in Seq(Token)
            BY <1>0, <3>2
        <5> HIDE DEF f
        <5>2. f \o head \in Seq(Token) /\ (f \o head) \o rest = f \o (head \o rest)
            BY <5>1, TokensConcat
        <5> QED
            BY <5>2 DEF f
      <4> QED
          BY <1>0, <3>2, <4>1, <4>2
    <3>6. w.file = a.file \o head /\ w.buf = rest /\ w.err = short /\ w.jobs = a.jobs
        BY <1>0, <3>4 DEF DiskType
    <3>7. DiskOK(w)
      <4>1. w \in DiskType
        <5> DEFINE file == a.file \o head
        <5>1. file \in Seq(Token) /\ w = [a EXCEPT !.file = file, !.buf = rest,
                                                 !.postponed = 0, !.err = short]
            BY <1>0, <3>4, <3>5 DEF DiskType
        <5> HIDE DEF file
        <5>2. rest \in Seq(Token) /\ short \in BOOLEAN /\ 0 \in 0 .. 3
            BY <3>2, <3>3
        <5> QED
            BY <1>0, <5>1, <5>2 DEF DiskType
      <4>2. w.synced = a.synced /\ a.synced \in Nat
          BY <1>0, <3>4 DEF DiskType
      <4>3. Len(a.file \o head) \in Nat
          BY <3>5
      <4> QED
          BY <1>0, <3>5, <3>6, <4>1, <4>2, <4>3 DEF DiskOK
    <3>10. w.postponed = 0 /\ w.synced = a.synced
        BY <1>0, <3>4 DEF DiskType
    <3>8. CASE short
        BY <3>1, <3>3, <3>5, <3>6, <3>7, <3>8 DEF SameDisk
    <3>9. CASE ~short
      <4>1. b = TryFsync(w, busy)
          BY <3>1, <3>6, <3>9
      <4>2. /\ DiskOK(b) /\ b.file = w.file /\ b.buf = w.buf /\ b.err = w.err
            /\ b.postponed = w.postponed
            /\ afPolicy = "always" =>
                 /\ b.jobs = w.jobs
                 /\ b.synced = IF FsyncPutOff THEN w.synced ELSE Len(b.file)
        <5> DEFINE t == TryFsync(w, busy)
        <5>1. /\ DiskOK(t) /\ t.file = w.file /\ t.buf = w.buf /\ t.err = w.err
              /\ t.postponed = w.postponed
              /\ afPolicy = "always" =>
                   /\ t.jobs = w.jobs
                   /\ t.synced = IF FsyncPutOff THEN w.synced ELSE Len(t.file)
            BY <1>0, <1>2, <3>6, <3>7, SyncKeeps
        <5>2. b = t
            BY <4>1
        <5> HIDE DEF t, b
        <5> QED
            BY <5>1, <5>2
      <4>3. afPolicy = "always" => rest = <<>> /\ head = a.buf
        <5>1. ASSUME n = Len(a.buf) PROVE SubSeq(a.buf, 1, n) = a.buf
            BY <1>0, <5>1
        <5> QED
            BY <1>1, <3>2, <5>1 DEF head
      <4>4. b.file = a.file \o head /\ b.buf = rest /\ b.err = short /\ b.postponed = 0
            /\ (afPolicy = "always" =>
                    /\ b.jobs = a.jobs
                    /\ b.synced = IF FsyncPutOff THEN a.synced ELSE Len(b.file))
          BY <3>6, <3>10, <4>2
      <4> HIDE DEF b
      <4>5. DiskOK(b)
          BY <4>2
      <4>6. afPolicy = "always" => b.buf = <<>> /\ b.file = a.file \o a.buf
          BY <4>3, <4>4
      <4>7. b.file \o b.buf = a.file \o a.buf
          BY <3>5, <4>4
      <4>8. ~b.err
          BY <3>9, <4>4
      <4>9. b.postponed = 0
          BY <4>4
      <4>10. afPolicy = "always" =>
                /\ b.jobs = a.jobs
                /\ b.synced = IF FsyncPutOff THEN a.synced ELSE Len(b.file)
          BY <4>4
      <4>11. a.buf # <<>>
          BY <1>4
      <4>12. SameDisk(a, b)
          BY ONLY <4>5, <4>6, <4>7, <4>8, <4>9, <4>10, <4>11, Zenon DEF SameDisk
      <4> QED
          BY <4>12 DEF b
    <3> QED
        BY <3>8, <3>9
  <2> QED
      BY <1>0, <2>1, <2>2, <2>3
<1> QED
    BY <1>3, <1>4

-----------------------------------------------------------------------------
(* One command; the first command of a rewritten file.                       *)

\* What feedAppendOnlyFile is called with for a command, and what it adds.
Ws(n, tx) == IF tx THEN Both(n) ELSE <<<<n, 0>>>>
Cmds(n, tx) == LET cmds == [i \in DOMAIN Ws(n, tx) |-> Write(Ws(n, tx)[i])]
               IN  IF tx THEN <<AfMulti>> \o cmds \o <<AfExec>> ELSE cmds
Fed(d, sel, cmds) == IF d # sel THEN <<Select(d)>> \o cmds ELSE cmds

LEMMA FeedCommand ==
    ASSUME AofAssumption, NEW sel, NEW d \in Db, NEW n \in Nat, NEW tx \in BOOLEAN
    PROVE  /\ Fed(d, sel, Cmds(n, tx)) \in Seq(Token)
           /\ \A toks, data : Loads(toks, data, sel) =>
                Loads(toks \o Fed(d, sel, Cmds(n, tx)), [data EXCEPT ![d] = @ \o Ws(n, tx)], d)
           /\ Fed(d, sel, Cmds(n, tx)) # <<>>
<1> DEFINE cmds == Cmds(n, tx)
<1>1. /\ tx => cmds = <<AfMulti, Write(<<n, 1>>), Write(<<n, 2>>), AfExec>>
      /\ ~tx => cmds = <<Write(<<n, 0>>)>>
      /\ cmds \in Seq(Token)
  <2>1. {AfMulti, AfExec, Write(<<n, 0>>), Write(<<n, 1>>), Write(<<n, 2>>)} \subseteq Token
      BY FeedTokens
  <2>2. CASE tx
    <3>1. cmds = <<AfMulti, Write(<<n, 1>>), Write(<<n, 2>>), AfExec>>
        BY <2>2, FeedTokens DEF Cmds, Ws
    <3> HIDE DEF cmds
    <3> QED
        BY <2>1, <2>2, <3>1
  <2>3. CASE ~tx
    <3>1. cmds = <<Write(<<n, 0>>)>>
        BY <2>3, FeedTokens DEF Cmds, Ws
    <3> HIDE DEF cmds
    <3> QED
        BY <2>1, <2>3, <3>1
  <2> QED
      BY <2>2, <2>3
<1>2. ASSUME NEW toks, NEW data, Loads(toks, data, d)
      PROVE  Loads(toks \o cmds, [data EXCEPT ![d] = @ \o Ws(n, tx)], d)
  <2>1. CASE tx
      BY <1>1, <1>2, <2>1, FeedTransaction DEF Ws
  <2>2. CASE ~tx
      BY <1>1, <1>2, <2>2, FeedWrite DEF Ws
  <2> QED
      BY <2>1, <2>2
<1>5. cmds # <<>>
  <2> HIDE DEF cmds
  <2>1. \A p, q, r, t : <<p>> # <<>> /\ <<p, q, r, t>> # <<>>
      OBVIOUS
  <2> QED
      BY <1>1, <2>1
<1> HIDE DEF cmds
<1>3. CASE d = sel
    BY <1>1, <1>2, <1>3, <1>5 DEF Fed, cmds
<1>4. CASE d # sel
  <2>1. <<Select(d)>> \in Seq(Token) /\ <<Select(d)>> \o cmds \in Seq(Token)
      BY <1>1 DEF Select, Token
  <2>2. ASSUME NEW toks, NEW data, Loads(toks, data, sel)
        PROVE  Loads(toks \o (<<Select(d)>> \o cmds), [data EXCEPT ![d] = @ \o Ws(n, tx)], d)
    <3>1. toks \in Seq(Token) /\ Loads(toks \o <<Select(d)>>, data, d)
        BY <2>2, LoadsTyped, FeedSelect
    <3> DEFINE first == <<Select(d)>>
    <3>2. first \in Seq(Token)
        BY <2>1
    <3> HIDE DEF first
    <3>3. (toks \o first) \o cmds = toks \o (first \o cmds)
      <4>1. toks \in Seq(Token) /\ cmds \in Seq(Token)
          BY <1>1, <3>1
      <4> QED
          BY <3>2, <4>1, TokensConcat
    <3>4. Loads((toks \o first) \o cmds, [data EXCEPT ![d] = @ \o Ws(n, tx)], d)
        BY <1>2, <3>1 DEF first
    <3> QED
        BY <3>3, <3>4 DEF first
  <2>3. <<Select(d)>> \o cmds # <<>>
    <3>1. ASSUME NEW p, NEW q \in Seq(Token), <<p>> \in Seq(Token) PROVE <<p>> \o q # <<>>
        BY <3>1
    <3> QED
        BY <1>1, <2>1, <3>1
  <2> QED
      BY <1>4, <2>1, <2>2, <2>3 DEF Fed, cmds
<1> QED
    BY <1>3, <1>4

\* The data a rewrite begins with.
LEMMA PreambleLoads ==
    ASSUME AofAssumption, NEW data \in AfDataType, Paired(data)
    PROVE  /\ Preamble(data) \in Token
           /\ Loads(<<Preamble(data)>> \o <<>> \o <<>> \o <<>>, data, NoDb)
<1> DEFINE tok == Preamble(data)
           none == <<>>
<1>1. tok \in Token
    BY DEF Preamble, Token
<1>2. Well(none) /\ Loaded(none) = NothingLoaded
  <2>1. <<>> \in Seq(Token) /\ Len(<<>>) = 0 /\ 1 .. 0 = {}
      OBVIOUS
  <2> QED
      BY <2>1, LoadedEmpty DEF Well
<1>3. Allowed(NothingLoaded, tok)
    BY DEF Allowed, NothingLoaded, Preamble
<1>4. ReplayOne(NothingLoaded, tok) = [NothingLoaded EXCEPT !.data = data]
    BY DEF ReplayOne, Preamble
<1> HIDE DEF tok
<1>5. /\ Well(Append(none, tok))
      /\ Loaded(Append(none, tok)) = [NothingLoaded EXCEPT !.data = data]
  <2> HIDE DEF none
  <2> QED
      BY <1>1, <1>2, <1>3, <1>4, WellAppend
<1>6. Append(none, tok) = <<tok>>
    OBVIOUS
<1>7. Loads(<<tok>>, data, NoDb)
  <2> DEFINE one == <<tok>>
  <2>1. Well(one) /\ Loaded(one) = [NothingLoaded EXCEPT !.data = data]
      BY <1>5, <1>6
  <2> HIDE DEF one
  <2>2. Loads(one, data, NoDb)
      BY <2>1 DEF Loads, NothingLoaded
  <2> QED
      BY <2>2 DEF one
<1>8. <<tok>> \o <<>> \o <<>> \o <<>> = <<tok>>
  <2>1. <<tok>> \in Seq(Token)
      BY <1>1
  <2>2. <<tok>> \o <<>> = <<tok>>
      BY <2>1, TokensConcat
  <2> QED
      BY <2>2
<1> QED
    BY <1>1, <1>7, <1>8 DEF tok

-----------------------------------------------------------------------------
(* The first state.                                                          *)

LEMMA NoChildOK == ChildOK(NoChild) /\ NoChild.kind = "none"
<1>1. NoData \in AfDataType /\ <<>> \in Seq(Token)
    BY DEF NoData, AfDataType
<1> QED
    BY <1>1 DEF ChildOK, ChildType, NoChild

LEMMA EmptyDiskTyped ==
    /\ EmptyDisk \in DiskType /\ OneFile(EmptyDisk.jobs)
    /\ EmptyDisk.file = <<>> /\ EmptyDisk.buf = <<>> /\ EmptyDisk.jobs = <<>>
    /\ EmptyDisk.err = FALSE /\ EmptyDisk.synced = 0 /\ EmptyDisk.postponed = 0
<1> DEFINE none == <<>>
           a == [file |-> none, synced |-> 0, offset |-> 0, buf |-> none,
                 jobs |-> none, due |-> FALSE, postponed |-> 0, err |-> FALSE]
<1>1. none \in Seq(Token) /\ none \in Seq({"file", "replaced"}) /\ OneFile(none)
    BY DEF OneFile
<1>2. EmptyDisk = a
    BY DEF EmptyDisk
<1> HIDE DEF none
<1>3. a \in DiskType
    BY <1>1 DEF DiskType
<1>4. a.file = none /\ a.buf = none /\ a.jobs = none /\ a.err = FALSE /\ a.synced = 0
      /\ a.postponed = 0
    OBVIOUS
<1> QED
    BY <1>1, <1>2, <1>3, <1>4 DEF none

LEMMA LoadsEmpty == AofAssumption => Loads(<<>> \o <<>>, NoData, NoDb)
<1>1. <<>> \in Seq(Token) /\ Len(<<>>) = 0 /\ 1 .. 0 = {} /\ <<>> \o <<>> = <<>>
    OBVIOUS
<1>2. Well(<<>>) /\ Loaded(<<>>) = NothingLoaded
    BY <1>1, LoadedEmpty DEF Well
<1> QED
    BY <1>1, <1>2 DEF Loads, NothingLoaded

LEMMA AofInvInit == AofInit => AofInv /\ AckedInv
<1> SUFFICES ASSUME AofInit PROVE AofInv /\ AckedInv
    OBVIOUS
<1> USE AofAssumption
<1>1. NoData \in AfDataType /\ Paired(NoData) /\ Writes(NoData) = {}
    BY DEF NoData, AfDataType, Paired, PairedSeq, Range, Writes
<1>2. ChildOK(NoChild) /\ NoChild.kind = "none"
    BY NoChildOK
<1>3. DiskOK(EmptyDisk) /\ EmptyDisk.file = <<>> /\ EmptyDisk.buf = <<>>
        /\ EmptyDisk.err = FALSE /\ EmptyDisk.postponed = 0
    BY EmptyDiskTyped DEF DiskOK
<1>4. AofTypes
  <2>1. <<>> \in Seq(Token) /\ NoDb \in Db \cup {NoDb}
      OBVIOUS
  <2>2. afNoFsync \in BOOLEAN /\ ClientsOK
      BY DEF AofAssumption, AofInit, ClientsOK, NoReplies, NoHandlers
  <2> QED
      BY <1>1, <1>2, <1>3, <2>1, <2>2 DEF AofTypes, AofInit
<1>5. Backed(afState, afDisk, afChild, afDiff, afData, afSel)
    BY <1>2, <1>3, LoadsEmpty DEF Backed, AofInit
<1>6. AckedInv
  <2>1. Pending = {} /\ afAcked = {} /\ \A c \in AfClients : afReply[c] = {}
      BY DEF AofInit, Pending, NoReplies
  <2>2. Calm(EmptyDisk)
      BY EmptyDiskTyped DEF Calm
  <2> QED
      BY <2>1, <2>2 DEF AckedInv, AofInit, Safe
<1> QED
    BY <1>4, <1>5, <1>6 DEF AofInv

-----------------------------------------------------------------------------
(* Every step preserves the invariant.                                       *)

LEMMA AheadTyped ==
    ASSUME AofInv, UNCHANGED <<afReply, afHandler, afRead, afAcked>>,
           afAhead' \in {afAhead, {}}
    PROVE  ClientsOK'
    BY DEF AofInv, AofTypes, ClientsOK

LEMMA ClientsSame ==
    ASSUME AofInv, UNCHANGED afClientVars
    PROVE  ClientsOK'
    BY DEF AofInv, AofTypes, ClientsOK, afClientVars

\* Replies are sent and handlers installed.
LEMMA WriteTyped ==
    ASSUME AofInv, NEW sent \in SUBSET AfClients, NEW full \in SUBSET AfClients,
           NEW kinds \in SUBSET {"plain", "barrier"}, writeToClient(sent, full, kinds),
           afRead' \in {afRead, {}}, afAhead' \in SUBSET (afAhead \cup Pending)
    PROVE  /\ ClientsOK'
           /\ afAcked' \subseteq afAcked \cup Pending
           /\ \A c \in AfClients : afReply'[c] \subseteq afReply[c]
           /\ Pending \subseteq Wr /\ Pending' \subseteq Pending
<1>1. ClientsOK
    BY DEF AofInv, AofTypes
<1>2. PICK kind \in [full -> kinds] :
        afHandler' = [c \in AfClients |-> IF c \in sent THEN "none"
                                        ELSE IF c \in full THEN kind[c] ELSE afHandler[c]]
    BY DEF writeToClient
<1>3. afHandler' \in [AfClients -> {"none", "plain", "barrier"}]
  <2>1. \A c \in AfClients : (IF c \in sent THEN "none" ELSE IF c \in full THEN kind[c]
                             ELSE afHandler[c]) \in {"none", "plain", "barrier"}
      BY <1>1, <1>2 DEF ClientsOK
  <2> QED
      BY <1>2, <2>1
<1>4. afReply' = [c \in AfClients |-> IF c \in sent THEN {} ELSE afReply[c]]
    BY DEF writeToClient
<1>5. /\ afReply' \in [AfClients -> SUBSET Wr]
      /\ \A c \in AfClients : afReply'[c] \subseteq afReply[c]
    BY <1>1, <1>4 DEF ClientsOK
<1>6. Pending \subseteq Wr /\ Pending' \subseteq Pending
    BY <1>1, <1>5 DEF Pending, ClientsOK
<1>7. afAcked' = afAcked \cup UNION {afReply[c] : c \in sent}
    BY DEF writeToClient
<1>8. UNION {afReply[c] : c \in sent} \subseteq Pending
    BY DEF Pending
<1> QED
    BY <1>1, <1>3, <1>5, <1>6, <1>7, <1>8 DEF ClientsOK

\* A step of the disk alone that leaves what the file and its buffer hold.
LEMMA DiskStep ==
    ASSUME AofInv, DiskOK(afDisk'), ClientsOK',
           afState = "on" => afDisk'.file \o afDisk'.buf = afDisk.file \o afDisk.buf,
           UNCHANGED <<afPolicy, afNoFsync, afState, afData, afNext, afSel, afChild,
                       afDiff, afSched>>
    PROVE  AofInv'
<1>1. AofTypes'
    BY DEF AofInv, AofTypes
<1>2. Backed(afState, afDisk, afChild, afDiff, afData, afSel)'
    BY DEF AofInv, Backed
<1> QED
    BY <1>1, <1>2 DEF AofInv

\* The part of a turn of the event loop that is about clients.
LEMMA SleepWrites ==
    ASSUME AofInv, BeforeSleep
    PROVE  /\ ClientsOK'
           /\ afAcked' \subseteq afAcked \cup Pending
           /\ \A c \in AfClients : afReply'[c] \subseteq afReply[c]
           /\ Pending' \subseteq Pending
<1>1. PICK sent \in SUBSET NoHandler : writeToClient(sent, NoHandler \ sent, HandlerKinds)
    BY DEF BeforeSleep
<1>2. /\ sent \in SUBSET AfClients /\ NoHandler \ sent \in SUBSET AfClients
      /\ HandlerKinds \in SUBSET {"plain", "barrier"}
    BY DEF NoHandler, HandlerKinds, HandlerKind
<1>3. afRead' \in {afRead, {}} /\ afAhead' \in SUBSET (afAhead \cup Pending)
    BY DEF BeforeSleep
<1> DEFINE full == NoHandler \ sent
<1> HIDE DEF full
<1>4. full \in SUBSET AfClients /\ writeToClient(sent, full, HandlerKinds)
    BY <1>1, <1>2 DEF full
<1> QED
    BY <1>2, <1>3, <1>4, WriteTyped

LEMMA EventsWrite ==
    ASSUME AofInv, processEventsWhileBlocked
    PROVE  /\ ClientsOK'
           /\ afAcked' \subseteq afAcked \cup Pending
           /\ \A c \in AfClients : afReply'[c] \subseteq afReply[c]
           /\ Pending' \subseteq Pending
<1>1. PICK sent \in SUBSET AfClients : writeToClient(sent, NoHandler \ sent, {HandlerKind})
    BY DEF processEventsWhileBlocked
<1> DEFINE full == NoHandler \ sent
           kinds == {HandlerKind}
<1>2. full \in SUBSET AfClients /\ kinds \in SUBSET {"plain", "barrier"}
    BY DEF NoHandler, HandlerKind
<1>3. afRead' \in {afRead, {}} /\ afAhead' \in SUBSET (afAhead \cup Pending)
    BY DEF processEventsWhileBlocked
<1>4. writeToClient(sent, full, kinds)
    BY <1>1
<1> HIDE DEF full, kinds
<1> QED
    BY <1>2, <1>3, <1>4, WriteTyped

LEMMA HandlerWrites ==
    ASSUME AofInv, NEW c \in AfClients, sendReplyToClient(c)
    PROVE  /\ ClientsOK'
           /\ afAcked' \subseteq afAcked \cup Pending
           /\ \A x \in AfClients : afReply'[x] \subseteq afReply[x]
           /\ Pending' \subseteq Pending
<1> DEFINE sent == {c}
           none == {}
<1>1. writeToClient(sent, none, none)
    BY DEF sendReplyToClient
<1>2. /\ sent \in SUBSET AfClients /\ none \in SUBSET AfClients
      /\ none \in SUBSET {"plain", "barrier"}
    OBVIOUS
<1>3. afRead' \in {afRead, {}} /\ afAhead' \in SUBSET (afAhead \cup Pending)
    BY DEF sendReplyToClient
<1> HIDE DEF sent, none
<1> QED
    BY <1>1, <1>2, <1>3, WriteTyped

LEMMA BeforeSleepInv == AofInv /\ BeforeSleep => AofInv'
<1> SUFFICES ASSUME AofInv, BeforeSleep PROVE AofInv'
    OBVIOUS
<1>1. PICK n \in Written(afDisk) :
        afDisk' = IF afState = "on" THEN flushAppendOnlyFile(afDisk, FALSE, n) ELSE afDisk
    BY DEF BeforeSleep
<1>2. DiskOK(afDisk)
    BY DEF AofInv, AofTypes
<1>3. SameDisk(afDisk, flushAppendOnlyFile(afDisk, FALSE, n))
    BY <1>2, FlushKeeps, FALSE \in BOOLEAN
<1>4. /\ DiskOK(afDisk')
      /\ afState = "on" => afDisk'.file \o afDisk'.buf = afDisk.file \o afDisk.buf
    BY <1>1, <1>2, <1>3 DEF SameDisk
<1>5. ClientsOK'
    BY SleepWrites
<1> QED
    BY <1>4, <1>5, DiskStep DEF BeforeSleep

LEMMA CronFlushInv == AofInv /\ CronFlush => AofInv'
<1> SUFFICES ASSUME AofInv, CronFlush PROVE AofInv'
    OBVIOUS
<1>1. PICK n \in Written(afDisk) : afDisk' = flushAppendOnlyFile(afDisk, FALSE, n)
    BY DEF CronFlush
<1>2. DiskOK(afDisk)
    BY DEF AofInv, AofTypes
<1>3. SameDisk(afDisk, afDisk')
    BY <1>1, <1>2, FlushKeeps, FALSE \in BOOLEAN
<1>5. ClientsOK'
    BY ClientsSame DEF CronFlush
<1> QED
    BY <1>3, <1>5, DiskStep DEF CronFlush, SameDisk

LEMMA BioFsyncDisk ==
    ASSUME AofInv, BioFsync
    PROVE  /\ DiskOK(afDisk')
           /\ afDisk'.file = afDisk.file /\ afDisk'.buf = afDisk.buf /\ afDisk'.err = afDisk.err
           /\ afDisk'.synced \in {afDisk.synced, Len(afDisk.file)}
<1> DEFINE a == afDisk
           jobs == Tail(a.jobs)
           synced == IF Head(a.jobs) = "file" THEN Len(a.file) ELSE a.synced
<1>1. /\ a \in DiskType /\ a.synced <= Len(a.file) /\ OneFile(a.jobs)
      /\ a.jobs \in Seq({"file", "replaced"}) /\ a.jobs # <<>>
      /\ a.file \in Seq(Token) /\ Len(a.file) \in Nat /\ a.synced \in Nat
    BY DEF AofInv, AofTypes, DiskOK, DiskType, BioFsync
<1>2. afDisk' = [a EXCEPT !.jobs = jobs, !.synced = synced]
    BY <1>1 DEF BioFsync, DiskType
<1>3. jobs \in Seq({"file", "replaced"}) /\ OneFile(jobs)
  <2> DEFINE q == a.jobs
  <2>1. q \in Seq({"file", "replaced"}) /\ q # <<>> /\ OneFile(q)
      BY <1>1
  <2> HIDE DEF q
  <2>2. /\ Tail(q) \in Seq({"file", "replaced"})
        /\ \A i \in DOMAIN Tail(q) : i + 1 \in DOMAIN q /\ Tail(q)[i] = q[i + 1] /\ i \in Nat
      BY <2>1
  <2>3. OneFile(Tail(q))
    <3> SUFFICES ASSUME NEW i \in DOMAIN Tail(q), NEW j \in DOMAIN Tail(q),
                        Tail(q)[i] = "file", Tail(q)[j] = "file"
                 PROVE  i = j
        BY DEF OneFile
    <3>1. i + 1 \in DOMAIN q /\ j + 1 \in DOMAIN q /\ q[i + 1] = "file" /\ q[j + 1] = "file"
        BY <2>2
    <3>2. i + 1 = j + 1
        BY <2>1, <3>1 DEF OneFile
    <3> QED
        BY <2>2, <3>2
  <2> QED
      BY <2>2, <2>3 DEF q
<1>4. synced \in Nat /\ synced <= Len(a.file) /\ synced \in {a.synced, Len(a.file)}
    BY <1>1
<1> HIDE DEF jobs, synced
<1>5. afDisk' \in DiskType
    BY <1>1, <1>2, <1>3, <1>4 DEF DiskType
<1>6. /\ afDisk'.file = a.file /\ afDisk'.buf = a.buf /\ afDisk'.err = a.err
      /\ afDisk'.jobs = jobs /\ afDisk'.synced = synced
    BY <1>1, <1>2 DEF DiskType
<1> QED
    BY <1>3, <1>4, <1>5, <1>6 DEF DiskOK

LEMMA BioFsyncInv == AofInv /\ BioFsync => AofInv'
<1> SUFFICES ASSUME AofInv, BioFsync PROVE AofInv'
    OBVIOUS
<1>1. /\ DiskOK(afDisk')
      /\ afDisk'.file = afDisk.file /\ afDisk'.buf = afDisk.buf
    BY BioFsyncDisk
<1>2. ClientsOK'
    BY ClientsSame DEF BioFsync
<1> QED
    BY <1>1, <1>2, DiskStep DEF BioFsync

LEMMA AfSecondDisk ==
    ASSUME AofInv, AfSecond
    PROVE  /\ DiskOK(afDisk')
           /\ afDisk'.file = afDisk.file /\ afDisk'.buf = afDisk.buf /\ afDisk'.err = afDisk.err
           /\ afDisk'.synced = afDisk.synced /\ afDisk'.jobs = afDisk.jobs
           /\ afDisk.postponed = 0 => afDisk'.postponed = 0
<1> DEFINE a == afDisk
           late == IF a.postponed \in {1, 2} THEN a.postponed + 1 ELSE a.postponed
<1>1. a \in DiskType /\ a.synced <= Len(a.file) /\ OneFile(a.jobs) /\ a.postponed \in 0 .. 3
    BY DEF AofInv, AofTypes, DiskOK, DiskType
<1>2. afDisk' = [a EXCEPT !.due = TRUE, !.postponed = late]
    BY <1>1 DEF AfSecond, DiskType
<1>3. late \in 0 .. 3 /\ (a.postponed = 0 => late = 0)
    BY <1>1
<1> HIDE DEF late
<1>4. afDisk' \in DiskType
    BY <1>1, <1>2, <1>3 DEF DiskType
<1>5. /\ afDisk'.file = a.file /\ afDisk'.buf = a.buf /\ afDisk'.err = a.err
      /\ afDisk'.jobs = a.jobs /\ afDisk'.synced = a.synced /\ afDisk'.postponed = late
    BY <1>1, <1>2 DEF DiskType
<1> QED
    BY <1>1, <1>3, <1>4, <1>5 DEF DiskOK

LEMMA AfSecondInv == AofInv /\ AfSecond => AofInv'
<1> SUFFICES ASSUME AofInv, AfSecond PROVE AofInv'
    OBVIOUS
<1>1. /\ DiskOK(afDisk')
      /\ afDisk'.file = afDisk.file /\ afDisk'.buf = afDisk.buf
    BY AfSecondDisk
<1>2. ClientsOK'
    BY ClientsSame DEF AfSecond
<1> QED
    BY <1>1, <1>2, DiskStep DEF AfSecond

LEMMA HandlerInv == ASSUME AofInv, NEW c \in AfClients, sendReplyToClient(c) PROVE AofInv'
<1>1. ClientsOK' /\ DiskOK(afDisk')
    BY HandlerWrites DEF sendReplyToClient, AofInv, AofTypes
<1> QED
    BY <1>1, DiskStep DEF sendReplyToClient

LEMMA EventsInv == AofInv /\ processEventsWhileBlocked => AofInv'
<1> SUFFICES ASSUME AofInv, processEventsWhileBlocked PROVE AofInv'
    OBVIOUS
<1>1. ClientsOK' /\ DiskOK(afDisk')
    BY EventsWrite DEF processEventsWhileBlocked, AofInv, AofTypes
<1> QED
    BY <1>1, DiskStep DEF processEventsWhileBlocked

\* What one command does, whether it is fed or not.
Answered(c, woken, ws) ==
    [x \in AfClients |-> IF x \in woken \cup {c} THEN afReply[x] \cup ws ELSE afReply[x]]
AheadWith(c, woken, ws) == IF InForce /\ NoBarrier(c, woken) THEN afAhead \cup ws ELSE afAhead

CommandDone(c, woken, d, tx) ==
    /\ Ws(afNext, tx) \in Seq(Wr) /\ Range(Ws(afNext, tx)) \subseteq Wr
    /\ afData' = [afData EXCEPT ![d] = @ \o Ws(afNext, tx)]
    /\ afData' \in AfDataType /\ Paired(afData')
    /\ Writes(afData') = Writes(afData) \cup Range(Ws(afNext, tx))
    /\ afReply' = Answered(c, woken, Range(Ws(afNext, tx)))
    /\ afAhead' = AheadWith(c, woken, Range(Ws(afNext, tx)))
    /\ IF afState = "off" THEN UNCHANGED <<afSel, afDisk, afDiff>>
       ELSE /\ afSel' = d
            /\ afDisk' = IF afState = "on"
                         THEN [afDisk EXCEPT !.buf = @ \o Fed(d, afSel, Cmds(afNext, tx))]
                         ELSE afDisk
            /\ afDiff' = IF afChild.kind = "aof"
                         THEN afDiff \o Fed(d, afSel, Cmds(afNext, tx)) ELSE afDiff

LEMMA CommandEffect ==
    ASSUME AofInv, NEW c \in AfClients, NEW woken \in SUBSET AfClients,
           NEW d \in Db, NEW tx \in BOOLEAN, AfCommand(c, woken, d, tx)
    PROVE  CommandDone(c, woken, d, tx)
<1> DEFINE ws == Ws(afNext, tx)
           old == afData[d]
<1>0. afNext \in Nat /\ afData \in AfDataType /\ Paired(afData) /\ old \in Seq(Wr) /\ PairedSeq(old)
    BY DEF AofInv, AofTypes, AfDataType, Paired
<1>1. ws \in Seq(Wr) /\ PairedSeq(old \o ws) /\ old \o ws \in Seq(Wr)
  <2>1. CASE tx
    <3>1. Both(afNext) \in Seq(Wr) /\ PairedSeq(old \o Both(afNext))
        BY <1>0, PairedAppend
    <3>2. ws = Both(afNext)
        BY <2>1 DEF Ws
    <3> HIDE DEF ws, old
    <3> QED
        BY <1>0, <3>1, <3>2
  <2>2. CASE ~tx
    <3> DEFINE w == <<afNext, 0>>
    <3>1. w \in Wr /\ w[2] = 0
        BY <1>0 DEF Wr
    <3>2. \A x \in Wr : x[2] = 0 => PairedSeq(Append(old, x))
        BY <1>0, PairedAppend
    <3>3. ws = <<w>>
        BY <2>2 DEF Ws
    <3>4. PairedSeq(Append(old, w))
        BY <3>1, <3>2
    <3> HIDE DEF w, ws, old
    <3>5. <<w>> \in Seq(Wr) /\ old \o <<w>> = Append(old, w) /\ Append(old, w) \in Seq(Wr)
        BY <1>0, <3>1
    <3> QED
        BY <3>3, <3>4, <3>5
  <2> QED
      BY <2>1, <2>2
<1>2. afData' = [afData EXCEPT ![d] = @ \o ws]
    BY DEF AfCommand, Ws, Both
<1> HIDE DEF ws
<1>3. afData' \in AfDataType /\ Paired(afData')
  <2>1. afData' = [afData EXCEPT ![d] = old \o ws]
      BY <1>2
  <2> QED
      BY <1>0, <1>1, <2>1, PairedStore
<1>4. Writes(afData') = Writes(afData) \cup Range(ws)
  <2>1. Range(old \o ws) = Range(old) \cup Range(ws)
      BY <1>0, <1>1, RangeConcat
  <2>2. afData'[d] = old \o ws /\ \A e \in Db : e # d => afData'[e] = afData[e]
      BY <1>0, <1>2 DEF AfDataType
  <2>3. \A e \in Db : Range(afData'[e]) = IF e = d THEN Range(afData[e]) \cup Range(ws)
                                          ELSE Range(afData[e])
      BY <2>1, <2>2
  <2> QED
      BY <2>3 DEF Writes
<1>5. Range(ws) \subseteq Wr
    BY <1>1 DEF Range
<1>6. /\ afReply' = Answered(c, woken, Range(ws))
      /\ afAhead' = AheadWith(c, woken, Range(ws))
    BY DEF AfCommand, Ws, Both, ws, Answered, AheadWith
<1>7. IF afState = "off" THEN UNCHANGED <<afSel, afDisk, afDiff>>
      ELSE feedAppendOnlyFile(d, Cmds(afNext, tx))
    BY DEF AfCommand, Cmds, Ws, Both
<1>8. feedAppendOnlyFile(d, Cmds(afNext, tx)) =>
        /\ afSel' = d
        /\ afDisk' = IF afState = "on"
                     THEN [afDisk EXCEPT !.buf = @ \o Fed(d, afSel, Cmds(afNext, tx))]
                     ELSE afDisk
        /\ afDiff' = IF afChild.kind = "aof"
                     THEN afDiff \o Fed(d, afSel, Cmds(afNext, tx)) ELSE afDiff
    BY DEF feedAppendOnlyFile, Fed, feedDiff
<1> QED
    BY <1>1, <1>2, <1>3, <1>4, <1>5, <1>6, <1>7, <1>8 DEF ws, CommandDone

LEMMA CommandTyped ==
    ASSUME AofInv, NEW c \in AfClients, NEW woken \in SUBSET AfClients,
           NEW d \in Db, NEW tx \in BOOLEAN, AfCommand(c, woken, d, tx)
    PROVE  ClientsOK'
<1> DEFINE ws == Range(Ws(afNext, tx))
<1>0. CommandDone(c, woken, d, tx)
    BY CommandEffect
<1>1. /\ ws \subseteq Wr
      /\ afReply' = Answered(c, woken, ws) /\ afAhead' = AheadWith(c, woken, ws)
    BY <1>0 DEF CommandDone
<1>2. /\ afRead' = afRead \cup {c}
      /\ UNCHANGED <<afHandler, afAcked>>
    BY DEF AfCommand
<1>3. ClientsOK
    BY DEF AofInv, AofTypes
<1> HIDE DEF ws
<1>4. afReply' \in [AfClients -> SUBSET Wr]
    BY <1>1, <1>3 DEF ClientsOK, Answered
<1>5. afAhead' \subseteq Wr
    BY <1>1, <1>3 DEF ClientsOK, AheadWith
<1> QED
    BY <1>2, <1>3, <1>4, <1>5 DEF ClientsOK

LEMMA CommandInv ==
    ASSUME AofInv, NEW c \in AfClients, NEW woken \in SUBSET AfClients,
           NEW d \in Db, NEW tx \in BOOLEAN, AfCommand(c, woken, d, tx)
    PROVE  AofInv'
<1> DEFINE fed == Fed(d, afSel, Cmds(afNext, tx))
<1> USE AofAssumption
<1>1. /\ afNext \in Nat /\ DiskOK(afDisk) /\ afDisk \in DiskType /\ afDiff \in Seq(Token)
      /\ afDisk.file \in Seq(Token) /\ afDisk.buf \in Seq(Token)
    BY DEF AofInv, AofTypes, DiskOK, DiskType
<1>2. /\ fed \in Seq(Token)
      /\ \A toks, data : Loads(toks, data, afSel) =>
            Loads(toks \o fed, [data EXCEPT ![d] = @ \o Ws(afNext, tx)], d)
    BY <1>1, FeedCommand
<1>3. /\ Range(Ws(afNext, tx)) \subseteq Wr
      /\ afData' = [afData EXCEPT ![d] = @ \o Ws(afNext, tx)]
      /\ afData' \in AfDataType /\ Paired(afData')
      /\ IF afState = "off" THEN UNCHANGED <<afSel, afDisk, afDiff>>
         ELSE /\ afSel' = d
              /\ afDisk' = IF afState = "on" THEN [afDisk EXCEPT !.buf = @ \o fed] ELSE afDisk
              /\ afDiff' = IF afChild.kind = "aof" THEN afDiff \o fed ELSE afDiff
  <2>1. CommandDone(c, woken, d, tx)
      BY CommandEffect
  <2> QED
      BY <2>1 DEF CommandDone
<1>4. /\ afNext' = afNext + 1
      /\ UNCHANGED <<afPolicy, afNoFsync, afState, afChild, afSched>>
    BY DEF AfCommand
<1>9. ClientsOK'
    BY CommandTyped
<1>0. fed \in Seq(Token)
    BY <1>2
<1> HIDE DEF fed
<1>5. afState = "on" => /\ DiskOK(afDisk')
                        /\ afDisk'.file \o afDisk'.buf = (afDisk.file \o afDisk.buf) \o fed
  <2> SUFFICES ASSUME afState = "on"
               PROVE  /\ DiskOK(afDisk')
                      /\ afDisk'.file \o afDisk'.buf = (afDisk.file \o afDisk.buf) \o fed
      OBVIOUS
  <2> DEFINE f == afDisk.file
             b == afDisk.buf
  <2>1. afDisk' = [afDisk EXCEPT !.buf = b \o fed]
      BY <1>3
  <2>2. f \in Seq(Token) /\ b \in Seq(Token)
      BY <1>1
  <2>3. /\ afDisk'.file = f /\ afDisk'.jobs = afDisk.jobs
        /\ afDisk'.synced = afDisk.synced /\ afDisk'.buf = b \o fed
      BY <1>1, <2>1 DEF DiskType
  <2> HIDE DEF f, b
  <2>4. b \o fed \in Seq(Token) /\ f \o (b \o fed) = (f \o b) \o fed
      BY ONLY <1>0, <2>2, TokensConcat
  <2>5. afDisk' \in DiskType
      BY <1>1, <2>1, <2>4 DEF DiskType
  <2>6. DiskOK(afDisk')
      BY <1>1, <2>3, <2>5 DEF DiskOK, f
  <2> QED
      BY <2>3, <2>4, <2>6 DEF f, b
<1>6. DiskOK(afDisk')
    BY <1>1, <1>3, <1>5
<1>7. AofTypes'
  <2>1. afDiff' \in Seq(Token)
    <3> DEFINE diff == afDiff
    <3>1. diff \in Seq(Token)
        BY <1>1
    <3>2. afDiff' = diff \/ afDiff' = diff \o fed
        BY <1>3
    <3> HIDE DEF diff
    <3>3. diff \o fed \in Seq(Token)
        BY <1>0, <3>1, TokensConcat
    <3> QED
        BY <3>1, <3>2, <3>3
  <2>2. afDiff' # <<>> => afChild.kind = "aof"
      BY <1>3 DEF AofInv, AofTypes
  <2>3. afSel' \in Db \cup {NoDb}
      BY <1>3 DEF AofInv, AofTypes
  <2> QED
      BY <1>1, <1>3, <1>4, <1>6, <1>9, <2>1, <2>2, <2>3 DEF AofInv, AofTypes
<1>8. Backed(afState, afDisk, afChild, afDiff, afData, afSel)'
  <2>1. ASSUME afState = "on"
        PROVE  Loads(afDisk'.file \o afDisk'.buf, afData', afSel')
    <3>1. Loads(afDisk.file \o afDisk.buf, afData, afSel)
        BY <2>1 DEF AofInv, Backed
    <3> QED
        BY <1>2, <1>3, <1>5, <2>1, <3>1
  <2>2. ASSUME afState # "off", afChild.kind = "aof"
        PROVE  Loads(<<Preamble(afChild.snap)>> \o afChild.got \o afChild.pipe \o afDiff',
                     afData', afSel')
    <3> DEFINE sent == <<Preamble(afChild.snap)>> \o afChild.got \o afChild.pipe
               diff == afDiff
    <3>1. Loads(sent \o diff, afData, afSel)
        BY <2>2 DEF AofInv, Backed
    <3>2. Loads((sent \o diff) \o fed, afData', afSel')
        BY <1>2, <1>3, <2>2, <3>1
    <3>3. sent \in Seq(Token)
      <4>1. /\ <<Preamble(afChild.snap)>> \in Seq(Token)
            /\ afChild.got \in Seq(Token) /\ afChild.pipe \in Seq(Token)
          BY DEF AofInv, AofTypes, ChildOK, ChildType, Preamble, Token
      <4> QED
          BY <4>1
    <3>4. diff \in Seq(Token) /\ afDiff' = diff \o fed
        BY <1>1, <1>3, <2>2
    <3> HIDE DEF sent, diff
    <3>5. (sent \o diff) \o fed = sent \o (diff \o fed)
        BY <1>2, <3>3, <3>4, TokensConcat
    <3> QED
        BY <3>2, <3>4, <3>5 DEF sent
  <2> QED
      BY <1>4, <2>1, <2>2 DEF Backed
<1> QED
    BY <1>7, <1>8 DEF AofInv

\* A rewrite begins with the data in memory.
LEMMA StartsLoads ==
    ASSUME AofInv, rewriteAppendOnlyFileBackground
    PROVE  /\ ChildOK(afChild') /\ afChild'.kind = "aof"
           /\ afSel' = NoDb /\ afSched' = FALSE
           /\ Loads(<<Preamble(afChild'.snap)>> \o afChild'.got \o afChild'.pipe \o <<>>,
                    afData, NoDb)
<1> DEFINE C == NoChild
<1>1. afChild' = [C EXCEPT !.kind = "aof", !.snap = afData] /\ afSel' = NoDb /\ afSched' = FALSE
    BY DEF rewriteAppendOnlyFileBackground, SelectedAfterFork
<1>2. C \in ChildType /\ C.stage = "dump" /\ C.got = <<>> /\ C.pipe = <<>>
    BY NoChildOK DEF ChildOK, NoChild
<1>3. afData \in AfDataType /\ Paired(afData)
    BY DEF AofInv, AofTypes
<1> HIDE DEF C
<1>4. /\ afChild' \in ChildType /\ afChild'.kind = "aof" /\ afChild'.snap = afData
      /\ afChild'.stage = "dump" /\ afChild'.got = <<>> /\ afChild'.pipe = <<>>
    BY <1>1, <1>2, <1>3 DEF ChildType
<1>5. Loads(<<Preamble(afData)>> \o <<>> \o <<>> \o <<>>, afData, NoDb)
    BY <1>3, PreambleLoads, AofAssumption
<1> QED
    BY <1>1, <1>4, <1>5 DEF ChildOK

\* Without an aof child there is no diff.
LEMMA NoDiff ==
    ASSUME AofInv, afChild.kind # "aof"
    PROVE  afDiff = <<>>
    BY DEF AofInv, AofTypes

LEMMA RewriteStarts ==
    ASSUME AofInv, rewriteAppendOnlyFileBackground, afChild.kind = "none",
           UNCHANGED <<afPolicy, afNoFsync, afState, afData, afNext, afDisk, afDiff,
                       afClientVars>>
    PROVE  AofInv'
<1>1. /\ ChildOK(afChild') /\ afChild'.kind = "aof"
      /\ afSel' = NoDb /\ afSched' = FALSE
      /\ Loads(<<Preamble(afChild'.snap)>> \o afChild'.got \o afChild'.pipe \o <<>>,
               afData, NoDb)
    BY StartsLoads
<1>2. afDiff' = <<>>
    BY NoDiff
<1>3. AofTypes'
    BY <1>1, <1>2, ClientsSame DEF AofInv, AofTypes
<1>4. Backed(afState, afDisk, afChild, afDiff, afData, afSel)'
  <2>1. ASSUME afState = "on"
        PROVE  Loads(afDisk.file \o afDisk.buf, afData, NoDb)
      BY <2>1, LoadsTyped, AofAssumption DEF AofInv, Backed
  <2> QED
      BY <1>1, <1>2, <2>1 DEF Backed
<1> QED
    BY <1>3, <1>4 DEF AofInv

LEMMA BgrewriteaofInv == AofInv /\ bgrewriteaofCommand => AofInv'
<1> SUFFICES ASSUME AofInv, bgrewriteaofCommand PROVE AofInv'
    OBVIOUS
<1>1. CASE afChild.kind = "none"
    BY <1>1, RewriteStarts DEF bgrewriteaofCommand
<1>2. CASE afChild.kind # "none"
  <2>1. AofTypes'
      BY <1>2, ClientsSame DEF bgrewriteaofCommand, AofInv, AofTypes
  <2>2. Backed(afState, afDisk, afChild, afDiff, afData, afSel)'
      BY <1>2 DEF bgrewriteaofCommand, AofInv, Backed
  <2> QED
      BY <2>1, <2>2 DEF AofInv
<1> QED
    BY <1>1, <1>2

LEMMA CronRewriteInv == AofInv /\ CronRewrite => AofInv'
    BY RewriteStarts DEF CronRewrite

LEMMA RdbChildInv == AofInv /\ RdbChild => AofInv'
<1> SUFFICES ASSUME AofInv, RdbChild PROVE AofInv'
    OBVIOUS
<1>1. ChildOK(afChild') /\ afChild'.kind # "aof" /\ afChild.kind # "aof"
  <2>1. ChildOK(NoChild) /\ NoChild.kind = "none"
      BY NoChildOK
  <2>2. [NoChild EXCEPT !.kind = "rdb"] \in ChildType
      BY <2>1 DEF ChildOK, ChildType
  <2>3. /\ [NoChild EXCEPT !.kind = "rdb"].kind = "rdb"
        /\ [NoChild EXCEPT !.kind = "rdb"].stage = NoChild.stage
        /\ NoChild.stage = "dump"
      BY <2>1 DEF ChildOK, ChildType
  <2>4. ChildOK([NoChild EXCEPT !.kind = "rdb"])
      BY <2>2, <2>3 DEF ChildOK
  <2> QED
      BY <2>1, <2>3, <2>4 DEF RdbChild
<1>2. AofTypes'
    BY <1>1, ClientsSame DEF RdbChild, AofInv, AofTypes
<1>3. Backed(afState, afDisk, afChild, afDiff, afData, afSel)'
    BY <1>1 DEF RdbChild, AofInv, Backed
<1> QED
    BY <1>2, <1>3 DEF AofInv

\* What the parts of the new file are.
LEMMA ChildParts ==
    ASSUME AofInv
    PROVE  /\ <<Preamble(afChild.snap)>> \in Seq(Token)
           /\ afChild.got \in Seq(Token) /\ afChild.pipe \in Seq(Token)
           /\ afDiff \in Seq(Token) /\ afChild \in ChildType
    BY DEF AofInv, AofTypes, ChildOK, ChildType, Preamble, Token

\* A step of the child, or of what is sent to it, that moves commands only.
LEMMA ChildStep ==
    ASSUME AofInv, ChildOK(afChild'), afChild'.kind = afChild.kind,
           afDiff' \in Seq(Token), afDiff' # <<>> => afChild.kind = "aof",
           <<Preamble(afChild'.snap)>> \o afChild'.got \o afChild'.pipe \o afDiff'
                = <<Preamble(afChild.snap)>> \o afChild.got \o afChild.pipe \o afDiff,
           UNCHANGED <<afPolicy, afNoFsync, afState, afData, afNext, afDisk, afSel, afSched,
                       afClientVars>>
    PROVE  AofInv'
<1>1. AofTypes'
    BY ClientsSame DEF AofInv, AofTypes
<1>2. Backed(afState, afDisk, afChild, afDiff, afData, afSel)'
    BY DEF AofInv, Backed
<1> QED
    BY <1>1, <1>2 DEF AofInv

LEMMA Regroup ==
    ASSUME NEW f \in Seq(Token), NEW p \in Seq(Token), NEW s \in Seq(Token), NEW r \in Seq(Token)
    PROVE  f \o (p \o s) \o r = f \o p \o (s \o r)
<1>1. f \o (p \o s) = (f \o p) \o s
    BY TokensConcat
<1>2. f \o p \in Seq(Token)
    BY TokensConcat
<1> DEFINE fp == f \o p
<1>3. fp \in Seq(Token)
    BY <1>2
<1> HIDE DEF fp
<1>4. (fp \o s) \o r = fp \o (s \o r)
    BY <1>3
<1> QED
    BY <1>1, <1>4 DEF fp

LEMMA WriteDiffInv == AofInv /\ aofChildWriteDiffData => AofInv'
<1> SUFFICES ASSUME AofInv, aofChildWriteDiffData PROVE AofInv'
    OBVIOUS
<1>1. PICK n \in 1 .. Len(afDiff) :
        /\ afChild' = [afChild EXCEPT !.pipe = @ \o SubSeq(afDiff, 1, n)]
        /\ afDiff' = SubSeq(afDiff, n + 1, Len(afDiff))
    BY DEF aofChildWriteDiffData
<1> DEFINE first == <<Preamble(afChild.snap)>>
           got == afChild.got
           pipe == afChild.pipe
           diff == afDiff
           sent == SubSeq(diff, 1, n)
           rest == SubSeq(diff, n + 1, Len(diff))
<1>2. first \in Seq(Token) /\ got \in Seq(Token) /\ pipe \in Seq(Token) /\ diff \in Seq(Token)
        /\ n \in 0 .. Len(diff)
    BY ChildParts
<1>3. afChild.kind = "aof" /\ ~afChild.stop /\ ChildOK(afChild) /\ afChild \in ChildType
    BY DEF aofChildWriteDiffData, AofInv, AofTypes, ChildOK
<1>4. afChild' = [afChild EXCEPT !.pipe = pipe \o sent] /\ afDiff' = rest
    BY <1>1
<1> HIDE DEF diff
<1>5. sent \in Seq(Token) /\ rest \in Seq(Token) /\ sent \o rest = diff
    BY <1>2, SplitSeq
<1> HIDE DEF first, got, pipe, sent, rest
<1>6. pipe \o sent \in Seq(Token) /\ first \o got \in Seq(Token)
    BY <1>2, <1>5, TokensConcat
<1>7. first \o got \o (pipe \o sent) \o rest = first \o got \o pipe \o diff
  <2> DEFINE fg == first \o got
  <2>1. fg \in Seq(Token) /\ pipe \in Seq(Token) /\ sent \in Seq(Token) /\ rest \in Seq(Token)
      BY <1>2, <1>5, <1>6
  <2> HIDE DEF fg
  <2>2. fg \o (pipe \o sent) \o rest = fg \o pipe \o (sent \o rest)
    <3>1. \A f \in Seq(Token), p \in Seq(Token), t \in Seq(Token), r \in Seq(Token) :
            f \o (p \o t) \o r = f \o p \o (t \o r)
        BY Regroup
    <3>2. \A p \in Seq(Token), t \in Seq(Token), r \in Seq(Token) :
            fg \o (p \o t) \o r = fg \o p \o (t \o r)
        BY <2>1, <3>1
    <3> QED
        BY <2>1, <3>2
  <2> QED
      BY <1>5, <2>2 DEF fg
<1>8. /\ afChild'.kind = "aof" /\ afChild'.snap = afChild.snap /\ afChild'.got = got
      /\ afChild'.pipe = pipe \o sent /\ afChild'.stage = afChild.stage
      /\ afChild'.stop = afChild.stop /\ afChild' \in ChildType
    BY <1>3, <1>4, <1>6 DEF ChildType, got
<1>9. ChildOK(afChild')
    BY <1>3, <1>8 DEF ChildOK
<1>10. <<Preamble(afChild'.snap)>> \o afChild'.got \o afChild'.pipe \o afDiff'
            = <<Preamble(afChild.snap)>> \o afChild.got \o afChild.pipe \o afDiff
    BY <1>4, <1>7, <1>8 DEF first, got, pipe, diff
<1> QED
    BY <1>3, <1>4, <1>5, <1>8, <1>9, <1>10, ChildStep DEF aofChildWriteDiffData

LEMMA PipeReadableInv == AofInv /\ aofChildPipeReadable => AofInv'
<1> SUFFICES ASSUME AofInv, aofChildPipeReadable PROVE AofInv'
    OBVIOUS
<1>1. afChild' = [afChild EXCEPT !.stop = TRUE] /\ ChildOK(afChild) /\ afChild \in ChildType
    BY DEF aofChildPipeReadable, AofInv, AofTypes, ChildOK
<1>2. /\ afChild'.kind = afChild.kind /\ afChild'.snap = afChild.snap
      /\ afChild'.got = afChild.got /\ afChild'.pipe = afChild.pipe
      /\ afChild'.stage = afChild.stage /\ afChild'.stop = TRUE /\ afChild' \in ChildType
    BY <1>1 DEF ChildType
<1>3. ChildOK(afChild')
    BY <1>1, <1>2 DEF ChildOK
<1>4. afDiff' = afDiff /\ afDiff \in Seq(Token) /\ (afDiff # <<>> => afChild.kind = "aof")
    BY DEF aofChildPipeReadable, AofInv, AofTypes
<1> QED
    BY <1>2, <1>3, <1>4, ChildStep DEF aofChildPipeReadable

LEMMA ChildReadsInv == AofInv /\ rewriteAppendOnlyFile => AofInv'
<1> SUFFICES ASSUME AofInv, rewriteAppendOnlyFile PROVE AofInv'
    OBVIOUS
<1> DEFINE first == <<Preamble(afChild.snap)>>
           got == afChild.got
           pipe == afChild.pipe
           c == afChild
<1>1. /\ first \in Seq(Token) /\ got \in Seq(Token) /\ pipe \in Seq(Token)
      /\ afDiff \in Seq(Token) /\ c \in ChildType /\ ChildOK(c) /\ c.kind = "aof"
      /\ afDiff' = afDiff /\ (afDiff # <<>> => c.kind = "aof")
    BY ChildParts DEF rewriteAppendOnlyFile, AofInv, AofTypes
<1>2. got \o pipe \in Seq(Token)
  <2> HIDE DEF got, pipe, first, c
  <2> QED
      BY <1>1, TokensConcat
<1>3. first \o (got \o pipe) \o <<>> = first \o got \o pipe
  <2> HIDE DEF got, pipe, first, c
  <2> DEFINE gp == got \o pipe
  <2>1. first \o gp \in Seq(Token)
    <3> HIDE DEF gp
    <3>1. gp \in Seq(Token)
        BY <1>2 DEF gp
    <3> QED
        BY <1>1, <3>1, TokensConcat
  <2>2. first \o gp = (first \o got) \o pipe
      BY <1>1, TokensConcat
  <2> DEFINE fgp == first \o gp
  <2>3. fgp \o <<>> = fgp
    <3> HIDE DEF fgp
    <3>1. fgp \in Seq(Token)
        BY <2>1 DEF fgp
    <3> QED
        BY <3>1, TokensConcat
  <2> QED
      BY <2>2, <2>3
<1>4. /\ afChild' \in ChildType /\ afChild'.kind = c.kind /\ afChild'.snap = c.snap
      /\ \/ afChild'.got = got \o pipe /\ afChild'.pipe = <<>>
         \/ afChild'.got = got /\ afChild'.pipe = pipe
      /\ afChild'.stage = "done" => afChild'.stop /\ afChild'.pipe = <<>>
  <2>1. CASE afChild' = [c EXCEPT !.got = got \o pipe, !.pipe = <<>>]
    <3>1. <<>> \in Seq(Token)
        OBVIOUS
    <3>2. c.stage # "done"
        BY DEF rewriteAppendOnlyFile
    <3> QED
        BY <1>1, <1>2, <2>1, <3>1, <3>2 DEF ChildType
  <2>2. CASE afChild' = [c EXCEPT !.stage = "asked"]
      BY <1>1, <2>2 DEF ChildType
  <2>3. CASE c.stop /\ afChild' = [ChildLastRead(c) EXCEPT !.stage = "done"]
    <3>1. <<>> \in Seq(Token)
        OBVIOUS
    <3>2. ChildLastRead(c) = [c EXCEPT !.got = got \o pipe, !.pipe = <<>>]
        BY DEF ChildLastRead
    <3> DEFINE l == ChildLastRead(c)
    <3>3. /\ l \in ChildType /\ l.kind = c.kind /\ l.snap = c.snap /\ l.stop = c.stop
          /\ l.got = got \o pipe /\ l.pipe = <<>>
        BY <1>1, <1>2, <3>1, <3>2 DEF ChildType
    <3> HIDE DEF l
    <3>4. afChild' = [l EXCEPT !.stage = "done"]
        BY <2>3 DEF l
    <3> QED
        BY <2>3, <3>3, <3>4 DEF ChildType
  <2>4. CASE afChild' = [c EXCEPT !.stage = "failed"]
      BY <1>1, <2>4 DEF ChildType
  <2> QED
      BY <2>1, <2>2, <2>3, <2>4 DEF rewriteAppendOnlyFile
<1>5. ChildOK(afChild')
    BY <1>1, <1>4 DEF ChildOK
<1>6. <<Preamble(afChild'.snap)>> \o afChild'.got \o afChild'.pipe \o afDiff'
            = <<Preamble(afChild.snap)>> \o afChild.got \o afChild.pipe \o afDiff
    BY <1>1, <1>3, <1>4
<1> QED
    BY <1>1, <1>4, <1>5, <1>6, ChildStep DEF rewriteAppendOnlyFile

\* The new file.
LEMMA NewFileOK ==
    ASSUME AofInv, afChild.stage = "done"
    PROVE  /\ DiskOK(NewFile) /\ NewFile.buf = <<>>
           /\ afState # "off" =>
                /\ Loads(NewFile.file \o NewFile.buf, afData, afSel)
                /\ afPolicy = "always" => NewFile.synced = Len(NewFile.file)
           /\ afPolicy = "always" /\ Calm(afDisk) => Calm(NewFile)
<1> DEFINE first == <<Preamble(afChild.snap)>>
           got == afChild.got
           diff == afDiff
           toks == first \o got \o diff
           kept == Len(toks) - Len(diff)
           off == [EmptyDisk EXCEPT !.file = toks, !.synced = kept, !.due = afDisk.due]
           jobs == [i \in DOMAIN afDisk.jobs |-> "replaced"] \o
                       (IF afPolicy = "everysec" THEN <<"file">> ELSE <<>>)
           synced == IF afPolicy = "always" THEN Len(toks) ELSE kept
           on == [file |-> toks, offset |-> Len(toks), buf |-> <<>>, synced |-> synced,
                  jobs |-> jobs, due |-> FALSE, postponed |-> afDisk.postponed,
                  err |-> afDisk.err]
<1>1. /\ first \in Seq(Token) /\ got \in Seq(Token) /\ diff \in Seq(Token)
      /\ afDisk \in DiskType /\ afChild.kind = "aof" /\ afChild.pipe = <<>>
    BY ChildParts DEF AofInv, AofTypes, DiskOK, ChildOK
<1>2. NewFile = IF afState = "off" THEN off ELSE on
    BY DEF NewFile
<1>3. /\ toks \in Seq(Token) /\ Len(toks) \in Nat /\ kept \in Nat /\ kept <= Len(toks)
      /\ Len(diff) \in Nat
  <2> DEFINE fg == first \o got
  <2>1. fg \in Seq(Token)
    <3> HIDE DEF first, got
    <3> QED
        BY <1>1, TokensConcat
  <2>2. diff \in Seq(Token)
      BY <1>1
  <2> HIDE DEF fg, diff
  <2>3. /\ fg \o diff \in Seq(Token) /\ Len(fg \o diff) = Len(fg) + Len(diff)
        /\ Len(fg) \in Nat /\ Len(diff) \in Nat
      BY <2>1, <2>2
  <2> DEFINE all == fg \o diff
  <2>4. all \in Seq(Token) /\ Len(all) = Len(fg) + Len(diff)
      BY <2>3
  <2> HIDE DEF all
  <2>5. Len(all) \in Nat /\ Len(all) - Len(diff) \in Nat /\ Len(all) - Len(diff) <= Len(all)
      BY <2>3, <2>4
  <2> QED
      BY <2>3, <2>4, <2>5 DEF all, fg
<1>4. first \o got \o <<>> \o diff = toks
  <2> HIDE DEF first, got, diff
  <2> DEFINE fg == first \o got
  <2>1. fg \in Seq(Token)
      BY <1>1, TokensConcat
  <2>2. fg \o <<>> = fg
    <3> HIDE DEF fg
    <3> QED
        BY <2>1, TokensConcat
  <2> QED
      BY <2>2
<1>5. jobs \in Seq({"file", "replaced"}) /\ OneFile(jobs)
  <2> DEFINE old == [i \in DOMAIN afDisk.jobs |-> "replaced"]
             n == Len(afDisk.jobs)
  <2>1. n \in Nat /\ DOMAIN afDisk.jobs = 1 .. n
      BY <1>1 DEF DiskType
  <2>2. old \in Seq({"file", "replaced"}) /\ Len(old) = n /\ \A i \in 1 .. n : old[i] = "replaced"
      BY <2>1
  <2> HIDE DEF old, n
  <2>3. CASE afPolicy = "everysec"
    <3>1. jobs = old \o <<"file">>
        BY <2>3 DEF old
    <3>2. <<"file">> \in Seq({"file", "replaced"}) /\ Len(<<"file">>) = 1
        OBVIOUS
    <3>3. /\ old \o <<"file">> = Append(old, "file")
          /\ Append(old, "file") \in Seq({"file", "replaced"})
          /\ DOMAIN Append(old, "file") = 1 .. n + 1
          /\ \A i \in 1 .. n : Append(old, "file")[i] = "replaced"
        BY <2>1, <2>2
    <3> DEFINE q == Append(old, "file")
    <3>4. q \in Seq({"file", "replaced"}) /\ DOMAIN q = 1 .. n + 1
            /\ \A i \in 1 .. n : q[i] = "replaced"
        BY <3>3
    <3> HIDE DEF q
    <3>5. \A i \in DOMAIN q : q[i] = "file" => i = n + 1
        BY <2>1, <3>4
    <3>6. OneFile(q)
        BY <3>5 DEF OneFile
    <3> HIDE DEF jobs
    <3> QED
        BY <3>1, <3>3, <3>4, <3>6 DEF q
  <2>4. CASE afPolicy # "everysec"
    <3>1. old \o <<>> = old
        BY <2>2
    <3>2. jobs = old
        BY <2>4, <3>1 DEF old
    <3>3. DOMAIN old = 1 .. n
        BY <2>2
    <3>4. OneFile(old)
        BY <2>2, <3>3 DEF OneFile
    <3> HIDE DEF jobs
    <3> QED
        BY <2>2, <3>2, <3>4
  <2> QED
      BY <2>3, <2>4
<1>6. synced \in Nat /\ synced <= Len(toks)
  <2> HIDE DEF toks, kept
  <2> QED
      BY <1>3
<1>10. afPolicy = "always" /\ afDisk.jobs = <<>> => jobs = <<>>
  <2>1. ASSUME afDisk.jobs = <<>> PROVE [i \in DOMAIN afDisk.jobs |-> "replaced"] \o <<>> = <<>>
      BY <2>1
  <2> QED
      BY <2>1
<1>7. ASSUME afState = "off"
      PROVE  DiskOK(NewFile) /\ NewFile.buf = <<>> /\ Calm(NewFile)
  <2> DEFINE E == EmptyDisk
  <2>1. /\ E \in DiskType /\ OneFile(E.jobs) /\ E.buf = <<>>
        /\ E.err = FALSE /\ E.postponed = 0 /\ E.jobs = <<>>
      BY EmptyDiskTyped
  <2>2. afDisk.due \in BOOLEAN
      BY <1>1 DEF DiskType
  <2> HIDE DEF E, toks, kept
  <2>3. NewFile = [E EXCEPT !.file = toks, !.synced = kept, !.due = afDisk.due]
      BY <1>2, <1>7 DEF E
  <2>4. NewFile \in DiskType
      BY <1>3, <2>1, <2>2, <2>3 DEF DiskType
  <2>5. NewFile.file = toks /\ NewFile.synced = kept /\ NewFile.buf = E.buf
            /\ NewFile.jobs = E.jobs /\ NewFile.err = E.err /\ NewFile.postponed = E.postponed
      BY <2>1, <2>3 DEF DiskType
  <2>6. DiskOK(NewFile)
      BY <1>3, <2>1, <2>4, <2>5 DEF DiskOK
  <2> QED
      BY <2>1, <2>5, <2>6 DEF Calm
<1>8. ASSUME afState # "off"
      PROVE  /\ DiskOK(NewFile) /\ NewFile.buf = <<>> /\ NewFile.file = toks
             /\ NewFile.synced = synced
             /\ afPolicy = "always" /\ Calm(afDisk) => Calm(NewFile)
  <2> DEFINE none == <<>>
  <2>1. none \in Seq(Token)
      OBVIOUS
  <2>2. afDisk.postponed \in 0 .. 3 /\ afDisk.err \in BOOLEAN
      BY <1>1 DEF DiskType
  <2>3. NewFile = [file |-> toks, offset |-> Len(toks), buf |-> none, synced |-> synced,
                   jobs |-> jobs, due |-> FALSE, postponed |-> afDisk.postponed,
                   err |-> afDisk.err]
      BY <1>2, <1>8
  <2> HIDE DEF none, toks, jobs, synced
  <2>4. NewFile \in DiskType
      BY <1>3, <1>5, <1>6, <2>1, <2>2, <2>3 DEF DiskType
  <2>5. /\ NewFile.file = toks /\ NewFile.synced = synced /\ NewFile.buf = none
        /\ NewFile.jobs = jobs /\ NewFile.err = afDisk.err
        /\ NewFile.postponed = afDisk.postponed
      BY <2>3
  <2>7. afPolicy = "always" /\ Calm(afDisk) => Calm(NewFile)
      BY <1>10, <2>5 DEF Calm
  <2>6. DiskOK(NewFile)
      BY <1>5, <1>6, <2>4, <2>5 DEF DiskOK
  <2> QED
      BY <2>5, <2>6, <2>7 DEF none
<1>9. afState # "off" => Loads(toks \o <<>>, afData, afSel)
  <2> SUFFICES ASSUME afState # "off" PROVE Loads(toks \o <<>>, afData, afSel)
      OBVIOUS
  <2>1. Loads(first \o got \o <<>> \o diff, afData, afSel)
      BY <1>1 DEF AofInv, Backed
  <2>2. toks \o <<>> = toks
    <3> HIDE DEF toks
    <3> QED
        BY <1>3, TokensConcat
  <2> QED
      BY <1>4, <2>1, <2>2
<1> HIDE DEF toks
<1> QED
    BY <1>7, <1>8, <1>9

LEMMA RewriteDoneInv == AofInv /\ backgroundRewriteDoneHandler => AofInv'
<1> SUFFICES ASSUME AofInv, backgroundRewriteDoneHandler PROVE AofInv'
    OBVIOUS
<1>1. ChildOK(NoChild) /\ NoChild.kind = "none"
    BY NoChildOK
<1>2. /\ afChild' = NoChild /\ afDiff' = <<>>
      /\ UNCHANGED <<afPolicy, afNoFsync, afData, afNext, afReply, afHandler, afRead, afAcked>>
      /\ afAhead' \in {afAhead, {}}
    BY DEF backgroundRewriteDoneHandler
<1>5. ClientsOK'
    BY <1>2, AheadTyped
<1>3. CASE /\ afChild.stage = "done"
           /\ afDisk' = NewFile
           /\ afSel' = IF afState = "off" THEN afSel ELSE NoDb
           /\ afState' = IF afState = "wait" THEN "on" ELSE afState
           /\ UNCHANGED afSched
  <2>1. /\ DiskOK(NewFile)
        /\ afState # "off" => Loads(NewFile.file \o NewFile.buf, afData, afSel)
      BY <1>3, NewFileOK
  <2>2. AofTypes'
      BY <1>1, <1>2, <1>3, <1>5, <2>1 DEF AofInv, AofTypes
  <2>3. ASSUME afState' = "on"
        PROVE  Loads(afDisk'.file \o afDisk'.buf, afData', afSel')
    <3>1. afState # "off" /\ afSel' = NoDb
        BY <1>3, <2>3
    <3>2. Loads(NewFile.file \o NewFile.buf, afData, NoDb)
        BY <2>1, <3>1, LoadsTyped, AofAssumption
    <3> QED
        BY <1>2, <1>3, <3>1, <3>2
  <2>4. Backed(afState, afDisk, afChild, afDiff, afData, afSel)'
      BY <1>1, <1>2, <2>3 DEF Backed
  <2> QED
      BY <2>2, <2>4 DEF AofInv
<1>4. CASE afSched' = (afSched \/ afState = "wait") /\ UNCHANGED <<afDisk, afSel, afState>>
  <2>1. afSched' \in BOOLEAN
      BY <1>4
  <2>2. AofTypes'
      BY <1>1, <1>2, <1>4, <1>5, <2>1 DEF AofInv, AofTypes
  <2>3. Backed(afState, afDisk, afChild, afDiff, afData, afSel)'
      BY <1>1, <1>2, <1>4 DEF AofInv, Backed
  <2> QED
      BY <2>2, <2>3 DEF AofInv
<1> QED
    BY <1>3, <1>4 DEF backgroundRewriteDoneHandler

LEMMA StopInv == AofInv /\ stopAppendOnly => AofInv'
<1> SUFFICES ASSUME AofInv, stopAppendOnly PROVE AofInv'
    OBVIOUS
<1>1. PICK n \in Written(afDisk) :
        afDisk' = [flushAppendOnlyFile(afDisk, TRUE, n) EXCEPT
                    !.synced = Len(flushAppendOnlyFile(afDisk, TRUE, n).file),
                    !.buf = <<>>, !.jobs = <<>>]
    BY DEF stopAppendOnly
<1> DEFINE a == flushAppendOnlyFile(afDisk, TRUE, n)
           none == <<>>
           synced == Len(a.file)
<1>2. DiskOK(a)
  <2>1. DiskOK(afDisk)
      BY DEF AofInv, AofTypes
  <2>2. SameDisk(afDisk, a)
      BY <2>1, FlushKeeps, TRUE \in BOOLEAN
  <2> QED
      BY <2>2 DEF SameDisk
<1>3. none \in Seq(Token) /\ none \in Seq({"file", "replaced"}) /\ OneFile(none)
    BY DEF OneFile
<1>4. afDisk' = [a EXCEPT !.synced = synced, !.buf = none, !.jobs = none]
    BY <1>1
<1> HIDE DEF none, a
<1>5. a \in DiskType /\ synced \in Nat
    BY <1>2 DEF DiskOK, DiskType
<1> HIDE DEF synced
<1>6. /\ afDisk' \in DiskType /\ afDisk'.file = a.file /\ afDisk'.synced = synced
      /\ afDisk'.jobs = none
    BY <1>3, <1>4, <1>5 DEF DiskType
<1>7. DiskOK(afDisk')
    BY <1>3, <1>5, <1>6 DEF DiskOK, synced
<1>8. ChildOK(afChild') /\ afState' = "off" /\ afDiff' = <<>>
    BY NoChildOK DEF stopAppendOnly, KillAppendOnlyChild, AofInv, AofTypes
<1>11. ClientsOK'
    BY AheadTyped DEF stopAppendOnly
<1>9. AofTypes'
  <2>1. <<>> \in Seq(Token)
      OBVIOUS
  <2> QED
      BY <1>7, <1>8, <1>11, <2>1 DEF stopAppendOnly, AofInv, AofTypes
<1>10. Backed(afState, afDisk, afChild, afDiff, afData, afSel)'
    BY <1>8 DEF Backed
<1> QED
    BY <1>9, <1>10 DEF AofInv

LEMMA StartInv == AofInv /\ startAppendOnly => AofInv'
<1> SUFFICES ASSUME AofInv, startAppendOnly PROVE AofInv'
    OBVIOUS
<1>1. DiskOK(afDisk') /\ afState' = "wait" /\ afDiff' = <<>>
  <2>1. /\ afDisk' = [afDisk EXCEPT !.due = FALSE, !.err = FALSE]
        /\ afDisk \in DiskType /\ DiskOK(afDisk)
      BY DEF startAppendOnly, AofInv, AofTypes, DiskOK
  <2>2. /\ afDisk' \in DiskType /\ afDisk'.file = afDisk.file
        /\ afDisk'.synced = afDisk.synced /\ afDisk'.jobs = afDisk.jobs
      BY <2>1 DEF DiskType
  <2> QED
      BY <2>1, <2>2 DEF DiskOK, startAppendOnly
<1>2. /\ ChildOK(afChild') /\ afSel' \in Db \cup {NoDb} /\ afSched' \in BOOLEAN
      /\ afChild'.kind = "aof" =>
            Loads(<<Preamble(afChild'.snap)>> \o afChild'.got \o afChild'.pipe \o <<>>,
                  afData, afSel')
  <2>1. CASE KillAppendOnlyChild(afChild).kind = "none"
    <3>1. rewriteAppendOnlyFileBackground
        BY <2>1 DEF startAppendOnly
    <3>2. /\ ChildOK(afChild') /\ afSel' = NoDb /\ afSched' = FALSE
          /\ Loads(<<Preamble(afChild'.snap)>> \o afChild'.got \o afChild'.pipe \o <<>>,
                   afData, NoDb)
        BY <3>1, StartsLoads
    <3> QED
        BY <3>2
  <2>2. CASE KillAppendOnlyChild(afChild).kind # "none"
    <3>1. afChild' = afChild /\ afChild.kind # "aof" /\ afSel' = afSel /\ afSched' = TRUE
        BY <2>2, NoChildOK DEF startAppendOnly, KillAppendOnlyChild
    <3> QED
        BY <3>1 DEF AofInv, AofTypes
  <2> QED
      BY <2>1, <2>2
<1>3. UNCHANGED <<afPolicy, afNoFsync, afData, afNext>> /\ ClientsOK'
    BY ClientsSame DEF startAppendOnly
<1>4. AofTypes'
  <2>1. <<>> \in Seq(Token)
      OBVIOUS
  <2> QED
      BY <1>1, <1>2, <1>3, <2>1 DEF AofInv, AofTypes
<1>5. Backed(afState, afDisk, afChild, afDiff, afData, afSel)'
    BY <1>1, <1>2, <1>3 DEF Backed
<1> QED
    BY <1>4, <1>5 DEF AofInv

LEMMA RestartDisk ==
    ASSUME NEW toks, Well(toks), NEW synced \in Nat, Restart(toks, synced)
    PROVE  /\ DiskOK(afDisk') /\ afDisk'.buf = <<>> /\ Calm(afDisk')
           /\ afDisk'.file = ValidPart(toks)
           /\ \/ afDisk'.synced = Len(afDisk'.file)
              \/ /\ afDisk'.synced = synced /\ synced < Len(toks)
                 /\ SubSeq(afDisk'.file, 1, synced) = SubSeq(toks, 1, synced)
           /\ Loads(afDisk'.file \o afDisk'.buf, afData', NoDb)
           /\ Replay(afDisk'.file) = afData'
<1> DEFINE file == ValidPart(toks)
           kept == Min({synced, Len(file)})
<1>1. Loads(file, Replay(toks), NoDb) /\ file \in Seq(Token)
    BY ValidPartLoads, AofAssumption
<1>9. toks \in Seq(Token) /\ Len(toks) \in Nat
    BY DEF Well
<1>10. \E m \in 0 .. Len(toks) : file = SubSeq(toks, 1, m)
  <2> DEFINE multis == {i \in DOMAIN toks : toks[i] = AfMulti}
             open == {i \in multis : \A j \in DOMAIN toks : j > i => toks[j] # AfExec}
  <2>1. CASE open = {}
    <3>1. file = toks
        BY <2>1 DEF ValidPart
    <3>2. toks = SubSeq(toks, 1, Len(toks)) /\ Len(toks) \in 0 .. Len(toks)
        BY <1>9
    <3> HIDE DEF file
    <3> QED
        BY <3>1, <3>2
  <2>2. CASE open # {}
    <3>1. file = SubSeq(toks, 1, Min(open) - 1)
        BY <2>2 DEF ValidPart
    <3>2. Min(open) \in open
      <4>1. open \in SUBSET Nat
          BY <1>9
      <4> HIDE DEF open
      <4> QED
          BY <2>2, <4>1, MinIn
    <3>3. Min(open) \in 1 .. Len(toks)
        BY <1>9, <3>2
    <3> DEFINE m == Min(open) - 1
    <3>4. m \in 0 .. Len(toks)
        BY <1>9, <3>3
    <3>5. file = SubSeq(toks, 1, m)
        BY <3>1
    <3> HIDE DEF m, file
    <3> QED
        BY <3>4, <3>5
  <2> QED
      BY <2>1, <2>2
<1>11. PICK m \in 0 .. Len(toks) : file = SubSeq(toks, 1, m)
    BY <1>10
<1>12. /\ Len(SubSeq(toks, 1, m)) = m
       /\ \A k \in 0 .. m : SubSeq(SubSeq(toks, 1, m), 1, k) = SubSeq(toks, 1, k)
    BY <1>9, PrefixOfPrefix
<1>2. Len(file) = m /\ \A k \in 0 .. m : SubSeq(file, 1, k) = SubSeq(toks, 1, k)
  <2> HIDE DEF file
  <2> QED
      BY <1>11, <1>12
<1>3. /\ kept \in Nat /\ kept <= m
      /\ kept = m \/ (kept = synced /\ synced < m)
  <2> DEFINE s == {synced, Len(file)}
  <2>1. s \in SUBSET Nat /\ s # {}
      BY <1>2
  <2> HIDE DEF s
  <2>2. Min(s) \in s /\ \A x \in s : Min(s) <= x
      BY <2>1, MinIn
  <2>3. kept \in {synced, m} /\ kept <= synced /\ kept <= m
      BY <1>2, <2>2 DEF s
  <2> HIDE DEF kept, file
  <2> QED
      BY <1>9, <2>3
<1>4. /\ afDisk' = [EmptyDisk EXCEPT !.file = file, !.synced = kept, !.offset = Len(file)]
      /\ afData' = Replay(toks)
    BY DEF Restart
<1> HIDE DEF file, kept
<1>5. /\ DiskOK(afDisk') /\ afDisk'.file = file /\ afDisk'.synced = kept
      /\ afDisk'.buf = <<>> /\ Calm(afDisk')
  <2>1. file \in Seq(Token) /\ kept \in Nat /\ kept <= Len(file) /\ Len(file) \in Nat
      BY <1>1, <1>2, <1>3
  <2> DEFINE E == EmptyDisk
             offset == Len(file)
  <2>2. /\ E \in DiskType /\ OneFile(E.jobs) /\ E.buf = <<>> /\ offset \in Nat
        /\ E.err = FALSE /\ E.postponed = 0 /\ E.jobs = <<>>
      BY <2>1, EmptyDiskTyped
  <2>3. afDisk' = [E EXCEPT !.file = file, !.synced = kept, !.offset = offset]
      BY <1>4
  <2> HIDE DEF E, offset
  <2>4. afDisk' \in DiskType
      BY <2>1, <2>2, <2>3 DEF DiskType
  <2>5. /\ afDisk'.file = file /\ afDisk'.synced = kept /\ afDisk'.buf = E.buf
        /\ afDisk'.jobs = E.jobs /\ afDisk'.err = E.err /\ afDisk'.postponed = E.postponed
      BY <2>2, <2>3 DEF DiskType
  <2>6. DiskOK(afDisk')
      BY <2>1, <2>2, <2>4, <2>5 DEF DiskOK
  <2> QED
      BY <2>2, <2>5, <2>6 DEF Calm
<1>6. file \o <<>> = file
    BY <1>1
<1>7. Loads(file, afData', NoDb)
    BY <1>1, <1>4
<1>8. Replay(file) = afData'
    BY <1>7 DEF Loads, Loaded, Replay
<1>13. \/ afDisk'.synced = Len(afDisk'.file)
       \/ /\ afDisk'.synced = synced /\ synced < Len(toks)
          /\ SubSeq(afDisk'.file, 1, synced) = SubSeq(toks, 1, synced)
  <2>1. synced < m => synced \in 0 .. m /\ synced < Len(toks)
      BY <1>9
  <2> QED
      BY <1>2, <1>3, <1>5, <2>1
<1> QED
    BY <1>5, <1>6, <1>7, <1>8, <1>13 DEF file

LEMMA RestartInv ==
    ASSUME AofInv, NEW toks, Well(toks), NEW synced \in Nat, Restart(toks, synced)
    PROVE  AofInv'
<1>1. /\ DiskOK(afDisk')
      /\ Loads(afDisk'.file \o afDisk'.buf, afData', NoDb)
    BY RestartDisk
<1>2. afData' \in AfDataType /\ Paired(afData')
    BY <1>1, LoadsTyped, AofAssumption
<1>3. ChildOK(NoChild) /\ NoChild.kind = "none"
    BY NoChildOK
<1>6. ClientsOK'
    BY DEF Restart, AofInv, AofTypes, ClientsOK, NoReplies, NoHandlers
<1>4. AofTypes'
  <2>1. <<>> \in Seq(Token)
      OBVIOUS
  <2> QED
      BY <1>1, <1>2, <1>3, <1>6, <2>1 DEF Restart, AofInv, AofTypes
<1>5. Backed(afState, afDisk, afChild, afDiff, afData, afSel)'
    BY <1>1, <1>3 DEF Restart, Backed
<1> QED
    BY <1>4, <1>5 DEF AofInv

\* The file on disk is the beginning of what loads to the data.
LEMMA FileWell ==
    ASSUME AofInv, afState = "on"
    PROVE  /\ Well(afDisk.file) /\ afDisk.file \in Seq(Token)
           /\ afDisk.synced \in Nat /\ afDisk.synced <= Len(afDisk.file)
<1> DEFINE f == afDisk.file
           b == afDisk.buf
<1>1. /\ f \in Seq(Token) /\ b \in Seq(Token)
      /\ afDisk.synced \in Nat /\ afDisk.synced <= Len(f)
    BY DEF AofInv, AofTypes, DiskOK, DiskType
<1>2. Well(f \o b)
    BY DEF AofInv, Backed, Loads
<1> HIDE DEF f, b
<1>3. SubSeq(f \o b, 1, Len(f)) = f /\ Len(f) \in 0 .. Len(f \o b)
  <2>1. f \in Seq(Token) /\ b \in Seq(Token)
      BY <1>1
  <2> QED
      BY <2>1
<1>4. Well(f)
    BY <1>2, <1>3, WellPrefix
<1> QED
    BY <1>1, <1>4 DEF f

LEMMA CrashInv == AofInv /\ (Crash \/ PowerFailure) => AofInv'
<1>1. ASSUME AofInv, Crash PROVE AofInv'
    BY <1>1, FileWell, RestartInv DEF Crash
<1>2. ASSUME AofInv, PowerFailure PROVE AofInv'
  <2>1. PICK n \in afDisk.synced .. Len(afDisk.file) : Restart(SubSeq(afDisk.file, 1, n), n)
      BY <1>2 DEF PowerFailure
  <2>2. /\ Well(afDisk.file) /\ afDisk.file \in Seq(Token)
        /\ n \in 0 .. Len(afDisk.file) /\ n \in Nat
      BY <1>2, FileWell DEF PowerFailure
  <2>3. Well(SubSeq(afDisk.file, 1, n))
      BY <2>2, WellPrefix
  <2> QED
      BY <1>2, <2>1, <2>2, <2>3, RestartInv
<1> QED
    BY <1>1, <1>2

LEMMA AofInvNext == AofInv /\ [AofNext]_afVars => AofInv'
<1> SUFFICES ASSUME AofInv, [AofNext]_afVars PROVE AofInv'
    OBVIOUS
<1>1. ASSUME NEW c \in AfClients, NEW woken \in SUBSET AfClients, NEW cmd \in AfCmds,
             AfCommand(c, woken, cmd[1], cmd[2])
      PROVE  AofInv'
  <2>1. cmd[1] \in Db /\ cmd[2] \in BOOLEAN
      BY AofAssumption DEF AofAssumption
  <2> QED
      BY <1>1, <2>1, CommandInv
<1>2. CASE UNCHANGED afVars
  <2>1. AofTypes'
      BY <1>2, ClientsSame DEF afVars, AofInv, AofTypes
  <2>2. Backed(afState, afDisk, afChild, afDiff, afData, afSel)'
      BY <1>2 DEF afVars, AofInv, Backed
  <2> QED
      BY <2>1, <2>2 DEF AofInv
<1> QED
    BY <1>1, <1>2, BeforeSleepInv, HandlerInv, EventsInv, BioFsyncInv, AfSecondInv, CronFlushInv,
       BgrewriteaofInv, CronRewriteInv, RdbChildInv, WriteDiffInv, PipeReadableInv,
       ChildReadsInv, RewriteDoneInv, StopInv, StartInv, CrashInv DEF AofNext

-----------------------------------------------------------------------------
(* Acknowledged writes.                                                      *)

\* Once all of the file is synced and the buffer is empty the data are kept.
LEMMA KeptAll ==
    ASSUME NEW disk, NEW data, NEW sel, DiskOK(disk), disk.buf = <<>>,
           disk.synced = Len(disk.file), Loads(disk.file \o disk.buf, data, sel)
    PROVE  Kept(disk) = Writes(data)
<1> DEFINE f == disk.file
<1>1. f \in Seq(Token)
    BY DEF DiskOK, DiskType
<1>2. Loads(f \o <<>>, data, sel)
    OBVIOUS
<1> HIDE DEF f
<1>3. f \o <<>> = f /\ SubSeq(f, 1, Len(f)) = f
    BY <1>1
<1>4. Replay(f) = data
    BY <1>2, <1>3 DEF Loads, Loaded, Replay
<1> QED
    BY <1>3, <1>4 DEF Kept, f

\* What is kept does not change while the synced part stays.
LEMMA KeptSame ==
    ASSUME NEW a, NEW b, DiskOK(a), b.synced = a.synced,
           b.file = a.file \/ b.file = a.file \o a.buf
    PROVE  Kept(b) = Kept(a)
<1> DEFINE f == a.file
           r == a.buf
           n == a.synced
<1>1. f \in Seq(Token) /\ r \in Seq(Token) /\ n \in Nat /\ n <= Len(f)
    BY DEF DiskOK, DiskType
<1>2. b.synced = n /\ (b.file = f \/ b.file = f \o r)
    OBVIOUS
<1> HIDE DEF f, r, n
<1>3. SubSeq(f \o r, 1, n) = SubSeq(f, 1, n)
    BY <1>1
<1>4. SubSeq(b.file, 1, b.synced) = SubSeq(f, 1, n)
    BY <1>2, <1>3
<1> QED
    BY <1>4 DEF Kept, f, n

\* Every state in which the file is synced and the buffer is empty, or that is
\* not about "always".
LEMMA AckedAllSynced ==
    ASSUME AofInv', Pending' \cup afAcked' \subseteq Writes(afData'),
           afPolicy' = "always" => Calm(afDisk'),
           InForce' => afDisk'.buf = <<>> /\ afDisk'.synced = Len(afDisk'.file)
    PROVE  AckedInv'
<1>1. ASSUME InForce' PROVE Kept(afDisk') = Writes(afData')
  <2>1. /\ DiskOK(afDisk')
        /\ Loads(afDisk'.file \o afDisk'.buf, afData', afSel')
      BY <1>1 DEF AofInv, AofTypes, Backed, InForce
  <2> QED
      BY <1>1, <2>1, KeptAll
<1>2. \A c \in AfClients : afReply'[c] \subseteq Pending'
    BY DEF Pending
<1> QED
    BY <1>1, <1>2 DEF AckedInv, Safe

\* A step after which every reply may go.
LEMMA AckedAllSafe ==
    ASSUME AckedInv, Pending' \cup afAcked' \subseteq Writes(afData'),
           afPolicy' = "always" => Calm(afDisk'),
           InForce' => /\ InForce /\ Kept(afDisk') = Kept(afDisk)
                       /\ afAhead \subseteq afAhead'
                       /\ Pending \subseteq Kept(afDisk) \cup afAhead',
           afAcked' \subseteq afAcked \cup Pending, Pending' \subseteq Pending
    PROVE  AckedInv'
<1>1. \A c \in AfClients : afReply'[c] \subseteq Pending'
    BY DEF Pending
<1> QED
    BY <1>1 DEF AckedInv, Safe

\* A step that is not about replies.
LEMMA AckedSame ==
    ASSUME AckedInv, Kept(afDisk') = Kept(afDisk), afDisk'.buf = afDisk.buf,
           afPolicy' = "always" => Calm(afDisk'),
           UNCHANGED <<afPolicy, afState, afData, afClientVars>>
    PROVE  AckedInv'
<1>1. Pending' = Pending
    BY DEF Pending, afClientVars
<1>2. /\ InForce' <=> InForce
      /\ \A c \in AfClients : afReply'[c] = afReply[c] /\ (Held(c)' <=> Held(c))
      /\ afAcked' = afAcked /\ afAhead' = afAhead
    BY DEF InForce, Held, afClientVars
<1> QED
    BY <1>1, <1>2 DEF AckedInv, Safe

LEMMA PendingData ==
    ASSUME AckedInv, UNCHANGED afData, Pending' \subseteq Pending,
           afAcked' \subseteq afAcked \cup Pending
    PROVE  Pending' \cup afAcked' \subseteq Writes(afData')
    BY DEF AckedInv

LEMMA AckedBeforeSleep == AofInv /\ AofInv' /\ AckedInv /\ BeforeSleep => AckedInv'
<1> SUFFICES ASSUME AofInv, AofInv', AckedInv, BeforeSleep PROVE AckedInv'
    OBVIOUS
<1>1. PICK n \in Written(afDisk) :
        afDisk' = IF afState = "on" THEN flushAppendOnlyFile(afDisk, FALSE, n) ELSE afDisk
    BY DEF BeforeSleep
<1>2. /\ afAcked' \subseteq afAcked \cup Pending /\ Pending' \subseteq Pending
    BY SleepWrites
<1>3. /\ UNCHANGED <<afPolicy, afState, afData>> /\ (InForce' <=> InForce)
      /\ afAhead' = IF ~InForce \/ afDisk.buf = <<>> THEN afAhead
                    ELSE IF FsyncPutOff THEN afAhead \cup Pending ELSE {}
    BY DEF BeforeSleep, InForce
<1>4. Pending' \cup afAcked' \subseteq Writes(afData')
    BY <1>2, <1>3, PendingData
<1>5. CASE ~InForce
  <2>1. ASSUME afPolicy = "always" PROVE afDisk' = afDisk
      BY <1>1, <1>5, <2>1 DEF InForce
  <2>2. afPolicy' = "always" => Calm(afDisk')
      BY <1>3, <2>1 DEF AckedInv
  <2> QED
      BY <1>2, <1>3, <1>4, <1>5, <2>2, AckedAllSafe
<1>6. CASE InForce
  <2>1. SameDisk(afDisk, afDisk') /\ DiskOK(afDisk)
      BY <1>1, <1>6, FlushKeeps, FALSE \in BOOLEAN DEF AofInv, AofTypes, InForce
  <2>2. afPolicy = "always" /\ Calm(afDisk)
      BY <1>6 DEF AckedInv, InForce
  <2>3. /\ Calm(afDisk')
        /\ IF afDisk.buf = <<>> THEN afDisk' = afDisk
           ELSE /\ afDisk'.buf = <<>> /\ afDisk'.file = afDisk.file \o afDisk.buf
                /\ afDisk'.synced = IF FsyncPutOff THEN afDisk.synced ELSE Len(afDisk'.file)
      BY <2>1, <2>2, Zenon DEF SameDisk, Calm
  <2>4. CASE afDisk.buf = <<>>
    <3>1. Pending \subseteq Kept(afDisk) \cup afAhead
        BY <1>6, <2>4 DEF AckedInv, Safe, Pending
    <3> QED
        BY <1>2, <1>3, <1>4, <1>6, <2>3, <2>4, <3>1, AckedAllSafe
  <2>5. CASE afDisk.buf # <<>> /\ FsyncPutOff
    <3>1. Kept(afDisk') = Kept(afDisk)
        BY <2>1, <2>3, <2>5, KeptSame
    <3>2. afAhead' = afAhead \cup Pending
        BY <1>3, <1>6, <2>5
    <3> QED
        BY <1>2, <1>4, <1>6, <2>3, <3>1, <3>2, AckedAllSafe
  <2>6. CASE afDisk.buf # <<>> /\ ~FsyncPutOff
    <3>1. afDisk'.buf = <<>> /\ afDisk'.synced = Len(afDisk'.file)
        BY <2>3, <2>6
    <3> QED
        BY <1>4, <2>3, <3>1, AckedAllSynced
  <2> QED
      BY <2>4, <2>5, <2>6
<1> QED
    BY <1>5, <1>6

LEMMA AckedEvents == AofInv /\ AckedInv /\ processEventsWhileBlocked => AckedInv'
<1> SUFFICES ASSUME AofInv, AckedInv, processEventsWhileBlocked PROVE AckedInv'
    OBVIOUS
<1>1. /\ afAcked' \subseteq afAcked \cup Pending /\ Pending' \subseteq Pending
    BY EventsWrite
<1>2. /\ UNCHANGED <<afPolicy, afState, afData, afDisk>> /\ (InForce' <=> InForce)
      /\ afAhead' = IF InForce THEN afAhead \cup Pending ELSE afAhead
    BY DEF processEventsWhileBlocked, InForce
<1>3. Pending' \cup afAcked' \subseteq Writes(afData')
    BY <1>1, <1>2, PendingData
<1>4. afPolicy' = "always" => Calm(afDisk')
    BY <1>2 DEF AckedInv
<1> QED
    BY <1>1, <1>2, <1>3, <1>4, AckedAllSafe

\* A handler is called only for replies that may go.
LEMMA AckedHandler ==
    ASSUME AofInv, AckedInv, NEW c \in AfClients, sendReplyToClient(c)
    PROVE  AckedInv'
<1>1. /\ afAcked' \subseteq afAcked \cup Pending /\ Pending' \subseteq Pending
      /\ \A x \in AfClients : afReply'[x] \subseteq afReply[x]
    BY HandlerWrites
<1>2. /\ UNCHANGED <<afPolicy, afState, afData, afDisk, afRead, afAhead>>
      /\ (InForce' <=> InForce)
    BY DEF sendReplyToClient, InForce
<1>3. Pending' \cup afAcked' \subseteq Writes(afData')
    BY <1>1, <1>2, PendingData
<1>4. ~Held(c)
    BY DEF sendReplyToClient, CanWrite, Held
<1>5. /\ afAcked' = afAcked \cup afReply[c] /\ afReply'[c] = {}
      /\ \A x \in AfClients : x # c => afHandler'[x] = afHandler[x]
    BY DEF sendReplyToClient, writeToClient
<1>6. ASSUME InForce
      PROVE  /\ Safe(afAcked)'
             /\ \A x \in AfClients : Safe(afReply[x])' \/ (afDisk'.buf # <<>> /\ Held(x)')
  <2>1. Safe(afAcked) /\ Safe(afReply[c])
      BY <1>4, <1>6 DEF AckedInv
  <2>2. Safe(afAcked)'
      BY <1>2, <1>5, <2>1 DEF Safe
  <2>3. ASSUME NEW x \in AfClients
        PROVE  Safe(afReply[x])' \/ (afDisk'.buf # <<>> /\ Held(x)')
    <3>1. CASE x = c
        BY <1>5, <3>1 DEF Safe
    <3>2. CASE x # c
      <4>1. Held(x)' <=> Held(x)
          BY <1>2, <1>5, <3>2 DEF Held
      <4>2. Safe(afReply[x]) => Safe(afReply[x])'
          BY <1>1, <1>2 DEF Safe
      <4> QED
          BY <1>2, <1>6, <4>1, <4>2 DEF AckedInv
    <3> QED
        BY <3>1, <3>2
  <2> QED
      BY <2>2, <2>3
<1> QED
    BY <1>2, <1>3, <1>6 DEF AckedInv

\* A command of c: the replies it makes wait for the flush, or go ahead of it.
LEMMA AckedCommand ==
    ASSUME AofInv, AckedInv, NEW c \in AfClients, NEW woken \in SUBSET AfClients,
           NEW d \in Db, NEW tx \in BOOLEAN, AfCommand(c, woken, d, tx)
    PROVE  AckedInv'
<1> DEFINE ws == Range(Ws(afNext, tx))
           fed == Fed(d, afSel, Cmds(afNext, tx))
           b == afDisk.buf
<1>0. CommandDone(c, woken, d, tx)
    BY CommandEffect
<1>1. /\ Writes(afData') = Writes(afData) \cup ws
      /\ afReply' = Answered(c, woken, ws) /\ afAhead' = AheadWith(c, woken, ws)
    BY <1>0 DEF CommandDone
<1>2. IF afState = "off" THEN UNCHANGED <<afSel, afDisk, afDiff>>
      ELSE afDisk' = IF afState = "on" THEN [afDisk EXCEPT !.buf = b \o fed] ELSE afDisk
    BY <1>0 DEF CommandDone
<1>3. /\ afRead' = afRead \cup {c}
      /\ UNCHANGED <<afPolicy, afState, afHandler, afAcked>> /\ (InForce' <=> InForce)
    BY DEF AfCommand, InForce
<1>4. /\ fed \in Seq(Token) /\ fed # <<>> /\ b \in Seq(Token)
      /\ afDisk \in DiskType /\ DiskOK(afDisk)
  <2>1. b \in Seq(Token) /\ afDisk \in DiskType /\ DiskOK(afDisk) /\ afNext \in Nat
      BY DEF AofInv, AofTypes, DiskOK, DiskType
  <2>2. fed \in Seq(Token) /\ fed # <<>>
      BY <2>1, FeedCommand, AofAssumption
  <2> QED
      BY <2>1, <2>2
<1> HIDE DEF ws, fed
<1>5. /\ afDisk'.file = afDisk.file /\ afDisk'.synced = afDisk.synced
      /\ afPolicy = "always" => Calm(afDisk')
  <2>1. CASE afState = "on"
    <3>1. afDisk' = [afDisk EXCEPT !.buf = b \o fed]
        BY <1>2, <2>1
    <3> HIDE DEF b
    <3>2. /\ afDisk'.file = afDisk.file /\ afDisk'.synced = afDisk.synced
          /\ afDisk'.err = afDisk.err /\ afDisk'.postponed = afDisk.postponed
          /\ afDisk'.jobs = afDisk.jobs
        BY <1>4, <3>1 DEF DiskType
    <3> QED
        BY <3>2 DEF AckedInv, Calm
  <2>2. CASE afState # "on"
    <3>1. afDisk' = afDisk
        BY <1>2, <2>2
    <3> QED
        BY <3>1 DEF AckedInv
  <2> QED
      BY <2>1, <2>2
<1>6. Kept(afDisk') = Kept(afDisk)
    BY <1>4, <1>5, KeptSame
<1>7. InForce => afDisk'.buf # <<>>
  <2> SUFFICES ASSUME InForce PROVE afDisk'.buf # <<>>
      OBVIOUS
  <2>1. afDisk' = [afDisk EXCEPT !.buf = b \o fed]
      BY <1>2 DEF InForce
  <2>2. afDisk'.buf = b \o fed
      BY <1>4, <2>1 DEF DiskType
  <2> HIDE DEF b
  <2>3. b \o fed # <<>>
      BY <1>4
  <2> QED
      BY <2>2, <2>3
<1>8. /\ ClientsOK /\ afAhead \subseteq afAhead'
      /\ \A x \in AfClients : afReply'[x] \subseteq afReply[x] \cup ws
    BY <1>1 DEF AofInv, AofTypes, Answered, AheadWith
<1>9. Pending' \cup afAcked' \subseteq Writes(afData')
  <2>1. Pending' \subseteq Pending \cup ws
      BY <1>8 DEF Pending
  <2> QED
      BY <1>1, <1>3, <2>1 DEF AckedInv
<1>10. ASSUME InForce, NEW x \in AfClients
       PROVE  Safe(afReply[x])' \/ (afDisk'.buf # <<>> /\ Held(x)')
  <2>1. CASE afDisk.buf # <<>> /\ Held(x)
      BY <1>3, <1>7, <1>10, <2>1 DEF Held
  <2>2. CASE Safe(afReply[x]) /\ x \notin woken \cup {c}
    <3>1. afReply'[x] = afReply[x]
        BY <1>1, <2>2 DEF Answered
    <3> QED
        BY <1>6, <1>8, <2>2, <3>1 DEF Safe
  <2>3. CASE Safe(afReply[x]) /\ x \in woken \cup {c} /\ NoBarrier(c, woken)
    <3>1. ws \subseteq afAhead'
        BY <1>1, <1>10, <2>3 DEF AheadWith
    <3> QED
        BY <1>6, <1>8, <2>3, <3>1 DEF Safe
  <2>4. CASE x \in woken \cup {c} /\ ~NoBarrier(c, woken)
    <3>1. afHandler[x] \in {"none", "plain", "barrier"}
        BY <1>8 DEF ClientsOK
    <3>2. Held(x)'
        BY <1>3, <2>4, <3>1 DEF Held, NoBarrier
    <3> QED
        BY <1>7, <1>10, <3>2
  <2> QED
      BY <1>10, <2>1, <2>2, <2>3, <2>4 DEF AckedInv
<1>11. InForce => Safe(afAcked)'
    BY <1>3, <1>6, <1>8 DEF AckedInv, Safe
<1> QED
    BY <1>3, <1>5, <1>9, <1>10, <1>11 DEF AckedInv

LEMMA AckedRewriteDone == AofInv /\ AofInv' /\ AckedInv /\ backgroundRewriteDoneHandler => AckedInv'
<1> SUFFICES ASSUME AofInv, AofInv', AckedInv, backgroundRewriteDoneHandler PROVE AckedInv'
    OBVIOUS
<1>1. UNCHANGED <<afPolicy, afData, afReply, afHandler, afAcked, afRead>>
    BY DEF backgroundRewriteDoneHandler
<1>2. CASE /\ afChild.stage = "done"
           /\ afDisk' = NewFile
           /\ afState' = IF afState = "wait" THEN "on" ELSE afState
  <2>1. Pending' \cup afAcked' \subseteq Writes(afData')
      BY <1>1 DEF AckedInv, Pending
  <2>2. afPolicy' = "always" => Calm(afDisk')
      BY <1>1, <1>2, NewFileOK DEF AckedInv
  <2>3. InForce' => afState # "off" /\ afPolicy = "always"
      BY <1>1, <1>2 DEF InForce
  <2>4. InForce' => afDisk'.buf = <<>> /\ afDisk'.synced = Len(afDisk'.file)
      BY <1>2, <2>3, NewFileOK
  <2> QED
      BY <2>1, <2>2, <2>4, AckedAllSynced
<1>3. CASE UNCHANGED <<afDisk, afState, afAhead>>
    BY <1>1, <1>3, AckedSame DEF AckedInv, afClientVars
<1> QED
    BY <1>2, <1>3 DEF backgroundRewriteDoneHandler

LEMMA AckedStop == AofInv /\ AofInv' /\ AckedInv /\ stopAppendOnly => AckedInv'
<1> SUFFICES ASSUME AofInv, AofInv', AckedInv, stopAppendOnly PROVE AckedInv'
    OBVIOUS
<1>1. PICK n \in Written(afDisk) :
        afDisk' = [flushAppendOnlyFile(afDisk, TRUE, n) EXCEPT
                    !.synced = Len(flushAppendOnlyFile(afDisk, TRUE, n).file),
                    !.buf = <<>>, !.jobs = <<>>]
    BY DEF stopAppendOnly
<1> DEFINE a == flushAppendOnlyFile(afDisk, TRUE, n)
           synced == Len(a.file)
           none == <<>>
<1>2. SameDisk(afDisk, a)
    BY FlushKeeps, TRUE \in BOOLEAN DEF AofInv, AofTypes
<1>3. a \in DiskType
    BY <1>2 DEF SameDisk, DiskOK
<1>4. afDisk' = [a EXCEPT !.synced = synced, !.buf = none, !.jobs = none]
    BY <1>1
<1> HIDE DEF a, synced, none
<1>5. afDisk'.err = a.err /\ afDisk'.postponed = a.postponed /\ afDisk'.jobs = none
    BY <1>3, <1>4 DEF DiskType
<1>6. afPolicy = "always" => ~a.err /\ a.postponed = 0
    BY <1>2, Zenon DEF SameDisk, AckedInv, Calm
<1>7. /\ afState' = "off"
      /\ UNCHANGED <<afPolicy, afData, afReply, afAcked>>
    BY DEF stopAppendOnly
<1>8. Pending' \cup afAcked' \subseteq Writes(afData')
    BY <1>7 DEF AckedInv, Pending
<1>9. afPolicy' = "always" => Calm(afDisk')
    BY <1>5, <1>6, <1>7 DEF Calm, none
<1> QED
    BY <1>7, <1>8, <1>9, AckedAllSynced DEF InForce

LEMMA AckedStart == AofInv /\ AofInv' /\ AckedInv /\ startAppendOnly => AckedInv'
<1> SUFFICES ASSUME AofInv, AofInv', AckedInv, startAppendOnly PROVE AckedInv'
    OBVIOUS
<1>1. afDisk \in DiskType /\ afDisk' = [afDisk EXCEPT !.due = FALSE, !.err = FALSE]
    BY DEF startAppendOnly, AofInv, AofTypes, DiskOK
<1>2. /\ afDisk'.err = FALSE /\ afDisk'.postponed = afDisk.postponed
      /\ afDisk'.jobs = afDisk.jobs
    BY <1>1 DEF DiskType
<1>3. afState' = "wait" /\ UNCHANGED <<afPolicy, afData, afReply, afAcked>>
    BY DEF startAppendOnly, afClientVars
<1>4. Pending' \cup afAcked' \subseteq Writes(afData')
    BY <1>3 DEF AckedInv, Pending
<1>5. afPolicy' = "always" => Calm(afDisk')
    BY <1>2, <1>3 DEF AckedInv, Calm
<1> QED
    BY <1>3, <1>4, <1>5, AckedAllSynced DEF InForce

\* After a restart no reply waits, and the writes that are loaded are in data.
LEMMA RestartWrites ==
    ASSUME NEW toks, NEW synced, Restart(toks, synced)
    PROVE  /\ Pending' = {} /\ \A c \in AfClients : afReply'[c] = {}
           /\ afAcked' = afAcked \cap Writes(afData')
           /\ afAhead' = afAhead \cap Writes(afData')
           /\ afState' = "on" /\ afPolicy' = afPolicy
<1>1. /\ afReply' = NoReplies /\ afData' = Replay(toks)
      /\ afAcked' = afAcked \cap UNION {Range(Replay(toks)[d]) : d \in Db}
      /\ afAhead' = afAhead \cap UNION {Range(Replay(toks)[d]) : d \in Db}
      /\ afState' = "on" /\ afPolicy' = afPolicy
    BY DEF Restart
<1> QED
    BY <1>1 DEF Pending, NoReplies, Writes

LEMMA AckedCrash == AofInv /\ AofInv' /\ AckedInv /\ Crash => AckedInv'
<1> SUFFICES ASSUME AofInv, AofInv', AckedInv, Crash PROVE AckedInv'
    OBVIOUS
<1> DEFINE n == afDisk.synced
           toks == afDisk.file
<1>1. Restart(toks, n) /\ Well(toks) /\ n \in Nat /\ afState = "on"
    BY FileWell DEF Crash
<1>2. /\ Calm(afDisk') /\ afDisk'.buf = <<>>
      /\ \/ afDisk'.synced = Len(afDisk'.file)
         \/ /\ afDisk'.synced = n /\ SubSeq(afDisk'.file, 1, n) = SubSeq(toks, 1, n)
    BY <1>1, RestartDisk
<1>3. /\ Pending' = {} /\ \A c \in AfClients : afReply'[c] = {}
      /\ afAcked' = afAcked \cap Writes(afData')
      /\ afAhead' = afAhead \cap Writes(afData')
      /\ afState' = "on" /\ afPolicy' = afPolicy
    BY <1>1, RestartWrites
<1>4. CASE afDisk'.synced = Len(afDisk'.file)
    BY <1>2, <1>3, <1>4, AckedAllSynced
<1>5. CASE afDisk'.synced = n /\ SubSeq(afDisk'.file, 1, n) = SubSeq(toks, 1, n)
  <2>1. Kept(afDisk') = Kept(afDisk)
      BY <1>5 DEF Kept
  <2>2. ASSUME InForce' PROVE Safe(afAcked)'
    <3>1. Safe(afAcked)
        BY <1>1, <1>3, <2>2 DEF InForce, AckedInv
    <3> QED
        BY <1>3, <2>1, <3>1 DEF Safe
  <2> QED
      BY <1>2, <1>3, <2>2 DEF AckedInv, Safe
<1> QED
    BY <1>2, <1>4, <1>5

LEMMA AckedPower == AofInv /\ AofInv' /\ PowerFailure => AckedInv'
<1> SUFFICES ASSUME AofInv, AofInv', PowerFailure PROVE AckedInv'
    OBVIOUS
<1>1. PICK n \in afDisk.synced .. Len(afDisk.file) : Restart(SubSeq(afDisk.file, 1, n), n)
    BY DEF PowerFailure
<1>2. /\ Well(afDisk.file) /\ afDisk.file \in Seq(Token)
      /\ n \in 0 .. Len(afDisk.file) /\ n \in Nat
    BY FileWell DEF PowerFailure
<1> DEFINE part == SubSeq(afDisk.file, 1, n)
<1>3. Well(part) /\ Len(part) = n /\ Restart(part, n)
    BY <1>1, <1>2, WellPrefix, PrefixOfPrefix
<1> HIDE DEF part
<1>4. ~(n < Len(part))
    BY <1>2, <1>3
<1>5. Calm(afDisk') /\ afDisk'.buf = <<>> /\ afDisk'.synced = Len(afDisk'.file)
    BY <1>2, <1>3, <1>4, RestartDisk
<1>6. Pending' = {} /\ afAcked' = afAcked \cap Writes(afData')
    BY <1>3, RestartWrites
<1> QED
    BY <1>5, <1>6, AckedAllSynced

LEMMA AckedNext == AofInv /\ AofInv' /\ AckedInv /\ [AofNext]_afVars => AckedInv'
<1> SUFFICES ASSUME AofInv, AofInv', AckedInv, [AofNext]_afVars PROVE AckedInv'
    OBVIOUS
<1>1. ASSUME NEW c \in AfClients, NEW woken \in SUBSET AfClients, NEW cmd \in AfCmds,
             AfCommand(c, woken, cmd[1], cmd[2])
      PROVE  AckedInv'
  <2>1. cmd[1] \in Db /\ cmd[2] \in BOOLEAN
      BY AofAssumption DEF AofAssumption
  <2> QED
      BY <1>1, <2>1, AckedCommand
<1>2. ASSUME UNCHANGED <<afPolicy, afState, afData, afDisk, afClientVars>> PROVE AckedInv'
    BY <1>2, AckedSame DEF AckedInv
<1>3. CASE BioFsync \/ CronFlush
  <2>1. afPolicy # "always"
    <3>1. (afDisk.jobs # <<>> \/ afDisk.postponed > 0) \/ afDisk.err
        BY <1>3, Zenon DEF BioFsync, CronFlush
    <3>2. ~(0 > 0)
        OBVIOUS
    <3> QED
        BY <3>1, <3>2, Zenon DEF AckedInv, Calm
  <2>2. UNCHANGED <<afPolicy, afData, afReply, afAcked>>
      BY <1>3 DEF BioFsync, CronFlush, afClientVars
  <2> QED
      BY <2>1, <2>2 DEF AckedInv, Pending, InForce
<1>4. CASE AfSecond
  <2>1. /\ afDisk'.file = afDisk.file /\ afDisk'.buf = afDisk.buf
        /\ afDisk'.synced = afDisk.synced /\ afDisk'.err = afDisk.err
        /\ afDisk'.jobs = afDisk.jobs
        /\ afDisk.postponed = 0 => afDisk'.postponed = 0
      BY <1>4, AfSecondDisk
  <2>2. Kept(afDisk') = Kept(afDisk)
      BY <2>1 DEF Kept
  <2>3. UNCHANGED <<afPolicy, afState, afData, afClientVars>>
      BY <1>4 DEF AfSecond
  <2>4. afPolicy' = "always" => Calm(afDisk')
      BY <2>1, <2>3 DEF AckedInv, Calm
  <2> QED
      BY <2>1, <2>2, <2>3, <2>4, AckedSame
<1>5. CASE bgrewriteaofCommand \/ CronRewrite \/ RdbChild \/ aofChildWriteDiffData
             \/ aofChildPipeReadable \/ rewriteAppendOnlyFile \/ UNCHANGED afVars
    BY <1>2, <1>5 DEF bgrewriteaofCommand, CronRewrite, RdbChild, aofChildWriteDiffData,
                  aofChildPipeReadable, rewriteAppendOnlyFile, afVars
<1> QED
    BY <1>1, <1>3, <1>4, <1>5, AckedBeforeSleep, AckedHandler, AckedEvents,
       AckedRewriteDone, AckedStop, AckedStart, AckedCrash, AckedPower DEF AofNext

-----------------------------------------------------------------------------
(* Theorems.                                                                 *)

\* Types; and always the file with its buffer, and the file a rewrite is
\* making with what it has still to get, load to the data in memory.
THEOREM AofInvariant == AofSpec => []AofInv
<1>1. AofInit => AofInv
    BY AofInvInit
<1>2. AofInv /\ [AofNext]_afVars => AofInv'
    BY AofInvNext
<1> QED
    BY <1>1, <1>2, PTL DEF AofSpec

\* The synced part is a part of the file, and one fsync at most is queued for
\* it, for every number of writes and databases (TryFsync, NewFile, BioFsync).
THEOREM AofTyped == AofSpec => []AofTypeOK
<1>1. AofInv => AofTypeOK
  <2> SUFFICES ASSUME AofInv PROVE AofTypeOK
      OBVIOUS
  <2>1. /\ afDisk.synced \in Nat /\ afDisk.synced <= Len(afDisk.file)
        /\ Len(afDisk.file) \in Nat /\ afDisk.postponed \in 0 .. 3 /\ OneFile(afDisk.jobs)
      BY DEF AofInv, AofTypes, DiskOK, DiskType
  <2>2. /\ afChild.kind \in {"none", "rdb", "aof"}
        /\ afChild.stage \in {"dump", "asked", "done", "failed"}
      BY DEF AofInv, AofTypes, ChildOK, ChildType
  <2> QED
      BY <2>1, <2>2 DEF AofInv, AofTypes, AofTypeOK, OneFile
<1> QED
    BY <1>1, AofInvariant, PTL

\* Whatever is executed, rewritten, switched and lost, loading gives the data
\* in memory and transactions as a whole.
THEOREM AofReplays == AofSpec => []AofReplayGivesData
<1>1. AofInv => AofReplayGivesData
  <2> SUFFICES ASSUME AofInv PROVE AofReplayGivesData
      OBVIOUS
  <2>1. afState = "on" => Replay(afDisk.file \o afDisk.buf) = afData
      BY DEF AofInv, Backed, Loads, Loaded, Replay
  <2>2. afState # "off" /\ afChild.kind = "aof" =>
            Replay(<<Preamble(afChild.snap)>> \o afChild.got \o afChild.pipe \o afDiff) = afData
      BY DEF AofInv, Backed, Loads, Loaded, Replay
  <2>3. ASSUME NEW d \in Db, NEW n \in 1 .. MaxWrites[afPolicy]
        PROVE  (<<n, 1>> \in Range(afData[d])) = (<<n, 2>> \in Range(afData[d]))
    <3>1. n \in Nat /\ PairedSeq(afData[d])
        BY DEF AofInv, AofTypes, Paired
    <3>2. (<<n, 1>> \in Range(afData[d])) <=> (<<n, 2>> \in Range(afData[d]))
        BY <3>1 DEF PairedSeq
    <3> QED
        BY <3>2
  <2> QED
      BY <2>1, <2>2, <2>3 DEF AofReplayGivesData
<1> QED
    BY <1>1, AofInvariant, PTL

\* With appendfsync always a client that has its reply does not lose its
\* write, but for the writes that go ahead of the next fsync.
THEOREM AofAckedKept == AofSpec => []AofAckedIsSynced
<1>1. AofInit => AofInv /\ AckedInv
    BY AofInvInit
<1>2. AofInv /\ AckedInv /\ [AofNext]_afVars => (AofInv /\ AckedInv)'
    BY AofInvNext, AckedNext
<1>3. AofInv /\ AckedInv => AofAckedIsSynced
    BY DEF AckedInv, InForce, Safe, Kept, Writes, AofAckedIsSynced
<1> QED
    BY <1>1, <1>2, <1>3, PTL DEF AofSpec

=============================================================================
