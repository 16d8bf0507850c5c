---------------------------- MODULE PsyncHistory ----------------------------
(***************************************************************************)
(* TLAPS proofs about Psync, the first part.  A history says for each          *)
(* replication ID and each offset what the data and the selected database of  *)
(* the stream are there.  There is always one that every server, backlog,     *)
(* link and RDB file agrees with, and only the master with an ID adds to its  *)
(* row (PsInv).  Here: histories, the roles, and the master's side of a       *)
(* synchronisation; PsyncProofs has the other steps and the theorems.         *)
(***************************************************************************)
EXTENDS Psync, FoldLemmas, FiniteSetTheorems
-----------------------------------------------------------------------------
(* Types.                                                                    *)

Data == Seq(Nat \X Int)
Item == {"select", "write", "ping"} \X Nat
Saved == [data : Data, id : Nat, off : Int, db : Int]
Server == [data : Data, id : Nat \ {0}, id2 : Nat, upto : Int, off : Nat, on : BOOLEAN,
           log : Seq(Item), sel : Int, master : PsServer \cup {NoServer}, db : Int,
           fail : {"none", "wait", "progress"}, force : BOOLEAN,
           target : PsServer \cup {NoServer}, saved : Saved]
Link == [st : {"none", "connect", "psync", "transfer", "online"},
         sl : {"none", "start", "end", "send", "online", "nolink", "err"},
         open : BOOLEAN, id : Nat, off : Nat, snap : Data, db : Int,
         buf : Seq(Item), ack : Nat]
World == [s : [PsServer -> Server], l : [PsServer -> Link], ids : Nat]
Point == [data : Data, db : Int]
Histories == [Nat -> [Nat -> Point]]

-----------------------------------------------------------------------------
(* Agreeing with a history.                                                  *)

\* The data and the database at a point; NoDatabase: a SELECT is to follow.
At(h, data, db) == h.data = data /\ h.db \in {db, NoDatabase}

\* An item leads from point h to point k.
Leads(h, item, k) ==
    \/ item[1] = "select" /\ At(k, h.data, item[2])
    \/ /\ item[1] = "write" /\ h.db # NoDatabase
       /\ At(k, Append(h.data, <<item[2], h.db>>), h.db)
    \/ item[1] = "ping" /\ At(k, h.data, h.db)

\* The items lead on from offset off of a row.
Run(row, off, items) ==
    \A j \in 1 .. Len(items) : Leads(row[off + j - 1], items[j], row[off + j])

\* Row b is row a below offset u, but for the database at the last point.
Agree(a, b, u) ==
    \A o \in Nat : /\ o < u - 1 => b[o] = a[o]
                   /\ o = u - 1 => At(b[o], a[o].data, a[o].db)

\* The server has something to resume from, or to give others.
Witness(r) == r.on \/ r.db # NoDatabase

IsMaster(r) == r.master = NoServer
Serving(l) == l.sl \in {"end", "send"}
Online(l) == l.sl = "online"

ServerAgrees(H, r) ==
    /\ Witness(r) => At(H[r.id][r.off], r.data, IF IsMaster(r) THEN r.sel ELSE r.db)
    /\ r.on => Run(H[r.id], r.off - Len(r.log), r.log)
    /\ r.on /\ r.id2 # NoId => Agree(H[r.id2], H[r.id], r.upto)
    /\ r.saved.id # NoId => At(H[r.saved.id][r.saved.off], r.saved.data, r.saved.db)

LinkAgrees(H, r, l) ==
    /\ Serving(l) => At(H[l.id][l.off], l.snap, l.db) /\ Run(H[l.id], l.off, l.buf)
    /\ Online(l) => /\ At(H[l.id][r.off], r.data, r.db)
                    /\ Run(H[l.id], r.off, l.buf)
                    /\ r.id # l.id => Agree(H[r.id], H[l.id], r.off + 1)

\* Nothing in server and link is beyond offset off of the history named id; a
\* row that continues this one from there starts with a SELECT.
HeirUpTo(row, u, off) == u <= off + 1 /\ (u = off + 1 => row[off].db = NoDatabase)

UpTo(H, id, off, r, l) ==
    /\ Witness(r) /\ r.id = id => r.off <= off
    /\ r.saved.id = id => r.saved.off <= off
    /\ Serving(l) /\ l.id = id => l.off + Len(l.buf) <= off
    /\ Online(l) /\ l.id = id => r.off + Len(l.buf) <= off
    /\ r.on /\ r.id2 = id => HeirUpTo(H[r.id], r.upto, off)
    /\ Online(l) /\ r.id = id /\ l.id # id => HeirUpTo(H[l.id], r.off + 1, off)

\* Nothing in server and link is of the history named id.
Apart(id, r, l) ==
    /\ Witness(r) => r.id # id
    /\ r.saved.id # id
    /\ Serving(l) \/ Online(l) => l.id # id
    /\ r.on => r.id2 # id

\* No server in touch with others has heard of the history named id.
Unheard(id, r, l) ==
    /\ r.on => r.id # id /\ r.id2 # id
    /\ Serving(l) \/ Online(l) => l.id # id
    /\ Online(l) => r.id # id

-----------------------------------------------------------------------------
(* The invariant.                                                            *)

\* The server n and its link by themselves.
Shape(n, r, l) ==
    /\ r.master # n
    /\ IsMaster(r) => r.db = NoDatabase /\ l.sl = "none" /\ l.st = "none"
    /\ ~IsMaster(r) /\ r.on => r.db # NoDatabase
    /\ Online(l) => r.db # NoDatabase
    /\ Serving(l) => l.db # NoDatabase
    /\ Serving(l) \/ Online(l) => l.id # NoId
    /\ l.st = "online" => Online(l) /\ r.on /\ r.id = l.id
    /\ l.st = "transfer" => Serving(l) /\ ~r.on /\ r.db = NoDatabase
    /\ l.sl = "start" => l.buf = <<>>
    /\ Len(r.log) <= r.off
    /\ r.upto <= r.off + 1
    /\ r.saved.id # NoId => r.saved.off \in Nat /\ r.saved.db # NoDatabase
    /\ r.fail # "none" => r.target # n
    /\ r.fail = "wait" => IsMaster(r) /\ (r.force => r.target # NoServer)

\* The IDs are older than ids.
Older(ids, r, l) == r.id < ids /\ r.id2 < ids /\ r.saved.id < ids /\ l.id < ids

\* A link that its master has not closed has the stream up to the master.
Behind(r, l) == (IF Online(l) THEN r.off ELSE l.off) + Len(l.buf)

Followed(l) == l.open /\ l.sl \in {"start", "end", "send", "online"}

Linked(s, r, l) ==
    Followed(l) =>
        /\ r.master \in PsServer /\ s[r.master].on
        /\ l.sl # "start" => /\ l.id = s[r.master].id
                             /\ Behind(r, l) = s[r.master].off

\* It was a master without backlog, or starts again: nobody else knows its ID.
Hidden(r) == ~r.on /\ r.db # NoDatabase /\ r.id2 # NoId

Owns(H, w, n) ==
    /\ w.s[n].on => H[w.s[n].id][w.s[n].off].db = w.s[n].sel
    /\ \A k \in PsServer \ {n} : IsMaster(w.s[k]) => w.s[k].id # w.s[n].id
    /\ \A k \in PsServer :
        IF w.s[n].on THEN UpTo(H, w.s[n].id, w.s[n].off, w.s[k], w.l[k])
        ELSE Apart(w.s[n].id, w.s[k], w.l[k])

\* What server n brings to the invariant.
Fits(H, w, n) ==
    /\ Shape(n, w.s[n], w.l[n])
    /\ Older(w.ids, w.s[n], w.l[n])
    /\ ServerAgrees(H, w.s[n])
    /\ LinkAgrees(H, w.s[n], w.l[n])
    /\ Linked(w.s, w.s[n], w.l[n])
    /\ Hidden(w.s[n]) => \A k \in PsServer : Unheard(w.s[n].id, w.s[k], w.l[k])
    /\ IsMaster(w.s[n]) => Owns(H, w, n)

WorldInv(H, w) == H \in Histories /\ w \in World /\ \A n \in PsServer : Fits(H, w, n)

PsInv == psWrites \in Nat /\ \E H \in Histories : WorldInv(H, PsWorld)

-----------------------------------------------------------------------------
(* Histories.                                                                *)

LEMMA PsNumbers ==
    /\ NoServer \notin PsServer /\ IsFiniteSet(PsServer) /\ PsDb \subseteq Nat
    /\ BacklogSize \in Nat /\ BacklogSize > 0 /\ NoDatabase \in Int /\ NoDatabase \notin Nat
    /\ NoDatabase < 0 /\ NoId = 0
    BY PsAssumption DEF NoDatabase, NoId

\* A replica that is at a point executes an item.
LEMMA AtNext ==
    ASSUME NEW h, NEW k, NEW data, NEW db, NEW item, At(h, data, db), Leads(h, item, k)
    PROVE  /\ item[1] = "select" => At(k, data, item[2])
           /\ item[1] = "write" => At(k, Append(data, <<item[2], db>>), db)
           /\ item[1] \notin {"select", "write"} => At(k, data, db)
    BY DEF At, Leads

LEMMA AtWeaker ==
    ASSUME NEW h, NEW k, NEW data, NEW db, At(h, data, db), At(k, h.data, h.db)
    PROVE  At(k, data, db)
    BY DEF At

LEMMA LeadsWeaker ==
    ASSUME NEW h, NEW item, NEW k, NEW j, Leads(h, item, k), At(j, k.data, k.db)
    PROVE  Leads(h, item, j)
    BY DEF At, Leads

LEMMA RunHead ==
    ASSUME NEW row \in [Nat -> Point], NEW off \in Nat, NEW items \in Seq(Item),
           items # <<>>, Run(row, off, items)
    PROVE  /\ Leads(row[off], Head(items), row[off + 1])
           /\ Run(row, off + 1, Tail(items))
           /\ Len(Tail(items)) = Len(items) - 1 /\ Tail(items) \in Seq(Item)
           /\ Head(items) \in Item
<1>1. Len(items) \in Nat /\ Len(items) > 0 /\ Head(items) = items[1]
    OBVIOUS
<1>2. Leads(row[off + 1 - 1], items[1], row[off + 1])
    BY <1>1 DEF Run
<1>3. /\ Len(Tail(items)) = Len(items) - 1 /\ Tail(items) \in Seq(Item)
      /\ \A j \in 1 .. Len(items) - 1 : Tail(items)[j] = items[j + 1]
    BY <1>1
<1>4. ASSUME NEW j \in 1 .. Len(items) - 1
      PROVE  Leads(row[off + 1 + j - 1], items[j + 1], row[off + 1 + j])
  <2>1. j + 1 \in 1 .. Len(items)
      BY <1>1
  <2>2. Leads(row[off + (j + 1) - 1], items[j + 1], row[off + (j + 1)])
      BY <2>1 DEF Run
  <2>3. off + (j + 1) - 1 = off + 1 + j - 1 /\ off + (j + 1) = off + 1 + j
      BY <1>1
  <2> QED
      BY <2>2, <2>3
<1>5. Run(row, off + 1, Tail(items))
    BY <1>3, <1>4 DEF Run
<1>6. off + 1 - 1 = off /\ items[1] \in Item
    BY <1>1
<1> QED
    BY <1>1, <1>2, <1>3, <1>5, <1>6

LEMMA RunOne ==
    ASSUME NEW row, NEW off \in Int, NEW item, Leads(row[off], item, row[off + 1])
    PROVE  Run(row, off, <<item>>)
<1>1. Len(<<item>>) = 1 /\ <<item>>[1] = item /\ off + 1 - 1 = off
    OBVIOUS
<1> QED
    BY <1>1 DEF Run

LEMMA RunTwo ==
    ASSUME NEW row, NEW off \in Int, NEW a, NEW b,
           Leads(row[off], a, row[off + 1]), Leads(row[off + 1], b, row[off + 2])
    PROVE  Run(row, off, <<a, b>>)
<1>1. Len(<<a, b>>) = 2 /\ <<a, b>>[1] = a /\ <<a, b>>[2] = b
      /\ off + 1 - 1 = off /\ off + 2 - 1 = off + 1 /\ 1 .. 2 = {1, 2}
    OBVIOUS
<1> QED
    BY <1>1 DEF Run

LEMMA RunMore ==
    ASSUME NEW row, NEW off \in Int, NEW a \in Seq(Item), NEW b \in Seq(Item),
           Run(row, off, a), Run(row, off + Len(a), b)
    PROVE  Run(row, off, a \o b)
<1>1. /\ Len(a \o b) = Len(a) + Len(b) /\ Len(a) \in Nat /\ Len(b) \in Nat
      /\ \A j \in 1 .. Len(a) : (a \o b)[j] = a[j]
      /\ \A j \in 1 .. Len(b) : (a \o b)[Len(a) + j] = b[j]
    OBVIOUS
<1>2. ASSUME NEW j \in 1 .. Len(a \o b)
      PROVE  Leads(row[off + j - 1], (a \o b)[j], row[off + j])
  <2>1. CASE j <= Len(a)
      BY <1>1, <2>1 DEF Run
  <2>2. CASE j > Len(a)
    <3>0. j \in 1 .. Len(a) + Len(b) /\ j - Len(a) \in 1 .. Len(b)
        BY <1>1, <2>2
    <3>1. PICK i : i = j - Len(a)
        OBVIOUS
    <3>i. i \in 1 .. Len(b) /\ j = Len(a) + i
        BY <1>1, <3>0, <3>1
    <3>2. Leads(row[off + Len(a) + i - 1], b[i], row[off + Len(a) + i])
        BY <3>i DEF Run
    <3>3. off + Len(a) + i - 1 = off + j - 1 /\ off + Len(a) + i = off + j
        BY <1>1, <3>i
    <3>4. (a \o b)[j] = b[i]
        BY <1>1, <3>i
    <3> QED
        BY <3>2, <3>3, <3>4
  <2> QED
      BY <1>1, <2>1, <2>2
<1> QED
    BY <1>2 DEF Run

LEMMA RunRest ==
    ASSUME NEW row, NEW off \in Int, NEW items \in Seq(Item), Run(row, off, items),
           NEW m \in Int, 1 <= m, m <= Len(items) + 1, NEW start \in Int, start = off + m - 1
    PROVE  /\ SubSeq(items, m, Len(items)) \in Seq(Item)
           /\ Len(SubSeq(items, m, Len(items))) = Len(items) - m + 1
           /\ Run(row, start, SubSeq(items, m, Len(items)))
<1> DEFINE rest == SubSeq(items, m, Len(items))
<1>1. /\ Len(items) \in Nat /\ rest \in Seq(Item) /\ Len(rest) = Len(items) - m + 1
      /\ \A j \in 1 .. Len(items) - m + 1 : rest[j] = items[m + j - 1]
    OBVIOUS
<1> HIDE DEF rest
<1>2. ASSUME NEW j \in 1 .. Len(rest)
      PROVE  Leads(row[start + j - 1], rest[j], row[start + j])
  <2>1. PICK i \in 1 .. Len(items) : i = m + j - 1
      BY <1>1, m + j - 1 \in 1 .. Len(items)
  <2>2. Leads(row[off + i - 1], items[i], row[off + i])
      BY DEF Run
  <2>3. off + i - 1 = start + j - 1 /\ off + i = start + j /\ rest[j] = items[i]
      BY <1>1, <2>1
  <2> QED
      BY <2>2, <2>3
<1> QED
    BY <1>1, <1>2 DEF Run, rest

LEMMA AgreeLess ==
    ASSUME NEW a, NEW b, NEW u \in Int, NEW v \in Int, v <= u, Agree(a, b, u)
    PROVE  Agree(a, b, v)
    BY DEF Agree, At

LEMMA AgreeTop ==
    ASSUME NEW a, NEW b, NEW u \in Int, NEW o \in Nat, o <= u - 1, Agree(a, b, u)
    PROVE  At(b[o], a[o].data, a[o].db)
    BY DEF Agree, At

\* The stream up to where another row takes over is the same in that row.
LEMMA RunAgree ==
    ASSUME NEW a, NEW b, NEW u \in Int, Agree(a, b, u),
           NEW off \in Nat, NEW items \in Seq(Item), off + Len(items) <= u - 1,
           Run(a, off, items)
    PROVE  Run(b, off, items)
<1> SUFFICES ASSUME NEW j \in 1 .. Len(items)
             PROVE  Leads(b[off + j - 1], items[j], b[off + j])
    BY DEF Run
<1>1. Len(items) \in Nat /\ off + j - 1 \in Nat /\ off + j \in Nat
      /\ off + j - 1 < u - 1 /\ off + j <= u - 1
    OBVIOUS
<1>2. b[off + j - 1] = a[off + j - 1]
    BY <1>1 DEF Agree
<1>3. At(b[off + j], a[off + j].data, a[off + j].db)
    BY <1>1, AgreeTop
<1>4. Leads(a[off + j - 1], items[j], a[off + j])
    BY DEF Run
<1> QED
    BY <1>2, <1>3, <1>4, LeadsWeaker

-----------------------------------------------------------------------------
(* Changing a history.                                                       *)

\* Another row is changed.
KeptBut(H, G, id) == \A i \in Nat \ {id} : G[i] = H[i]

\* Row id is kept up to offset x, but for the database there.
Grown(H, G, id, x) ==
    /\ KeptBut(H, G, id)
    /\ \A o \in Nat : o < x => G[id][o] = H[id][o]
    /\ At(G[id][x], H[id][x].data, H[id][x].db)

LEMMA GrownSelf ==
    ASSUME NEW H, NEW id, NEW x
    PROVE  Grown(H, H, id, x)
    BY DEF Grown, KeptBut, At

LEMMA ServerParts ==
    ASSUME NEW r \in Server
    PROVE  /\ r.data \in Data /\ r.id \in Nat /\ r.id # NoId /\ r.id2 \in Nat
           /\ r.upto \in Int /\ r.off \in Nat /\ r.on \in BOOLEAN
           /\ r.log \in Seq(Item) /\ Len(r.log) \in Nat
           /\ r.sel \in Int /\ r.db \in Int
           /\ r.master \in PsServer \cup {NoServer} /\ r.target \in PsServer \cup {NoServer}
           /\ r.saved.data \in Data /\ r.saved.id \in Nat /\ r.saved.off \in Int
           /\ r.saved.db \in Int /\ r.saved \in Saved
           /\ r.fail \in {"none", "wait", "progress"} /\ r.force \in BOOLEAN
    BY PsNumbers DEF Server, Saved

LEMMA LinkParts ==
    ASSUME NEW l \in Link
    PROVE  /\ l.open \in BOOLEAN /\ l.id \in Nat /\ l.off \in Nat /\ l.snap \in Data
           /\ l.db \in Int /\ l.buf \in Seq(Item) /\ Len(l.buf) \in Nat /\ l.ack \in Nat
    BY DEF Link

\* A server and a link that have nothing of the row that changes.
LEMMA ApartAgrees ==
    ASSUME NEW H, NEW G, NEW id \in Nat, KeptBut(H, G, id),
           NEW r \in Server, NEW l \in Link, Apart(id, r, l), Online(l) => r.db # NoDatabase,
           ServerAgrees(H, r), LinkAgrees(H, r, l)
    PROVE  ServerAgrees(G, r) /\ LinkAgrees(G, r, l)
<1>1. \A i \in Nat : i # id => G[i] = H[i]
    BY DEF KeptBut
<1>2. r.id \in Nat /\ r.id2 \in Nat /\ r.saved.id \in Nat /\ l.id \in Nat
    BY ServerParts, LinkParts
<1>3. Witness(r) => G[r.id] = H[r.id]
    BY <1>1, <1>2 DEF Apart
<1>4. ServerAgrees(G, r)
    BY <1>1, <1>2, <1>3 DEF ServerAgrees, Apart, Witness
<1>5. LinkAgrees(G, r, l)
    BY <1>1, <1>2, <1>3 DEF LinkAgrees, Apart, Witness
<1> QED
    BY <1>4, <1>5

LEMMA ApartUpTo ==
    ASSUME NEW H, NEW G, NEW id \in Nat, KeptBut(H, G, id),
           NEW r \in Server, NEW l \in Link, Apart(id, r, l), Online(l) => r.db # NoDatabase,
           NEW i, NEW off, UpTo(H, i, off, r, l)
    PROVE  UpTo(G, i, off, r, l)
<1>1. \A j \in Nat : j # id => G[j] = H[j]
    BY DEF KeptBut
<1>2. r.id \in Nat /\ l.id \in Nat
    BY ServerParts, LinkParts
<1>3. r.on => G[r.id] = H[r.id]
    BY <1>1, <1>2 DEF Apart, Witness
<1>4. Online(l) => G[l.id] = H[l.id]
    BY <1>1, <1>2 DEF Apart
<1> QED
    BY <1>3, <1>4 DEF UpTo

\* A point up to x.
LEMMA GrownAt ==
    ASSUME NEW H, NEW G, NEW id \in Nat, NEW x \in Nat, Grown(H, G, id, x),
           NEW i \in Nat, NEW o \in Nat, i = id => o <= x
    PROVE  At(G[i][o], H[i][o].data, H[i][o].db)
<1>1. CASE i # id
    BY <1>1 DEF Grown, KeptBut, At
<1>2. CASE i = id /\ o < x
    BY <1>2 DEF Grown, At
<1>3. CASE i = id /\ o = x
    BY <1>3 DEF Grown
<1> QED
    BY <1>1, <1>2, <1>3

LEMMA GrownRun ==
    ASSUME NEW H, NEW G, NEW id \in Nat, NEW x \in Nat, Grown(H, G, id, x),
           NEW i \in Nat, NEW off \in Nat, NEW items \in Seq(Item),
           i = id => off + Len(items) <= x, Run(H[i], off, items)
    PROVE  Run(G[i], off, items)
<1> SUFFICES ASSUME NEW j \in 1 .. Len(items)
             PROVE  Leads(G[i][off + j - 1], items[j], G[i][off + j])
    BY DEF Run
<1>1. Len(items) \in Nat /\ off + j - 1 \in Nat /\ off + j \in Nat
    OBVIOUS
<1>2. G[i][off + j - 1] = H[i][off + j - 1]
  <2>1. CASE i # id
      BY <2>1 DEF Grown, KeptBut
  <2>2. CASE i = id
    <3>1. off + j - 1 < x
        BY <1>1, <2>2
    <3> QED
        BY <1>1, <2>2, <3>1 DEF Grown
  <2> QED
      BY <2>1, <2>2
<1>3. i = id => off + j <= x
    BY <1>1
<1>4. At(G[i][off + j], H[i][off + j].data, H[i][off + j].db)
    BY <1>1, <1>3, GrownAt
<1>5. Leads(H[i][off + j - 1], items[j], H[i][off + j])
    BY DEF Run
<1> QED
    BY <1>2, <1>4, <1>5, LeadsWeaker

LEMMA GrownAgree ==
    ASSUME NEW H, NEW G, NEW id \in Nat, NEW x \in Nat, Grown(H, G, id, x),
           NEW i \in Nat, NEW j \in Nat, NEW u \in Int, Agree(H[i], H[j], u),
           i = id => HeirUpTo(H[j], u, x), j = id => u <= x + 1
    PROVE  Agree(G[i], G[j], u)
<1> SUFFICES ASSUME NEW o \in Nat
             PROVE  /\ o < u - 1 => G[j][o] = G[i][o]
                    /\ o = u - 1 => At(G[j][o], G[i][o].data, G[i][o].db)
    BY DEF Agree
<1>0. i = id => u <= x + 1
    BY DEF HeirUpTo
<1>1. ASSUME o < u - 1 PROVE G[j][o] = G[i][o]
  <2>1. H[j][o] = H[i][o]
      BY <1>1 DEF Agree
  <2>2. G[i][o] = H[i][o]
      BY <1>0, <1>1 DEF Grown, KeptBut
  <2>3. G[j][o] = H[j][o]
      BY <1>1 DEF Grown, KeptBut
  <2> QED
      BY <2>1, <2>2, <2>3
<1>2. ASSUME o = u - 1 PROVE At(G[j][o], G[i][o].data, G[i][o].db)
  <2>1. At(H[j][o], H[i][o].data, H[i][o].db)
      BY <1>2 DEF Agree
  <2>2. At(G[i][o], H[i][o].data, H[i][o].db)
      BY <1>0, <1>2, GrownAt
  <2>3. At(G[j][o], H[j][o].data, H[j][o].db)
      BY <1>2, GrownAt
  <2>4. CASE i = id /\ o = x
    <3>1. H[j][o].db = NoDatabase
        BY <1>2, <2>4 DEF HeirUpTo
    <3> QED
        BY <2>1, <2>2, <2>3, <3>1 DEF At
  <2>5. CASE ~(i = id /\ o = x)
    <3>1. G[i][o] = H[i][o]
        BY <1>0, <1>2, <2>5 DEF Grown, KeptBut
    <3> QED
        BY <2>1, <2>3, <3>1 DEF At
  <2> QED
      BY <2>4, <2>5
<1> QED
    BY <1>1, <1>2

\* A server and a link that have nothing of the row beyond x.
LEMMA GrownAgrees ==
    ASSUME NEW H, NEW G, NEW id \in Nat, NEW x \in Nat, Grown(H, G, id, x),
           NEW n, NEW r \in Server, NEW l \in Link, Shape(n, r, l), UpTo(H, id, x, r, l),
           ServerAgrees(H, r), LinkAgrees(H, r, l)
    PROVE  ServerAgrees(G, r) /\ LinkAgrees(G, r, l)
<1>0. Grown(H, G, id, x) /\ id \in Nat /\ x \in Nat
    OBVIOUS
<1>1. /\ r.id \in Nat /\ r.id2 \in Nat /\ r.saved.id \in Nat /\ l.id \in Nat
      /\ r.off \in Nat /\ l.off \in Nat /\ r.upto \in Int
      /\ r.log \in Seq(Item) /\ l.buf \in Seq(Item) /\ Len(r.log) \in Nat /\ Len(l.buf) \in Nat
    BY ServerParts, LinkParts
<1>2. /\ r.on => Witness(r)
      /\ Online(l) => Witness(r)
      /\ r.saved.id # NoId => r.saved.off \in Nat
      /\ r.off - Len(r.log) \in Nat /\ r.upto <= r.off + 1
    BY <1>1 DEF Shape, Witness
<1>3. ASSUME Witness(r)
      PROVE  At(G[r.id][r.off], r.data, IF IsMaster(r) THEN r.sel ELSE r.db)
  <2>1. r.id = id => r.off <= x
      BY <1>3 DEF UpTo
  <2>2. At(G[r.id][r.off], H[r.id][r.off].data, H[r.id][r.off].db)
      BY <1>1, <2>1, GrownAt
  <2> QED
      BY <1>3, <2>2 DEF ServerAgrees, At
<1>4. ASSUME r.on PROVE Run(G[r.id], r.off - Len(r.log), r.log)
  <2>1. PICK f \in Nat : f = r.off - Len(r.log)
      BY <1>2
  <2>2. r.id = id => f + Len(r.log) <= x
      BY <1>1, <1>2, <1>4, <2>1 DEF UpTo
  <2>3. Run(H[r.id], f, r.log)
      BY <1>4, <2>1 DEF ServerAgrees
  <2>4. Run(G[r.id], f, r.log)
      BY <1>1, <2>2, <2>3, GrownRun
  <2> QED
      BY <2>1, <2>4
<1>5. ASSUME r.on, r.id2 # NoId PROVE Agree(G[r.id2], G[r.id], r.upto)
  <2>1. Agree(H[r.id2], H[r.id], r.upto)
      BY <1>5 DEF ServerAgrees
  <2>2. r.id2 = id => HeirUpTo(H[r.id], r.upto, x)
      BY <1>5 DEF UpTo
  <2>3. r.id = id => r.upto <= x + 1
      BY <1>1, <1>2, <1>5 DEF UpTo
  <2> QED
      BY <1>1, <2>1, <2>2, <2>3, GrownAgree
<1>6. ASSUME r.saved.id # NoId
      PROVE  At(G[r.saved.id][r.saved.off], r.saved.data, r.saved.db)
  <2>1. r.saved.off \in Nat /\ (r.saved.id = id => r.saved.off <= x)
      BY <1>2, <1>6 DEF UpTo
  <2>2. At(G[r.saved.id][r.saved.off], H[r.saved.id][r.saved.off].data,
           H[r.saved.id][r.saved.off].db)
      BY <1>1, <2>1, GrownAt
  <2> QED
      BY <1>6, <2>2 DEF ServerAgrees, At
<1>7. ASSUME Serving(l) PROVE At(G[l.id][l.off], l.snap, l.db) /\ Run(G[l.id], l.off, l.buf)
  <2>1. l.id = id => l.off + Len(l.buf) <= x /\ l.off <= x
      BY <1>1, <1>7 DEF UpTo
  <2>2. At(G[l.id][l.off], H[l.id][l.off].data, H[l.id][l.off].db)
      BY <1>1, <2>1, GrownAt
  <2>3. At(H[l.id][l.off], l.snap, l.db) /\ Run(H[l.id], l.off, l.buf)
      BY <1>7 DEF LinkAgrees
  <2>4. Run(G[l.id], l.off, l.buf)
      BY ONLY <1>0, <1>1, <2>1, <2>3, GrownRun
  <2> QED
      BY <2>2, <2>3, <2>4 DEF At
<1>8. ASSUME Online(l)
      PROVE  /\ At(G[l.id][r.off], r.data, r.db)
             /\ Run(G[l.id], r.off, l.buf)
             /\ r.id # l.id => Agree(G[r.id], G[l.id], r.off + 1)
  <2>1. l.id = id => r.off + Len(l.buf) <= x /\ r.off <= x
      BY <1>1, <1>8 DEF UpTo
  <2>2. At(G[l.id][r.off], H[l.id][r.off].data, H[l.id][r.off].db)
      BY <1>1, <2>1, GrownAt
  <2>3. At(H[l.id][r.off], r.data, r.db) /\ Run(H[l.id], r.off, l.buf)
      BY <1>8 DEF LinkAgrees
  <2>4. Run(G[l.id], r.off, l.buf)
      BY ONLY <1>0, <1>1, <2>1, <2>3, GrownRun
  <2>5. ASSUME r.id # l.id PROVE Agree(G[r.id], G[l.id], r.off + 1)
    <3>1. PICK u \in Int : u = r.off + 1
        BY <1>1
    <3>2. Agree(H[r.id], H[l.id], u)
        BY <1>8, <2>5, <3>1 DEF LinkAgrees
    <3>3. r.id = id => HeirUpTo(H[l.id], u, x)
        BY <1>8, <2>5, <3>1 DEF UpTo
    <3>4. l.id = id => u <= x + 1
        BY <1>1, <2>1, <3>1
    <3>5. Agree(G[r.id], G[l.id], u)
        BY <1>1, <3>2, <3>3, <3>4, GrownAgree
    <3> QED
        BY <3>1, <3>5
  <2> QED
      BY <2>2, <2>3, <2>4, <2>5 DEF At
<1>9. ServerAgrees(G, r)
    BY <1>3, <1>4, <1>5, <1>6 DEF ServerAgrees
<1>10. LinkAgrees(G, r, l)
    BY <1>7, <1>8 DEF LinkAgrees
<1> QED
    BY <1>9, <1>10

\* Nor does what the masters of other rows rely on change.
LEMMA GrownHeir ==
    ASSUME NEW H, NEW G, NEW id \in Nat, NEW x \in Nat, Grown(H, G, id, x),
           NEW j \in Nat, NEW u \in Int, NEW off \in Nat, HeirUpTo(H[j], u, off),
           j = id => u <= x + 1
    PROVE  HeirUpTo(G[j], u, off)
<1> SUFFICES ASSUME u = off + 1 PROVE G[j][off].db = NoDatabase
    BY DEF HeirUpTo
<1>1. H[j][off].db = NoDatabase
    BY DEF HeirUpTo
<1>2. j = id => off <= x
    OBVIOUS
<1>3. At(G[j][off], H[j][off].data, H[j][off].db)
    BY <1>2, GrownAt
<1> QED
    BY <1>1, <1>3 DEF At

LEMMA GrownUpTo ==
    ASSUME NEW H, NEW G, NEW id \in Nat, NEW x \in Nat, Grown(H, G, id, x),
           NEW n, NEW r \in Server, NEW l \in Link, Shape(n, r, l), UpTo(H, id, x, r, l),
           NEW i \in Nat, NEW off \in Nat, UpTo(H, i, off, r, l)
    PROVE  UpTo(G, i, off, r, l)
<1>1. /\ r.id \in Nat /\ l.id \in Nat /\ r.off \in Nat /\ r.upto \in Int /\ Len(l.buf) \in Nat
    BY ServerParts, LinkParts
<1>2. r.on => Witness(r) /\ r.upto <= r.off + 1
    BY DEF Shape, Witness
<1>3. ASSUME r.on, r.id2 = i PROVE HeirUpTo(G[r.id], r.upto, off)
  <2>1. HeirUpTo(H[r.id], r.upto, off)
      BY <1>3 DEF UpTo
  <2>2. r.id = id => r.upto <= x + 1
      BY <1>1, <1>2, <1>3 DEF UpTo
  <2> QED
      BY <1>1, <2>1, <2>2, GrownHeir
<1>4. ASSUME Online(l), r.id = i, l.id # i PROVE HeirUpTo(G[l.id], r.off + 1, off)
  <2>1. PICK u \in Int : u = r.off + 1
      BY ONLY <1>1
  <2>2. HeirUpTo(H[l.id], u, off)
      BY <1>4, <2>1 DEF UpTo
  <2>3. l.id = id => u <= x + 1
      BY <1>1, <1>4, <2>1 DEF UpTo
  <2> QED
      BY <1>1, <2>1, <2>2, <2>3, GrownHeir
<1> QED
    BY <1>3, <1>4 DEF UpTo

-----------------------------------------------------------------------------
(* Steps of one server.                                                      *)

\* The link is as it was, but may have been closed.
Cut(m, l) ==
    /\ m \in Link /\ m.st = l.st /\ m.sl = l.sl /\ m.id = l.id /\ m.off = l.off
    /\ m.snap = l.snap /\ m.db = l.db /\ m.buf = l.buf
    /\ m.open => l.open

LEMMA CutSame ==
    ASSUME NEW m, NEW l, Cut(m, l)
    PROVE  /\ \A n, r : Shape(n, r, l) => Shape(n, r, m)
           /\ \A ids, r : Older(ids, r, l) => Older(ids, r, m)
           /\ \A H, r : LinkAgrees(H, r, l) => LinkAgrees(H, r, m)
           /\ \A s, r : Linked(s, r, l) => Linked(s, r, m)
           /\ \A H, id, off, r : UpTo(H, id, off, r, l) => UpTo(H, id, off, r, m)
           /\ \A id, r : Apart(id, r, l) => Apart(id, r, m)
           /\ \A id, r : Unheard(id, r, l) => Unheard(id, r, m)
<1>1. \A n, r : Shape(n, r, l) => Shape(n, r, m)
    BY DEF Cut, Shape, Online, Serving
<1>2. \A ids, r : Older(ids, r, l) => Older(ids, r, m)
    BY DEF Cut, Older
<1>3. \A H, r : LinkAgrees(H, r, l) => LinkAgrees(H, r, m)
    BY DEF Cut, LinkAgrees, Online, Serving
<1>4. \A s, r : Linked(s, r, l) => Linked(s, r, m)
    BY DEF Cut, Linked, Followed, Behind, Online
<1>5. \A H, id, off, r : UpTo(H, id, off, r, l) => UpTo(H, id, off, r, m)
    BY DEF Cut, UpTo, Online, Serving
<1>6. \A id, r : Apart(id, r, l) => Apart(id, r, m)
    BY DEF Cut, Apart, Online, Serving
<1>7. \A id, r : Unheard(id, r, l) => Unheard(id, r, m)
    BY DEF Cut, Unheard, Online, Serving
<1> QED
    BY <1>1, <1>2, <1>3, <1>4, <1>5, <1>6, <1>7

\* The other servers are as they were, but links may have been closed.
Others(w, v, n) ==
    /\ w.ids <= v.ids
    /\ \A k \in PsServer \ {n} : v.s[k] = w.s[k] /\ Cut(v.l[k], w.l[k])

\* They agree with the new history, and their masters own what they owned.
Kept(G, w, n) ==
    \A k \in PsServer \ {n} :
        /\ ServerAgrees(G, w.s[k]) /\ LinkAgrees(G, w.s[k], w.l[k])
        /\ IsMaster(w.s[k]) /\ w.s[k].on =>
            /\ G[w.s[k].id][w.s[k].off].db = w.s[k].sel
            /\ \A j \in PsServer \ {n} :
                    UpTo(G, w.s[k].id, w.s[k].off, w.s[j], w.l[j])

\* A server and a link respect what the other servers own.
Respects(G, w, n, r, l) ==
    \A k \in PsServer \ {n} :
        /\ Hidden(w.s[k]) => Unheard(w.s[k].id, r, l)
        /\ IsMaster(w.s[k]) =>
            /\ IsMaster(r) => w.s[k].id # r.id
            /\ IF w.s[k].on THEN UpTo(G, w.s[k].id, w.s[k].off, r, l)
               ELSE Apart(w.s[k].id, r, l)

\* The links of its replicas fit the server.
Leading(v, n) ==
    \A k \in PsServer \ {n} : v.s[k].master = n => Linked(v.s, v.s[k], v.l[k])

LEMMA WorldParts ==
    ASSUME NEW w \in World
    PROVE  /\ w.s \in [PsServer -> Server] /\ w.l \in [PsServer -> Link] /\ w.ids \in Nat
           /\ \A k \in PsServer : w.s[k] \in Server /\ w.l[k] \in Link
    BY DEF World

LEMMA KeptSame ==
    ASSUME NEW H, NEW w, WorldInv(H, w), NEW n \in PsServer
    PROVE  Kept(H, w, n)
    BY DEF WorldInv, Fits, Owns, Kept

\* Server n takes a step, with its link, and the history may change.
Fitting(G, w, v, n) ==
    /\ Others(w, v, n) /\ Kept(G, w, n)
    /\ Shape(n, v.s[n], v.l[n]) /\ Older(v.ids, v.s[n], v.l[n])
    /\ ServerAgrees(G, v.s[n]) /\ LinkAgrees(G, v.s[n], v.l[n])
    /\ Linked(v.s, v.s[n], v.l[n]) /\ Leading(v, n)
    /\ Respects(G, w, n, v.s[n], v.l[n])
    /\ Hidden(v.s[n]) => \A k \in PsServer : Unheard(v.s[n].id, v.s[k], v.l[k])
    /\ IsMaster(v.s[n]) => Owns(G, v, n)

LEMMA OneStep ==
    ASSUME NEW H, NEW w, WorldInv(H, w), NEW G \in Histories, NEW v \in World,
           NEW n \in PsServer, Fitting(G, w, v, n)
    PROVE  WorldInv(G, v)
<1> DEFINE r == v.s[n]
           l == v.l[n]
<1>0. /\ Others(w, v, n) /\ Kept(G, w, n)
      /\ Shape(n, r, l) /\ Older(v.ids, r, l) /\ ServerAgrees(G, r) /\ LinkAgrees(G, r, l)
      /\ Linked(v.s, r, l) /\ Leading(v, n) /\ Respects(G, w, n, r, l)
      /\ Hidden(r) => \A k \in PsServer : Unheard(r.id, v.s[k], v.l[k])
      /\ IsMaster(r) => Owns(G, v, n)
    BY DEF Fitting
<1>1. \A k \in PsServer : Fits(H, w, k)
    BY DEF WorldInv
<1>2. Fits(G, v, n)
    BY <1>0 DEF Fits
<1>3. ASSUME NEW k \in PsServer, k # n
      PROVE  Fits(G, v, k)
  <2>0. v.s[k] = w.s[k] /\ Cut(v.l[k], w.l[k]) /\ Fits(H, w, k)
      BY <1>0, <1>1, <1>3 DEF Others
  <2>1. Shape(k, v.s[k], v.l[k])
      BY <2>0, CutSame DEF Fits
  <2>2. Older(v.ids, v.s[k], v.l[k])
    <3>1. Older(w.ids, v.s[k], v.l[k])
        BY <2>0, CutSame DEF Fits
    <3>2. w.ids \in Int /\ v.ids \in Int /\ w.ids <= v.ids
        BY <1>0, WorldParts DEF Others, WorldInv
    <3>3. v.s[k] \in Server /\ v.l[k] \in Link
        BY WorldParts
    <3>4. v.s[k].id \in Nat /\ v.s[k].id2 \in Nat /\ v.s[k].saved.id \in Nat /\ v.l[k].id \in Nat
        BY ONLY <3>3, ServerParts, LinkParts
    <3> QED
        BY <3>1, <3>2, <3>4 DEF Older
  <2>3. ServerAgrees(G, v.s[k]) /\ LinkAgrees(G, v.s[k], v.l[k])
      BY <1>0, <1>3, <2>0, CutSame DEF Kept
  <2>4. Linked(v.s, v.s[k], v.l[k])
    <3>1. CASE v.s[k].master = n
        BY ONLY <1>0, <1>3, <3>1 DEF Leading
    <3>2. CASE v.s[k].master # n
      <4>1. Linked(w.s, v.s[k], v.l[k])
          BY <2>0, CutSame DEF Fits
      <4>2. v.s[k].master \in PsServer => v.s[v.s[k].master] = w.s[v.s[k].master]
          BY <1>0, <3>2 DEF Others
      <4> QED
          BY <4>1, <4>2 DEF Linked
    <3> QED
        BY <3>1, <3>2
  <2>5. ASSUME Hidden(v.s[k]), NEW j \in PsServer
        PROVE  Unheard(v.s[k].id, v.s[j], v.l[j])
    <3>1. CASE j = n
        BY <1>3, <2>0, <2>5, <1>0, <3>1 DEF Respects
    <3>2. CASE j # n
      <4>1. Unheard(w.s[k].id, w.s[j], w.l[j])
          BY <2>0, <2>5 DEF Fits
      <4>2. v.s[j] = w.s[j] /\ Cut(v.l[j], w.l[j])
          BY ONLY <1>0, <3>2 DEF Others
      <4> QED
          BY <2>0, <4>1, <4>2, CutSame
    <3> QED
        BY <3>1, <3>2
  <2>6. ASSUME IsMaster(v.s[k]) PROVE Owns(G, v, k)
    <3>0. Owns(H, w, k) /\ IsMaster(w.s[k])
        BY ONLY <2>0, <2>6 DEF Fits
    <3>1. v.s[k].on => G[v.s[k].id][v.s[k].off].db = v.s[k].sel
        BY <1>0, <1>3, <2>0, <3>0 DEF Kept
    <3>2. ASSUME NEW j \in PsServer \ {k}, IsMaster(v.s[j])
          PROVE  v.s[j].id # v.s[k].id
      <4>1. CASE j = n
          BY ONLY <1>3, <2>0, <3>0, <3>2, <1>0, <4>1 DEF Respects
      <4>2. CASE j # n
        <5>1. v.s[j] = w.s[j]
            BY <1>0, <4>2 DEF Others
        <5> QED
            BY <2>0, <3>0, <3>2, <5>1 DEF Owns
      <4> QED
          BY <4>1, <4>2
    <3>3. ASSUME NEW j \in PsServer
          PROVE  IF v.s[k].on THEN UpTo(G, v.s[k].id, v.s[k].off, v.s[j], v.l[j])
                 ELSE Apart(v.s[k].id, v.s[j], v.l[j])
      <4>1. CASE j = n
          BY <1>3, <2>0, <3>0, <1>0, <4>1 DEF Respects
      <4>2. CASE j # n
        <5>1. v.s[j] = w.s[j] /\ Cut(v.l[j], w.l[j])
            BY <1>0, <4>2 DEF Others
        <5>2. w.s[k].on => UpTo(G, w.s[k].id, w.s[k].off, w.s[j], w.l[j])
            BY <1>3, <3>0, <1>0, <4>2 DEF Kept
        <5>3. ~w.s[k].on => Apart(w.s[k].id, w.s[j], w.l[j])
            BY <3>0 DEF Owns
        <5> QED
            BY ONLY <2>0, <5>1, <5>2, <5>3, CutSame
      <4> QED
          BY <4>1, <4>2
    <3> QED
        BY <3>1, <3>2, <3>3 DEF Owns
  <2> QED
      BY <2>1, <2>2, <2>3, <2>4, <2>5, <2>6 DEF Fits
<1> QED
    BY <1>2, <1>3 DEF WorldInv

\* A row that only server n may have anything of.
LEMMA KeptApart ==
    ASSUME NEW H, NEW w, WorldInv(H, w), NEW n \in PsServer, NEW G, NEW id \in Nat,
           KeptBut(H, G, id),
           \A k \in PsServer \ {n} : Apart(id, w.s[k], w.l[k])
    PROVE  Kept(G, w, n)
<1> SUFFICES ASSUME NEW k \in PsServer \ {n}
             PROVE  /\ ServerAgrees(G, w.s[k]) /\ LinkAgrees(G, w.s[k], w.l[k])
                    /\ IsMaster(w.s[k]) /\ w.s[k].on =>
                        /\ G[w.s[k].id][w.s[k].off].db = w.s[k].sel
                        /\ \A j \in PsServer \ {n} :
                                UpTo(G, w.s[k].id, w.s[k].off, w.s[j], w.l[j])
    BY DEF Kept
<1>0. \A j \in PsServer : /\ w.s[j] \in Server /\ w.l[j] \in Link
                          /\ Fits(H, w, j)
                          /\ Online(w.l[j]) => w.s[j].db # NoDatabase
    BY WorldParts DEF WorldInv, Fits, Shape
<1>1. ServerAgrees(G, w.s[k]) /\ LinkAgrees(G, w.s[k], w.l[k])
    BY <1>0, ApartAgrees DEF Fits
<1>2. ASSUME IsMaster(w.s[k]), w.s[k].on
      PROVE  G[w.s[k].id][w.s[k].off].db = w.s[k].sel
  <2>1. w.s[k].id \in Nat /\ w.s[k].id # id
      BY <1>0, <1>2, ServerParts DEF Apart, Witness
  <2>2. G[w.s[k].id] = H[w.s[k].id]
      BY <2>1 DEF KeptBut
  <2> QED
      BY <1>0, <1>2, <2>2 DEF Fits, Owns
<1>3. ASSUME IsMaster(w.s[k]), w.s[k].on, NEW j \in PsServer \ {n}
      PROVE  UpTo(G, w.s[k].id, w.s[k].off, w.s[j], w.l[j])
  <2>1. UpTo(H, w.s[k].id, w.s[k].off, w.s[j], w.l[j])
      BY ONLY <1>0, <1>3 DEF Fits, Owns
  <2> QED
      BY <1>0, <2>1, ApartUpTo
<1> QED
    BY <1>1, <1>2, <1>3

\* The row of a master with a backlog.
LEMMA KeptGrown ==
    ASSUME NEW H, NEW w, WorldInv(H, w), NEW n \in PsServer, NEW G,
           IsMaster(w.s[n]), w.s[n].on, Grown(H, G, w.s[n].id, w.s[n].off)
    PROVE  Kept(G, w, n)
<1> SUFFICES ASSUME NEW k \in PsServer \ {n}
             PROVE  /\ ServerAgrees(G, w.s[k]) /\ LinkAgrees(G, w.s[k], w.l[k])
                    /\ IsMaster(w.s[k]) /\ w.s[k].on =>
                        /\ G[w.s[k].id][w.s[k].off].db = w.s[k].sel
                        /\ \A j \in PsServer \ {n} :
                                UpTo(G, w.s[k].id, w.s[k].off, w.s[j], w.l[j])
    BY DEF Kept
<1>0. \A j \in PsServer : /\ w.s[j] \in Server /\ w.l[j] \in Link
                          /\ Fits(H, w, j) /\ Shape(j, w.s[j], w.l[j])
                          /\ w.s[j].id \in Nat /\ w.s[j].off \in Nat
    BY WorldParts, ServerParts DEF WorldInv, Fits
<1>1. \A j \in PsServer : UpTo(H, w.s[n].id, w.s[n].off, w.s[j], w.l[j])
    BY <1>0 DEF Fits, Owns
<1>2. PICK id \in Nat : id = w.s[n].id
    BY <1>0
<1>3. PICK x \in Nat : x = w.s[n].off
    BY <1>0
<1>4. /\ Grown(H, G, id, x)
      /\ \A j \in PsServer : UpTo(H, id, x, w.s[j], w.l[j])
    BY <1>1, <1>2, <1>3
<1>5. ServerAgrees(G, w.s[k]) /\ LinkAgrees(G, w.s[k], w.l[k])
    BY ONLY <1>0, <1>4, GrownAgrees DEF Fits
<1>6. ASSUME IsMaster(w.s[k]), w.s[k].on
      PROVE  G[w.s[k].id][w.s[k].off].db = w.s[k].sel
  <2>1. w.s[k].id # id
      BY <1>0, <1>2, <1>6 DEF Fits, Owns
  <2>2. G[w.s[k].id] = H[w.s[k].id]
      BY ONLY <1>0, <1>4, <2>1 DEF Grown, KeptBut
  <2> QED
      BY ONLY <1>0, <1>6, <2>2 DEF Fits, Owns
<1>7. ASSUME IsMaster(w.s[k]), w.s[k].on, NEW j \in PsServer \ {n}
      PROVE  UpTo(G, w.s[k].id, w.s[k].off, w.s[j], w.l[j])
  <2>1. UpTo(H, w.s[k].id, w.s[k].off, w.s[j], w.l[j])
      BY <1>0, <1>7 DEF Fits, Owns
  <2> QED
      BY ONLY <1>0, <1>4, <2>1, GrownUpTo
<1> QED
    BY ONLY <1>5, <1>6, <1>7

LEMMA PutServer ==
    ASSUME NEW w \in World, NEW n \in PsServer, NEW r \in Server,
           NEW v, v = [w EXCEPT !.s[n] = r]
    PROVE  /\ v \in World /\ v.l = w.l /\ v.ids = w.ids /\ v.s[n] = r
           /\ \A k \in PsServer \ {n} : v.s[k] = w.s[k]
    BY DEF World

LEMMA PutLink ==
    ASSUME NEW w \in World, NEW n \in PsServer, NEW l \in Link,
           NEW v, v = [w EXCEPT !.l[n] = l]
    PROVE  /\ v \in World /\ v.s = w.s /\ v.ids = w.ids /\ v.l[n] = l
           /\ \A k \in PsServer \ {n} : v.l[k] = w.l[k]
    BY DEF World

LEMMA CutSelf ==
    ASSUME NEW l \in Link
    PROVE  Cut(l, l)
    BY DEF Cut

LEMMA OthersSelf ==
    ASSUME NEW w \in World, NEW n \in PsServer
    PROVE  Others(w, w, n)
    BY WorldParts, CutSelf DEF Others

\* What the invariant says of one server.
LEMMA FitsParts ==
    ASSUME NEW H, NEW w, WorldInv(H, w), NEW n \in PsServer, NEW r, r = w.s[n],
           NEW l, l = w.l[n]
    PROVE  /\ w \in World /\ H \in Histories /\ r \in Server /\ l \in Link /\ w.ids \in Nat
           /\ Shape(n, r, l) /\ Older(w.ids, r, l) /\ ServerAgrees(H, r)
           /\ LinkAgrees(H, r, l) /\ Linked(w.s, r, l)
           /\ Hidden(r) => \A k \in PsServer : Unheard(r.id, w.s[k], w.l[k])
           /\ IsMaster(r) => Owns(H, w, n)
           /\ Respects(H, w, n, r, l)
<1>1. /\ w \in World /\ H \in Histories /\ r \in Server /\ l \in Link /\ w.ids \in Nat
      /\ \A k \in PsServer : Fits(H, w, k)
    BY WorldParts DEF WorldInv
<1>2. ASSUME NEW k \in PsServer \ {n}
      PROVE  /\ Hidden(w.s[k]) => Unheard(w.s[k].id, r, l)
             /\ IsMaster(w.s[k]) =>
                 /\ IsMaster(r) => w.s[k].id # r.id
                 /\ IF w.s[k].on THEN UpTo(H, w.s[k].id, w.s[k].off, r, l)
                    ELSE Apart(w.s[k].id, r, l)
  <2>1. Hidden(w.s[k]) => Unheard(w.s[k].id, r, l)
      BY <1>1 DEF Fits
  <2>2. ASSUME IsMaster(w.s[k])
        PROVE  /\ IsMaster(r) => w.s[k].id # r.id
               /\ IF w.s[k].on THEN UpTo(H, w.s[k].id, w.s[k].off, r, l)
                  ELSE Apart(w.s[k].id, r, l)
    <3>1. Owns(H, w, k)
        BY <1>1, <2>2 DEF Fits
    <3> QED
        BY <3>1 DEF Owns
  <2> QED
      BY <2>1, <2>2
<1>3. Respects(H, w, n, r, l)
    BY <1>2 DEF Respects
<1> QED
    BY <1>1, <1>3 DEF Fits

\* The master of others keeps the place where their streams lead to.
LEMMA StillLeading ==
    ASSUME NEW H, NEW w, WorldInv(H, w), NEW v, NEW n \in PsServer, Others(w, v, n),
           v.s[n].on = w.s[n].on, v.s[n].id = w.s[n].id, v.s[n].off = w.s[n].off
    PROVE  Leading(v, n)
<1> SUFFICES ASSUME NEW k \in PsServer \ {n}, v.s[k].master = n
             PROVE  Linked(v.s, v.s[k], v.l[k])
    BY DEF Leading
<1>1. v.s[k] = w.s[k] /\ Cut(v.l[k], w.l[k])
    BY DEF Others
<1>2. Linked(w.s, w.s[k], w.l[k])
    BY FitsParts
<1>3. Linked(w.s, v.s[k], v.l[k])
    BY <1>1, <1>2, CutSame
<1> QED
    BY <1>3 DEF Linked

\* Or all their links are closed.
LEMMA NoneLeading ==
    ASSUME NEW v, NEW n \in PsServer,
           \A k \in PsServer \ {n} : v.s[k].master = n => ~Followed(v.l[k])
    PROVE  Leading(v, n)
    BY DEF Leading, Linked

\* Two records of a server that differ in its part in a FAILOVER only.
Same(r, q) ==
    /\ r.data = q.data /\ r.id = q.id /\ r.id2 = q.id2 /\ r.upto = q.upto
    /\ r.off = q.off /\ r.on = q.on /\ r.log = q.log /\ r.sel = q.sel
    /\ r.master = q.master /\ r.db = q.db /\ r.saved = q.saved

LEMMA SameAgrees ==
    ASSUME NEW r, NEW q, Same(r, q)
    PROVE  /\ \A H : ServerAgrees(H, q) => ServerAgrees(H, r)
           /\ \A H, l : LinkAgrees(H, q, l) => LinkAgrees(H, r, l)
           /\ \A ids, l : Older(ids, q, l) => Older(ids, r, l)
           /\ \A H, id, off, l : UpTo(H, id, off, q, l) => UpTo(H, id, off, r, l)
           /\ \A id, l : Apart(id, q, l) => Apart(id, r, l)
           /\ \A id, l : Unheard(id, q, l) => Unheard(id, r, l)
           /\ \A s, l : Linked(s, q, l) => Linked(s, r, l)
<1>1. \A H : ServerAgrees(H, q) => ServerAgrees(H, r)
    BY DEF Same, ServerAgrees, Witness, IsMaster
<1>2. \A H, l : LinkAgrees(H, q, l) => LinkAgrees(H, r, l)
    BY DEF Same, LinkAgrees
<1>3. \A ids, l : Older(ids, q, l) => Older(ids, r, l)
    BY DEF Same, Older
<1>4. \A H, id, off, l : UpTo(H, id, off, q, l) => UpTo(H, id, off, r, l)
    BY DEF Same, UpTo, Witness
<1>5. \A id, l : Apart(id, q, l) => Apart(id, r, l)
    BY DEF Same, Apart, Witness
<1>6. \A id, l : Unheard(id, q, l) => Unheard(id, r, l)
    BY DEF Same, Unheard
<1>7. \A s, l : Linked(s, q, l) => Linked(s, r, l)
    BY DEF Same, Linked, Behind
<1> QED
    BY <1>1, <1>2, <1>3, <1>4, <1>5, <1>6, <1>7

\* A link with nothing of any history on it.
Silent(l) ==
    /\ l \in Link /\ ~Serving(l) /\ ~Online(l) /\ l.id = NoId
    /\ l.st \notin {"online", "transfer"}
    /\ l.sl = "start" => l.buf = <<>>

LEMMA SilentAgrees ==
    ASSUME NEW m, Silent(m), NEW l
    PROVE  /\ \A H, r : LinkAgrees(H, r, m)
           /\ \A ids, r : ids \in Nat /\ r \in Server /\ Older(ids, r, l) => Older(ids, r, m)
           /\ \A H, id, off, r : UpTo(H, id, off, r, l) => UpTo(H, id, off, r, m)
           /\ \A id, r : Apart(id, r, l) => Apart(id, r, m)
           /\ \A id, r : Unheard(id, r, l) => Unheard(id, r, m)
<1>1. \A H, r : LinkAgrees(H, r, m)
    BY DEF Silent, LinkAgrees
<1>2. ASSUME NEW ids \in Nat, NEW r \in Server, Older(ids, r, l) PROVE Older(ids, r, m)
  <2>1. r.id \in Nat /\ r.id # NoId
      BY ServerParts
  <2> QED
      BY <1>2, <2>1 DEF Silent, Older, NoId
<1>3. \A H, id, off, r : UpTo(H, id, off, r, l) => UpTo(H, id, off, r, m)
    BY DEF Silent, UpTo
<1>4. \A id, r : Apart(id, r, l) => Apart(id, r, m)
    BY DEF Silent, Apart
<1>5. \A id, r : Unheard(id, r, l) => Unheard(id, r, m)
    BY DEF Silent, Unheard
<1> QED
    BY <1>1, <1>2, <1>3, <1>4, <1>5

\* All that server r and link l have of histories, q and m had.
Lesser(r, l, q, m) ==
    \A id \in Nat \ {NoId} :
        /\ \A H : \A off \in Nat : UpTo(H, id, off, q, m) => UpTo(H, id, off, r, l)
        /\ Apart(id, q, m) => Apart(id, r, l)
        /\ Unheard(id, q, m) => Unheard(id, r, l)

\* The step of server n adds nothing to what it has.
Steady(H, w, v, n) ==
    /\ Others(w, v, n) /\ Lesser(v.s[n], v.l[n], w.s[n], w.l[n])
    /\ v.s[n].id = w.s[n].id /\ v.s[n].off = w.s[n].off /\ v.s[n].on = w.s[n].on
    /\ v.s[n].master = w.s[n].master
    /\ IsMaster(v.s[n]) /\ v.s[n].on => v.s[n].sel = w.s[n].sel
    /\ Hidden(v.s[n]) => Hidden(w.s[n])
    /\ Shape(n, v.s[n], v.l[n]) /\ Older(v.ids, v.s[n], v.l[n])
    /\ ServerAgrees(H, v.s[n]) /\ LinkAgrees(H, v.s[n], v.l[n])
    /\ Linked(v.s, v.s[n], v.l[n])

LEMMA SteadyStep ==
    ASSUME NEW H, NEW w, WorldInv(H, w), NEW v \in World, NEW n \in PsServer,
           Steady(H, w, v, n)
    PROVE  WorldInv(H, v)
<1> DEFINE r == v.s[n]
           q == w.s[n]
           l == v.l[n]
           m == w.l[n]
<1>0. /\ Others(w, v, n) /\ Lesser(r, l, q, m)
      /\ r.id = q.id /\ r.off = q.off /\ r.on = q.on /\ r.master = q.master
      /\ IsMaster(r) /\ r.on => r.sel = q.sel
      /\ Hidden(r) => Hidden(q)
      /\ Shape(n, r, l) /\ Older(v.ids, r, l) /\ ServerAgrees(H, r)
      /\ LinkAgrees(H, r, l) /\ Linked(v.s, r, l)
    BY DEF Steady
<1>1. /\ w \in World /\ H \in Histories /\ q \in Server
      /\ Hidden(q) => \A k \in PsServer : Unheard(q.id, w.s[k], w.l[k])
      /\ IsMaster(q) => Owns(H, w, n)
      /\ Respects(H, w, n, q, m)
    BY FitsParts
<1>2. \A k \in PsServer : w.s[k].id \in Nat \ {NoId} /\ w.s[k].off \in Nat
    BY <1>1, WorldParts, ServerParts
<1>3. Leading(v, n)
    BY <1>0, StillLeading
<1>4. Respects(H, w, n, r, l)
  <2> SUFFICES ASSUME NEW k \in PsServer \ {n}
               PROVE  /\ Hidden(w.s[k]) => Unheard(w.s[k].id, r, l)
                      /\ IsMaster(w.s[k]) =>
                          /\ IsMaster(r) => w.s[k].id # r.id
                          /\ IF w.s[k].on THEN UpTo(H, w.s[k].id, w.s[k].off, r, l)
                             ELSE Apart(w.s[k].id, r, l)
      BY DEF Respects
  <2>1. /\ Hidden(w.s[k]) => Unheard(w.s[k].id, q, m)
        /\ IsMaster(w.s[k]) =>
            /\ IsMaster(q) => w.s[k].id # q.id
            /\ IF w.s[k].on THEN UpTo(H, w.s[k].id, w.s[k].off, q, m)
               ELSE Apart(w.s[k].id, q, m)
      BY <1>1 DEF Respects
  <2>2. w.s[k].id \in Nat \ {NoId} /\ w.s[k].off \in Nat
      BY <1>2
  <2>3. IsMaster(r) <=> IsMaster(q)
      BY <1>0 DEF IsMaster
  <2> QED
      BY <1>0, <2>1, <2>2, <2>3 DEF Lesser
<1>5. ASSUME NEW k \in PsServer, k # n PROVE v.s[k] = w.s[k] /\ Cut(v.l[k], w.l[k])
    BY <1>0, <1>5 DEF Others
<1>6. q.id \in Nat \ {NoId} /\ r.id = q.id /\ r.off \in Nat
    BY <1>0, <1>2
<1>7. Hidden(r) => \A k \in PsServer : Unheard(r.id, v.s[k], v.l[k])
  <2> SUFFICES ASSUME Hidden(r), NEW k \in PsServer PROVE Unheard(r.id, v.s[k], v.l[k])
      OBVIOUS
  <2>1. Unheard(q.id, w.s[k], w.l[k])
      BY <1>0, <1>1
  <2>2. CASE k = n
      BY <1>0, <1>6, <2>1, <2>2 DEF Lesser
  <2>3. CASE k # n
      BY ONLY <1>5, <1>6, <2>1, <2>3, CutSame
  <2> QED
      BY <2>2, <2>3
<1>8. IsMaster(r) => Owns(H, v, n)
  <2> SUFFICES ASSUME IsMaster(r) PROVE Owns(H, v, n)
      OBVIOUS
  <2>1. Owns(H, w, n) /\ r.id = q.id /\ r.off = q.off /\ r.on = q.on
      BY <1>0, <1>1 DEF IsMaster
  <2>2. \A k \in PsServer \ {n} : IsMaster(v.s[k]) => v.s[k].id # r.id
      BY ONLY <1>5, <2>1 DEF Owns
  <2>3. r.on => H[r.id][r.off].db = r.sel
      BY <1>0, <2>1 DEF Owns
  <2>4. ASSUME NEW k \in PsServer
        PROVE  IF r.on THEN UpTo(H, r.id, r.off, v.s[k], v.l[k])
               ELSE Apart(r.id, v.s[k], v.l[k])
    <3>1. IF r.on THEN UpTo(H, r.id, r.off, w.s[k], w.l[k])
          ELSE Apart(r.id, w.s[k], w.l[k])
        BY <2>1 DEF Owns
    <3>2. CASE k = n
      <4>1. IF r.on THEN UpTo(H, r.id, r.off, q, m) ELSE Apart(r.id, q, m)
          BY <3>1, <3>2
      <4>2. IF r.on THEN UpTo(H, r.id, r.off, r, l) ELSE Apart(r.id, r, l)
          BY <1>0, <1>6, <4>1 DEF Lesser
      <4> QED
          BY <3>2, <4>2
    <3>3. CASE k # n
        BY <1>5, <3>1, <3>3, CutSame
    <3> QED
        BY <3>2, <3>3
  <2> QED
      BY <2>2, <2>3, <2>4 DEF Owns
<1>9. Kept(H, w, n)
    BY KeptSame
<1>10. Fitting(H, w, v, n)
    BY <1>0, <1>3, <1>4, <1>7, <1>8, <1>9 DEF Fitting
<1> QED
    BY <1>1, <1>10, OneStep

\* Server n changes its part in a FAILOVER, or loses its link.
Quiet(w, v, n) ==
    /\ Others(w, v, n) /\ v.ids = w.ids /\ Same(v.s[n], w.s[n])
    /\ \/ Cut(v.l[n], w.l[n])
       \/ Silent(v.l[n]) /\ Linked(v.s, v.s[n], v.l[n])
    /\ IsMaster(v.s[n]) => v.l[n].sl = "none" /\ v.l[n].st = "none"
    /\ v.s[n].fail # "none" => v.s[n].target # n
    /\ v.s[n].fail = "wait" =>
            IsMaster(v.s[n]) /\ (v.s[n].force => v.s[n].target # NoServer)

LEMMA QuietStep ==
    ASSUME NEW H, NEW w, WorldInv(H, w), NEW v \in World, NEW n \in PsServer,
           Quiet(w, v, n)
    PROVE  WorldInv(H, v)
<1> DEFINE r == v.s[n]
           q == w.s[n]
           l == v.l[n]
           m == w.l[n]
<1>0. /\ Others(w, v, n) /\ v.ids = w.ids /\ Same(r, q)
      /\ Cut(l, m) \/ Silent(l)
      /\ IsMaster(r) => l.sl = "none" /\ l.st = "none"
      /\ ~Cut(l, m) => Linked(v.s, r, l)
      /\ r.fail # "none" => r.target # n
      /\ r.fail = "wait" => IsMaster(r) /\ (r.force => r.target # NoServer)
    BY DEF Quiet
<1>1. /\ w \in World /\ H \in Histories /\ q \in Server /\ m \in Link /\ w.ids \in Nat
      /\ Shape(n, q, m) /\ Older(w.ids, q, m) /\ ServerAgrees(H, q)
      /\ LinkAgrees(H, q, m) /\ Linked(w.s, q, m)
      /\ Hidden(q) => \A k \in PsServer : Unheard(q.id, w.s[k], w.l[k])
      /\ IsMaster(q) => Owns(H, w, n)
      /\ Respects(H, w, n, q, m)
    BY FitsParts
<1>2. r \in Server /\ l \in Link
    BY WorldParts
<1>3. Shape(n, r, l)
  <2>1. CASE Cut(l, m)
    <3>1. Shape(n, q, l)
        BY ONLY <1>1, <2>1, CutSame
    <3> QED
        BY <1>0, <3>1 DEF Shape, Same, IsMaster
  <2>2. CASE Silent(l)
      BY <1>0, <1>1, <2>2 DEF Shape, Same, IsMaster, Silent
  <2> QED
      BY ONLY <1>0, <2>1, <2>2
<1>4. /\ LinkAgrees(H, q, l) /\ Older(w.ids, q, l)
      /\ \A G, id, off : UpTo(G, id, off, q, m) => UpTo(G, id, off, q, l)
      /\ \A id : Apart(id, q, m) => Apart(id, q, l)
      /\ \A id : Unheard(id, q, m) => Unheard(id, q, l)
  <2>1. CASE Cut(l, m)
      BY <1>1, <2>1, CutSame
  <2>2. CASE Silent(l)
      BY ONLY <1>1, <2>2, SilentAgrees
  <2> QED
      BY <1>0, <2>1, <2>2
<1>5. /\ LinkAgrees(H, r, l) /\ Older(v.ids, r, l) /\ ServerAgrees(H, r)
      /\ \A G, id, off : UpTo(G, id, off, q, m) => UpTo(G, id, off, r, l)
      /\ \A id : Apart(id, q, m) => Apart(id, r, l)
      /\ \A id : Unheard(id, q, m) => Unheard(id, r, l)
    BY <1>0, <1>1, <1>4, SameAgrees
<1>6. Linked(v.s, r, l)
  <2>1. CASE Cut(l, m)
    <3>1. Linked(w.s, r, l)
        BY <1>0, <1>1, <2>1, CutSame, SameAgrees
    <3>2. r.master # n
        BY <1>3 DEF Shape
    <3>3. r.master \in PsServer => v.s[r.master] = w.s[r.master]
        BY <1>0, <3>2 DEF Others
    <3> QED
        BY <3>1, <3>3 DEF Linked
  <2> QED
      BY ONLY <1>0, <2>1
<1>7. Lesser(r, l, q, m)
    BY ONLY <1>5 DEF Lesser
<1>8. Steady(H, w, v, n)
    BY <1>0, <1>1, <1>3, <1>5, <1>6, <1>7 DEF Steady, Same, Hidden
<1> QED
    BY <1>8, SteadyStep

-----------------------------------------------------------------------------
(* Steps that change links only.                                             *)

\* Server k of w may have the link l.
Admitted(H, w, k, l) ==
    /\ l \in Link /\ ~IsMaster(w.s[k])
    /\ Shape(k, w.s[k], l) /\ Older(w.ids, w.s[k], l)
    /\ LinkAgrees(H, w.s[k], l) /\ Linked(w.s, w.s[k], l)
    /\ \A j \in PsServer :
        /\ Hidden(w.s[j]) => Unheard(w.s[j].id, w.s[k], l)
        /\ IsMaster(w.s[j]) =>
            IF w.s[j].on THEN UpTo(H, w.s[j].id, w.s[j].off, w.s[k], l)
            ELSE Apart(w.s[j].id, w.s[k], l)

LEMMA LinksStep ==
    ASSUME NEW H, NEW w, WorldInv(H, w), NEW v \in World, v.s = w.s, v.ids = w.ids,
           \A k \in PsServer : Cut(v.l[k], w.l[k]) \/ Admitted(H, w, k, v.l[k])
    PROVE  WorldInv(H, v)
<1>1. \A k \in PsServer : Fits(H, w, k)
    BY DEF WorldInv
<1>2. ASSUME NEW j \in PsServer, NEW k \in PsServer
      PROVE  /\ Hidden(w.s[j]) => Unheard(w.s[j].id, w.s[k], v.l[k])
             /\ IsMaster(w.s[j]) =>
                 IF w.s[j].on THEN UpTo(H, w.s[j].id, w.s[j].off, w.s[k], v.l[k])
                 ELSE Apart(w.s[j].id, w.s[k], v.l[k])
  <2>1. CASE Admitted(H, w, k, v.l[k])
      BY <2>1 DEF Admitted
  <2>2. CASE Cut(v.l[k], w.l[k])
    <3>1. Fits(H, w, j)
        BY <1>1
    <3>2. Hidden(w.s[j]) => Unheard(w.s[j].id, w.s[k], w.l[k])
        BY ONLY <3>1 DEF Fits
    <3>3. IsMaster(w.s[j]) =>
                 IF w.s[j].on THEN UpTo(H, w.s[j].id, w.s[j].off, w.s[k], w.l[k])
                 ELSE Apart(w.s[j].id, w.s[k], w.l[k])
        BY <3>1 DEF Fits, Owns
    <3> QED
        BY <2>2, <3>2, <3>3, CutSame
  <2> QED
      BY <2>1, <2>2
<1>3. ASSUME NEW n \in PsServer PROVE Fits(H, v, n)
  <2>0. Fits(H, w, n)
      BY <1>1
  <2>1. /\ Shape(n, w.s[n], v.l[n]) /\ Older(w.ids, w.s[n], v.l[n])
        /\ LinkAgrees(H, w.s[n], v.l[n]) /\ Linked(w.s, w.s[n], v.l[n])
    <3>1. CASE Admitted(H, w, n, v.l[n])
        BY <3>1 DEF Admitted
    <3>2. CASE Cut(v.l[n], w.l[n])
        BY ONLY <2>0, <3>2, CutSame DEF Fits
    <3> QED
        BY <3>1, <3>2
  <2>2. IsMaster(w.s[n]) => Owns(H, v, n)
      BY <1>2, <2>0 DEF Fits, Owns
  <2> QED
      BY <1>2, <2>0, <2>1, <2>2 DEF Fits
<1> QED
    BY <1>3 DEF WorldInv

LEMMA SilentAdmitted ==
    ASSUME NEW H, NEW w, WorldInv(H, w), NEW k \in PsServer, ~IsMaster(w.s[k]),
           NEW l, Silent(l), Linked(w.s, w.s[k], l)
    PROVE  Admitted(H, w, k, l)
<1>0. \A j \in PsServer : Fits(H, w, j)
    BY DEF WorldInv
<1>1. Shape(k, w.s[k], w.l[k]) /\ Older(w.ids, w.s[k], w.l[k]) /\ w.s[k] \in Server
      /\ w.ids \in Nat
    BY FitsParts
<1>2. Shape(k, w.s[k], l)
    BY <1>1 DEF Shape, Silent
<1>3. LinkAgrees(H, w.s[k], l) /\ Older(w.ids, w.s[k], l)
    BY <1>1, SilentAgrees
<1>4. ASSUME NEW j \in PsServer
      PROVE  /\ Hidden(w.s[j]) => Unheard(w.s[j].id, w.s[k], l)
             /\ IsMaster(w.s[j]) =>
                 IF w.s[j].on THEN UpTo(H, w.s[j].id, w.s[j].off, w.s[k], l)
                 ELSE Apart(w.s[j].id, w.s[k], l)
  <2>1. Fits(H, w, j)
      BY <1>0
  <2>2. Hidden(w.s[j]) => Unheard(w.s[j].id, w.s[k], w.l[k])
      BY ONLY <2>1 DEF Fits
  <2>3. IsMaster(w.s[j]) =>
             IF w.s[j].on THEN UpTo(H, w.s[j].id, w.s[j].off, w.s[k], w.l[k])
             ELSE Apart(w.s[j].id, w.s[k], w.l[k])
      BY <2>1 DEF Fits, Owns
  <2> QED
      BY <2>2, <2>3, SilentAgrees
<1>5. l \in Link
    BY DEF Silent
<1> QED
    BY <1>2, <1>3, <1>4, <1>5 DEF Admitted

\* Links that begin again.
LEMMA LinkZero ==
    ASSUME NEW st \in {"none", "connect", "psync"}, NEW l, l = Link0(st)
    PROVE  Silent(l) /\ ~Followed(l) /\ l.sl = "none" /\ l.st = st /\ l.buf = <<>>
           /\ l.open = TRUE
    BY PsNumbers DEF Link0, Silent, Link, Serving, Online, Followed, Data

LEMMA NotFollowed ==
    ASSUME NEW s, NEW r, NEW l, ~Followed(l)
    PROVE  Linked(s, r, l)
    BY DEF Linked

\* Server n has another link.
WithLink(w, n, l) == [w EXCEPT !.l[n] = l]

LEMMA WithLinkIs ==
    ASSUME NEW w \in World, NEW n \in PsServer, NEW l \in Link
    PROVE  /\ WithLink(w, n, l) \in World /\ WithLink(w, n, l).s = w.s
           /\ WithLink(w, n, l).ids = w.ids /\ WithLink(w, n, l).l[n] = l
           /\ \A k \in PsServer \ {n} : WithLink(w, n, l).l[k] = w.l[k]
    BY DEF WithLink, World

LEMMA AdmitStep ==
    ASSUME NEW H, NEW w, WorldInv(H, w), NEW n \in PsServer, NEW l,
           Admitted(H, w, n, l)
    PROVE  WorldInv(H, WithLink(w, n, l))
<1>1. w \in World /\ l \in Link
    BY DEF WorldInv, Admitted
<1>2. PICK v : v = WithLink(w, n, l)
    OBVIOUS
<1>3. /\ v \in World /\ v.s = w.s /\ v.ids = w.ids /\ v.l[n] = l
      /\ \A k \in PsServer \ {n} : v.l[k] = w.l[k]
    BY <1>1, <1>2, WithLinkIs
<1>4. ASSUME NEW k \in PsServer PROVE Cut(v.l[k], w.l[k]) \/ Admitted(H, w, k, v.l[k])
  <2>1. CASE k = n
      BY <1>3, <2>1
  <2>2. CASE k # n
      BY <1>1, <1>3, <2>2, WorldParts, CutSelf
  <2> QED
      BY <2>1, <2>2
<1> QED
    BY <1>2, <1>3, <1>4, LinksStep

\* One link begins again, or its master refuses.
LEMMA OneLink ==
    ASSUME NEW H, NEW w, WorldInv(H, w), NEW n \in PsServer, ~IsMaster(w.s[n]),
           NEW l, Silent(l), ~Followed(l)
    PROVE  WorldInv(H, WithLink(w, n, l))
    BY SilentAdmitted, NotFollowed, AdmitStep

\* Links are closed.
LEMMA ClosingParts ==
    ASSUME NEW w \in World, NEW ks, NEW v, v = Closing(w, ks)
    PROVE  /\ v \in World /\ v.s = w.s /\ v.ids = w.ids
           /\ \A k \in PsServer : /\ Cut(v.l[k], w.l[k])
                                  /\ v.l[k].open <=> (w.l[k].open /\ k \notin ks)
<1>1. /\ v.s = w.s /\ v.ids = w.ids
      /\ v.l = [k \in PsServer |-> [w.l[k] EXCEPT !.open = w.l[k].open /\ k \notin ks]]
    BY DEF Closing, World
<1>2. ASSUME NEW k \in PsServer
      PROVE  /\ v.l[k] \in Link /\ Cut(v.l[k], w.l[k])
             /\ v.l[k].open <=> (w.l[k].open /\ k \notin ks)
  <2>1. PICK b \in BOOLEAN : b = (w.l[k].open /\ k \notin ks)
      OBVIOUS
  <2>2. w.l[k] \in Link
      BY WorldParts
  <2>3. v.l[k] = [w.l[k] EXCEPT !.open = b]
      BY <1>1, <2>1
  <2>4. [w.l[k] EXCEPT !.open = b] \in Link
      BY <2>2 DEF Link
  <2>5. b => w.l[k].open
      BY <2>1
  <2>6. v.l[k] \in Link /\ v.l[k].open = b
      BY <2>2, <2>3, <2>4 DEF Link
  <2>7. Cut(v.l[k], w.l[k])
      BY <2>2, <2>3, <2>5, <2>6 DEF Link, Cut
  <2> QED
      BY <2>1, <2>6, <2>7
<1>3. v.l \in [PsServer -> Link]
    BY <1>1, <1>2
<1>4. v \in World
    BY <1>3, WorldParts DEF Closing, World
<1> QED
    BY <1>1, <1>2, <1>4

LEMMA SlavesAre ==
    ASSUME NEW w, NEW n
    PROVE  /\ Slaves(w, n) = {k \in PsServer : w.s[k].master = n /\ Followed(w.l[k])}
           /\ Fed(w, n) \subseteq Slaves(w, n)
           /\ \A k \in Slaves(w, n) : k \in Fed(w, n) <=> w.l[k].sl # "start"
    BY DEF Slaves, Followed, Fed

LEMMA Disconnected ==
    ASSUME NEW w \in World, NEW n \in PsServer
    PROVE  /\ disconnectSlaves(w, n) \in World /\ disconnectSlaves(w, n).s = w.s
           /\ disconnectSlaves(w, n).ids = w.ids
           /\ \A k \in PsServer : Cut(disconnectSlaves(w, n).l[k], w.l[k])
           /\ \A k \in PsServer : w.s[k].master = n => ~Followed(disconnectSlaves(w, n).l[k])
           /\ w.s[n].master # n => disconnectSlaves(w, n).l[n] = w.l[n]
<1>0. PICK v : v = disconnectSlaves(w, n)
    OBVIOUS
<1>1. v = Closing(w, Slaves(w, n))
    BY <1>0 DEF disconnectSlaves
<1>2. /\ v \in World /\ v.s = w.s /\ v.ids = w.ids
      /\ \A k \in PsServer : /\ Cut(v.l[k], w.l[k])
                             /\ v.l[k].open <=> (w.l[k].open /\ k \notin Slaves(w, n))
    BY <1>1, ClosingParts
<1>3. ASSUME NEW k \in PsServer, w.s[k].master = n, Followed(v.l[k]) PROVE FALSE
  <2>1. w.s[k].master = n /\ Followed(w.l[k]) /\ k \notin Slaves(w, n)
      BY <1>2, <1>3 DEF Followed, Cut
  <2> QED
      BY <2>1, SlavesAre
<1>4. ASSUME w.s[n].master # n PROVE v.l[n] = w.l[n]
  <2>1. n \notin Slaves(w, n)
      BY <1>4, SlavesAre
  <2>2. v.l[n] = [w.l[n] EXCEPT !.open = w.l[n].open /\ n \notin Slaves(w, n)]
      BY <1>1 DEF Closing, World
  <2>3. w.l[n] \in Link
      BY WorldParts
  <2>4. (w.l[n].open /\ n \notin Slaves(w, n)) = w.l[n].open
      BY <2>1, <2>3, LinkParts
  <2>5. v.l[n] = [w.l[n] EXCEPT !.open = w.l[n].open]
      BY <2>2, <2>4
  <2> QED
      BY <2>3, <2>5 DEF Link
<1> QED
    BY <1>0, <1>2, <1>3, <1>4

LEMMA DisconnectStep ==
    ASSUME NEW H, NEW w, WorldInv(H, w), NEW n \in PsServer
    PROVE  WorldInv(H, disconnectSlaves(w, n))
<1>1. w \in World
    BY DEF WorldInv
<1> QED
    BY <1>1, Disconnected, LinksStep

LEMMA ClosingStep ==
    ASSUME NEW H, NEW w, WorldInv(H, w), NEW ks, NEW v, v = Closing(w, ks)
    PROVE  WorldInv(H, v)
<1>1. w \in World
    BY DEF WorldInv
<1> QED
    BY <1>1, ClosingParts, LinksStep

\* A server changes its part in a FAILOVER.
FailoverSet(w, n, fail, force, target) ==
    [w EXCEPT !.s[n] = [w.s[n] EXCEPT !.fail = fail, !.force = force, !.target = target]]

LEMMA FailoverStep ==
    ASSUME NEW H, NEW w, WorldInv(H, w), NEW n \in PsServer,
           NEW fail \in {"none", "wait", "progress"}, NEW force \in BOOLEAN,
           NEW target \in PsServer \cup {NoServer},
           fail # "none" => target # n,
           fail = "wait" => IsMaster(w.s[n]) /\ (force => target # NoServer)
    PROVE  WorldInv(H, FailoverSet(w, n, fail, force, target))
<1> DEFINE r == [w.s[n] EXCEPT !.fail = fail, !.force = force, !.target = target]
           v == [w EXCEPT !.s[n] = r]
<1>1. w \in World /\ w.s[n] \in Server /\ w.l[n] \in Link /\ Shape(n, w.s[n], w.l[n])
    BY FitsParts
<1>2. r \in Server
    BY <1>1 DEF Server
<1>3. /\ v \in World /\ v.l = w.l /\ v.ids = w.ids /\ v.s[n] = r
      /\ \A k \in PsServer \ {n} : v.s[k] = w.s[k]
    BY <1>1, <1>2, PutServer
<1>4. Same(r, w.s[n]) /\ r.fail = fail /\ r.force = force /\ r.target = target
      /\ r.master = w.s[n].master
    BY <1>1 DEF Same, Server
<1>5. Others(w, v, n)
    BY <1>1, <1>3, WorldParts, CutSelf DEF Others
<1>6. Cut(v.l[n], w.l[n])
    BY ONLY <1>1, <1>3, CutSelf
<1>7. IsMaster(r) => v.l[n].sl = "none" /\ v.l[n].st = "none"
    BY <1>1, <1>3, <1>4 DEF IsMaster, Shape
<1>8. IsMaster(w.s[n]) => IsMaster(r)
    BY <1>4 DEF IsMaster
<1>e. (r.force => r.target # NoServer) <=> (force => target # NoServer)
    BY <1>4
<1>f. /\ r.fail # "none" => r.target # n
      /\ r.fail = "wait" => IsMaster(r) /\ (r.force => r.target # NoServer)
    BY <1>4, <1>8, <1>e
<1> HIDE DEF r, v
<1>g. /\ v.s[n].fail # "none" => v.s[n].target # n
      /\ v.s[n].fail = "wait" =>
                IsMaster(v.s[n]) /\ (v.s[n].force => v.s[n].target # NoServer)
    BY ONLY <1>3, <1>f, Zenon
<1>h. Same(v.s[n], w.s[n]) /\ (IsMaster(v.s[n]) => v.l[n].sl = "none" /\ v.l[n].st = "none")
    BY <1>3, <1>4, <1>7
<1>9. Quiet(w, v, n)
    BY <1>3, <1>5, <1>6, <1>g, <1>h DEF Quiet
<1>10. WorldInv(H, v)
    BY <1>3, <1>9, QuietStep
<1> QED
    BY <1>10 DEF FailoverSet, r, v

LEMMA ClearStep ==
    ASSUME NEW H, NEW w, WorldInv(H, w), NEW n \in PsServer
    PROVE  WorldInv(H, clearFailoverState(w, n))
<1>1. w \in World /\ w.s[n] \in Server
    BY FitsParts
<1>2. clearFailoverState(w, n) = FailoverSet(w, n, "none", FALSE, NoServer)
    BY <1>1 DEF clearFailoverState, FailoverSet, World
<1>3. PICK fail \in {"none", "wait", "progress"} : fail = "none"
    OBVIOUS
<1>4. PICK force \in BOOLEAN : force = FALSE
    OBVIOUS
<1>5. PICK target \in PsServer \cup {NoServer} : target = NoServer
    OBVIOUS
<1>6. WorldInv(H, FailoverSet(w, n, fail, force, target))
    BY <1>3, FailoverStep
<1> QED
    BY <1>2, <1>3, <1>4, <1>5, <1>6

-----------------------------------------------------------------------------
(* Changing the role.                                                        *)

\* The next ID is new to all.
LEMMA Fresh ==
    ASSUME NEW H, NEW w, WorldInv(H, w), NEW k \in PsServer
    PROVE  /\ Apart(w.ids, w.s[k], w.l[k]) /\ w.ids \in Nat \ {NoId} /\ w.ids + 1 \in Nat
           /\ w.s[k].id # w.ids /\ w.s[k].id2 # w.ids /\ w.s[k].saved.id # w.ids
           /\ w.s[k].id < w.ids /\ w.s[k].id2 < w.ids /\ w.s[k].saved.id < w.ids
           /\ w.l[k].id < w.ids /\ w.l[k].id # w.ids
<1>1. /\ w.s[k] \in Server /\ w.l[k] \in Link /\ w.ids \in Nat
      /\ Older(w.ids, w.s[k], w.l[k])
    BY FitsParts
<1>2. /\ w.s[k].id \in Nat /\ w.s[k].id2 \in Nat /\ w.s[k].saved.id \in Nat
      /\ w.l[k].id \in Nat
    BY ONLY <1>1, ServerParts, LinkParts
<1>3. /\ w.s[k].id < w.ids /\ w.s[k].id2 < w.ids /\ w.s[k].saved.id < w.ids
      /\ w.l[k].id < w.ids
    BY <1>1 DEF Older
<1>4. /\ w.s[k].id # w.ids /\ w.s[k].id2 # w.ids /\ w.s[k].saved.id # w.ids
      /\ w.l[k].id # w.ids /\ w.ids # NoId
    BY <1>1, <1>2, <1>3 DEF NoId
<1> QED
    BY <1>1, <1>3, <1>4 DEF Apart

LEMMA ApartWithin ==
    ASSUME NEW id, NEW r, NEW l, Apart(id, r, l), Online(l) => r.db # NoDatabase
    PROVE  \A H, off : UpTo(H, id, off, r, l)
    BY DEF Apart, UpTo, Witness

\* A history with another row.
WithRow(H, id, row) == [H EXCEPT ![id] = row]

LEMMA WithRowIs ==
    ASSUME NEW H \in Histories, NEW id \in Nat, NEW row \in [Nat -> Point]
    PROVE  /\ WithRow(H, id, row) \in Histories /\ WithRow(H, id, row)[id] = row
           /\ KeptBut(H, WithRow(H, id, row), id)
    BY DEF WithRow, Histories, KeptBut

\* A replica that becomes a master has a new ID.
Freed(q, ids) ==
    [q EXCEPT !.master = NoServer, !.db = NoDatabase, !.id2 = q.id,
              !.upto = q.off + 1, !.id = ids, !.sel = NoDatabase]

LEMMA FreedIs ==
    ASSUME NEW q \in Server, NEW ids \in Nat \ {NoId}
    PROVE  /\ Freed(q, ids) \in Server
           /\ Freed(q, ids).data = q.data /\ Freed(q, ids).id = ids /\ Freed(q, ids).id2 = q.id
           /\ Freed(q, ids).upto = q.off + 1 /\ Freed(q, ids).off = q.off
           /\ (Freed(q, ids).on <=> q.on) /\ Freed(q, ids).log = q.log
           /\ Freed(q, ids).sel = NoDatabase /\ Freed(q, ids).master = NoServer
           /\ Freed(q, ids).db = NoDatabase /\ Freed(q, ids).saved = q.saved
           /\ Freed(q, ids).fail = q.fail /\ (Freed(q, ids).force <=> q.force)
           /\ Freed(q, ids).target = q.target
<1>1. Freed(q, ids) \in Server
  <2>1. PICK u \in Int : u = q.off + 1
      BY ServerParts
  <2>2. PICK i \in Nat : i = q.id
      BY ServerParts
  <2>3. PICK d \in Int : d = NoDatabase
      BY PsNumbers
  <2>4. PICK z \in PsServer \cup {NoServer} : z = NoServer
      OBVIOUS
  <2>5. PICK j \in Nat \ {0} : j = ids
      BY DEF NoId
  <2>6. Freed(q, ids) = [q EXCEPT !.master = z, !.db = d, !.id2 = i, !.upto = u,
                                  !.id = j, !.sel = d]
      BY <2>1, <2>2, <2>3, <2>4, <2>5 DEF Freed
  <2>7. q \in Server
      OBVIOUS
  <2>8. [q EXCEPT !.master = z, !.db = d, !.id2 = i, !.upto = u, !.id = j, !.sel = d]
            \in Server
      BY ONLY <2>1, <2>2, <2>3, <2>4, <2>5, <2>7 DEF Server
  <2> QED
      BY ONLY <2>6, <2>8
<1> QED
    BY <1>1 DEF Freed, Server

Zeroed(w, n) == [w EXCEPT !.s[n].master = NoServer, !.s[n].db = NoDatabase,
                          !.l[n] = Link0("none")]
LEMMA ZeroedIs ==
    ASSUME NEW w \in World, NEW n \in PsServer, Link0("none") \in Link
    PROVE  /\ Zeroed(w, n) \in World /\ Zeroed(w, n).ids = w.ids
           /\ Zeroed(w, n).l = [w.l EXCEPT ![n] = Link0("none")]
           /\ Zeroed(w, n).s[n] = [w.s[n] EXCEPT !.master = NoServer, !.db = NoDatabase]
           /\ \A k \in PsServer \ {n} : Zeroed(w, n).s[k] = w.s[k]
<1>1. [w.s[n] EXCEPT !.master = NoServer, !.db = NoDatabase] \in Server
  <2>1. PICK d \in Int : d = NoDatabase
      BY PsNumbers
  <2>2. PICK z \in PsServer \cup {NoServer} : z = NoServer
      OBVIOUS
  <2>3. PICK q \in Server : q = w.s[n]
      BY WorldParts
  <2>4. [q EXCEPT !.master = z, !.db = d] \in Server
      BY DEF Server
  <2> QED
      BY <2>1, <2>2, <2>3, <2>4
<1> QED
   BY <1>1 DEF World, Zeroed, Server

LEMMA ShiftedIs ==
    ASSUME NEW w \in World, NEW n \in PsServer, w.ids # 0
    PROVE  /\ shiftReplicationId(w, n) \in World /\ shiftReplicationId(w, n).ids = w.ids + 1
           /\ shiftReplicationId(w, n).l = w.l
           /\ shiftReplicationId(w, n).s[n] =
                [w.s[n] EXCEPT !.id2 = w.s[n].id, !.upto = w.s[n].off + 1, !.id = w.ids]
           /\ \A k \in PsServer \ {n} : shiftReplicationId(w, n).s[k] = w.s[k]
<1>1. w.s \in [PsServer -> Server] /\ w.ids \in Nat \ {0} /\ w.ids + 1 \in Nat
    BY WorldParts
<1>2. [w.s[n] EXCEPT !.id2 = w.s[n].id, !.upto = w.s[n].off + 1, !.id = w.ids] \in Server
  <2>1. PICK u \in Int : u = w.s[n].off + 1
      BY <1>1, ServerParts
  <2>2. PICK i \in Nat : i = w.s[n].id
      BY <1>1, ServerParts
  <2>3. PICK j \in Nat \ {0} : j = w.ids
      BY <1>1
  <2>q. PICK q \in Server : q = w.s[n]
      BY <1>1
  <2>4. [q EXCEPT !.id2 = i, !.upto = u, !.id = j] \in Server
      BY ONLY <2>q, <2>1, <2>2, <2>3 DEF Server
  <2> QED
      BY ONLY <2>q, <2>1, <2>2, <2>3, <2>4
<1>3. PICK s \in [PsServer -> Server], l \in [PsServer -> Link], ids \in Nat :
            w = [s |-> s, l |-> l, ids |-> ids]
    BY DEF World
<1>4. PICK b : b = shiftReplicationId(w, n)
    OBVIOUS
<1>5. b = [s |-> [[[s EXCEPT ![n].id2 = s[n].id] EXCEPT ![n].upto = s[n].off + 1]
                        EXCEPT ![n].id = ids],
            l |-> l, ids |-> ids + 1]
    BY <1>3, <1>4 DEF shiftReplicationId, changeReplicationId
<1>6. [[[s EXCEPT ![n].id2 = s[n].id] EXCEPT ![n].upto = s[n].off + 1] EXCEPT ![n].id = ids]
        = [s EXCEPT ![n] = [s[n] EXCEPT !.id2 = s[n].id, !.upto = s[n].off + 1, !.id = ids]]
    BY DEF Server
<1>7. PICK f : f = [s[n] EXCEPT !.id2 = s[n].id, !.upto = s[n].off + 1, !.id = ids]
    OBVIOUS
<1>8. f \in Server /\ s = w.s /\ l = w.l /\ ids = w.ids
    BY <1>2, <1>3, <1>7
<1>9. b = [s |-> [s EXCEPT ![n] = f], l |-> l, ids |-> ids + 1]
    BY <1>5, <1>6, <1>7
<1>10. b \in World
    BY <1>1, <1>8, <1>9 DEF World
<1>11. b.s[n] = f /\ b.ids = w.ids + 1 /\ b.l = w.l /\ \A k \in PsServer \ {n} : b.s[k] = w.s[k]
    BY <1>8, <1>9
<1> QED
    BY <1>4, <1>7, <1>8, <1>10, <1>11

LEMMA UnsetMasterIs ==
    ASSUME NEW w \in World, NEW n \in PsServer, IsReplica(w, n), w.s[n].master # n,
           w.ids \in Nat \ {NoId}
    PROVE  /\ replicationUnsetMaster(w, n) \in World
           /\ replicationUnsetMaster(w, n).ids = w.ids + 1
           /\ replicationUnsetMaster(w, n).s[n] = Freed(w.s[n], w.ids)
           /\ Silent(replicationUnsetMaster(w, n).l[n])
           /\ replicationUnsetMaster(w, n).l[n].sl = "none"
           /\ replicationUnsetMaster(w, n).l[n].st = "none"
           /\ ~Followed(replicationUnsetMaster(w, n).l[n])
           /\ Others(w, replicationUnsetMaster(w, n), n)
           /\ Leading(replicationUnsetMaster(w, n), n)
<1> DEFINE q == w.s[n]
           a == [w EXCEPT !.s[n].master = NoServer, !.s[n].db = NoDatabase,
                       !.l[n] = Link0("none")]
           b == shiftReplicationId(a, n)
           c == disconnectSlaves(b, n)
           v == replicationUnsetMaster(w, n)
<1>0. /\ q \in Server /\ w.s \in [PsServer -> Server] /\ w.l \in [PsServer -> Link]
      /\ w.ids + 1 \in Nat /\ q.off + 1 \in Int
    BY WorldParts, ServerParts
<1>1. v = [c EXCEPT !.s[n].sel = NoDatabase]
    BY DEF replicationUnsetMaster
<1>2. PICK z \in Link : z = Link0("none") /\ Silent(z) /\ ~Followed(z) /\ z.sl = "none" /\ z.st = "none"
    BY ONLY LinkZero DEF Silent
<1>3. a = Zeroed(w, n)
    BY DEF Zeroed
<1>4. /\ a \in World /\ a.ids = w.ids /\ a.l = [w.l EXCEPT ![n] = z]
      /\ a.s[n] = [q EXCEPT !.master = NoServer, !.db = NoDatabase]
      /\ \A k \in PsServer \ {n} : a.s[k] = w.s[k]
  <2> HIDE DEF a
  <2> QED
      BY <1>2, <1>3, ZeroedIs
<1> HIDE DEF a
<1>5. /\ b \in World /\ b.ids = w.ids + 1 /\ b.l = [w.l EXCEPT ![n] = z]
      /\ b.s[n] = [a.s[n] EXCEPT !.id2 = a.s[n].id, !.upto = a.s[n].off + 1, !.id = a.ids]
      /\ \A k \in PsServer \ {n} : b.s[k] = w.s[k]
  <2>1. a.ids # 0
      BY <1>4 DEF NoId
  <2>2. /\ shiftReplicationId(a, n) \in World /\ shiftReplicationId(a, n).ids = a.ids + 1
        /\ shiftReplicationId(a, n).l = a.l
        /\ shiftReplicationId(a, n).s[n] =
                [a.s[n] EXCEPT !.id2 = a.s[n].id, !.upto = a.s[n].off + 1, !.id = a.ids]
        /\ \A k \in PsServer \ {n} : shiftReplicationId(a, n).s[k] = a.s[k]
      BY <1>4, <2>1, ShiftedIs
  <2> QED
      BY <1>4, <2>2
<1> HIDE DEF b
<1>6. PICK f \in Server : f = b.s[n]
    BY <1>5, WorldParts
<1>p. PICK u : u = [q EXCEPT !.master = NoServer, !.db = NoDatabase]
    OBVIOUS
<1>r. /\ [u EXCEPT !.id2 = q.id, !.upto = q.off + 1, !.id = w.ids]
            = [q EXCEPT !.master = NoServer, !.db = NoDatabase, !.id2 = q.id,
                        !.upto = q.off + 1, !.id = w.ids]
      /\ u.off = q.off /\ u.id = q.id
    BY <1>0, <1>p DEF Server
<1>s. f = [q EXCEPT !.master = NoServer, !.db = NoDatabase, !.id2 = q.id,
                    !.upto = q.off + 1, !.id = w.ids]
    BY <1>4, <1>5, <1>6, <1>p, <1>r
<1>7. /\ c \in World /\ c.s = b.s /\ c.ids = b.ids
      /\ \A k \in PsServer : Cut(c.l[k], b.l[k])
      /\ \A k \in PsServer : b.s[k].master = n => ~Followed(c.l[k])
      /\ b.s[n].master # n => c.l[n] = b.l[n]
    BY <1>5, Disconnected
<1> HIDE DEF c
<1>8. b.s[n] = f /\ b.l[n] = z
    BY <1>0, <1>5, <1>6
<1>9. f.master = NoServer
    BY ONLY <1>0, <1>s DEF Server
<1>10. [f EXCEPT !.sel = NoDatabase] = Freed(q, w.ids)
    BY <1>0, <1>s DEF Freed, Server
<1>11. Freed(q, w.ids) \in Server
    BY <1>0, FreedIs
<1>12. PICK g \in Server : g = Freed(q, w.ids)
    BY <1>11
<1>13. v = [c EXCEPT !.s[n] = g]
    BY <1>1, <1>7, <1>8, <1>10, <1>12 DEF World
<1>14. /\ v \in World /\ v.l = c.l /\ v.ids = c.ids /\ v.s[n] = g
       /\ \A k \in PsServer \ {n} : v.s[k] = c.s[k]
    BY <1>7, <1>12, <1>13 DEF World
<1>15. v.l[n] = z
    BY <1>7, <1>8, <1>9, <1>14, PsNumbers
<1> HIDE DEF v
<1>16. ASSUME NEW k \in PsServer \ {n}
       PROVE  v.s[k] = w.s[k] /\ Cut(v.l[k], w.l[k])
  <2>1. v.s[k] = w.s[k]
      BY <1>0, <1>5, <1>7, <1>14
  <2>2. b.l[k] = w.l[k]
      BY <1>0, <1>5
  <2> QED
      BY <1>7, <1>14, <2>1, <2>2
<1>17. v.ids = w.ids + 1
    BY <1>5, <1>7, <1>14
<1>18. Others(w, v, n)
    BY <1>0, <1>16, <1>17 DEF Others
<1>19. ASSUME NEW k \in PsServer \ {n}, v.s[k].master = n
       PROVE  ~Followed(v.l[k])
    BY <1>7, <1>14, <1>19
<1>20. Leading(v, n)
    BY <1>19, NoneLeading
<1> QED
    BY <1>2, <1>12, <1>14, <1>15, <1>17, <1>18, <1>20 DEF v

LEMMA UnsetMasterStep ==
    ASSUME NEW H, NEW w, WorldInv(H, w), NEW n \in PsServer
    PROVE  \E G \in Histories : WorldInv(G, replicationUnsetMaster(w, n))
<1>0. CASE ~IsReplica(w, n)
    BY <1>0 DEF replicationUnsetMaster, WorldInv
<1>1. CASE IsReplica(w, n)
  <2> DEFINE v == replicationUnsetMaster(w, n)
             q == w.s[n]
             m == w.l[n]
             id == w.ids
             G == WithRow(H, id, [o \in Nat |->
                        IF o < q.off THEN H[q.id][o]
                        ELSE [data |-> q.data, db |-> NoDatabase]])
  <2>0. /\ w \in World /\ H \in Histories /\ q \in Server /\ m \in Link /\ w.ids \in Nat
        /\ Shape(n, q, m) /\ Older(w.ids, q, m) /\ ServerAgrees(H, q)
        /\ LinkAgrees(H, q, m) /\ Linked(w.s, q, m)
        /\ Hidden(q) => \A k \in PsServer : Unheard(q.id, w.s[k], w.l[k])
        /\ IsMaster(q) => Owns(H, w, n)
        /\ Respects(H, w, n, q, m)
      BY FitsParts
  <2>1. /\ id \in Nat \ {NoId} /\ id + 1 \in Nat
        /\ q.id # id /\ q.id2 # id /\ q.saved.id # id /\ q.id < id /\ q.saved.id < id
      BY Fresh
  <2>2. /\ q.id \in Nat /\ q.id # NoId /\ q.off \in Nat /\ q.data \in Data
        /\ q.saved.id \in Nat /\ q.log \in Seq(Item) /\ Len(q.log) \in Nat /\ q.upto \in Int
      BY <2>0, ServerParts
  <2>3. q.master # n /\ q.master # NoServer /\ ~IsMaster(q)
      BY <1>1, <2>0 DEF Shape, IsReplica, IsMaster
  <2>4. /\ v \in World /\ v.ids = id + 1 /\ v.s[n] = Freed(q, id)
        /\ Silent(v.l[n]) /\ v.l[n].sl = "none" /\ v.l[n].st = "none" /\ ~Followed(v.l[n])
        /\ Others(w, v, n) /\ Leading(v, n)
      BY <1>1, <2>0, <2>1, <2>3, UnsetMasterIs
  <2>5. [o \in Nat |-> IF o < q.off THEN H[q.id][o]
                       ELSE [data |-> q.data, db |-> NoDatabase]] \in [Nat -> Point]
    <3>1. H[q.id] \in [Nat -> Point]
        BY <2>0, <2>2 DEF Histories
    <3>2. [data |-> q.data, db |-> NoDatabase] \in Point
        BY <2>2, PsNumbers DEF Point
    <3> QED
        BY <3>1, <3>2
  <2>6. /\ G \in Histories /\ KeptBut(H, G, id)
        /\ G[id] = [o \in Nat |-> IF o < q.off THEN H[q.id][o]
                                  ELSE [data |-> q.data, db |-> NoDatabase]]
      BY ONLY <2>0, <2>1, <2>5, WithRowIs
  <2> HIDE DEF G
  <2>7. G[id][q.off].data = q.data /\ G[id][q.off].db = NoDatabase
      BY <2>2, <2>6
  <2>8. \A o \in Nat : o < q.off => G[id][o] = H[q.id][o]
      BY <2>6
  <2>9. PICK r \in Server : r = Freed(q, id)
      BY ONLY <2>0, <2>1, FreedIs
  <2>10. /\ r.data = q.data /\ r.id = id /\ r.id2 = q.id /\ r.upto = q.off + 1
         /\ r.off = q.off /\ (r.on <=> q.on) /\ r.log = q.log /\ r.sel = NoDatabase
         /\ r.master = NoServer /\ r.db = NoDatabase /\ r.saved = q.saved
         /\ r.fail = q.fail /\ r.target = q.target
      BY <2>0, <2>1, <2>9, FreedIs
  <2>11. PICK l \in Link : l = v.l[n]
      BY <2>4, WorldParts
  <2>12. Silent(l) /\ l.sl = "none" /\ l.st = "none" /\ ~Followed(l)
      BY ONLY <2>4, <2>11
  <2>13. KeptBut(H, G, id) /\ Kept(G, w, n)
      BY <2>1, <2>6, Fresh, KeptApart
  <2>14. IsMaster(r) /\ (Witness(r) <=> q.on) /\ ~Hidden(r)
      BY ONLY <2>10 DEF IsMaster, Witness, Hidden
  <2>15. Shape(n, r, l)
      BY <2>0, <2>2, <2>3, <2>10, <2>12, <2>14, PsNumbers DEF Shape, Silent, IsMaster
  <2>16. Older(v.ids, r, l)
      BY <2>1, <2>2, <2>4, <2>10, <2>12 DEF Older, Silent, NoId
  <2>17. G[q.id] = H[q.id] /\ (q.saved.id # NoId => G[q.saved.id] = H[q.saved.id])
      BY ONLY <2>1, <2>2, <2>6 DEF KeptBut
  <2>18. ASSUME q.on PROVE Agree(H[q.id], G[id], q.off + 1)
    <3>1. H[q.id][q.off].data = q.data
        BY ONLY <2>0, <2>18 DEF ServerAgrees, Witness, At
    <3> QED
        BY <2>2, <2>7, <2>8, <3>1 DEF Agree, At
  <2>19. ServerAgrees(G, r)
    <3>1. r.on => Run(G[id], q.off - Len(q.log), q.log)
      <4> SUFFICES ASSUME q.on PROVE Run(G[id], q.off - Len(q.log), q.log)
          BY <2>10
      <4>1. PICK f \in Nat : f = q.off - Len(q.log)
          BY ONLY <2>0, <2>2 DEF Shape
      <4>2. Run(H[q.id], f, q.log)
          BY <2>0, <4>1 DEF ServerAgrees
      <4>3. PICK u \in Int : u = q.off + 1
          BY <2>2
      <4>4. f + Len(q.log) <= u - 1
          BY ONLY <2>2, <4>1, <4>3
      <4>5. Agree(H[q.id], G[id], u)
          BY <2>18, <4>3
      <4>6. Run(G[id], f, q.log)
          BY <2>2, <4>2, <4>4, <4>5, RunAgree
      <4> QED
          BY <4>1, <4>6
    <3>2. r.on => Agree(G[r.id2], G[r.id], r.upto)
        BY <2>10, <2>17, <2>18
    <3>3. r.saved.id # NoId => At(G[r.saved.id][r.saved.off], r.saved.data, r.saved.db)
        BY <2>0, <2>10, <2>17 DEF ServerAgrees
    <3>4. At(G[r.id][r.off], r.data, r.sel)
        BY <2>7, <2>10 DEF At
    <3> QED
        BY <2>10, <2>14, <3>1, <3>2, <3>3, <3>4 DEF ServerAgrees
  <2>20. LinkAgrees(G, r, l) /\ Linked(v.s, r, l)
      BY <2>12, SilentAgrees, NotFollowed
  <2>21. Respects(G, w, n, r, l)
    <3> SUFFICES ASSUME NEW k \in PsServer \ {n}
                 PROVE  /\ Hidden(w.s[k]) => Unheard(w.s[k].id, r, l)
                        /\ IsMaster(w.s[k]) =>
                            /\ IsMaster(r) => w.s[k].id # r.id
                            /\ IF w.s[k].on THEN UpTo(G, w.s[k].id, w.s[k].off, r, l)
                               ELSE Apart(w.s[k].id, r, l)
        BY DEF Respects
    <3>0. /\ w.s[k].id # id /\ w.s[k].id \in Nat \ {NoId} /\ w.s[k].off \in Nat
        BY <2>0, Fresh, WorldParts, ServerParts
    <3>1. /\ Hidden(w.s[k]) => Unheard(w.s[k].id, q, m)
          /\ IsMaster(w.s[k]) =>
              IF w.s[k].on THEN UpTo(H, w.s[k].id, w.s[k].off, q, m)
              ELSE Apart(w.s[k].id, q, m)
        BY <2>0 DEF Respects
    <3>2. Hidden(w.s[k]) => Unheard(w.s[k].id, r, l)
        BY <2>10, <2>12, <3>0, <3>1 DEF Unheard, Silent
    <3>3. ASSUME IsMaster(w.s[k]), w.s[k].on PROVE UpTo(G, w.s[k].id, w.s[k].off, r, l)
      <4>1. r.on /\ r.id2 = w.s[k].id => HeirUpTo(G[r.id], r.upto, w.s[k].off)
        <5> SUFFICES ASSUME r.on, r.id2 = w.s[k].id
                     PROVE  HeirUpTo(G[r.id], r.upto, w.s[k].off)
            OBVIOUS
        <5>1. Witness(q) /\ q.id = w.s[k].id
            BY <2>10 DEF Witness
        <5>2. q.off <= w.s[k].off
            BY <3>1, <3>3, <5>1 DEF UpTo
        <5> QED
            BY <2>2, <2>7, <2>10, <3>0, <5>2 DEF HeirUpTo
      <4>2. r.saved.id = w.s[k].id => r.saved.off <= w.s[k].off
          BY <2>10, <3>1, <3>3 DEF UpTo
      <4> QED
          BY ONLY <2>10, <2>12, <3>0, <4>1, <4>2 DEF UpTo, Silent
    <3>4. ASSUME IsMaster(w.s[k]), ~w.s[k].on PROVE Apart(w.s[k].id, r, l)
        BY ONLY <2>10, <2>12, <3>0, <3>1, <3>4 DEF Apart, Silent, Witness
    <3> QED
        BY <2>10, <3>0, <3>2, <3>3, <3>4
  <2>22. Owns(G, v, n)
    <3>1. r.on => G[r.id][r.off].db = r.sel
        BY <2>7, <2>10
    <3>2. ASSUME NEW k \in PsServer \ {n}
          PROVE  /\ v.s[k].id # r.id
                 /\ Apart(r.id, v.s[k], v.l[k])
                 /\ UpTo(G, r.id, r.off, v.s[k], v.l[k])
      <4>1. v.s[k] = w.s[k] /\ Cut(v.l[k], w.l[k])
          BY <2>4 DEF Others
      <4>2. Apart(id, w.s[k], w.l[k]) /\ w.s[k].id # id
          BY Fresh
      <4>3. Apart(id, w.s[k], v.l[k])
          BY <4>1, <4>2, CutSame
      <4>4. Online(w.l[k]) => w.s[k].db # NoDatabase
          BY FitsParts DEF Shape
      <4>5. Online(v.l[k]) => w.s[k].db # NoDatabase
          BY <4>1, <4>4 DEF Cut, Online
      <4> QED
          BY <2>10, <4>1, <4>2, <4>3, <4>5, ApartWithin
    <3>3. r.on => UpTo(G, r.id, r.off, r, l)
        BY <2>1, <2>2, <2>10, <2>12 DEF UpTo, Silent
    <3>4. ~r.on => Apart(r.id, r, l)
        BY <2>1, <2>10, <2>12 DEF Apart, Silent, Witness
    <3> QED
        BY ONLY <2>4, <2>9, <2>11, <3>1, <3>2, <3>3, <3>4 DEF Owns
  <2>23. Fitting(G, w, v, n)
      BY <2>4, <2>9, <2>11, <2>13, <2>14, <2>15, <2>16, <2>19, <2>20, <2>21, <2>22 DEF Fitting
  <2>24. WorldInv(G, v)
      BY <2>4, <2>6, <2>23, OneStep
  <2> QED
      BY <2>6, <2>24
<1> QED
    BY <1>0, <1>1

\* The point of a row loses its database: a SELECT is to follow.
Unselect(H, id, off, data) ==
    WithRow(H, id, [H[id] EXCEPT ![off] = [data |-> data, db |-> NoDatabase]])

LEMMA UnselectIs ==
    ASSUME NEW H \in Histories, NEW id \in Nat, NEW off \in Nat, NEW data \in Data
    PROVE  /\ Unselect(H, id, off, data) \in Histories
           /\ KeptBut(H, Unselect(H, id, off, data), id)
           /\ Unselect(H, id, off, data)[id][off].data = data
           /\ Unselect(H, id, off, data)[id][off].db = NoDatabase
           /\ H[id][off].data = data => Grown(H, Unselect(H, id, off, data), id, off)
<1>1. PICK p \in Point : p.data = data /\ p.db = NoDatabase
                         /\ p = [data |-> data, db |-> NoDatabase]
  <2>1. [data |-> data, db |-> NoDatabase] \in Point
      BY PsNumbers DEF Point
  <2> QED
      BY <2>1
<1>2. PICK old \in [Nat -> Point] : old = H[id]
    BY DEF Histories
<1>3. PICK row \in [Nat -> Point] : row = [old EXCEPT ![off] = p]
    OBVIOUS
<1>4. PICK G : G = Unselect(H, id, off, data)
    OBVIOUS
<1>5. G = WithRow(H, id, row)
    BY <1>1, <1>2, <1>3, <1>4 DEF Unselect
<1>6. G \in Histories /\ G[id] = row /\ KeptBut(H, G, id)
    BY <1>5, WithRowIs
<1>7. row[off] = p /\ \A o \in Nat : o # off => row[o] = old[o]
    BY <1>3
<1>8. ASSUME H[id][off].data = data PROVE Grown(H, G, id, off)
  <2>1. \A o \in Nat : o < off => G[id][o] = H[id][o]
      BY <1>2, <1>6, <1>7
  <2>2. At(G[id][off], H[id][off].data, H[id][off].db)
      BY <1>1, <1>6, <1>7, <1>8 DEF At
  <2> QED
      BY <1>6, <2>1, <2>2 DEF Grown
<1> QED
    BY <1>1, <1>4, <1>6, <1>7, <1>8

\* Server n forgets what database the stream is in.
Unselected(w, n) == [w EXCEPT !.s[n].sel = NoDatabase]

LEMMA UnselectedIs ==
    ASSUME NEW w \in World, NEW n \in PsServer
    PROVE  /\ Unselected(w, n) \in World /\ Unselected(w, n).ids = w.ids
           /\ Unselected(w, n).l = w.l
           /\ Unselected(w, n).s[n] = [w.s[n] EXCEPT !.sel = NoDatabase]
           /\ \A k \in PsServer \ {n} : Unselected(w, n).s[k] = w.s[k]
<1>1. [w.s[n] EXCEPT !.sel = NoDatabase] \in Server
  <2>1. PICK d \in Int : d = NoDatabase
      BY PsNumbers
  <2>2. PICK q \in Server : q = w.s[n]
      BY WorldParts
  <2>3. [q EXCEPT !.sel = d] \in Server
      BY DEF Server
  <2> QED
      BY <2>1, <2>2, <2>3
<1> QED
    BY <1>1 DEF World, Unselected, Server

\* Server r differs from q in slaveseldb only.
SelOnly(r, q) ==
    /\ r.data = q.data /\ r.id = q.id /\ r.id2 = q.id2 /\ r.upto = q.upto
    /\ r.off = q.off /\ r.on = q.on /\ r.log = q.log /\ r.master = q.master /\ r.db = q.db
    /\ r.saved = q.saved /\ r.fail = q.fail /\ r.force = q.force /\ r.target = q.target

LEMMA SelOnlySame ==
    ASSUME NEW r, NEW q, SelOnly(r, q)
    PROVE  /\ \A n, l : Shape(n, q, l) => Shape(n, r, l)
           /\ \A ids, l : Older(ids, q, l) => Older(ids, r, l)
           /\ \A H, l : LinkAgrees(H, q, l) => LinkAgrees(H, r, l)
           /\ \A s, l : Linked(s, q, l) => Linked(s, r, l)
           /\ \A H, id, off, l : UpTo(H, id, off, q, l) => UpTo(H, id, off, r, l)
           /\ \A id, l : Apart(id, q, l) => Apart(id, r, l)
           /\ \A id, l : Unheard(id, q, l) => Unheard(id, r, l)
           /\ Hidden(r) <=> Hidden(q)
           /\ IsMaster(r) <=> IsMaster(q)
<1>1. \A n, l : Shape(n, q, l) => Shape(n, r, l)
    BY DEF SelOnly, Shape, IsMaster
<1>2. \A ids, l : Older(ids, q, l) => Older(ids, r, l)
    BY DEF SelOnly, Older
<1>3. \A H, l : LinkAgrees(H, q, l) => LinkAgrees(H, r, l)
    BY DEF SelOnly, LinkAgrees
<1>4. \A s, l : Linked(s, q, l) => Linked(s, r, l)
    BY DEF SelOnly, Linked, Behind
<1>5. \A H, id, off, l : UpTo(H, id, off, q, l) => UpTo(H, id, off, r, l)
    BY DEF SelOnly, UpTo, Witness
<1>6. \A id, l : Apart(id, q, l) => Apart(id, r, l)
    BY DEF SelOnly, Apart, Witness
<1>7. \A id, l : Unheard(id, q, l) => Unheard(id, r, l)
    BY DEF SelOnly, Unheard
<1>8. Hidden(r) <=> Hidden(q)
    BY DEF SelOnly, Hidden
<1>9. IsMaster(r) <=> IsMaster(q)
    BY DEF SelOnly, IsMaster
<1> QED
    BY <1>1, <1>2, <1>3, <1>4, <1>5, <1>6, <1>7, <1>8, <1>9

\* The point that a master is at.
Standing(G, q) ==
    IsMaster(q) => G[q.id][q.off].data = q.data /\ G[q.id][q.off].db = NoDatabase

LEMMA UnselectedStep ==
    ASSUME NEW H, NEW w, WorldInv(H, w), NEW n \in PsServer
    PROVE  \E G \in Histories : WorldInv(G, Unselected(w, n)) /\ Standing(G, w.s[n])
<1> DEFINE v == Unselected(w, n)
           q == w.s[n]
           m == w.l[n]
<1>0. /\ w \in World /\ H \in Histories /\ q \in Server /\ m \in Link /\ w.ids \in Nat
      /\ Shape(n, q, m) /\ Older(w.ids, q, m) /\ ServerAgrees(H, q)
      /\ LinkAgrees(H, q, m) /\ Linked(w.s, q, m)
      /\ Hidden(q) => \A k \in PsServer : Unheard(q.id, w.s[k], w.l[k])
      /\ IsMaster(q) => Owns(H, w, n)
      /\ Respects(H, w, n, q, m)
    BY FitsParts
<1>h. WorldInv(H, w) /\ n \in PsServer
    OBVIOUS
<1>1. /\ v \in World /\ v.ids = w.ids /\ v.l = w.l
      /\ v.s[n] = [q EXCEPT !.sel = NoDatabase]
      /\ \A k \in PsServer \ {n} : v.s[k] = w.s[k]
    BY <1>0, UnselectedIs
<1> HIDE DEF v
<1>2. PICK r \in Server : r = v.s[n]
    BY <1>1, WorldParts
<1>3. SelOnly(r, q) /\ r.sel = NoDatabase
    BY <1>0, <1>1, <1>2 DEF Server, SelOnly
<1>4. /\ r.data = q.data /\ r.id = q.id /\ r.off = q.off /\ (r.on <=> q.on) /\ r.master = q.master
      /\ r.db = q.db /\ r.id2 = q.id2 /\ r.upto = q.upto /\ r.log = q.log /\ r.saved = q.saved
    BY <1>3 DEF SelOnly
<1>5. /\ q.id \in Nat \ {NoId} /\ q.off \in Nat /\ q.data \in Data
    BY <1>0, ServerParts
<1>o. v.s[n].on = w.s[n].on
    BY <1>2, <1>3 DEF SelOnly
<1>6. Others(w, v, n)
    BY <1>0, <1>1, WorldParts, CutSelf DEF Others
<1>7. /\ Shape(n, r, m) /\ Older(v.ids, r, m)
      /\ Hidden(r) <=> Hidden(q)
      /\ IsMaster(r) <=> IsMaster(q)
      /\ \A X : LinkAgrees(X, q, m) => LinkAgrees(X, r, m)
      /\ \A X, id, off : UpTo(X, id, off, q, m) => UpTo(X, id, off, r, m)
      /\ \A id : Apart(id, q, m) => Apart(id, r, m)
      /\ \A id : Unheard(id, q, m) => Unheard(id, r, m)
    BY <1>0, <1>1, <1>3, SelOnlySame
<1>8. Linked(v.s, r, m)
  <2>1. Linked(w.s, r, m)
      BY <1>0, <1>3, SelOnlySame
  <2>2. r.master # n
      BY <1>7 DEF Shape
  <2>3. r.master \in PsServer => v.s[r.master] = w.s[r.master]
      BY <1>1, <2>2
  <2> QED
      BY <2>1, <2>3 DEF Linked
<1>9. CASE ~IsMaster(q)
  <2>1. ServerAgrees(H, r)
      BY <1>0, <1>4, <1>7, <1>9 DEF ServerAgrees, Witness
  <2>2. Lesser(r, m, q, m)
      BY <1>7 DEF Lesser
  <2>3. v.l[n] = m /\ LinkAgrees(H, r, m)
      BY ONLY <1>0, <1>1, <1>7
  <2>4. Steady(H, w, v, n)
      BY <1>2, <1>4, <1>o, <1>6, <1>7, <1>8, <1>9, <2>1, <2>2, <2>3 DEF Steady
  <2>5. WorldInv(H, v)
      BY ONLY <1>h, <1>1, <2>4, SteadyStep
  <2> QED
      BY ONLY <1>0, <1>9, <2>5 DEF Standing, v
<1>10. CASE IsMaster(q)
  <2>1. PICK G : G = Unselect(H, q.id, q.off, q.data)
      OBVIOUS
  <2>h. H \in Histories
      BY ONLY <1>0
  <2>2. /\ G \in Histories /\ KeptBut(H, G, q.id)
        /\ G[q.id][q.off].data = q.data /\ G[q.id][q.off].db = NoDatabase
        /\ H[q.id][q.off].data = q.data => Grown(H, G, q.id, q.off)
    <3>1. /\ Unselect(H, q.id, q.off, q.data) \in Histories
          /\ KeptBut(H, Unselect(H, q.id, q.off, q.data), q.id)
          /\ Unselect(H, q.id, q.off, q.data)[q.id][q.off].data = q.data
          /\ Unselect(H, q.id, q.off, q.data)[q.id][q.off].db = NoDatabase
          /\ H[q.id][q.off].data = q.data
                => Grown(H, Unselect(H, q.id, q.off, q.data), q.id, q.off)
      <4>1. q.id \in Nat /\ q.off \in Nat /\ q.data \in Data
          BY ONLY <1>5
      <4> QED
          BY ONLY <4>1, <2>h, UnselectIs, Zenon
    <3> QED
        BY ONLY <2>1, <3>1, Zenon
  <2>3. q.on => Grown(H, G, q.id, q.off)
      BY ONLY <1>0, <2>2, Zenon DEF ServerAgrees, Witness, At
  <2>4. q.db = NoDatabase /\ m.sl = "none" /\ Owns(H, w, n)
      BY <1>0, <1>10 DEF Shape
  <2>5. \A k \in PsServer : /\ q.on => UpTo(H, q.id, q.off, w.s[k], w.l[k])
                            /\ ~q.on => Apart(q.id, w.s[k], w.l[k])
      BY <2>4 DEF Owns
  <2>6. Kept(G, w, n)
    <3>1. CASE q.on
        BY <1>10, <2>3, <3>1, KeptGrown
    <3>2. CASE ~q.on
        BY <1>5, <2>2, <2>5, <3>2, KeptApart
    <3> QED
        BY <3>1, <3>2
  <2>7. ServerAgrees(G, q) /\ LinkAgrees(G, q, m)
    <3>1. CASE q.on
        BY <1>0, <1>5, <2>3, <2>5, <3>1, GrownAgrees
    <3>2. CASE ~q.on
      <4>1. Apart(q.id, q, m) /\ ~Online(m)
          BY <2>4, <2>5, <3>2 DEF Online
      <4> QED
          BY <1>0, <1>5, <2>2, <4>1, ApartAgrees
    <3> QED
        BY <3>1, <3>2
  <2>8. ServerAgrees(G, r) /\ LinkAgrees(G, r, m)
      BY ONLY <1>3, <1>4, <1>7, <2>2, <2>7, Zenon DEF ServerAgrees, Witness, At
  <2>9. ASSUME NEW id \in Nat, NEW off \in Nat, UpTo(H, id, off, q, m)
        PROVE  UpTo(G, id, off, r, m)
    <3>1. CASE q.on
        BY ONLY <1>0, <1>5, <1>7, <2>3, <2>5, <2>9, <3>1, GrownUpTo
    <3>2. CASE ~q.on
      <4>1. Apart(q.id, q, m) /\ ~Online(m)
          BY <2>4, <2>5, <3>2 DEF Online
      <4> QED
          BY <1>0, <1>5, <1>7, <2>2, <2>9, <4>1, ApartUpTo
    <3> QED
        BY <3>1, <3>2
  <2>10. \A k \in PsServer : w.s[k].id \in Nat /\ w.s[k].off \in Nat
      BY ONLY <1>0, WorldParts, ServerParts
  <2>11. Respects(G, w, n, r, m)
      BY <1>0, <1>4, <1>7, <2>9, <2>10 DEF Respects
  <2>12. ASSUME NEW k \in PsServer
         PROVE  IF r.on THEN UpTo(G, r.id, r.off, v.s[k], v.l[k])
                ELSE Apart(r.id, v.s[k], v.l[k])
    <3>1. CASE k = n
        BY <1>1, <1>2, <1>4, <1>5, <1>7, <2>5, <2>9, <3>1
    <3>2. CASE k # n /\ q.on
      <4>1. w.s[k] \in Server /\ w.l[k] \in Link /\ Shape(k, w.s[k], w.l[k])
          BY FitsParts
      <4>2. UpTo(H, q.id, q.off, w.s[k], w.l[k])
          BY <2>5, <3>2
      <4>3. UpTo(G, q.id, q.off, w.s[k], w.l[k])
          BY <1>5, <2>3, <3>2, <4>1, <4>2, GrownUpTo
      <4> QED
          BY <1>1, <1>4, <3>2, <4>3
    <3>3. CASE k # n /\ ~q.on
        BY ONLY <1>1, <1>4, <2>5, <3>3
    <3> QED
        BY <3>1, <3>2, <3>3
  <2>13. Owns(G, v, n)
    <3>1. \A k \in PsServer \ {n} : IsMaster(v.s[k]) => v.s[k].id # r.id
        BY ONLY <1>1, <1>4, <2>4 DEF Owns
    <3>2. G[r.id][r.off].db = r.sel
        BY <1>3, <1>4, <2>2
    <3> QED
        BY ONLY <1>2, <2>12, <3>1, <3>2 DEF Owns
  <2>14. Leading(v, n)
      BY <1>2, <1>4, <1>o, <1>6, StillLeading
  <2>15. ~Hidden(r)
      BY <1>4, <2>4 DEF Hidden
  <2>16. v.l[n] = m
      BY <1>1
  <2>17. Fitting(G, w, v, n)
      BY ONLY <1>2, <1>6, <1>7, <1>8, <2>6, <2>8, <2>11, <2>13, <2>14, <2>15, <2>16 DEF Fitting
  <2>18. WorldInv(G, v)
      BY <1>1, <2>2, <2>17, OneStep
  <2> QED
      BY <2>2, <2>18, Zenon DEF Standing, v
<1> QED
    BY <1>9, <1>10

\* A server with another master; one that was a master caches itself.
Bound(q, m) == [q EXCEPT !.master = m, !.db = IF IsMaster(q) THEN 0 ELSE q.db]

LEMMA BoundIs ==
    ASSUME NEW q \in Server, NEW m \in PsServer
    PROVE  /\ Bound(q, m) \in Server
           /\ Bound(q, m).data = q.data /\ Bound(q, m).id = q.id /\ Bound(q, m).id2 = q.id2
           /\ Bound(q, m).upto = q.upto /\ Bound(q, m).off = q.off
           /\ (Bound(q, m).on <=> q.on) /\ Bound(q, m).log = q.log
           /\ Bound(q, m).master = m
           /\ Bound(q, m).db = (IF IsMaster(q) THEN 0 ELSE q.db)
           /\ Bound(q, m).saved = q.saved /\ Bound(q, m).fail = q.fail
           /\ (Bound(q, m).force <=> q.force) /\ Bound(q, m).target = q.target
<1>1. Bound(q, m) \in Server
  <2>1. PICK d \in Int : d = (IF IsMaster(q) THEN 0 ELSE q.db)
      BY ServerParts
  <2>2. PICK z \in PsServer \cup {NoServer} : z = m
      OBVIOUS
  <2>3. [q EXCEPT !.master = z, !.db = d] \in Server
      BY DEF Server
  <2> QED
      BY <2>1, <2>2, <2>3 DEF Bound
<1> QED
    BY <1>1 DEF Bound, Server

Pointed(w, n, m) == [w EXCEPT !.s[n].master = m, !.l[n] = Link0("connect")]

LEMMA PointedIs ==
    ASSUME NEW w \in World, NEW n \in PsServer, NEW m \in PsServer, Link0("connect") \in Link
    PROVE  /\ Pointed(w, n, m) \in World /\ Pointed(w, n, m).ids = w.ids
           /\ Pointed(w, n, m).l = [w.l EXCEPT ![n] = Link0("connect")]
           /\ Pointed(w, n, m).s[n] = [w.s[n] EXCEPT !.master = m]
           /\ \A k \in PsServer \ {n} : Pointed(w, n, m).s[k] = w.s[k]
<1>1. [w.s[n] EXCEPT !.master = m] \in Server
  <2>1. PICK z \in PsServer \cup {NoServer} : z = m
      OBVIOUS
  <2>2. PICK q \in Server : q = w.s[n]
      BY WorldParts
  <2>3. [q EXCEPT !.master = z] \in Server
      BY ONLY DEF Server
  <2> QED
      BY <2>1, <2>2, <2>3
<1> QED
    BY <1>1 DEF World, Pointed, Server

CachedSelf(w, n) == [w EXCEPT !.s[n].db = 0]

LEMMA CachedSelfIs ==
    ASSUME NEW w \in World, NEW n \in PsServer
    PROVE  /\ CachedSelf(w, n) \in World /\ CachedSelf(w, n).ids = w.ids
           /\ CachedSelf(w, n).l = w.l
           /\ CachedSelf(w, n).s[n] = [w.s[n] EXCEPT !.db = 0]
           /\ \A k \in PsServer \ {n} : CachedSelf(w, n).s[k] = w.s[k]
<1>1. [w.s[n] EXCEPT !.db = 0] \in Server
  <2>1. PICK d \in Int : d = 0
      OBVIOUS
  <2>2. PICK q \in Server : q = w.s[n]
      BY WorldParts
  <2>3. [q EXCEPT !.db = d] \in Server
      BY DEF Server
  <2> QED
      BY <2>1, <2>2, <2>3
<1> QED
    BY <1>1 DEF World, CachedSelf, Server

LEMMA SetMasterIs ==
    ASSUME NEW w \in World, NEW n \in PsServer, NEW m \in PsServer, m # n
    PROVE  /\ replicationSetMaster(w, n, m) \in World
           /\ replicationSetMaster(w, n, m).ids = w.ids
           /\ replicationSetMaster(w, n, m).s[n] = Bound(w.s[n], m)
           /\ Silent(replicationSetMaster(w, n, m).l[n])
           /\ ~Followed(replicationSetMaster(w, n, m).l[n])
           /\ Others(w, replicationSetMaster(w, n, m), n)
           /\ Leading(replicationSetMaster(w, n, m), n)
<1> DEFINE q == w.s[n]
           b == Pointed(w, n, m)
           c == disconnectSlaves(b, n)
           v == replicationSetMaster(w, n, m)
<1>0. q \in Server /\ w.ids \in Nat /\ w.l \in [PsServer -> Link]
    BY WorldParts
<1>1. v = IF IsMaster(q) THEN CachedSelf(c, n) ELSE c
    BY DEF replicationSetMaster, Pointed, CachedSelf, IsReplica, IsMaster
<1>2. PICK z \in Link : z = Link0("connect") /\ Silent(z) /\ ~Followed(z)
    BY LinkZero DEF Silent
<1>3. /\ b \in World /\ b.ids = w.ids /\ b.l = [w.l EXCEPT ![n] = z]
      /\ b.s[n] = [q EXCEPT !.master = m]
      /\ \A k \in PsServer \ {n} : b.s[k] = w.s[k]
    BY ONLY <1>2, PointedIs
<1> HIDE DEF b
<1>4. /\ c \in World /\ c.s = b.s /\ c.ids = b.ids
      /\ \A k \in PsServer : Cut(c.l[k], b.l[k])
      /\ \A k \in PsServer : b.s[k].master = n => ~Followed(c.l[k])
      /\ b.s[n].master # n => c.l[n] = b.l[n]
    BY <1>3, Disconnected
<1> HIDE DEF c
<1>5. b.s[n].master = m
    BY <1>0, <1>3 DEF Server
<1>6. c.l[n] = z
    BY <1>0, <1>3, <1>4, <1>5
<1>7. /\ CachedSelf(c, n) \in World /\ CachedSelf(c, n).ids = c.ids
      /\ CachedSelf(c, n).l = c.l
      /\ CachedSelf(c, n).s[n] = [c.s[n] EXCEPT !.db = 0]
      /\ \A k \in PsServer \ {n} : CachedSelf(c, n).s[k] = c.s[k]
    BY <1>4, CachedSelfIs
<1>8. v \in World /\ v.ids = w.ids /\ v.l = c.l /\ \A k \in PsServer \ {n} : v.s[k] = w.s[k]
  <2>1. CASE IsMaster(q)
      BY <1>1, <1>3, <1>4, <1>7, <2>1
  <2>2. CASE ~IsMaster(q)
      BY <1>1, <1>3, <1>4, <2>2
  <2> QED
      BY <2>1, <2>2
<1>9. v.s[n] = Bound(q, m)
  <2>1. CASE IsMaster(q)
    <3>1. v.s[n] = [[q EXCEPT !.master = m] EXCEPT !.db = 0]
        BY <1>1, <1>3, <1>4, <1>7, <2>1
    <3>2. Bound(q, m) = [q EXCEPT !.master = m, !.db = 0]
        BY <2>1 DEF Bound
    <3> QED
        BY <1>0, <3>1, <3>2
  <2>2. CASE ~IsMaster(q)
    <3>1. v.s[n] = [q EXCEPT !.master = m]
        BY <1>1, <1>3, <1>4, <2>2
    <3>2. Bound(q, m) = [q EXCEPT !.master = m, !.db = q.db]
        BY <2>2 DEF Bound
    <3> QED
        BY ONLY <1>0, <3>1, <3>2 DEF Server
  <2> QED
      BY <2>1, <2>2
<1> HIDE DEF v
<1>10. ASSUME NEW k \in PsServer \ {n}
       PROVE  v.s[k] = w.s[k] /\ Cut(v.l[k], w.l[k])
  <2>1. b.l[k] = w.l[k]
      BY <1>0, <1>3
  <2> QED
      BY <1>4, <1>8, <2>1
<1>11. Others(w, v, n)
    BY <1>0, <1>8, <1>10 DEF Others
<1>12. ASSUME NEW k \in PsServer \ {n}, v.s[k].master = n
       PROVE  ~Followed(v.l[k])
    BY <1>3, <1>4, <1>8, <1>12
<1>13. Leading(v, n)
    BY <1>12, NoneLeading
<1> QED
    BY <1>2, <1>6, <1>8, <1>9, <1>11, <1>13 DEF v

LEMMA SetMasterStep ==
    ASSUME NEW H, NEW w, WorldInv(H, w), NEW n \in PsServer, NEW m \in PsServer, m # n,
           w.s[n].fail # "wait"
    PROVE  \E G \in Histories : WorldInv(G, replicationSetMaster(w, n, m))
<1> DEFINE v == replicationSetMaster(w, n, m)
           p == w.s[n]
<1>0. w \in World /\ p \in Server /\ w.ids \in Nat
    BY FitsParts
<1>1. /\ v \in World /\ v.ids = w.ids /\ v.s[n] = Bound(p, m)
      /\ Silent(v.l[n]) /\ ~Followed(v.l[n])
      /\ Others(w, v, n) /\ Leading(v, n)
    BY <1>0, SetMasterIs
<1> HIDE DEF v
<1>2. PICK G \in Histories : WorldInv(G, Unselected(w, n)) /\ Standing(G, p)
    BY UnselectedStep
<1>3. PICK u : u = Unselected(w, n)
    OBVIOUS
<1>4. /\ u \in World /\ u.ids = w.ids /\ u.l = w.l
      /\ u.s[n] = [p EXCEPT !.sel = NoDatabase]
      /\ \A k \in PsServer \ {n} : u.s[k] = w.s[k]
    BY <1>0, <1>3, UnselectedIs
<1>5. WorldInv(G, u)
    BY <1>2, <1>3
<1>6. PICK q : q = u.s[n]
    OBVIOUS
<1>7. PICK o : o = u.l[n]
    OBVIOUS
<1>8. /\ q \in Server /\ o \in Link /\ u.ids \in Nat
      /\ Shape(n, q, o) /\ Older(u.ids, q, o) /\ ServerAgrees(G, q)
      /\ Hidden(q) => \A k \in PsServer : Unheard(q.id, u.s[k], u.l[k])
      /\ IsMaster(q) => Owns(G, u, n)
      /\ Respects(G, u, n, q, o)
    BY <1>5, <1>6, <1>7, FitsParts
<1>9. SelOnly(q, p)
    BY <1>0, <1>4, <1>6 DEF SelOnly, Server
<1>10. PICK r \in Server : r = Bound(p, m)
    BY <1>0, BoundIs
<1>11. /\ r.data = q.data /\ r.id = q.id /\ r.id2 = q.id2 /\ r.upto = q.upto /\ r.off = q.off
       /\ (r.on <=> q.on) /\ r.log = q.log /\ r.master = m
       /\ r.db = (IF IsMaster(q) THEN 0 ELSE q.db)
       /\ r.saved = q.saved /\ r.fail = q.fail /\ r.target = q.target
    BY <1>0, <1>9, <1>10, BoundIs DEF SelOnly, IsMaster
<1>12. PICK l \in Link : l = v.l[n]
    BY <1>1, WorldParts
<1>13. Silent(l) /\ ~Followed(l) /\ v.s[n] = r
    BY <1>1, <1>10, <1>12
<1>14. ~IsMaster(r)
    BY <1>11, PsNumbers DEF IsMaster
<1>15. q.id \in Nat \ {NoId} /\ q.off \in Nat
    BY ONLY <1>8, ServerParts
<1>16. IsMaster(q) => G[q.id][q.off].data = q.data /\ G[q.id][q.off].db = NoDatabase
    BY <1>2, <1>9 DEF Standing, SelOnly, IsMaster
<1>17. ASSUME NEW k \in PsServer \ {n}
       PROVE  v.s[k] = u.s[k] /\ Cut(v.l[k], u.l[k])
    BY <1>1, <1>4 DEF Others
<1>18. Others(u, v, n)
    BY <1>1, <1>4, <1>8, <1>17 DEF Others
<1>19. Kept(G, u, n)
    BY ONLY <1>5, KeptSame
<1>20. Shape(n, r, l)
    BY <1>0, <1>8, <1>9, <1>11, <1>13, <1>14, PsNumbers DEF Shape, Silent, SelOnly
<1>21. Older(v.ids, r, l)
    BY <1>1, <1>4, <1>8, <1>11, <1>13, <1>15 DEF Older, Silent, NoId
<1>22. ServerAgrees(G, r)
  <2>1. ASSUME Witness(r) PROVE At(G[r.id][r.off], r.data, r.db)
    <3>1. CASE IsMaster(q)
        BY <1>11, <1>16, <3>1 DEF At
    <3>2. CASE ~IsMaster(q)
        BY <1>8, <1>11, <2>1, <3>2 DEF ServerAgrees, Witness
    <3> QED
        BY <3>1, <3>2
  <2>2. /\ r.on => Run(G[r.id], r.off - Len(r.log), r.log)
        /\ r.on /\ r.id2 # NoId => Agree(G[r.id2], G[r.id], r.upto)
        /\ r.saved.id # NoId => At(G[r.saved.id][r.saved.off], r.saved.data, r.saved.db)
      BY <1>8, <1>11 DEF ServerAgrees
  <2> QED
      BY <1>14, <2>1, <2>2 DEF ServerAgrees
<1>23. LinkAgrees(G, r, l) /\ Linked(v.s, r, l)
    BY <1>13, SilentAgrees, NotFollowed
<1>24. ASSUME NEW k \in PsServer \ {n}
       PROVE  /\ Hidden(u.s[k]) => Unheard(u.s[k].id, r, l)
              /\ IsMaster(u.s[k]) =>
                  /\ IsMaster(r) => u.s[k].id # r.id
                  /\ IF u.s[k].on THEN UpTo(G, u.s[k].id, u.s[k].off, r, l)
                     ELSE Apart(u.s[k].id, r, l)
  <2>0. /\ Hidden(u.s[k]) => Unheard(u.s[k].id, q, o)
        /\ IsMaster(u.s[k]) =>
            /\ IsMaster(q) => u.s[k].id # q.id
            /\ IF u.s[k].on THEN UpTo(G, u.s[k].id, u.s[k].off, q, o)
               ELSE Apart(u.s[k].id, q, o)
      BY <1>8 DEF Respects
  <2>1. Hidden(u.s[k]) => Unheard(u.s[k].id, r, l)
      BY <1>11, <1>13, <2>0 DEF Unheard, Silent
  <2>2. ASSUME IsMaster(u.s[k])
        PROVE  Witness(r) /\ r.id = u.s[k].id => Witness(q)
      BY <1>11, <2>0, <2>2 DEF Witness
  <2>3. ASSUME IsMaster(u.s[k]), u.s[k].on
        PROVE  UpTo(G, u.s[k].id, u.s[k].off, r, l)
      BY <1>11, <1>13, <2>0, <2>2, <2>3 DEF UpTo, Silent
  <2>4. ASSUME IsMaster(u.s[k]), ~u.s[k].on
        PROVE  Apart(u.s[k].id, r, l)
      BY <1>11, <1>13, <2>0, <2>2, <2>4 DEF Apart, Silent
  <2> QED
      BY <1>14, <2>1, <2>3, <2>4
<1>25. Respects(G, u, n, r, l)
    BY <1>24 DEF Respects
<1>26. ASSUME Hidden(r), NEW k \in PsServer PROVE Unheard(r.id, v.s[k], v.l[k])
  <2>0. ~r.on
      BY <1>26 DEF Hidden
  <2>1. CASE k = n
      BY <1>12, <1>13, <2>0, <2>1 DEF Unheard, Silent
  <2>2. CASE k # n /\ ~IsMaster(q)
    <3>1. Hidden(q)
        BY <1>11, <1>26, <2>2 DEF Hidden
    <3>2. Unheard(r.id, u.s[k], u.l[k])
        BY <1>8, <1>11, <3>1
    <3> QED
        BY <1>17, <2>2, <3>2, CutSame
  <2>3. CASE k # n /\ IsMaster(q)
    <3>1. Apart(r.id, u.s[k], u.l[k])
        BY <1>6, <1>8, <1>11, <2>0, <2>3 DEF Owns
    <3>2. Online(u.l[k]) => u.s[k].db # NoDatabase
        BY <1>5, FitsParts DEF Shape
    <3>3. Unheard(r.id, u.s[k], u.l[k])
        BY <3>1, <3>2 DEF Apart, Unheard, Witness
    <3> QED
        BY ONLY <1>17, <2>3, <3>3, CutSame
  <2> QED
      BY <2>1, <2>2, <2>3
<1>27. Fitting(G, u, v, n)
    BY <1>1, <1>12, <1>13, <1>14, <1>18, <1>19, <1>20, <1>21, <1>22, <1>23, <1>25, <1>26
       DEF Fitting
<1>28. WorldInv(G, v)
    BY <1>1, <1>5, <1>27, OneStep
<1> QED
    BY <1>28 DEF v

LEMMA AbortStep ==
    ASSUME NEW H, NEW w, WorldInv(H, w), NEW n \in PsServer
    PROVE  \E G \in Histories : WorldInv(G, abortFailover(w, n))
<1>1. PICK v : v = (IF w.s[n].fail = "progress" THEN replicationUnsetMaster(w, n) ELSE w)
    OBVIOUS
<1>2. \E G \in Histories : WorldInv(G, v)
    BY <1>1, UnsetMasterStep DEF WorldInv
<1>3. abortFailover(w, n) = clearFailoverState(v, n)
    BY <1>1 DEF abortFailover
<1> QED
    BY <1>2, <1>3, ClearStep

-----------------------------------------------------------------------------
(* The master's side.                                                        *)

\* The history of the master is the one that the replica has, or goes on from it.
LEMMA KnownAgrees ==
    ASSUME NEW H, NEW r \in Server, NEW q \in Server, NEW off \in Nat, off = q.off + 1,
           KnownHistory(r, q.id, off), r.on, ServerAgrees(H, r),
           Witness(q), ~IsMaster(q), ServerAgrees(H, q)
    PROVE  /\ At(H[r.id][q.off], q.data, q.db)
           /\ q.id # r.id => Agree(H[q.id], H[r.id], off)
           /\ q.id # r.id => q.id = r.id2 /\ off <= r.upto
<1>1. q.id = r.id \/ (q.id = r.id2 /\ off <= r.upto)
    BY DEF KnownHistory
<1>2. At(H[q.id][q.off], q.data, q.db)
    BY DEF ServerAgrees
<1>3. q.id \in Nat /\ q.id # NoId /\ r.upto \in Int /\ q.off \in Nat
    BY ServerParts
<1>4. ASSUME q.id # r.id
      PROVE  Agree(H[q.id], H[r.id], off) /\ At(H[r.id][q.off], H[q.id][q.off].data, H[q.id][q.off].db)
  <2>1. q.id = r.id2 /\ off <= r.upto
      BY <1>1, <1>4
  <2>2. Agree(H[q.id], H[r.id], r.upto)
      BY <1>3, <2>1 DEF ServerAgrees
  <2>3. Agree(H[q.id], H[r.id], off)
      BY <1>3, <2>1, <2>2, AgreeLess
  <2>4. PICK a : a = H[q.id]
      OBVIOUS
  <2>5. PICK b : b = H[r.id]
      OBVIOUS
  <2>6. PICK o \in Nat : o = q.off
      BY <1>3
  <2>7. Agree(a, b, off) /\ o <= off - 1
      BY <2>3, <2>4, <2>5, <2>6
  <2>8. At(b[o], a[o].data, a[o].db)
      BY <2>7, AgreeTop
  <2> QED
      BY <2>3, <2>4, <2>5, <2>6, <2>8
<1>5. At(H[r.id][q.off], q.data, q.db)
  <2>1. CASE q.id = r.id
      BY <1>2, <2>1
  <2>2. CASE q.id # r.id
      BY <1>2, <1>4, <2>2, AtWeaker
  <2> QED
      BY <2>1, <2>2
<1> QED
    BY <1>1, <1>4, <1>5

\* What the backlog gives leads from the replica's offset to the master's.
LEMMA BacklogGives ==
    ASSUME NEW H, NEW r \in Server, NEW off \in Nat, InBacklog(r, off), ServerAgrees(H, r)
    PROVE  /\ addReplyReplicationBacklog(r, off) \in Seq(Item)
           /\ off - 1 + Len(addReplyReplicationBacklog(r, off)) = r.off
           /\ Run(H[r.id], off - 1, addReplyReplicationBacklog(r, off))
<1>1. r.off \in Nat /\ r.log \in Seq(Item) /\ Len(r.log) \in Nat
    BY ServerParts
<1>2. /\ r.on /\ off >= r.off - Len(r.log) + 1 /\ off <= r.off + 1
    BY <1>1 DEF InBacklog
<1>3. PICK f \in Int : f = r.off - Len(r.log)
    BY <1>1
<1>4. PICK i \in Int : i = off - f
    BY <1>3
<1>5. PICK row : row = H[r.id]
    OBVIOUS
<1>6. PICK items \in Seq(Item) : items = r.log
    BY <1>1
<1>7. Run(row, f, items)
    BY <1>2, <1>3, <1>5, <1>6 DEF ServerAgrees
<1>8. PICK start \in Int : start = off - 1
    OBVIOUS
<1>y. PICK y \in Nat : y = Len(r.log)
    BY <1>1
<1>z. PICK z \in Nat : z = r.off
    BY <1>1
<1>v. Len(items) = y /\ f = z - y /\ off >= z - y + 1 /\ off <= z + 1
    BY <1>2, <1>3, <1>6, <1>y, <1>z
<1>u. 1 <= i /\ i <= y + 1 /\ start = f + i - 1 /\ start + (y - i + 1) = z
    BY <1>4, <1>8, <1>v
<1>9. 1 <= i /\ i <= Len(items) + 1 /\ start = f + i - 1
    BY <1>u, <1>v
<1>10. /\ SubSeq(items, i, Len(items)) \in Seq(Item)
       /\ Len(SubSeq(items, i, Len(items))) = Len(items) - i + 1
       /\ Run(row, start, SubSeq(items, i, Len(items)))
    BY <1>7, <1>9, RunRest
<1>11. addReplyReplicationBacklog(r, off) = SubSeq(items, i, Len(items))
    BY <1>3, <1>4, <1>6 DEF addReplyReplicationBacklog
<1>12. start + (Len(items) - i + 1) = r.off
    BY <1>u, <1>v, <1>z
<1> QED
    BY <1>5, <1>8, <1>10, <1>11, <1>12

\* The link of a replica that goes on from the backlog of its master.
Resumed(w, m, n) ==
    [w.l[n] EXCEPT !.sl = "online", !.id = w.s[m].id,
                   !.buf = addReplyReplicationBacklog(w.s[m], w.s[n].off + 1)]

LEMMA ResumeStep ==
    ASSUME NEW H, NEW w, WorldInv(H, w), NEW n \in PsServer, NEW m \in PsServer,
           w.s[n].master = m, w.l[n].st = "psync",
           masterTryPartialResynchronization(w, m, n)
    PROVE  WorldInv(H, WithLink(w, n, Resumed(w, m, n)))
<1>1. PICK q : q = w.s[n]
    OBVIOUS
<1>2. PICK r : r = w.s[m]
    OBVIOUS
<1>3. /\ w \in World /\ q \in Server /\ w.l[n] \in Link /\ w.ids \in Nat
      /\ Shape(n, q, w.l[n]) /\ Older(w.ids, q, w.l[n]) /\ ServerAgrees(H, q)
      /\ Hidden(q) => \A k \in PsServer : Unheard(q.id, w.s[k], w.l[k])
    BY <1>1, FitsParts
<1>4. r \in Server /\ Older(w.ids, r, w.l[m]) /\ ServerAgrees(H, r) /\ Shape(m, r, w.l[m])
    BY <1>2, FitsParts
<1>5. PICK off \in Nat : off = q.off + 1
    BY <1>3, ServerParts
<1>6. q.db # NoDatabase /\ KnownHistory(r, q.id, off) /\ InBacklog(r, off)
    BY <1>1, <1>2, <1>5 DEF masterTryPartialResynchronization
<1>7. r.on /\ Witness(q) /\ Witness(r) /\ ~IsMaster(q)
    BY <1>1, <1>6, PsNumbers DEF InBacklog, Witness, IsMaster
<1>8. /\ q.id \in Nat /\ q.id # NoId /\ q.off \in Nat /\ r.id \in Nat /\ r.id # NoId
      /\ r.off \in Nat /\ r.upto \in Int
    BY <1>3, <1>4, ServerParts
<1>9. /\ At(H[r.id][q.off], q.data, q.db)
      /\ q.id # r.id => Agree(H[q.id], H[r.id], off)
      /\ q.id # r.id => q.id = r.id2 /\ off <= r.upto
    BY <1>3, <1>4, <1>5, <1>6, <1>7, KnownAgrees
<1>10. PICK buf : buf = addReplyReplicationBacklog(r, off)
    OBVIOUS
<1>11. buf \in Seq(Item) /\ off - 1 + Len(buf) = r.off /\ Run(H[r.id], off - 1, buf)
    BY <1>4, <1>6, <1>10, BacklogGives
<1>12. off - 1 = q.off /\ q.off + Len(buf) = r.off /\ Run(H[r.id], q.off, buf)
  <2>1. off - 1 = q.off
      BY <1>5, <1>8
  <2> QED
      BY <1>11, <2>1
<1>13. PICK l : l = Resumed(w, m, n)
    OBVIOUS
<1>14. /\ l \in Link /\ l.st = "psync" /\ l.sl = "online" /\ l.id = r.id /\ l.buf = buf
  <2>1. l = [w.l[n] EXCEPT !.sl = "online", !.id = r.id, !.buf = buf]
      BY <1>1, <1>2, <1>5, <1>10, <1>13 DEF Resumed
  <2>2. l \in Link
      BY <1>3, <1>8, <1>11, <2>1 DEF Link
  <2> QED
      BY <1>3, <2>1, <2>2 DEF Link
<1>15. Online(l) /\ ~Serving(l)
    BY <1>14 DEF Online, Serving
<1>16. Shape(n, q, l)
    BY <1>3, <1>6, <1>7, <1>8, <1>14, <1>15 DEF Shape
<1>17. Older(w.ids, q, l)
    BY <1>3, <1>4, <1>14 DEF Older
<1>18. LinkAgrees(H, q, l)
    BY <1>5, <1>9, <1>12, <1>14, <1>15 DEF LinkAgrees
<1>19. Linked(w.s, q, l)
    BY <1>1, <1>2, <1>7, <1>12, <1>14, <1>15 DEF Linked, Behind
<1>20. ASSUME NEW j \in PsServer
       PROVE  /\ Hidden(w.s[j]) => Unheard(w.s[j].id, q, l)
              /\ IsMaster(w.s[j]) =>
                  IF w.s[j].on THEN UpTo(H, w.s[j].id, w.s[j].off, q, l)
                  ELSE Apart(w.s[j].id, q, l)
  <2>0. /\ w.s[j] \in Server
        /\ Hidden(w.s[j]) => Unheard(w.s[j].id, r, w.l[m]) /\ Unheard(w.s[j].id, q, w.l[n])
        /\ IsMaster(w.s[j]) => Owns(H, w, j)
      BY <1>1, <1>2, FitsParts
  <2>1. PICK id \in Nat : id = w.s[j].id
      BY <2>0, ServerParts
  <2>2. PICK x \in Nat : x = w.s[j].off
      BY <2>0, ServerParts
  <2>3. ASSUME Hidden(w.s[j]) PROVE Unheard(id, q, l)
    <3>1. Unheard(id, r, w.l[m]) /\ Unheard(id, q, w.l[n])
        BY <2>0, <2>1, <2>3
    <3>2. r.id # id /\ r.id2 # id
        BY <1>7, <3>1 DEF Unheard
    <3>3. q.id # id
        BY <1>9, <3>2
    <3> QED
        BY <1>14, <3>1, <3>2, <3>3 DEF Unheard
  <2>4. ASSUME IsMaster(w.s[j]), w.s[j].on PROVE UpTo(H, id, x, q, l)
    <3>1. UpTo(H, id, x, r, w.l[m]) /\ UpTo(H, id, x, q, w.l[n])
        BY <1>1, <1>2, <2>0, <2>1, <2>2, <2>4 DEF Owns
    <3>2. r.id = id => r.off <= x
        BY <1>7, <3>1 DEF UpTo
    <3>3. ASSUME q.id = id, l.id # id PROVE HeirUpTo(H[l.id], q.off + 1, x)
      <4>1. r.id2 = id /\ off <= r.upto
          BY <1>9, <1>14, <3>3
      <4>2. HeirUpTo(H[r.id], r.upto, x)
          BY <1>7, <3>1, <4>1 DEF UpTo
      <4> QED
          BY <1>5, <1>8, <1>14, <4>1, <4>2 DEF HeirUpTo
    <3> QED
        BY ONLY <1>12, <1>14, <1>15, <3>1, <3>2, <3>3 DEF UpTo
  <2>5. ASSUME IsMaster(w.s[j]), ~w.s[j].on PROVE Apart(id, q, l)
    <3>1. Apart(id, r, w.l[m]) /\ Apart(id, q, w.l[n])
        BY <1>1, <1>2, <2>0, <2>1, <2>5 DEF Owns
    <3> QED
        BY <1>7, <1>14, <3>1 DEF Apart
  <2> QED
      BY <2>1, <2>2, <2>3, <2>4, <2>5
<1>21. Admitted(H, w, n, l)
    BY <1>1, <1>7, <1>14, <1>16, <1>17, <1>18, <1>19, <1>20 DEF Admitted
<1> QED
    BY <1>13, <1>21, AdmitStep

\* A master with a new ID, with or without a backlog.
Renewed(q, ids, on) ==
    [q EXCEPT !.id = ids, !.id2 = NoId, !.upto = -1, !.on = on, !.log = <<>>]

LEMMA RenewedIs ==
    ASSUME NEW q \in Server, NEW ids \in Nat \ {NoId}, NEW on \in BOOLEAN
    PROVE  /\ Renewed(q, ids, on) \in Server
           /\ Renewed(q, ids, on).data = q.data /\ Renewed(q, ids, on).id = ids
           /\ Renewed(q, ids, on).id2 = NoId /\ Renewed(q, ids, on).upto = -1
           /\ Renewed(q, ids, on).off = q.off
           /\ (Renewed(q, ids, on).on <=> on) /\ Renewed(q, ids, on).log = <<>>
           /\ Renewed(q, ids, on).sel = q.sel /\ Renewed(q, ids, on).master = q.master
           /\ Renewed(q, ids, on).db = q.db /\ Renewed(q, ids, on).saved = q.saved
           /\ Renewed(q, ids, on).fail = q.fail /\ (Renewed(q, ids, on).force <=> q.force)
           /\ Renewed(q, ids, on).target = q.target
<1>1. Renewed(q, ids, on) \in Server
  <2>1. PICK u \in Int : u = -1
      OBVIOUS
  <2>2. PICK i \in Nat : i = NoId
      BY PsNumbers
  <2>3. PICK j \in Nat \ {0} : j = ids
      BY DEF NoId
  <2>e. <<>> \in Seq(Item)
      OBVIOUS
  <2>4. PICK e \in Seq(Item) : e = <<>>
      BY <2>e
  <2>5. [q EXCEPT !.id = j, !.id2 = i, !.upto = u, !.on = on, !.log = e] \in Server
      BY DEF Server
  <2> QED
      BY <2>1, <2>2, <2>3, <2>4, <2>5 DEF Renewed
<1> QED
    BY <1>1 DEF Renewed, Server

LEMMA ChangeIdIs ==
    ASSUME NEW w \in World, NEW n \in PsServer, w.ids # 0
    PROVE  /\ changeReplicationId(w, n) \in World
           /\ changeReplicationId(w, n).ids = w.ids + 1 /\ changeReplicationId(w, n).l = w.l
           /\ changeReplicationId(w, n).s[n] = [w.s[n] EXCEPT !.id = w.ids]
           /\ \A k \in PsServer \ {n} : changeReplicationId(w, n).s[k] = w.s[k]
<1>1. w.s \in [PsServer -> Server] /\ w.ids \in Nat \ {0} /\ w.ids + 1 \in Nat
    BY WorldParts
<1>2. [w.s[n] EXCEPT !.id = w.ids] \in Server
  <2>1. PICK j \in Nat \ {0} : j = w.ids
      BY <1>1
  <2>2. PICK q \in Server : q = w.s[n]
      BY <1>1
  <2>3. [q EXCEPT !.id = j] \in Server
      BY DEF Server
  <2> QED
      BY <2>1, <2>2, <2>3
<1> QED
    BY <1>1, <1>2 DEF changeReplicationId, World, Server

LEMMA ClearId2Is ==
    ASSUME NEW w \in World, NEW n \in PsServer
    PROVE  /\ clearReplicationId2(w, n) \in World
           /\ clearReplicationId2(w, n).ids = w.ids /\ clearReplicationId2(w, n).l = w.l
           /\ clearReplicationId2(w, n).s[n] = [w.s[n] EXCEPT !.id2 = NoId, !.upto = -1]
           /\ \A k \in PsServer \ {n} : clearReplicationId2(w, n).s[k] = w.s[k]
<1>1. [w.s[n] EXCEPT !.id2 = NoId, !.upto = -1] \in Server
  <2>1. PICK u \in Int : u = -1
      OBVIOUS
  <2>2. PICK i \in Nat : i = NoId
      BY PsNumbers
  <2>3. PICK q \in Server : q = w.s[n]
      BY WorldParts
  <2>4. [q EXCEPT !.id2 = i, !.upto = u] \in Server
      BY DEF Server
  <2> QED
      BY <2>1, <2>2, <2>3, <2>4
<1> QED
    BY <1>1 DEF clearReplicationId2, World, Server

NewBacklog(w, n) ==
    [clearReplicationId2(changeReplicationId(w, n), n)
        EXCEPT !.s[n] = createReplicationBacklog(@)]
NoBacklog(w, n) ==
    [clearReplicationId2(changeReplicationId(w, n), n)
        EXCEPT !.s[n] = freeReplicationBacklog(@)]

LEMMA BacklogsAre ==
    ASSUME NEW w \in World, NEW n \in PsServer, w.ids # 0
    PROVE  /\ NewBacklog(w, n) \in World /\ NewBacklog(w, n).ids = w.ids + 1
           /\ NewBacklog(w, n).l = w.l /\ NewBacklog(w, n).s[n] = Renewed(w.s[n], w.ids, TRUE)
           /\ \A k \in PsServer \ {n} : NewBacklog(w, n).s[k] = w.s[k]
           /\ NoBacklog(w, n) \in World /\ NoBacklog(w, n).ids = w.ids + 1
           /\ NoBacklog(w, n).l = w.l /\ NoBacklog(w, n).s[n] = Renewed(w.s[n], w.ids, FALSE)
           /\ \A k \in PsServer \ {n} : NoBacklog(w, n).s[k] = w.s[k]
<1> DEFINE b == changeReplicationId(w, n)
           c == clearReplicationId2(b, n)
<1>1. /\ b \in World /\ b.ids = w.ids + 1 /\ b.l = w.l
      /\ b.s[n] = [w.s[n] EXCEPT !.id = w.ids]
      /\ \A k \in PsServer \ {n} : b.s[k] = w.s[k]
    BY ChangeIdIs
<1> HIDE DEF b
<1>2. /\ c \in World /\ c.ids = b.ids /\ c.l = b.l
      /\ c.s[n] = [b.s[n] EXCEPT !.id2 = NoId, !.upto = -1]
      /\ \A k \in PsServer \ {n} : c.s[k] = b.s[k]
    BY <1>1, ClearId2Is
<1> HIDE DEF c
<1>3. PICK q \in Server : q = w.s[n]
    BY WorldParts
<1>4. [c.s[n] EXCEPT !.on = TRUE, !.log = <<>>] = Renewed(q, w.ids, TRUE)
    BY <1>1, <1>2, <1>3 DEF Renewed, Server
<1>5. [c.s[n] EXCEPT !.on = FALSE, !.log = <<>>] = Renewed(q, w.ids, FALSE)
    BY <1>1, <1>2, <1>3 DEF Renewed, Server
<1>6. w.ids \in Nat \ {NoId}
    BY WorldParts DEF NoId
<1>7. PICK r \in Server : r = Renewed(q, w.ids, TRUE)
    BY <1>6, RenewedIs
<1>8. PICK s \in Server : s = Renewed(q, w.ids, FALSE)
    BY <1>6, RenewedIs
<1>9. NewBacklog(w, n) = [c EXCEPT !.s[n] = r]
    BY <1>4, <1>7 DEF NewBacklog, createReplicationBacklog, c, b
<1>10. NoBacklog(w, n) = [c EXCEPT !.s[n] = s]
    BY <1>5, <1>8 DEF NoBacklog, freeReplicationBacklog, c, b
<1>11. /\ [c EXCEPT !.s[n] = r] \in World /\ [c EXCEPT !.s[n] = r].ids = w.ids + 1
       /\ [c EXCEPT !.s[n] = r].l = w.l /\ [c EXCEPT !.s[n] = r].s[n] = r
       /\ \A k \in PsServer \ {n} : [c EXCEPT !.s[n] = r].s[k] = w.s[k]
    BY <1>1, <1>2 DEF World
<1>12. /\ [c EXCEPT !.s[n] = s] \in World /\ [c EXCEPT !.s[n] = s].ids = w.ids + 1
       /\ [c EXCEPT !.s[n] = s].l = w.l /\ [c EXCEPT !.s[n] = s].s[n] = s
       /\ \A k \in PsServer \ {n} : [c EXCEPT !.s[n] = s].s[k] = w.s[k]
    BY <1>1, <1>2 DEF World
<1> QED
    BY <1>3, <1>7, <1>8, <1>9, <1>10, <1>11, <1>12

\* Server n of v is the master n of w with a new ID.
Renews(w, v, n, on) ==
    /\ v \in World /\ v.ids = w.ids + 1 /\ v.l = w.l
    /\ v.s[n] = Renewed(w.s[n], w.ids, on)
    /\ \A k \in PsServer \ {n} : v.s[k] = w.s[k]

LEMMA RenewStep ==
    ASSUME NEW H, NEW w, WorldInv(H, w), NEW n \in PsServer, IsMaster(w.s[n]),
           \A k \in PsServer : w.s[k].master = n => ~Followed(w.l[k]),
           NEW on \in BOOLEAN, NEW v, Renews(w, v, n, on)
    PROVE  \E G \in Histories : WorldInv(G, v)
<1> DEFINE q == w.s[n]
           m == w.l[n]
           id == w.ids
           G == WithRow(H, id, [o \in Nat |-> [data |-> q.data, db |-> q.sel]])
<1>0. /\ w \in World /\ H \in Histories /\ q \in Server /\ m \in Link /\ w.ids \in Nat
      /\ Shape(n, q, m) /\ Older(w.ids, q, m) /\ ServerAgrees(H, q)
      /\ LinkAgrees(H, q, m) /\ Linked(w.s, q, m)
      /\ IsMaster(q) => Owns(H, w, n)
      /\ Respects(H, w, n, q, m)
    BY FitsParts
<1>1. /\ id \in Nat \ {NoId} /\ id + 1 \in Nat /\ Apart(id, q, m)
      /\ q.id # id /\ q.id2 # id /\ q.saved.id # id /\ q.saved.id < id /\ m.id < id
    BY Fresh
<1>2. /\ q.id \in Nat \ {NoId} /\ q.off \in Nat /\ q.data \in Data /\ q.sel \in Int
      /\ q.saved.id \in Nat
    BY ONLY <1>0, ServerParts
<1>3. [o \in Nat |-> [data |-> q.data, db |-> q.sel]] \in [Nat -> Point]
    BY <1>2 DEF Point
<1>4. /\ G \in Histories /\ KeptBut(H, G, id)
      /\ G[id] = [o \in Nat |-> [data |-> q.data, db |-> q.sel]]
    BY ONLY <1>0, <1>1, <1>3, WithRowIs
<1> HIDE DEF G
<1>5. G[id][q.off].data = q.data /\ G[id][q.off].db = q.sel
    BY <1>2, <1>4
<1>6. PICK r \in Server : r = Renewed(q, id, on)
    BY ONLY <1>0, <1>1, RenewedIs
<1>7. /\ r.data = q.data /\ r.id = id /\ r.id2 = NoId /\ r.upto = -1 /\ r.off = q.off
      /\ (r.on <=> on) /\ r.log = <<>> /\ r.sel = q.sel /\ r.master = q.master
      /\ r.db = q.db /\ r.saved = q.saved /\ r.fail = q.fail
      /\ (r.force <=> q.force) /\ r.target = q.target
    BY <1>0, <1>1, <1>6, RenewedIs
<1>8. /\ v \in World /\ v.ids = id + 1 /\ v.l = w.l /\ v.s[n] = r
      /\ \A k \in PsServer \ {n} : v.s[k] = w.s[k]
    BY <1>6 DEF Renews
<1>9. /\ IsMaster(r) /\ q.db = NoDatabase /\ m.sl = "none" /\ ~Online(m) /\ ~Serving(m)
      /\ ~Followed(m) /\ ~Hidden(r) /\ (Witness(r) <=> r.on)
    BY <1>0, <1>7 DEF Shape, IsMaster, Online, Serving, Followed, Hidden, Witness
<1>10. Others(w, v, n)
    BY ONLY <1>0, <1>8, WorldParts, CutSelf DEF Others
<1>11. Kept(G, w, n)
    BY <1>1, <1>4, Fresh, KeptApart
<1>12. Shape(n, r, m)
  <2>1. Len(<<>>) = 0 /\ q.upto \in Int
      BY <1>0, ServerParts
  <2> QED
      BY <1>0, <1>2, <1>7, <1>9, <2>1 DEF Shape, IsMaster
<1>13. Older(v.ids, r, m)
  <2>1. m.id \in Nat
      BY <1>0, LinkParts
  <2> QED
      BY <1>1, <1>2, <1>7, <1>8, <2>1 DEF Older, NoId
<1>14. ServerAgrees(G, q) /\ LinkAgrees(G, r, m)
  <2>1. ServerAgrees(G, q)
      BY ONLY <1>0, <1>1, <1>4, <1>9, ApartAgrees
  <2> QED
      BY ONLY <1>9, <2>1 DEF LinkAgrees
<1>15. ServerAgrees(G, r)
  <2>1. At(G[r.id][r.off], r.data, r.sel)
      BY <1>5, <1>7 DEF At
  <2>2. Run(G[r.id], r.off - Len(r.log), r.log)
      BY ONLY <1>7 DEF Run
  <2>3. r.saved.id # NoId => At(G[r.saved.id][r.saved.off], r.saved.data, r.saved.db)
      BY <1>7, <1>14 DEF ServerAgrees
  <2> QED
      BY ONLY <1>7, <1>9, <2>1, <2>2, <2>3 DEF ServerAgrees
<1>16. Linked(v.s, r, m)
    BY <1>9, NotFollowed
<1>17. Leading(v, n)
    BY <1>8, NoneLeading
<1>18. ASSUME NEW k \in PsServer \ {n}
       PROVE  /\ Hidden(w.s[k]) => Unheard(w.s[k].id, r, m)
              /\ IsMaster(w.s[k]) =>
                  /\ IsMaster(r) => w.s[k].id # r.id
                  /\ IF w.s[k].on THEN UpTo(G, w.s[k].id, w.s[k].off, r, m)
                     ELSE Apart(w.s[k].id, r, m)
  <2>1. w.s[k].id # id /\ w.s[k].id \in Nat \ {NoId}
      BY <1>0, Fresh, WorldParts, ServerParts
  <2>2. IsMaster(w.s[k]) =>
                 IF w.s[k].on THEN UpTo(H, w.s[k].id, w.s[k].off, q, m)
                 ELSE Apart(w.s[k].id, q, m)
      BY <1>0 DEF Respects
  <2>3. Unheard(w.s[k].id, r, m)
      BY ONLY <1>7, <1>9, <2>1 DEF Unheard
  <2>4. IsMaster(w.s[k]) /\ w.s[k].on => UpTo(G, w.s[k].id, w.s[k].off, r, m)
      BY <1>7, <1>9, <2>1, <2>2 DEF UpTo
  <2>5. IsMaster(w.s[k]) /\ ~w.s[k].on => Apart(w.s[k].id, r, m)
      BY <1>7, <1>9, <2>1, <2>2 DEF Apart
  <2> QED
      BY <1>7, <2>1, <2>3, <2>4, <2>5
<1>19. Respects(G, w, n, r, m)
    BY <1>18 DEF Respects
<1>20. Owns(G, v, n)
  <2>1. ASSUME NEW k \in PsServer \ {n}
        PROVE  v.s[k].id # r.id /\ Apart(r.id, v.s[k], v.l[k]) /\ UpTo(G, r.id, r.off, v.s[k], v.l[k])
    <3>1. Apart(id, w.s[k], w.l[k]) /\ w.s[k].id # id
        BY Fresh
    <3>2. Online(w.l[k]) => w.s[k].db # NoDatabase
        BY FitsParts DEF Shape
    <3> QED
        BY <1>7, <1>8, <3>1, <3>2, ApartWithin
  <2>2. UpTo(G, r.id, r.off, r, m)
      BY <1>1, <1>2, <1>7, <1>9 DEF UpTo
  <2>3. ~r.on => Apart(r.id, r, m)
      BY ONLY <1>1, <1>7, <1>9 DEF Apart
  <2>4. G[r.id][r.off].db = r.sel
      BY <1>5, <1>7
  <2> QED
      BY <1>8, <2>1, <2>2, <2>3, <2>4 DEF Owns
<1>21. Fitting(G, w, v, n)
    BY <1>8, <1>9, <1>10, <1>11, <1>12, <1>13, <1>14, <1>15, <1>16, <1>17, <1>19, <1>20
       DEF Fitting
<1>22. WorldInv(G, v)
    BY <1>4, <1>8, <1>21, OneStep
<1> QED
    BY <1>4, <1>22

\* The link of a replica for which the child was started.
Forked(w, m, k) ==
    [w.l[k] EXCEPT !.sl = "end", !.id = w.s[m].id, !.off = w.s[m].off,
                   !.snap = w.s[m].data, !.db = StreamDb(w.s[m])]

LEMMA ForkIs ==
    ASSUME NEW w \in World, NEW m \in PsServer
    PROVE  /\ startBgsaveForReplication(w, m).s = Unselected(w, m).s
           /\ startBgsaveForReplication(w, m).ids = w.ids
           /\ startBgsaveForReplication(w, m).l =
                [k \in PsServer |-> IF k \in Slaves(w, m) \ Fed(w, m) THEN Forked(w, m, k)
                                    ELSE w.l[k]]
           /\ startBgsaveForReplication(w, m).l \in [PsServer -> Link]
                => startBgsaveForReplication(w, m) \in World
<1> DEFINE links == [k \in PsServer |->
            IF k \in Slaves(w, m) \ Fed(w, m)
            THEN [w.l[k] EXCEPT !.sl = "end", !.id = w.s[m].id,
                    !.off = w.s[m].off, !.snap = w.s[m].data,
                    !.db = StreamDb(w.s[m])]
            ELSE w.l[k]]
<1>1. startBgsaveForReplication(w, m) = [w EXCEPT !.s[m].sel = NoDatabase, !.l = links]
    BY DEF startBgsaveForReplication
<1>2. links = [k \in PsServer |-> IF k \in Slaves(w, m) \ Fed(w, m) THEN Forked(w, m, k)
                                  ELSE w.l[k]]
    BY DEF Forked
<1> HIDE DEF links
<1>3. [w EXCEPT !.s[m].sel = NoDatabase, !.l = links].s = Unselected(w, m).s
    BY DEF World, Unselected
<1>4. /\ [w EXCEPT !.s[m].sel = NoDatabase, !.l = links].l = links
      /\ [w EXCEPT !.s[m].sel = NoDatabase, !.l = links].ids = w.ids
    BY DEF World
<1>5. ASSUME links \in [PsServer -> Link]
      PROVE  [w EXCEPT !.s[m].sel = NoDatabase, !.l = links] \in World
  <2>1. PICK x \in Int : x = NoDatabase
      BY PsNumbers
  <2>2. PICK q \in Server : q = [w.s[m] EXCEPT !.sel = x]
    <3>1. w.s[m] \in Server
        BY WorldParts
    <3> QED
        BY <3>1 DEF Server
  <2>3. [w EXCEPT !.s[m].sel = x, !.l = links] = [w EXCEPT !.s[m] = q, !.l = links]
      BY <2>2
  <2>4. [w EXCEPT !.s[m] = q, !.l = links] \in World
      BY <1>5 DEF World
  <2> QED
      BY <2>1, <2>3, <2>4
<1> QED
    BY <1>1, <1>2, <1>3, <1>4, <1>5

LEMMA ForkedAdmitted ==
    ASSUME NEW G, NEW w \in World, NEW m \in PsServer, NEW u, u = Unselected(w, m),
           WorldInv(G, u), Standing(G, w.s[m]), NEW k \in Slaves(w, m) \ Fed(w, m)
    PROVE  Admitted(G, u, k, Forked(w, m, k))
<1>1. PICK q : q = w.s[k]
    OBVIOUS
<1>2. PICK r : r = w.s[m]
    OBVIOUS
<1>3. PICK o : o = w.l[k]
    OBVIOUS
<1>4. k \in PsServer /\ q.master = m /\ Followed(o) /\ o.sl = "start"
    BY <1>1, <1>3, SlavesAre
<1>5. /\ u.ids = w.ids /\ u.l = w.l /\ u.s[m] = [r EXCEPT !.sel = NoDatabase]
      /\ \A j \in PsServer \ {m} : u.s[j] = w.s[j]
    BY <1>2, UnselectedIs
<1>6. PICK p : p = u.s[m]
    OBVIOUS
<1>7. r \in Server
    BY <1>2, WorldParts
<1>8. SelOnly(p, r)
    BY <1>5, <1>6, <1>7 DEF SelOnly, Server
<1>9. /\ p \in Server /\ Shape(m, p, u.l[m]) /\ Older(u.ids, p, u.l[m]) /\ ServerAgrees(G, p)
    BY <1>6, FitsParts
<1>10. k # m
  <2>1. CASE k = m
    <3>1. p.master = m
        BY <1>1, <1>2, <1>4, <1>8, <2>1 DEF SelOnly
    <3> QED
        BY <1>9, <3>1 DEF Shape
  <2> QED
      BY <2>1
<1>11. u.s[k] = q /\ u.l[k] = o
    BY <1>1, <1>3, <1>4, <1>5, <1>10
<1>12. /\ q \in Server /\ o \in Link /\ Shape(k, q, o) /\ Older(u.ids, q, o)
       /\ Linked(u.s, q, o)
    BY <1>4, <1>11, FitsParts
<1>13. p.on /\ o.buf = <<>> /\ ~Online(o)
    BY <1>4, <1>6, <1>12 DEF Linked, Shape, Online
<1>14. /\ p.id = r.id /\ p.off = r.off /\ p.data = r.data /\ p.db = r.db /\ p.master = r.master
    BY <1>8 DEF SelOnly
<1>15. r.id \in Nat /\ r.id # NoId /\ r.off \in Nat /\ r.data \in Data /\ r.sel \in Int /\ r.db \in Int
    BY <1>7, ServerParts
<1>16. PICK d \in Int : d = StreamDb(r)
    BY <1>15 DEF StreamDb
<1>17. d # NoDatabase /\ At(G[r.id][r.off], r.data, d)
  <2>1. CASE IsMaster(r)
    <3>1. G[r.id][r.off].data = r.data /\ G[r.id][r.off].db = NoDatabase
        BY <1>2, <2>1 DEF Standing
    <3>2. d # NoDatabase
        BY <1>16, <2>1, PsNumbers DEF StreamDb, IsMaster
    <3> QED
        BY ONLY <3>1, <3>2 DEF At
  <2>2. CASE ~IsMaster(r)
    <3>1. d = r.db /\ ~IsMaster(p)
        BY <1>14, <1>16, <2>2 DEF StreamDb, IsMaster
    <3>2. At(G[p.id][p.off], p.data, p.db)
        BY <1>9, <1>13, <3>1 DEF ServerAgrees, Witness
    <3>3. p.db # NoDatabase
        BY <1>9, <1>13, <3>1 DEF Shape
    <3> QED
        BY <1>14, <3>1, <3>2, <3>3
  <2> QED
      BY <2>1, <2>2
<1>18. PICK l : l = Forked(w, m, k)
    OBVIOUS
<1>19. /\ l \in Link /\ l.st = o.st /\ l.sl = "end" /\ l.id = r.id /\ l.off = r.off
       /\ l.snap = r.data /\ l.db = d /\ l.buf = <<>>
  <2>1. l = [o EXCEPT !.sl = "end", !.id = r.id, !.off = r.off, !.snap = r.data, !.db = d]
      BY <1>2, <1>3, <1>16, <1>18 DEF Forked
  <2>2. l \in Link
      BY <1>12, <1>15, <2>1 DEF Link
  <2> QED
      BY <1>12, <1>13, <2>1, <2>2 DEF Link
<1>20. Serving(l) /\ ~Online(l)
    BY <1>19 DEF Serving, Online
<1>21. Shape(k, q, l)
  <2>1. o.st \notin {"online", "transfer"}
      BY <1>4, <1>12, <1>13 DEF Shape, Serving
  <2>2. ~IsMaster(q)
      BY <1>4, PsNumbers DEF IsMaster
  <2> QED
      BY <1>12, <1>15, <1>17, <1>19, <1>20, <2>1, <2>2 DEF Shape
<1>22. Older(u.ids, q, l)
    BY <1>9, <1>12, <1>14, <1>19 DEF Older
<1>23. LinkAgrees(G, q, l)
  <2>1. Run(G[l.id], l.off, l.buf)
      BY <1>19 DEF Run
  <2> QED
      BY <1>17, <1>19, <1>20, <2>1 DEF LinkAgrees
<1>24. Linked(u.s, q, l)
    BY <1>4, <1>6, <1>13, <1>14, <1>15, <1>19, <1>20 DEF Linked, Behind
<1>25. ASSUME NEW j \in PsServer
       PROVE  /\ Hidden(u.s[j]) => Unheard(u.s[j].id, q, l)
              /\ IsMaster(u.s[j]) =>
                  IF u.s[j].on THEN UpTo(G, u.s[j].id, u.s[j].off, q, l)
                  ELSE Apart(u.s[j].id, q, l)
  <2>0. /\ Hidden(u.s[j]) => Unheard(u.s[j].id, p, u.l[m]) /\ Unheard(u.s[j].id, q, o)
        /\ IsMaster(u.s[j]) => Owns(G, u, j)
      BY <1>4, <1>6, <1>11, FitsParts
  <2>1. PICK id : id = u.s[j].id
      OBVIOUS
  <2>2. PICK x : x = u.s[j].off
      OBVIOUS
  <2>3. ASSUME Hidden(u.s[j]) PROVE Unheard(id, q, l)
      BY <1>13, <1>14, <1>19, <1>20, <2>0, <2>1, <2>3 DEF Unheard
  <2>4. ASSUME IsMaster(u.s[j]), u.s[j].on PROVE UpTo(G, id, x, q, l)
    <3>1. UpTo(G, id, x, p, u.l[m]) /\ UpTo(G, id, x, q, o)
        BY <1>4, <1>6, <1>11, <2>0, <2>1, <2>2, <2>4 DEF Owns
    <3>2. p.id = id => p.off <= x
        BY <1>13, <3>1 DEF UpTo, Witness
    <3>3. l.off + Len(l.buf) = r.off
        BY <1>15, <1>19
    <3> QED
        BY ONLY <1>14, <1>19, <1>20, <3>1, <3>2, <3>3 DEF UpTo
  <2>5. ASSUME IsMaster(u.s[j]), ~u.s[j].on PROVE Apart(id, q, l)
    <3>1. Apart(id, p, u.l[m]) /\ Apart(id, q, o)
        BY <1>4, <1>6, <1>11, <2>0, <2>1, <2>5 DEF Owns
    <3> QED
        BY ONLY <1>13, <1>14, <1>19, <3>1 DEF Apart, Witness
  <2> QED
      BY <2>1, <2>2, <2>3, <2>4, <2>5
<1>26. ~IsMaster(q)
    BY <1>4, PsNumbers DEF IsMaster
<1>27. Admitted(G, u, k, l)
    BY <1>11, <1>19, <1>21, <1>22, <1>23, <1>24, <1>25, <1>26 DEF Admitted
<1> QED
    BY <1>18, <1>27

LEMMA ForkStep ==
    ASSUME NEW H, NEW w, WorldInv(H, w), NEW m \in PsServer
    PROVE  \E G \in Histories : WorldInv(G, startBgsaveForReplication(w, m))
<1>0. w \in World
    BY DEF WorldInv
<1>1. PICK G \in Histories : WorldInv(G, Unselected(w, m)) /\ Standing(G, w.s[m])
    BY UnselectedStep
<1>2. PICK u : u = Unselected(w, m)
    OBVIOUS
<1>3. PICK v : v = startBgsaveForReplication(w, m)
    OBVIOUS
<1>4. u \in World /\ u.l = w.l /\ u.ids = w.ids /\ WorldInv(G, u)
    BY <1>0, <1>1, <1>2, UnselectedIs
<1>5. /\ v.s = u.s /\ v.ids = w.ids
      /\ v.l = [k \in PsServer |-> IF k \in Slaves(w, m) \ Fed(w, m) THEN Forked(w, m, k)
                                   ELSE w.l[k]]
      /\ v.l \in [PsServer -> Link] => v \in World
    BY <1>0, <1>2, <1>3, ForkIs
<1>6. ASSUME NEW k \in PsServer
      PROVE  v.l[k] \in Link /\ (Cut(v.l[k], u.l[k]) \/ Admitted(G, u, k, v.l[k]))
  <2>1. CASE k \in Slaves(w, m) \ Fed(w, m)
    <3>1. v.l[k] = Forked(w, m, k)
        BY <1>5, <2>1
    <3>2. Admitted(G, u, k, Forked(w, m, k))
        BY <1>0, <1>1, <1>2, <1>4, <2>1, ForkedAdmitted
    <3> QED
        BY <3>1, <3>2 DEF Admitted
  <2>2. CASE k \notin Slaves(w, m) \ Fed(w, m)
    <3>1. v.l[k] = u.l[k]
        BY <1>4, <1>5, <2>2
    <3> QED
        BY <1>4, <3>1, WorldParts, CutSelf
  <2> QED
      BY <2>1, <2>2
<1>7. v.l \in [PsServer -> Link]
    BY <1>5, <1>6
<1>8. v \in World
    BY <1>5, <1>7
<1>9. WorldInv(G, v)
    BY <1>4, <1>5, <1>6, <1>8, LinksStep
<1> QED
    BY <1>3, <1>9

\* The RDB file that is made for replica k serves replica n, too.
Shared(w, k) == [w.l[k] EXCEPT !.st = "psync", !.ack = 0]

LEMMA SharedAdmitted ==
    ASSUME NEW H, NEW w, WorldInv(H, w), NEW m \in PsServer, NEW n \in PsServer,
           w.s[n].master = m, NEW k \in Slaves(w, m), w.l[k].sl = "end"
    PROVE  Admitted(H, w, n, Shared(w, k))
<1>1. PICK q : q = w.s[n]
    OBVIOUS
<1>2. PICK o : o = w.l[k]
    OBVIOUS
<1>3. k \in PsServer /\ w.s[k].master = m /\ Followed(o)
    BY <1>2, SlavesAre
<1>4. o \in Link /\ Shape(k, w.s[k], o) /\ Older(w.ids, w.s[k], o) /\ LinkAgrees(H, w.s[k], o)
      /\ Linked(w.s, w.s[k], o)
    BY <1>2, <1>3, FitsParts
<1>5. Serving(o) /\ ~Online(o)
    BY <1>2 DEF Serving, Online
<1>6. q \in Server /\ Shape(n, q, w.l[n]) /\ Older(w.ids, q, w.l[n]) /\ w \in World
    BY <1>1, FitsParts
<1>7. ~IsMaster(q)
    BY <1>1, PsNumbers DEF IsMaster
<1>8. PICK l : l = Shared(w, k)
    OBVIOUS
<1>9. /\ l \in Link /\ l.st = "psync" /\ l.sl = "end" /\ l.id = o.id /\ l.off = o.off
      /\ l.snap = o.snap /\ l.db = o.db /\ l.buf = o.buf
  <2>1. l = [o EXCEPT !.st = "psync", !.ack = 0]
      BY <1>2, <1>8 DEF Shared
  <2>2. l \in Link
      BY <1>4, <2>1 DEF Link
  <2> QED
      BY <1>2, <1>4, <2>1, <2>2 DEF Link
<1>10. Serving(l) /\ ~Online(l)
    BY <1>9 DEF Serving, Online
<1>11. Shape(n, q, l)
    BY <1>4, <1>5, <1>6, <1>7, <1>9, <1>10 DEF Shape
<1>12. Older(w.ids, q, l)
    BY <1>4, <1>6, <1>9 DEF Older
<1>13. LinkAgrees(H, q, l)
    BY <1>4, <1>5, <1>9, <1>10 DEF LinkAgrees
<1>14. Linked(w.s, q, l)
  <2>1. w.s[m].on /\ o.id = w.s[m].id /\ Behind(w.s[k], o) = w.s[m].off
      BY <1>2, <1>3, <1>4 DEF Linked
  <2>2. Behind(q, l) = Behind(w.s[k], o)
      BY <1>5, <1>9, <1>10 DEF Behind
  <2> QED
      BY <1>1, <1>9, <2>1, <2>2 DEF Linked
<1>15. ASSUME NEW j \in PsServer
       PROVE  /\ Hidden(w.s[j]) => Unheard(w.s[j].id, q, l)
              /\ IsMaster(w.s[j]) =>
                  IF w.s[j].on THEN UpTo(H, w.s[j].id, w.s[j].off, q, l)
                  ELSE Apart(w.s[j].id, q, l)
  <2>0. /\ Hidden(w.s[j]) => Unheard(w.s[j].id, w.s[k], o) /\ Unheard(w.s[j].id, q, w.l[n])
        /\ IsMaster(w.s[j]) => Owns(H, w, j)
      BY <1>1, <1>2, <1>3, FitsParts
  <2>1. PICK id : id = w.s[j].id
      OBVIOUS
  <2>2. PICK x : x = w.s[j].off
      OBVIOUS
  <2>3. ASSUME Hidden(w.s[j]) PROVE Unheard(id, q, l)
      BY <1>5, <1>9, <1>10, <2>0, <2>1, <2>3 DEF Unheard
  <2>4. ASSUME IsMaster(w.s[j]), w.s[j].on PROVE UpTo(H, id, x, q, l)
    <3>1. UpTo(H, id, x, w.s[k], o) /\ UpTo(H, id, x, q, w.l[n])
        BY <1>1, <1>2, <1>3, <2>0, <2>1, <2>2, <2>4 DEF Owns
    <3> QED
        BY ONLY <1>5, <1>9, <1>10, <3>1 DEF UpTo
  <2>5. ASSUME IsMaster(w.s[j]), ~w.s[j].on PROVE Apart(id, q, l)
    <3>1. Apart(id, w.s[k], o) /\ Apart(id, q, w.l[n])
        BY <1>1, <1>2, <1>3, <2>0, <2>1, <2>5 DEF Owns
    <3> QED
        BY ONLY <1>5, <1>9, <3>1 DEF Apart
  <2> QED
      BY <2>1, <2>2, <2>3, <2>4, <2>5
<1>16. Admitted(H, w, n, l)
    BY <1>1, <1>7, <1>9, <1>11, <1>12, <1>13, <1>14, <1>15 DEF Admitted
<1> QED
    BY <1>8, <1>16

-----------------------------------------------------------------------------
(* Synchronisation at the master.                                            *)

\* Replica n has sent PSYNC to m.
Asking(w, m, n) ==
    /\ w.s[n].master = m /\ Silent(w.l[n])
    /\ w.l[n].st = "psync" /\ w.l[n].sl = "none" /\ w.l[n].buf = <<>>

\* It is to have a full resynchronisation.
Started(w, n) == [w EXCEPT !.l[n].sl = "start"]
Backed(w, m, n) == IF w.s[m].on THEN Started(w, n) ELSE NewBacklog(Started(w, n), m)

LEMMA StartedIs ==
    ASSUME NEW w \in World, NEW n \in PsServer, Silent(w.l[n]), w.l[n].st = "psync",
           w.l[n].buf = <<>>
    PROVE  /\ Started(w, n) \in World /\ Started(w, n).s = w.s /\ Started(w, n).ids = w.ids
           /\ Silent(Started(w, n).l[n]) /\ Started(w, n).l[n].sl = "start"
           /\ Started(w, n) = WithLink(w, n, Started(w, n).l[n])
           /\ \A k \in PsServer \ {n} : Started(w, n).l[k] = w.l[k]
<1>1. w.l[n] \in Link
    BY WorldParts
<1>2. PICK l : l = [w.l[n] EXCEPT !.sl = "start"]
    OBVIOUS
<1>3. l \in Link
    BY ONLY <1>1, <1>2 DEF Link
<1>4. Silent(l) /\ l.sl = "start"
    BY <1>1, <1>2, <1>3 DEF Silent, Link, Serving, Online
<1>5. Started(w, n) = WithLink(w, n, l)
    BY <1>2 DEF Started, WithLink, World
<1>6. /\ WithLink(w, n, l) \in World /\ WithLink(w, n, l).s = w.s
      /\ WithLink(w, n, l).ids = w.ids /\ WithLink(w, n, l).l[n] = l
      /\ \A k \in PsServer \ {n} : WithLink(w, n, l).l[k] = w.l[k]
    BY <1>3, WithLinkIs
<1> QED
    BY <1>4, <1>5, <1>6

\* Who has no backlog has no replicas.
LEMMA NoneFollows ==
    ASSUME NEW H, NEW w, WorldInv(H, w), NEW m \in PsServer, ~w.s[m].on
    PROVE  \A k \in PsServer : w.s[k].master = m => ~Followed(w.l[k])
<1> SUFFICES ASSUME NEW k \in PsServer, w.s[k].master = m, Followed(w.l[k]) PROVE FALSE
    OBVIOUS
<1>1. Linked(w.s, w.s[k], w.l[k])
    BY FitsParts
<1> QED
    BY <1>1 DEF Linked

LEMMA BackedStep ==
    ASSUME NEW H, NEW w, WorldInv(H, w), NEW m \in PsServer, NEW n \in PsServer,
           Asking(w, m, n), w.s[m].on \/ IsMaster(w.s[m])
    PROVE  /\ \E G \in Histories : WorldInv(G, Backed(w, m, n))
           /\ Backed(w, m, n).s[n] = w.s[n]
<1>0. /\ w.s[n].master = m /\ Silent(w.l[n])
      /\ w.l[n].st = "psync" /\ w.l[n].sl = "none" /\ w.l[n].buf = <<>>
    BY DEF Asking
<1>1. /\ w \in World /\ w.ids \in Nat /\ H \in Histories
      /\ Shape(n, w.s[n], w.l[n])
    BY FitsParts
<1>2. m # n /\ ~IsMaster(w.s[n])
    BY <1>0, <1>1, PsNumbers DEF Shape, IsMaster
<1>3. PICK a : a = Started(w, n)
    OBVIOUS
<1>4. /\ a \in World /\ a.s = w.s /\ a.ids = w.ids
      /\ Silent(a.l[n]) /\ a.l[n].sl = "start" /\ a = WithLink(w, n, a.l[n])
      /\ \A k \in PsServer \ {n} : a.l[k] = w.l[k]
    BY <1>0, <1>1, <1>3, StartedIs
<1>5. CASE w.s[m].on
  <2>1. Linked(w.s, w.s[n], a.l[n])
      BY <1>0, <1>4, <1>5 DEF Linked
  <2>2. Admitted(H, w, n, a.l[n])
      BY <1>2, <1>4, <2>1, SilentAdmitted
  <2>3. WorldInv(H, a)
      BY <1>4, <2>2, AdmitStep
  <2>4. Backed(w, m, n) = a
      BY <1>3, <1>5 DEF Backed
  <2> QED
      BY <1>1, <1>4, <2>3, <2>4
<1>6. CASE ~w.s[m].on
  <2>0. IsMaster(w.s[m])
      BY <1>6
  <2>1. \A k \in PsServer : w.s[k].master = m => ~Followed(w.l[k])
      BY <1>6, NoneFollows
  <2>2. w.ids # 0
      BY Fresh, PsNumbers
  <2>3. PICK u : u = NewBacklog(w, m)
      OBVIOUS
  <2>4. PICK b : b = NewBacklog(a, m)
      OBVIOUS
  <2>5. /\ u \in World /\ u.ids = w.ids + 1 /\ u.l = w.l
        /\ u.s[m] = Renewed(w.s[m], w.ids, TRUE)
        /\ \A k \in PsServer \ {m} : u.s[k] = w.s[k]
      BY <1>1, <2>2, <2>3, BacklogsAre
  <2>6. /\ b \in World /\ b.ids = w.ids + 1 /\ b.l = a.l
        /\ b.s[m] = Renewed(w.s[m], w.ids, TRUE)
        /\ \A k \in PsServer \ {m} : b.s[k] = w.s[k]
    <3>1. a.ids # 0
        BY <1>4, <2>2
    <3>2. /\ b \in World /\ b.ids = a.ids + 1 /\ b.l = a.l
          /\ b.s[m] = Renewed(a.s[m], a.ids, TRUE)
          /\ \A k \in PsServer \ {m} : b.s[k] = a.s[k]
        BY <1>4, <2>4, <3>1, BacklogsAre
    <3> QED
        BY <1>4, <3>2
  <2>t. PICK t \in BOOLEAN : t = TRUE
      OBVIOUS
  <2>7. Renews(w, u, m, t)
      BY <2>5, <2>t DEF Renews
  <2>8. PICK G \in Histories : WorldInv(G, u)
      BY <2>0, <2>1, <2>7, RenewStep
  <2>9. b.s = u.s
    <3>1. u.s \in [PsServer -> Server] /\ b.s \in [PsServer -> Server]
        BY <2>5, <2>6, WorldParts
    <3>2. \A k \in PsServer : b.s[k] = u.s[k]
        BY <2>5, <2>6
    <3> QED
        BY <3>1, <3>2
  <2>10. u.s[m].on /\ u.s[n] = w.s[n]
    <3>1. w.s[m] \in Server /\ w.ids \in Nat \ {NoId}
        BY <1>1, WorldParts, Fresh
    <3>2. Renewed(w.s[m], w.ids, t).on <=> t
        BY <3>1, RenewedIs
    <3> QED
        BY <1>2, <2>5, <2>t, <3>2
  <2>11. Linked(u.s, u.s[n], a.l[n])
      BY <1>0, <1>4, <2>10 DEF Linked
  <2>12. Admitted(G, u, n, a.l[n])
      BY <1>2, <1>4, <2>8, <2>10, <2>11, SilentAdmitted
  <2>13. ASSUME NEW k \in PsServer PROVE Cut(b.l[k], u.l[k]) \/ Admitted(G, u, k, b.l[k])
    <3>1. CASE k = n
        BY <2>6, <2>12, <3>1
    <3>2. CASE k # n
        BY <1>4, <2>5, <2>6, <3>2, WorldParts, CutSelf
    <3> QED
        BY <3>1, <3>2
  <2>14. WorldInv(G, b)
      BY <2>5, <2>6, <2>8, <2>9, <2>13, LinksStep
  <2>15. Backed(w, m, n) = b
      BY <1>3, <1>6, <2>4 DEF Backed
  <2> QED
      BY <1>2, <2>6, <2>14, <2>15
<1> QED
    BY <1>5, <1>6

\* Replica n gets the file of replica k, and no database is selected any more.
Joined(a, m, n, k) == [a EXCEPT !.l[n] = Shared(a, k), !.s[m].sel = NoDatabase]

LEMMA JoinedIs ==
    ASSUME NEW a \in World, NEW m \in PsServer, NEW n \in PsServer, NEW k \in PsServer
    PROVE  Joined(a, m, n, k) = WithLink(Unselected(a, m), n, Shared(Unselected(a, m), k))
<1>1. Unselected(a, m).l = a.l
    BY UnselectedIs
<1>2. Shared(Unselected(a, m), k) = Shared(a, k)
    BY <1>1 DEF Shared
<1>3. PICK x : x = Shared(a, k)
    OBVIOUS
<1>4. [a EXCEPT !.l[n] = x, !.s[m].sel = NoDatabase] =
        [[a EXCEPT !.s[m].sel = NoDatabase] EXCEPT !.l[n] = x]
    BY DEF World
<1> QED
    BY <1>2, <1>3, <1>4 DEF Joined, WithLink, Unselected

LEMMA JoinedStep ==
    ASSUME NEW H, NEW a, WorldInv(H, a), NEW m \in PsServer, NEW n \in PsServer,
           a.s[n].master = m, NEW k \in Slaves(a, m), a.l[k].sl = "end"
    PROVE  \E G \in Histories : WorldInv(G, Joined(a, m, n, k))
<1>1. a \in World
    BY DEF WorldInv
<1>2. PICK u : u = Unselected(a, m)
    OBVIOUS
<1>3. PICK G \in Histories : WorldInv(G, u)
    BY <1>2, UnselectedStep
<1>4. /\ u \in World /\ u.ids = a.ids /\ u.l = a.l
      /\ u.s[m] = [a.s[m] EXCEPT !.sel = NoDatabase]
      /\ \A j \in PsServer \ {m} : u.s[j] = a.s[j]
    BY <1>1, <1>2, UnselectedIs
<1>5. \A j \in PsServer : u.s[j].master = a.s[j].master
  <2>1. a.s[m] \in Server
      BY <1>1, WorldParts
  <2>2. u.s[m].master = a.s[m].master
      BY <1>4, <2>1 DEF Server
  <2> QED
      BY <1>4, <2>2
<1>6. k \in PsServer /\ a.s[k].master = m /\ Followed(a.l[k])
    BY SlavesAre
<1>7. k \in Slaves(u, m) /\ u.s[n].master = m /\ u.l[k].sl = "end"
    BY <1>4, <1>5, <1>6, SlavesAre
<1>8. Admitted(G, u, n, Shared(u, k))
    BY <1>3, <1>7, SharedAdmitted
<1>9. WorldInv(G, WithLink(u, n, Shared(u, k)))
    BY <1>3, <1>8, AdmitStep
<1>10. Joined(a, m, n, k) = WithLink(u, n, Shared(u, k))
    BY <1>1, <1>2, <1>6, JoinedIs
<1> QED
    BY <1>9, <1>10

LEMMA FullResyncStep ==
    ASSUME NEW H, NEW w, WorldInv(H, w), NEW m \in PsServer, NEW n \in PsServer,
           Asking(w, m, n), w.s[m].on \/ IsMaster(w.s[m]), NEW busy \in BOOLEAN
    PROVE  \E G \in Histories : WorldInv(G, FullResync(w, m, n, busy))
<1>0. w \in World /\ w.l[n].sl = "none" /\ Silent(w.l[n]) /\ w.l[n].st = "psync"
      /\ w.l[n].buf = <<>> /\ w.s[n].master = m
    BY DEF WorldInv, Asking
<1>1. PICK b : b = Backed(w, m, n)
    OBVIOUS
<1>2. (\E G \in Histories : WorldInv(G, b)) /\ b.s[n] = w.s[n]
    BY <1>1, BackedStep
<1>3. PICK dumped : dumped = {k \in Slaves(w, m) : w.l[k].sl = "end"}
    OBVIOUS
<1>4. FullResync(w, m, n, busy) =
        IF dumped # {} THEN Joined(b, m, n, CHOOSE k \in dumped : TRUE)
        ELSE IF busy THEN b ELSE startBgsaveForReplication(b, m)
    BY <1>1, <1>3 DEF FullResync, Backed, Started, NewBacklog, Joined, Shared
<1>5. CASE dumped # {}
  <2>1. PICK k : k = CHOOSE j \in dumped : TRUE
      OBVIOUS
  <2>2. k \in dumped
      BY <1>5, <2>1
  <2>3. k \in Slaves(w, m) /\ w.l[k].sl = "end"
      BY <1>3, <2>2
  <2>4. k \in PsServer /\ w.s[k].master = m /\ Followed(w.l[k])
      BY <2>3, SlavesAre
  <2>5. w.s[m].on
      BY <2>4, NoneFollows
  <2>6. b = Started(w, n)
      BY <1>1, <2>5 DEF Backed
  <2>7. k # n
      BY <1>0, <2>3
  <2>8. b.s = w.s /\ b.l[k] = w.l[k]
      BY <1>0, <2>4, <2>6, <2>7, StartedIs
  <2>9. k \in Slaves(b, m) /\ b.l[k].sl = "end" /\ b.s[n].master = m
      BY <1>0, <2>3, <2>4, <2>8, SlavesAre
  <2>10. PICK G \in Histories : WorldInv(G, b)
      BY <1>2
  <2>11. \E K \in Histories : WorldInv(K, Joined(b, m, n, k))
      BY <2>9, <2>10, JoinedStep
  <2> QED
      BY <1>4, <1>5, <2>1, <2>11
<1>6. CASE dumped = {}
  <2>1. CASE busy
      BY <1>2, <1>4, <1>6, <2>1
  <2>2. CASE ~busy
    <3>1. PICK G \in Histories : WorldInv(G, b)
        BY <1>2
    <3>2. \E K \in Histories : WorldInv(K, startBgsaveForReplication(b, m))
        BY <3>1, ForkStep
    <3> QED
        BY <1>4, <1>6, <2>2, <3>2
  <2> QED
      BY <2>1, <2>2
<1> QED
    BY <1>5, <1>6

\* The master answers a replica with an error.
Refused(w, n, sl) == [w EXCEPT !.l[n].sl = sl]

LEMMA RefusedStep ==
    ASSUME NEW H, NEW w, WorldInv(H, w), NEW n \in PsServer, NEW m \in PsServer,
           Asking(w, m, n), NEW sl \in {"err", "nolink"}
    PROVE  WorldInv(H, Refused(w, n, sl))
<1>1. w \in World /\ w.l[n] \in Link /\ Silent(w.l[n]) /\ w.l[n].st = "psync"
      /\ w.s[n].master = m
    BY WorldParts DEF WorldInv, Asking
<1>2. ~IsMaster(w.s[n])
    BY <1>1, PsNumbers DEF IsMaster
<1>3. PICK l : l = [w.l[n] EXCEPT !.sl = sl]
    OBVIOUS
<1>4. l \in Link
    BY ONLY <1>1, <1>3 DEF Link
<1>5. Silent(l) /\ ~Followed(l)
    BY <1>1, <1>3, <1>4 DEF Silent, Link, Serving, Online, Followed
<1>6. WorldInv(H, WithLink(w, n, l))
    BY <1>2, <1>5, OneLink
<1>7. Refused(w, n, sl) = WithLink(w, n, l)
    BY <1>3 DEF Refused, WithLink
<1> QED
    BY <1>6, <1>7

LEMMA UnsetOthers ==
    ASSUME NEW H, NEW w, WorldInv(H, w), NEW m \in PsServer, NEW n \in PsServer, n # m
    PROVE  /\ replicationUnsetMaster(w, m).s[n] = w.s[n]
           /\ Cut(replicationUnsetMaster(w, m).l[n], w.l[n])
<1>1. CASE IsReplica(w, m)
  <2>1. w \in World /\ Shape(m, w.s[m], w.l[m]) /\ w.ids \in Nat \ {NoId}
      BY FitsParts, Fresh
  <2>2. w.s[m].master # m
      BY <2>1 DEF Shape
  <2>3. Others(w, replicationUnsetMaster(w, m), m)
      BY <1>1, <2>1, <2>2, UnsetMasterIs
  <2> QED
      BY <2>3 DEF Others
<1>2. CASE ~IsReplica(w, m)
  <2>1. replicationUnsetMaster(w, m) = w
      BY <1>2 DEF replicationUnsetMaster
  <2>2. w.l[n] \in Link
      BY WorldParts DEF WorldInv
  <2> QED
      BY <2>1, <2>2, CutSelf
<1> QED
    BY <1>1, <1>2

\* The world in which the master answers.
Answering(w, m, n) ==
    IF w.s[n].fail = "progress" THEN replicationUnsetMaster(w, m) ELSE w

LEMMA AnsweringStep ==
    ASSUME NEW H, NEW w, WorldInv(H, w), NEW n \in PsServer, NEW m \in PsServer,
           Asking(w, m, n)
    PROVE  /\ \E G \in Histories : WorldInv(G, Answering(w, m, n))
           /\ Asking(Answering(w, m, n), m, n)
<1>1. w.s[n].master = m /\ w.l[n].sl = "none" /\ H \in Histories
      /\ Shape(n, w.s[n], w.l[n])
    BY FitsParts DEF Asking
<1>2. m # n
    BY <1>1 DEF Shape
<1>3. CASE w.s[n].fail = "progress"
  <2>1. PICK a : a = replicationUnsetMaster(w, m)
      OBVIOUS
  <2>2. a.s[n] = w.s[n] /\ Cut(a.l[n], w.l[n])
      BY <1>2, <2>1, UnsetOthers
  <2>3. Asking(a, m, n)
      BY <1>1, <2>2 DEF Asking, Cut, Silent, Serving, Online
  <2>4. \E G \in Histories : WorldInv(G, a)
      BY <2>1, UnsetMasterStep
  <2>5. Answering(w, m, n) = a
      BY <1>3, <2>1 DEF Answering
  <2> QED
      BY <2>3, <2>4, <2>5
<1>4. CASE w.s[n].fail # "progress"
  <2>1. Answering(w, m, n) = w
      BY <1>4 DEF Answering
  <2> QED
      BY <1>1, <2>1
<1> QED
    BY <1>3, <1>4

LEMMA SyncStep ==
    ASSUME NEW H, NEW w, WorldInv(H, w), NEW n \in PsServer, NEW m \in PsServer,
           Asking(w, m, n), NEW busy \in BOOLEAN
    PROVE  \E G \in Histories : WorldInv(G, syncCommand(w, m, n, busy))
<1> DEFINE v == syncCommand(w, m, n, busy)
           no == w.s[n].fail = "progress" /\ (~IsReplica(w, m) \/ w.s[m].id # w.s[n].id)
<1>0. H \in Histories
    BY DEF WorldInv
<1>1. PICK a : a = Answering(w, m, n)
    OBVIOUS
<1>2. PICK K \in Histories : WorldInv(K, a)
    BY <1>1, AnsweringStep
<1>3. Asking(a, m, n)
    BY <1>1, AnsweringStep
<1>4. v = IF no THEN Refused(w, n, "err")
          ELSE IF a.s[m].fail # "none" THEN Refused(a, n, "nolink")
          ELSE IF IsReplica(a, m) /\ a.l[m].st # "online" THEN Refused(a, n, "nolink")
          ELSE IF masterTryPartialResynchronization(a, m, n)
               THEN WithLink(a, n, Resumed(a, m, n))
               ELSE FullResync(a, m, n, busy)
    BY <1>1 DEF syncCommand, Answering, Refused, WithLink, Resumed
<1> HIDE DEF v
<1>5. CASE no
  <2>1. PICK sl \in {"err", "nolink"} : sl = "err"
      OBVIOUS
  <2>2. v = Refused(w, n, sl)
      BY <1>4, <1>5, <2>1
  <2> QED
      BY <1>0, <2>2, RefusedStep DEF v
<1>6. ASSUME ~no, a.s[m].fail # "none" \/ (IsReplica(a, m) /\ a.l[m].st # "online")
      PROVE  \E G \in Histories : WorldInv(G, v)
  <2>1. PICK sl \in {"err", "nolink"} : sl = "nolink"
      OBVIOUS
  <2>2. v = Refused(a, n, sl)
      BY <1>4, <1>6, <2>1
  <2>3. WorldInv(K, Refused(a, n, sl))
      BY <1>2, <1>3, RefusedStep
  <2> QED
      BY <2>2, <2>3
<1>7. ASSUME ~no, a.s[m].fail = "none", ~(IsReplica(a, m) /\ a.l[m].st # "online")
      PROVE  \E G \in Histories : WorldInv(G, v)
  <2>1. CASE masterTryPartialResynchronization(a, m, n)
    <3>1. v = WithLink(a, n, Resumed(a, m, n))
        BY <1>4, <1>7, <2>1
    <3>2. a.s[n].master = m /\ a.l[n].st = "psync"
        BY <1>3 DEF Asking
    <3>3. WorldInv(K, WithLink(a, n, Resumed(a, m, n)))
        BY <1>2, <2>1, <3>2, ResumeStep
    <3> QED
        BY <3>1, <3>3
  <2>2. CASE ~masterTryPartialResynchronization(a, m, n)
    <3>1. v = FullResync(a, m, n, busy)
        BY <1>4, <1>7, <2>2
    <3>2. a.s[m].on \/ IsMaster(a.s[m])
      <4>1. CASE IsReplica(a, m)
        <5>1. Shape(m, a.s[m], a.l[m])
            BY <1>2, FitsParts
        <5> QED
            BY <1>7, <4>1, <5>1 DEF Shape
      <4>2. CASE ~IsReplica(a, m)
          BY <4>2 DEF IsReplica, IsMaster
      <4> QED
          BY <4>1, <4>2
    <3>3. \E G \in Histories : WorldInv(G, FullResync(a, m, n, busy))
        BY <1>2, <1>3, <3>2, FullResyncStep
    <3> QED
        BY <3>1, <3>3
  <2> QED
      BY <2>1, <2>2
<1> QED
    BY <1>5, <1>6, <1>7 DEF v

\* What the actions say of the world of the next state.
LEMMA Becomes ==
    ASSUME NEW v, PsBecomes(v)
    PROVE  psS' = v.s /\ psL' = v.l /\ psIds' = v.ids
    BY DEF PsBecomes

LEMMA WorldNext ==
    ASSUME NEW v \in World, psS' = v.s, psL' = v.l, psIds' = v.ids
    PROVE  PsWorld' = v
    BY DEF PsWorld, World

\* The invariant after an action that makes the world v.
LEMMA MakesWorld ==
    ASSUME NEW v, \E G \in Histories : WorldInv(G, v), PsBecomes(v), psWrites' \in Nat
    PROVE  PsInv'
<1>1. PICK G \in Histories : WorldInv(G, v)
    OBVIOUS
<1>2. v \in World
    BY <1>1 DEF WorldInv
<1>3. PsWorld' = v
    BY <1>2, Becomes, WorldNext
<1>4. WorldInv(G, PsWorld')
    BY ONLY <1>1, <1>3
<1>5. (\E K \in Histories : WorldInv(K, PsWorld))'
    BY <1>4 DEF WorldInv, Fits, Owns, Histories
<1> QED
    BY <1>5 DEF PsInv

LEMMA AskingStep ==
    ASSUME NEW n \in PsServer, PsInv, slaveTryPartialResynchronization(n)
    PROVE  PsInv'
<1>1. PICK H \in Histories : WorldInv(H, PsWorld)
    BY DEF PsInv
<1>2. PICK w : w = PsWorld
    OBVIOUS
<1>3. w.s = psS /\ w.l = psL /\ w.ids = psIds /\ WorldInv(H, w)
    BY <1>1, <1>2 DEF PsWorld
<1>4. w \in World /\ w.s[n] \in Server /\ Shape(n, w.s[n], w.l[n])
    BY <1>3, FitsParts
<1>5. psL[n].st = "connect" /\ UNCHANGED psWrites
    BY DEF slaveTryPartialResynchronization
<1>6. PICK m : m = psS[n].master
    OBVIOUS
<1>7. m \in PsServer /\ ~IsMaster(w.s[n])
    BY <1>3, <1>4, <1>5, <1>6, ServerParts DEF Shape, IsMaster
<1>8. PICK st \in {"none", "connect", "psync"} : st = "psync"
    OBVIOUS
<1>9. PICK l : l = Link0(st)
    OBVIOUS
<1>10. Silent(l) /\ ~Followed(l) /\ l.sl = "none" /\ l.st = st /\ l.buf = <<>> /\ l \in Link
    BY <1>9, LinkZero DEF Silent
<1>11. PICK a : a = WithLink(w, n, l)
    OBVIOUS
<1>12. WorldInv(H, a)
    BY <1>3, <1>7, <1>10, <1>11, OneLink
<1>13. a.s = w.s /\ a.l[n] = l
    BY <1>4, <1>10, <1>11, WithLinkIs
<1>14. Asking(a, m, n)
    BY <1>3, <1>6, <1>8, <1>10, <1>13 DEF Asking
<1>15. [PsWorld EXCEPT !.l[n] = Link0("psync")] = a
    BY <1>2, <1>8, <1>9, <1>11 DEF WithLink
<1>16. PICK busy \in BOOLEAN : PsBecomes(syncCommand(a, m, n, busy))
    BY <1>6, <1>15 DEF slaveTryPartialResynchronization
<1>17. \E G \in Histories : WorldInv(G, syncCommand(a, m, n, busy))
    BY <1>7, <1>12, <1>14, SyncStep
<1>18. psWrites' \in Nat
    BY <1>5 DEF PsInv
<1> QED
    BY <1>16, <1>17, <1>18, MakesWorld

LEMMA MakesParts ==
    ASSUME NEW v, \E G \in Histories : WorldInv(G, v), psS' = v.s, psL' = v.l, psIds' = v.ids,
           psWrites' \in Nat
    PROVE  PsInv'
<1>1. PsBecomes(v)
    BY DEF PsBecomes
<1> QED
    BY <1>1, MakesWorld

LEMMA Now ==
    ASSUME PsInv
    PROVE  \E H \in Histories : WorldInv(H, PsWorld)
    BY DEF PsInv

LEMMA NowParts ==
    /\ PsWorld.s = psS /\ PsWorld.l = psL /\ PsWorld.ids = psIds
    BY DEF PsWorld

\* The world with other links.
LinksTo(w, links) == [w EXCEPT !.l = links]

LEMMA LinksToIs ==
    ASSUME NEW w \in World, NEW links \in [PsServer -> Link]
    PROVE  /\ LinksTo(w, links) \in World /\ LinksTo(w, links).s = w.s
           /\ LinksTo(w, links).ids = w.ids /\ LinksTo(w, links).l = links
    BY DEF World, LinksTo

\* An action that changes links only.
LEMMA LinksAction ==
    ASSUME NEW H, WorldInv(H, PsWorld), PsInv, psS' = psS, psIds' = psIds,
           psWrites' = psWrites, psL' \in [PsServer -> Link],
           \A k \in PsServer : \/ Cut(psL'[k], psL[k])
                               \/ Admitted(H, PsWorld, k, psL'[k])
    PROVE  PsInv'
<1>1. PICK w : w = PsWorld
    OBVIOUS
<1>2. w.s = psS /\ w.l = psL /\ w.ids = psIds /\ w \in World /\ H \in Histories
    BY <1>1, NowParts DEF WorldInv
<1>3. PICK v : v = LinksTo(w, psL')
    OBVIOUS
<1>4. v \in World /\ v.s = w.s /\ v.ids = w.ids /\ v.l = psL'
    BY <1>2, <1>3, LinksToIs
<1>5. \A k \in PsServer : Cut(v.l[k], w.l[k]) \/ Admitted(H, w, k, v.l[k])
    BY <1>1, <1>2, <1>4
<1>6. WorldInv(H, v)
    BY <1>1, <1>4, <1>5, LinksStep
<1>7. psWrites' \in Nat
    BY DEF PsInv
<1> QED
    BY <1>2, <1>4, <1>6, <1>7, MakesParts

LEMMA PendingForkStep ==
    ASSUME NEW m \in PsServer, PsInv, replicationStartPendingFork(m)
    PROVE  PsInv'
<1>1. PICK H \in Histories : WorldInv(H, PsWorld)
    BY Now
<1>2. PICK v : v = startBgsaveForReplication(PsWorld, m)
    OBVIOUS
<1>3. \E G \in Histories : WorldInv(G, v)
    BY <1>1, <1>2, ForkStep
<1>4. PsBecomes(v) /\ psWrites' \in Nat
    BY <1>2 DEF replicationStartPendingFork, PsInv
<1> QED
    BY <1>3, <1>4, MakesWorld

LEMMA SentAdmitted ==
    ASSUME NEW H, NEW w, WorldInv(H, w), NEW k \in PsServer, w.l[k].sl = "end"
    PROVE  Admitted(H, w, k, [w.l[k] EXCEPT !.sl = "send"])
<1>1. PICK q : q = w.s[k]
    OBVIOUS
<1>2. PICK o : o = w.l[k]
    OBVIOUS
<1>3. PICK l : l = [w.l[k] EXCEPT !.sl = "send"]
    OBVIOUS
<1>4. /\ o \in Link /\ Shape(k, q, o) /\ Older(w.ids, q, o) /\ LinkAgrees(H, q, o)
      /\ Linked(w.s, q, o)
    BY <1>1, <1>2, FitsParts
<1>5. /\ l \in Link /\ l.st = o.st /\ l.sl = "send" /\ l.id = o.id /\ l.off = o.off
      /\ l.snap = o.snap /\ l.db = o.db /\ l.buf = o.buf /\ (l.open <=> o.open)
    BY <1>2, <1>3, <1>4 DEF Link
<1>6. Serving(o) /\ ~Online(o) /\ Serving(l) /\ ~Online(l) /\ o.sl # "start"
    BY <1>2, <1>5 DEF Serving, Online
<1>7. ~IsMaster(q)
    BY <1>2, <1>4 DEF Shape
<1>8. Shape(k, q, l)
    BY <1>4, <1>5, <1>6, <1>7 DEF Shape
<1>9. Older(w.ids, q, l) /\ LinkAgrees(H, q, l)
    BY <1>4, <1>5, <1>6 DEF Older, LinkAgrees
<1>10. Linked(w.s, q, l)
  <2>1. Behind(q, l) = Behind(q, o) /\ (Followed(l) => Followed(o))
      BY <1>2, <1>5, <1>6 DEF Behind, Followed
  <2> QED
      BY <1>4, <1>5, <1>6, <2>1 DEF Linked
<1>11. ASSUME NEW j \in PsServer
       PROVE  /\ Hidden(w.s[j]) => Unheard(w.s[j].id, q, l)
              /\ IsMaster(w.s[j]) =>
                  IF w.s[j].on THEN UpTo(H, w.s[j].id, w.s[j].off, q, l)
                  ELSE Apart(w.s[j].id, q, l)
  <2>1. /\ Hidden(w.s[j]) => Unheard(w.s[j].id, q, o)
        /\ IsMaster(w.s[j]) => Owns(H, w, j)
      BY <1>1, <1>2, FitsParts
  <2>2. IsMaster(w.s[j]) => IF w.s[j].on THEN UpTo(H, w.s[j].id, w.s[j].off, q, o)
                            ELSE Apart(w.s[j].id, q, o)
      BY <1>1, <1>2, <2>1 DEF Owns
  <2> QED
      BY <1>5, <1>6, <2>1, <2>2 DEF Unheard, UpTo, Apart
<1>12. Admitted(H, w, k, l)
    BY <1>1, <1>5, <1>7, <1>8, <1>9, <1>10, <1>11 DEF Admitted
<1> QED
    BY <1>3, <1>12

LEMMA WaitingBgsaveStep ==
    ASSUME NEW m \in PsServer, PsInv, updateSlavesWaitingBgsave(m)
    PROVE  PsInv'
<1>1. PICK H \in Histories : WorldInv(H, PsWorld)
    BY Now
<1>2. \A k \in PsServer : psL[k] \in Link
    BY <1>1, WorldParts, NowParts DEF WorldInv
<1>3. psL' = [k \in PsServer |->
                IF k \in Slaves(PsWorld, m) /\ psL[k].sl = "end"
                THEN [psL[k] EXCEPT !.sl = "send"] ELSE psL[k]]
    BY DEF updateSlavesWaitingBgsave
<1>4. ASSUME NEW k \in PsServer
      PROVE  psL'[k] \in Link /\ (Cut(psL'[k], psL[k]) \/ Admitted(H, PsWorld, k, psL'[k]))
  <2>1. CASE k \in Slaves(PsWorld, m) /\ psL[k].sl = "end"
    <3>1. psL'[k] = [psL[k] EXCEPT !.sl = "send"]
        BY <1>3, <2>1
    <3>2. Admitted(H, PsWorld, k, [PsWorld.l[k] EXCEPT !.sl = "send"])
        BY <1>1, <2>1, SentAdmitted, NowParts
    <3>3. Admitted(H, PsWorld, k, psL'[k])
        BY <3>1, <3>2, NowParts
    <3> QED
        BY <3>3 DEF Admitted
  <2>2. CASE ~(k \in Slaves(PsWorld, m) /\ psL[k].sl = "end")
    <3>1. psL'[k] = psL[k]
        BY <1>3, <2>2
    <3> QED
        BY <1>2, <3>1, CutSelf
  <2> QED
      BY <2>1, <2>2
<1>5. psL' \in [PsServer -> Link]
    BY <1>3, <1>4
<1>6. psS' = psS /\ psIds' = psIds /\ psWrites' = psWrites
    BY DEF updateSlavesWaitingBgsave
<1> QED
    BY <1>1, <1>4, <1>5, <1>6, LinksAction

\* One link is cut or admitted.
LEMMA LinkAction ==
    ASSUME NEW H, WorldInv(H, PsWorld), PsInv, psS' = psS, psIds' = psIds,
           psWrites' = psWrites, NEW n \in PsServer, NEW l \in Link, psL' = [psL EXCEPT ![n] = l],
           Cut(l, psL[n]) \/ Admitted(H, PsWorld, n, l)
    PROVE  PsInv'
<1>1. PsWorld.l = psL /\ psL \in [PsServer -> Link] /\ \A k \in PsServer : psL[k] \in Link
    BY WorldParts, NowParts DEF WorldInv
<1>2. psL' \in [PsServer -> Link]
    BY <1>1
<1>3. ASSUME NEW k \in PsServer
      PROVE  Cut(psL'[k], psL[k]) \/ Admitted(H, PsWorld, k, psL'[k])
  <2>1. CASE k = n
    <3>1. psL'[k] = l
        BY <1>1, <2>1
    <3> QED
        BY <2>1, <3>1
  <2>2. CASE k # n
    <3>1. psL'[k] = psL[k]
        BY <1>1, <2>2
    <3> QED
        BY <1>1, <3>1, CutSelf
  <2> QED
      BY <2>1, <2>2
<1> QED
    BY <1>2, <1>3, LinksAction

LEMMA FreeSlaveStep ==
    ASSUME NEW n \in PsServer, PsInv, freeSlave(n)
    PROVE  PsInv'
<1>1. PICK H \in Histories : WorldInv(H, PsWorld)
    BY Now
<1>2. psL[n] \in Link
    BY <1>1, WorldParts, NowParts DEF WorldInv
<1>3. PICK l : l = [psL[n] EXCEPT !.open = FALSE]
    OBVIOUS
<1>4. l \in Link /\ Cut(l, psL[n])
  <2>1. l \in Link
      BY <1>2, <1>3 DEF Link
  <2> QED
      BY <1>2, <1>3, <2>1 DEF Link, Cut
<1>5. /\ psS' = psS /\ psIds' = psIds /\ psWrites' = psWrites /\ psL' = [psL EXCEPT ![n] = l]
    BY <1>3 DEF freeSlave
<1> QED
    BY <1>1, <1>4, <1>5, LinkAction

LEMMA SendAckStep ==
    ASSUME NEW n \in PsServer, PsInv, replicationSendAck(n)
    PROVE  PsInv'
<1>1. PICK H \in Histories : WorldInv(H, PsWorld)
    BY Now
<1>2. psL[n] \in Link /\ psS[n] \in Server
    BY <1>1, WorldParts, NowParts DEF WorldInv
<1>3. PICK ack \in Nat : ack = psS[n].off
    BY <1>2, ServerParts
<1>4. PICK l : l = [psL[n] EXCEPT !.ack = ack]
    OBVIOUS
<1>5. l \in Link /\ Cut(l, psL[n])
  <2>1. l \in Link
      BY <1>2, <1>4 DEF Link
  <2> QED
      BY <1>2, <1>4, <2>1 DEF Link, Cut
<1>6. /\ psS' = psS /\ psIds' = psIds /\ psWrites' = psWrites /\ psL' = [psL EXCEPT ![n] = l]
    BY <1>3, <1>4 DEF replicationSendAck
<1> QED
    BY <1>1, <1>5, <1>6, LinkAction

LEMMA LoseMasterStep ==
    ASSUME NEW n \in PsServer, PsInv, LoseMaster(n)
    PROVE  PsInv'
<1>1. PICK H \in Histories : WorldInv(H, PsWorld)
    BY Now
<1>2. Shape(n, psS[n], psL[n])
    BY <1>1, FitsParts, NowParts
<1>3. ~IsMaster(PsWorld.s[n])
    BY <1>2, NowParts DEF LoseMaster, Shape
<1>4. PICK st \in {"none", "connect", "psync"} : st = "connect"
    OBVIOUS
<1>5. PICK l : l = Link0(st)
    OBVIOUS
<1>6. Silent(l) /\ ~Followed(l) /\ l \in Link
    BY <1>5, LinkZero DEF Silent
<1>7. Admitted(H, PsWorld, n, l)
    BY <1>1, <1>3, <1>6, SilentAdmitted, NotFollowed
<1>8. /\ psS' = psS /\ psIds' = psIds /\ psWrites' = psWrites /\ psL' = [psL EXCEPT ![n] = l]
    BY <1>4, <1>5 DEF LoseMaster
<1> QED
    BY <1>1, <1>6, <1>7, <1>8, LinkAction
=============================================================================
