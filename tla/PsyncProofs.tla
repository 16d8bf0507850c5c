---------------------------- MODULE PsyncProofs -----------------------------
(***************************************************************************)
(* TLAPS proofs about Psync, the second part: every step keeps PsInv, and     *)
(* what follows for the data of the servers.                                  *)
(***************************************************************************)
EXTENDS PsyncHistory
-----------------------------------------------------------------------------
(* The replica's side.                                                       *)

\* Server n has another record and another link.
With(w, n, r, l) == [w EXCEPT !.s[n] = r, !.l[n] = l]

LEMMA WithIs ==
    ASSUME NEW w \in World, NEW n \in PsServer, NEW r \in Server, NEW l \in Link
    PROVE  /\ With(w, n, r, l) \in World /\ With(w, n, r, l).ids = w.ids
           /\ With(w, n, r, l).s[n] = r /\ With(w, n, r, l).l[n] = l
           /\ \A k \in PsServer \ {n} : /\ With(w, n, r, l).s[k] = w.s[k]
                                        /\ With(w, n, r, l).l[k] = w.l[k]
    BY DEF With, World

\* A step that adds nothing to what server n has respects what others own.
LEMMA LesserRespects ==
    ASSUME NEW H, NEW w, WorldInv(H, w), NEW n \in PsServer, NEW r, NEW l,
           Lesser(r, l, w.s[n], w.l[n]),
           IsMaster(r) => \A k \in PsServer \ {n} : w.s[k].id # r.id
    PROVE  Respects(H, w, n, r, l)
<1> SUFFICES ASSUME NEW k \in PsServer \ {n}
             PROVE  /\ Hidden(w.s[k]) => Unheard(w.s[k].id, r, l)
                    /\ IsMaster(w.s[k]) =>
                        IF w.s[k].on THEN UpTo(H, w.s[k].id, w.s[k].off, r, l)
                        ELSE Apart(w.s[k].id, r, l)
    BY DEF Respects
<1>1. w.s[k].id \in Nat \ {NoId} /\ w.s[k].off \in Nat
    BY WorldParts, ServerParts DEF WorldInv
<1>2. /\ Hidden(w.s[k]) => Unheard(w.s[k].id, w.s[n], w.l[n])
      /\ IsMaster(w.s[k]) =>
          IF w.s[k].on THEN UpTo(H, w.s[k].id, w.s[k].off, w.s[n], w.l[n])
          ELSE Apart(w.s[k].id, w.s[n], w.l[n])
    BY FitsParts DEF Respects
<1> QED
    BY <1>1, <1>2 DEF Lesser

\* The reply CONTINUE: the replica has the ID of its master, and a backlog.
Adopted(q, id) == IF id = q.id THEN q
                  ELSE [q EXCEPT !.id2 = q.id, !.upto = q.off + 1, !.id = id]
Continued(q, id) == IF q.on THEN Adopted(q, id)
                    ELSE [Adopted(q, id) EXCEPT !.on = TRUE, !.log = <<>>]

LEMMA AdoptedIs ==
    ASSUME NEW q \in Server, NEW id \in Nat \ {NoId}
    PROVE  /\ Adopted(q, id) \in Server /\ Adopted(q, id).id = id
           /\ Adopted(q, id).data = q.data /\ Adopted(q, id).off = q.off
           /\ (Adopted(q, id).on <=> q.on) /\ Adopted(q, id).log = q.log
           /\ Adopted(q, id).sel = q.sel /\ Adopted(q, id).master = q.master
           /\ Adopted(q, id).db = q.db /\ Adopted(q, id).saved = q.saved
           /\ Adopted(q, id).fail = q.fail /\ (Adopted(q, id).force <=> q.force)
           /\ Adopted(q, id).target = q.target
           /\ id # q.id => Adopted(q, id).id2 = q.id /\ Adopted(q, id).upto = q.off + 1
           /\ id = q.id => Adopted(q, id).id2 = q.id2 /\ Adopted(q, id).upto = q.upto
<1>1. CASE id = q.id
    BY <1>1 DEF Adopted
<1>2. CASE id # q.id
  <2>1. PICK u \in Int : u = q.off + 1
      BY ServerParts
  <2>2. PICK i \in Nat : i = q.id
      BY ServerParts
  <2>3. PICK r : r = [q EXCEPT !.id2 = i, !.upto = u, !.id = id]
      OBVIOUS
  <2>4. r \in Server
      BY <2>3 DEF Server, NoId
  <2>5. /\ r.id = id /\ r.data = q.data /\ r.off = q.off /\ (r.on <=> q.on) /\ r.log = q.log
        /\ r.sel = q.sel /\ r.master = q.master /\ r.db = q.db /\ r.saved = q.saved
        /\ r.fail = q.fail /\ (r.force <=> q.force) /\ r.target = q.target
        /\ r.id2 = i /\ r.upto = u
      BY <2>3 DEF Server
  <2>6. Adopted(q, id) = r
      BY <1>2, <2>1, <2>2, <2>3 DEF Adopted
  <2> QED
      BY <1>2, <2>1, <2>2, <2>4, <2>5, <2>6
<1> QED
    BY <1>1, <1>2

LEMMA ContinuedIs ==
    ASSUME NEW q \in Server, NEW id \in Nat \ {NoId}
    PROVE  /\ Continued(q, id) \in Server /\ Continued(q, id).id = id
           /\ Continued(q, id).data = q.data /\ Continued(q, id).off = q.off
           /\ Continued(q, id).on
           /\ Continued(q, id).log = (IF q.on THEN q.log ELSE <<>>)
           /\ Continued(q, id).master = q.master
           /\ Continued(q, id).db = q.db /\ Continued(q, id).saved = q.saved
           /\ Continued(q, id).fail = q.fail /\ (Continued(q, id).force <=> q.force)
           /\ Continued(q, id).target = q.target
           /\ id # q.id => Continued(q, id).id2 = q.id /\ Continued(q, id).upto = q.off + 1
           /\ id = q.id => Continued(q, id).id2 = q.id2 /\ Continued(q, id).upto = q.upto
<1>1. PICK r : r = Adopted(q, id)
    OBVIOUS
<1>2. /\ r \in Server /\ r.id = id /\ r.data = q.data /\ r.off = q.off
      /\ (r.on <=> q.on) /\ r.log = q.log
      /\ r.sel = q.sel /\ r.master = q.master /\ r.db = q.db /\ r.saved = q.saved
      /\ r.fail = q.fail /\ (r.force <=> q.force) /\ r.target = q.target
      /\ id # q.id => r.id2 = q.id /\ r.upto = q.off + 1
      /\ id = q.id => r.id2 = q.id2 /\ r.upto = q.upto
    BY <1>1, AdoptedIs
<1>3. CASE q.on
  <2>1. Continued(q, id) = r
      BY <1>1, <1>3 DEF Continued
  <2> QED
      BY <1>2, <1>3, <2>1
<1>4. CASE ~q.on
  <2>1. PICK t : t = [r EXCEPT !.on = TRUE, !.log = <<>>]
      OBVIOUS
  <2>2. t \in Server
    <3>1. PICK b \in BOOLEAN : b = TRUE
        OBVIOUS
    <3>e. <<>> \in Seq(Item)
        OBVIOUS
    <3>2. PICK e \in Seq(Item) : e = <<>>
        BY <3>e
    <3>3. t = [r EXCEPT !.on = b, !.log = e]
        BY <2>1, <3>1, <3>2
    <3> QED
        BY <1>2, <3>3 DEF Server
  <2>3. /\ t.id = r.id /\ t.data = r.data /\ t.off = r.off /\ t.on /\ t.log = <<>>
        /\ t.master = r.master /\ t.db = r.db /\ t.saved = r.saved
        /\ t.fail = r.fail /\ (t.force <=> r.force) /\ t.target = r.target
        /\ t.id2 = r.id2 /\ t.upto = r.upto
      BY <1>2, <2>1 DEF Server
  <2>4. Continued(q, id) = t
      BY <1>1, <1>4, <2>1 DEF Continued
  <2> QED
      BY <1>2, <1>4, <2>2, <2>3, <2>4
<1> QED
    BY <1>3, <1>4

Adopting(w, n) == [w EXCEPT !.s[n].id2 = w.s[n].id, !.s[n].upto = w.s[n].off + 1,
                            !.s[n].id = w.l[n].id]

LEMMA AdoptingIs ==
    ASSUME NEW w \in World, NEW n \in PsServer, w.l[n].id \in Nat \ {NoId},
           w.l[n].id # w.s[n].id
    PROVE  Adopting(w, n) = With(w, n, Adopted(w.s[n], w.l[n].id), w.l[n])
<1>1. PICK s \in [PsServer -> Server], l \in [PsServer -> Link], ids \in Nat :
            w = [s |-> s, l |-> l, ids |-> ids]
    BY DEF World
<1>b. PICK b : b = Adopting(w, n)
    OBVIOUS
<1>2. b =
            [s |-> [[[s EXCEPT ![n].id2 = s[n].id] EXCEPT ![n].upto = s[n].off + 1]
                        EXCEPT ![n].id = l[n].id],
             l |-> l, ids |-> ids]
    BY <1>1, <1>b DEF Adopting
<1>3. [[[s EXCEPT ![n].id2 = s[n].id] EXCEPT ![n].upto = s[n].off + 1] EXCEPT ![n].id = l[n].id]
        = [s EXCEPT ![n] = [s[n] EXCEPT !.id2 = s[n].id, !.upto = s[n].off + 1, !.id = l[n].id]]
    BY DEF Server
<1>4. Adopted(w.s[n], w.l[n].id) =
        [s[n] EXCEPT !.id2 = s[n].id, !.upto = s[n].off + 1, !.id = l[n].id]
    BY <1>1 DEF Adopted
<1>5. PICK f : f = Adopted(w.s[n], w.l[n].id)
    OBVIOUS
<1>6. b = [s |-> [s EXCEPT ![n] = f], l |-> l, ids |-> ids]
    BY <1>2, <1>3, <1>4, <1>5
<1>c. PICK c : c = With(w, n, f, w.l[n])
    OBVIOUS
<1>7. c = [s |-> [s EXCEPT ![n] = f], l |-> [l EXCEPT ![n] = l[n]], ids |-> ids]
    BY <1>1, <1>c DEF With
<1>8. [l EXCEPT ![n] = l[n]] = l
    OBVIOUS
<1> QED
    BY <1>5, <1>6, <1>7, <1>8, <1>b, <1>c

\* The world in which it has read the reply.
LEMMA ReadContinueIs ==
    ASSUME NEW w \in World, NEW n \in PsServer, w.l[n].id \in Nat \ {NoId},
           w.s[n].master # n
    PROVE  /\ ReadContinue(w, n) \in World /\ ReadContinue(w, n).ids = w.ids
           /\ ReadContinue(w, n).s[n] = Continued(w.s[n], w.l[n].id)
           /\ ReadContinue(w, n).l[n] = [w.l[n] EXCEPT !.st = "online"]
           /\ \A k \in PsServer \ {n} :
                /\ ReadContinue(w, n).s[k] = w.s[k]
                /\ Cut(ReadContinue(w, n).l[k], w.l[k])
                /\ w.l[n].id # w.s[n].id /\ w.s[k].master = n
                    => ~Followed(ReadContinue(w, n).l[k])
<1>0. PICK q \in Server : q = w.s[n]
    BY WorldParts
<1>1. PICK l \in Link : l = w.l[n]
    BY WorldParts
<1>2. PICK a : a = (IF l.id # q.id THEN AdoptId(w, n) ELSE w)
    OBVIOUS
<1>3. PICK f : f = Adopted(q, l.id)
    OBVIOUS
<1>4. f \in Server /\ f.master = q.master /\ (f.on <=> q.on)
    BY <1>1, <1>3, AdoptedIs
<1>5. /\ a \in World /\ a.ids = w.ids /\ a.s[n] = f /\ a.l[n] = l
      /\ \A k \in PsServer \ {n} :
            /\ a.s[k] = w.s[k] /\ Cut(a.l[k], w.l[k])
            /\ l.id # q.id /\ w.s[k].master = n => ~Followed(a.l[k])
  <2>1. CASE l.id = q.id
    <3>1. a = w /\ f = q
        BY <1>2, <1>3, <2>1 DEF Adopted
    <3> QED
        BY <1>0, <1>1, <2>1, <3>1, WorldParts, CutSelf
  <2>2. CASE l.id # q.id
    <3>1. PICK b : b = Adopting(w, n)
        OBVIOUS
    <3>2. b = With(w, n, f, l)
        BY <1>0, <1>1, <1>3, <2>2, <3>1, AdoptingIs
    <3>3. /\ b \in World /\ b.ids = w.ids /\ b.s[n] = f /\ b.l[n] = l
          /\ \A k \in PsServer \ {n} : b.s[k] = w.s[k] /\ b.l[k] = w.l[k]
        BY <1>4, <3>2, WithIs
    <3>4. a = disconnectSlaves(b, n)
        BY <1>2, <2>2, <3>1 DEF AdoptId, Adopting
    <3>5. b.s[n].master # n
        BY <1>0, <1>4, <3>3
    <3>6. /\ a \in World /\ a.s = b.s /\ a.ids = b.ids
          /\ \A k \in PsServer : Cut(a.l[k], b.l[k])
          /\ \A k \in PsServer : b.s[k].master = n => ~Followed(a.l[k])
          /\ a.l[n] = b.l[n]
        BY <3>3, <3>4, <3>5, Disconnected
    <3> QED
        BY <3>3, <3>6
  <2> QED
      BY <2>1, <2>2
<1>6. PICK m : m = [l EXCEPT !.st = "online"]
    OBVIOUS
<1>7. m \in Link
    BY <1>6 DEF Link
<1>8. PICK r : r = Continued(q, l.id)
    OBVIOUS
<1>9. r \in Server
    BY <1>1, <1>8, ContinuedIs
<1>10. r = IF f.on THEN f ELSE createReplicationBacklog(f)
    BY <1>3, <1>4, <1>8 DEF Continued, createReplicationBacklog
<1>11. ReadContinue(w, n) = [a EXCEPT !.l[n].st = "online",
                  !.s[n] = IF @.on THEN @ ELSE createReplicationBacklog(@)]
    BY <1>0, <1>1, <1>2 DEF ReadContinue
<1>12. PICK as \in [PsServer -> Server], al \in [PsServer -> Link], aids \in Nat :
            a = [s |-> as, l |-> al, ids |-> aids]
    BY <1>5 DEF World
<1>13. ReadContinue(w, n) = With(a, n, r, m)
  <2>1. as[n] = f /\ al[n] = l
      BY <1>5, <1>12
  <2>c. PICK c : c = [a EXCEPT !.l[n].st = "online",
                        !.s[n] = IF @.on THEN @ ELSE createReplicationBacklog(@)]
      OBVIOUS
  <2>2. c = [s |-> [as EXCEPT ![n] = IF @.on THEN @ ELSE createReplicationBacklog(@)],
           l |-> [al EXCEPT ![n].st = "online"], ids |-> aids]
      BY <1>12, <2>c
  <2>3. [as EXCEPT ![n] = IF @.on THEN @ ELSE createReplicationBacklog(@)]
            = [as EXCEPT ![n] = r]
      BY <1>10, <2>1
  <2>4. [al EXCEPT ![n].st = "online"] = [al EXCEPT ![n] = m]
      BY <1>6, <2>1
  <2>d. PICK d : d = With(a, n, r, m)
      OBVIOUS
  <2>5. d = [s |-> [as EXCEPT ![n] = r], l |-> [al EXCEPT ![n] = m], ids |-> aids]
      BY <1>12, <2>d DEF With
  <2> QED
      BY <1>11, <2>2, <2>3, <2>4, <2>5, <2>c, <2>d
<1>14. /\ With(a, n, r, m) \in World /\ With(a, n, r, m).ids = a.ids
       /\ With(a, n, r, m).s[n] = r /\ With(a, n, r, m).l[n] = m
       /\ \A k \in PsServer \ {n} : /\ With(a, n, r, m).s[k] = a.s[k]
                                    /\ With(a, n, r, m).l[k] = a.l[k]
    BY <1>5, <1>7, <1>9, WithIs
<1>15. PICK v : v = ReadContinue(w, n)
    OBVIOUS
<1>16. /\ v \in World /\ v.ids = w.ids /\ v.s[n] = Continued(w.s[n], w.l[n].id)
       /\ v.l[n] = [w.l[n] EXCEPT !.st = "online"]
    BY <1>0, <1>1, <1>5, <1>6, <1>8, <1>13, <1>14, <1>15
<1>17. \A k \in PsServer \ {n} :
            /\ v.s[k] = w.s[k] /\ Cut(v.l[k], w.l[k])
            /\ w.l[n].id # w.s[n].id /\ w.s[k].master = n => ~Followed(v.l[k])
    BY <1>0, <1>1, <1>5, <1>13, <1>14, <1>15
<1> QED
    BY <1>15, <1>16, <1>17

\* The replica that reads CONTINUE agrees with the history of its master.
LEMMA ContinuedAgrees ==
    ASSUME NEW H, H \in Histories, NEW n, NEW q \in Server, NEW l \in Link, Online(l),
           l.id \in Nat \ {NoId}, Shape(n, q, l), ServerAgrees(H, q), LinkAgrees(H, q, l),
           l.id = q.id => ~Hidden(q)
    PROVE  ServerAgrees(H, Continued(q, l.id))
<1>1. PICK r : r = Continued(q, l.id)
    OBVIOUS
<1>2. /\ r \in Server /\ r.id = l.id /\ r.data = q.data /\ r.off = q.off /\ r.on
      /\ r.log = (IF q.on THEN q.log ELSE <<>>) /\ r.master = q.master
      /\ r.db = q.db /\ r.saved = q.saved
      /\ l.id # q.id => r.id2 = q.id /\ r.upto = q.off + 1
      /\ l.id = q.id => r.id2 = q.id2 /\ r.upto = q.upto
    BY <1>1, ContinuedIs
<1>3. /\ q.off \in Nat /\ Len(q.log) \in Nat /\ q.log \in Seq(Item) /\ Len(q.log) <= q.off
      /\ ~IsMaster(q) /\ q.db # NoDatabase
    BY ServerParts DEF Shape, Online
<1>4. /\ At(H[l.id][q.off], q.data, q.db)
      /\ q.id # l.id => Agree(H[q.id], H[l.id], q.off + 1)
    BY DEF LinkAgrees
<1>5. ~IsMaster(r)
    BY <1>2, <1>3 DEF IsMaster
<1>6. At(H[r.id][r.off], r.data, r.db)
    BY <1>2, <1>4
<1>7. Run(H[r.id], r.off - Len(r.log), r.log)
  <2>1. CASE ~q.on
    <3>1. r.log = <<>> /\ Len(r.log) = 0
        BY <1>2, <2>1
    <3> QED
        BY <3>1 DEF Run
  <2>2. CASE q.on
    <3>1. r.log = q.log /\ Run(H[q.id], q.off - Len(q.log), q.log)
        BY <1>2, <2>2 DEF ServerAgrees
    <3>2. CASE q.id = l.id
        BY <1>2, <3>1, <3>2
    <3>3. CASE q.id # l.id
      <4>1. PICK x \in Nat : x = q.off - Len(q.log)
          BY <1>3
      <4>2. PICK u \in Int : u = q.off + 1
          BY <1>3
      <4>3. x + Len(q.log) <= u - 1
          BY <1>3, <4>1, <4>2
      <4>4. Run(H[l.id], x, q.log)
          BY <1>3, <1>4, <3>1, <3>3, <4>1, <4>2, <4>3, RunAgree
      <4> QED
          BY <1>2, <3>1, <4>1, <4>4
    <3> QED
        BY <3>2, <3>3
  <2> QED
      BY <2>1, <2>2
<1>8. r.id2 # NoId => Agree(H[r.id2], H[r.id], r.upto)
  <2>1. CASE q.id # l.id
      BY <1>2, <1>4, <2>1
  <2>2. CASE q.id = l.id /\ q.on
      BY <1>2, <2>2 DEF ServerAgrees
  <2>3. CASE q.id = l.id /\ ~q.on
      BY <1>2, <1>3, <2>3 DEF Hidden
  <2> QED
      BY <2>1, <2>2, <2>3
<1>9. r.saved.id # NoId => At(H[r.saved.id][r.saved.off], r.saved.data, r.saved.db)
    BY <1>2 DEF ServerAgrees
<1>10. ServerAgrees(H, r)
    BY <1>5, <1>6, <1>7, <1>8, <1>9 DEF ServerAgrees
<1> QED
    BY <1>1, <1>10

\* And it has nothing more of any history.
LEMMA ContinuedLesser ==
    ASSUME NEW q \in Server, NEW l \in Link, Online(l), l.id \in Nat \ {NoId},
           q.db # NoDatabase, l.id = q.id => ~Hidden(q), NEW m, m = [l EXCEPT !.st = "online"]
    PROVE  Lesser(Continued(q, l.id), m, q, l)
<1>1. PICK r : r = Continued(q, l.id)
    OBVIOUS
<1>2. /\ r \in Server /\ r.id = l.id /\ r.data = q.data /\ r.off = q.off /\ r.on
      /\ r.log = (IF q.on THEN q.log ELSE <<>>) /\ r.master = q.master
      /\ r.db = q.db /\ r.saved = q.saved
      /\ l.id # q.id => r.id2 = q.id /\ r.upto = q.off + 1
      /\ l.id = q.id => r.id2 = q.id2 /\ r.upto = q.upto
    BY <1>1, ContinuedIs
<1>3. m.id = l.id /\ m.sl = l.sl /\ m.off = l.off /\ m.buf = l.buf /\ Online(m)
      /\ ~Serving(m) /\ ~Serving(l)
    BY DEF Link, Online, Serving
<1>4. Witness(q) /\ q.off \in Nat /\ Len(l.buf) \in Nat
    BY ServerParts, LinkParts DEF Witness
<1>5. l.id = q.id /\ ~q.on => r.id2 = NoId
    BY <1>2 DEF Hidden
<1> SUFFICES ASSUME NEW id \in Nat \ {NoId}
             PROVE  /\ \A H : \A off \in Nat : UpTo(H, id, off, q, l) => UpTo(H, id, off, r, m)
                    /\ Apart(id, q, l) => Apart(id, r, m)
                    /\ Unheard(id, q, l) => Unheard(id, r, m)
    BY <1>1 DEF Lesser
<1>6. ASSUME NEW H, NEW off \in Nat, UpTo(H, id, off, q, l) PROVE UpTo(H, id, off, r, m)
  <2>1. r.id = id => r.off <= off /\ r.off + Len(m.buf) <= off
    <3>1. l.id = id => q.off + Len(l.buf) <= off
        BY <1>6 DEF UpTo
    <3>2. l.id = id => q.off <= off
      <4>1. CASE q.id = id
          BY <1>4, <1>6, <4>1 DEF UpTo
      <4>2. CASE q.id # id
        <5> SUFFICES ASSUME l.id = id PROVE q.off <= off
            OBVIOUS
        <5> QED
            BY <1>4, <1>6, <3>1, <4>2
      <4> QED
          BY <4>1, <4>2
    <3> QED
        BY <1>2, <1>3, <3>1, <3>2
  <2>2. r.saved.id = id => r.saved.off <= off
      BY <1>2, <1>6 DEF UpTo
  <2>3. r.id2 = id => HeirUpTo(H[r.id], r.upto, off)
    <3>1. CASE l.id # q.id
        BY <1>2, <1>6, <3>1 DEF UpTo
    <3>2. CASE l.id = q.id
      <4>1. CASE q.on
          BY <1>2, <1>6, <3>2, <4>1 DEF UpTo
      <4>2. CASE ~q.on
          BY <1>5, <3>2, <4>2
      <4> QED
          BY <4>1, <4>2
    <3> QED
        BY <3>1, <3>2
  <2> QED
      BY <1>2, <1>3, <2>1, <2>2, <2>3 DEF UpTo
<1>7. ASSUME Apart(id, q, l) PROVE Apart(id, r, m)
  <2>1. l.id # id /\ q.id # id /\ q.saved.id # id /\ (q.on => q.id2 # id)
      BY <1>4, <1>7 DEF Apart
  <2>2. r.id2 # id
      BY <1>2, <1>5, <2>1
  <2> QED
      BY <1>2, <1>3, <2>1, <2>2 DEF Apart
<1>8. ASSUME Unheard(id, q, l) PROVE Unheard(id, r, m)
  <2>1. l.id # id /\ q.id # id /\ (q.on => q.id2 # id)
      BY <1>8 DEF Unheard
  <2>2. r.id2 # id
      BY <1>2, <1>5, <2>1
  <2> QED
      BY <1>2, <1>3, <2>1, <2>2 DEF Unheard
<1> QED
    BY <1>6, <1>7, <1>8

LEMMA ReadContinueStep ==
    ASSUME NEW H, NEW w, WorldInv(H, w), NEW n \in PsServer, Online(w.l[n])
    PROVE  WorldInv(H, ReadContinue(w, n))
<1>1. PICK q : q = w.s[n]
    OBVIOUS
<1>2. PICK l : l = w.l[n]
    OBVIOUS
<1>3. /\ w \in World /\ H \in Histories /\ q \in Server /\ l \in Link /\ w.ids \in Nat
      /\ Shape(n, q, l) /\ Older(w.ids, q, l) /\ ServerAgrees(H, q)
      /\ LinkAgrees(H, q, l) /\ Linked(w.s, q, l)
      /\ Hidden(q) => \A k \in PsServer : Unheard(q.id, w.s[k], w.l[k])
    BY <1>1, <1>2, FitsParts
<1>4. Online(l) /\ q.db # NoDatabase /\ ~IsMaster(q) /\ q.master # n
    BY <1>2, <1>3 DEF Shape, Online
<1>5. l.id \in Nat \ {NoId}
    BY <1>3, <1>4, LinkParts DEF Shape
<1>6. ASSUME l.id = q.id PROVE ~Hidden(q)
  <2> SUFFICES ASSUME Hidden(q) PROVE FALSE
      OBVIOUS
  <2>1. Unheard(q.id, q, l)
      BY <1>1, <1>2, <1>3
  <2> QED
      BY <1>4, <1>6, <2>1 DEF Unheard
<1>7. PICK v : v = ReadContinue(w, n)
    OBVIOUS
<1>8. PICK r : r = Continued(q, l.id)
    OBVIOUS
<1>9. PICK m : m = [l EXCEPT !.st = "online"]
    OBVIOUS
<1>10. /\ v \in World /\ v.ids = w.ids /\ v.s[n] = r /\ v.l[n] = m
       /\ \A k \in PsServer \ {n} :
            /\ v.s[k] = w.s[k] /\ Cut(v.l[k], w.l[k])
            /\ l.id # q.id /\ w.s[k].master = n => ~Followed(v.l[k])
    BY <1>1, <1>2, <1>3, <1>4, <1>5, <1>7, <1>8, <1>9, ReadContinueIs
<1>11. /\ r \in Server /\ r.id = l.id /\ r.data = q.data /\ r.off = q.off /\ r.on
       /\ r.log = (IF q.on THEN q.log ELSE <<>>) /\ r.master = q.master
       /\ r.db = q.db /\ r.saved = q.saved
       /\ r.fail = q.fail /\ (r.force <=> q.force) /\ r.target = q.target
       /\ l.id # q.id => r.id2 = q.id /\ r.upto = q.off + 1
       /\ l.id = q.id => r.id2 = q.id2 /\ r.upto = q.upto
    BY <1>3, <1>5, <1>8, ContinuedIs
<1>12. /\ m \in Link /\ m.st = "online" /\ m.sl = l.sl /\ m.id = l.id /\ m.off = l.off
       /\ m.snap = l.snap /\ m.db = l.db /\ m.buf = l.buf /\ (m.open <=> l.open)
  <2>1. m \in Link
      BY <1>3, <1>9 DEF Link
  <2> QED
      BY <1>3, <1>9, <2>1 DEF Link
<1>13. Online(m) /\ ~Serving(m) /\ m.sl # "start" /\ ~IsMaster(r)
    BY <1>4, <1>11, <1>12 DEF Online, Serving, IsMaster
<1>14. Others(w, v, n)
    BY <1>3, <1>10 DEF Others
<1>15. Shape(n, r, m)
  <2>1. Len(r.log) <= r.off
    <3>1. Len(<<>>) = 0 /\ q.off \in Nat
        BY <1>3, ServerParts
    <3> QED
        BY <1>3, <1>11, <3>1 DEF Shape
  <2>2. r.upto <= r.off + 1
      BY <1>3, <1>11, ServerParts DEF Shape
  <2>3. q.fail # "wait"
      BY <1>3, <1>4 DEF Shape
  <2> QED
      BY <1>3, <1>4, <1>5, <1>11, <1>12, <1>13, <2>1, <2>2, <2>3 DEF Shape
<1>16. Older(v.ids, r, m)
    BY <1>3, <1>10, <1>11, <1>12 DEF Older
<1>17. ServerAgrees(H, r)
    BY <1>3, <1>4, <1>5, <1>6, <1>8, ContinuedAgrees
<1>18. LinkAgrees(H, r, m)
    BY <1>3, <1>4, <1>11, <1>12, <1>13 DEF LinkAgrees
<1>19. Linked(v.s, r, m)
  <2>1. Behind(r, m) = Behind(q, l) /\ (Followed(m) => Followed(l))
      BY <1>4, <1>11, <1>12, <1>13 DEF Behind, Followed
  <2>2. q.master \in PsServer => v.s[q.master] = w.s[q.master]
      BY <1>4, <1>10
  <2> QED
      BY <1>3, <1>11, <1>12, <2>1, <2>2 DEF Linked
<1>20. Leading(v, n)
  <2>1. CASE l.id # q.id
    <3>1. \A k \in PsServer \ {n} : v.s[k].master = n => ~Followed(v.l[k])
        BY <1>10, <2>1
    <3> QED
        BY <3>1, NoneLeading
  <2>2. CASE l.id = q.id /\ q.on
    <3>1. r.on = q.on
        BY <1>3, <1>11, <2>2, ServerParts
    <3> QED
        BY <1>1, <1>10, <1>11, <1>14, <2>2, <3>1, StillLeading
  <2>3. CASE ~q.on
    <3>1. \A k \in PsServer : w.s[k].master = n => ~Followed(w.l[k])
        BY <1>1, <2>3, NoneFollows
    <3>2. \A k \in PsServer \ {n} : v.s[k].master = n => ~Followed(v.l[k])
        BY <1>10, <3>1 DEF Cut, Followed
    <3> QED
        BY <3>2, NoneLeading
  <2> QED
      BY <2>1, <2>2, <2>3
<1>21. Respects(H, w, n, r, m)
  <2>1. Lesser(r, m, q, l)
      BY <1>3, <1>4, <1>5, <1>6, <1>8, <1>9, ContinuedLesser
  <2> QED
      BY <1>1, <1>2, <1>13, <2>1, LesserRespects
<1>22. Kept(H, w, n)
    BY KeptSame
<1>23. ~Hidden(r)
    BY <1>11 DEF Hidden
<1>24. Fitting(H, w, v, n)
    BY ONLY <1>10, <1>13, <1>14, <1>15, <1>16, <1>17, <1>18, <1>19, <1>20, <1>21, <1>22, <1>23
       DEF Fitting
<1>25. WorldInv(H, v)
    BY <1>3, <1>10, <1>24, OneStep
<1> QED
    BY <1>7, <1>25

\* The reply FULLRESYNC: the replica gives up its past.
Emptied(q) == [q EXCEPT !.db = NoDatabase, !.on = FALSE, !.log = <<>>]

LEMMA EmptiedIs ==
    ASSUME NEW q \in Server
    PROVE  /\ Emptied(q) \in Server /\ Emptied(q).id = q.id /\ Emptied(q).id2 = q.id2
           /\ Emptied(q).upto = q.upto
           /\ Emptied(q).data = q.data /\ Emptied(q).off = q.off
           /\ ~Emptied(q).on /\ Emptied(q).log = <<>> /\ Emptied(q).master = q.master
           /\ Emptied(q).db = NoDatabase /\ Emptied(q).saved = q.saved
           /\ Emptied(q).fail = q.fail /\ (Emptied(q).force <=> q.force)
           /\ Emptied(q).target = q.target
<1>1. PICK b \in BOOLEAN : b = FALSE
    OBVIOUS
<1>2. <<>> \in Seq(Item)
    OBVIOUS
<1>3. PICK e \in Seq(Item) : e = <<>>
    BY <1>2
<1>4. PICK d \in Int : d = NoDatabase
    BY PsNumbers
<1>5. PICK r : r = [q EXCEPT !.db = d, !.on = b, !.log = e]
    OBVIOUS
<1>6. r \in Server
    BY <1>5 DEF Server
<1>7. /\ r.id = q.id /\ r.id2 = q.id2 /\ r.upto = q.upto /\ r.data = q.data
      /\ r.off = q.off /\ (r.on <=> b) /\ r.log = e /\ r.master = q.master
      /\ r.db = d /\ r.saved = q.saved /\ r.fail = q.fail /\ (r.force <=> q.force)
      /\ r.target = q.target
    BY <1>5 DEF Server
<1>8. Emptied(q) = r
    BY <1>1, <1>3, <1>4, <1>5 DEF Emptied
<1> QED
    BY <1>1, <1>3, <1>4, <1>6, <1>7, <1>8

LEMMA ReadFullResyncIs ==
    ASSUME NEW w \in World, NEW n \in PsServer, w.s[n].master # n
    PROVE  /\ ReadFullResync(w, n) \in World /\ ReadFullResync(w, n).ids = w.ids
           /\ ReadFullResync(w, n).s[n] = Emptied(w.s[n])
           /\ ReadFullResync(w, n).l[n] = [w.l[n] EXCEPT !.st = "transfer"]
           /\ \A k \in PsServer \ {n} :
                /\ ReadFullResync(w, n).s[k] = w.s[k]
                /\ Cut(ReadFullResync(w, n).l[k], w.l[k])
                /\ w.s[k].master = n => ~Followed(ReadFullResync(w, n).l[k])
<1>0. PICK q \in Server : q = w.s[n]
    BY WorldParts
<1>1. PICK l \in Link : l = w.l[n]
    BY WorldParts
<1>2. PICK a : a = disconnectSlaves(w, n)
    OBVIOUS
<1>3. /\ a \in World /\ a.s = w.s /\ a.ids = w.ids
      /\ \A k \in PsServer : Cut(a.l[k], w.l[k])
      /\ \A k \in PsServer : w.s[k].master = n => ~Followed(a.l[k])
      /\ a.l[n] = l
    BY <1>1, <1>2, Disconnected
<1>4. PICK m : m = [l EXCEPT !.st = "transfer"]
    OBVIOUS
<1>5. m \in Link
    BY <1>4 DEF Link
<1>6. PICK r : r = Emptied(q)
    OBVIOUS
<1>7. r \in Server
    BY <1>6, EmptiedIs
<1>8. ReadFullResync(w, n) = With(a, n, r, m)
  <2>1. PICK as \in [PsServer -> Server], al \in [PsServer -> Link], aids \in Nat :
            a = [s |-> as, l |-> al, ids |-> aids]
      BY <1>3 DEF World
  <2>2. as[n] = q /\ al[n] = l
      BY <1>0, <1>3, <2>1
  <2>3. PICK c : c = ReadFullResync(w, n)
      OBVIOUS
  <2>c. c = [a EXCEPT !.l[n].st = "transfer",
                !.s[n] = freeReplicationBacklog([a.s[n] EXCEPT !.db = NoDatabase])]
      BY <1>2, <2>3 DEF ReadFullResync
  <2>f. PICK f : f = freeReplicationBacklog([a.s[n] EXCEPT !.db = NoDatabase])
      OBVIOUS
  <2>4. c = [s |-> [as EXCEPT ![n] = f], l |-> [al EXCEPT ![n].st = "transfer"], ids |-> aids]
      BY <2>1, <2>c, <2>f
  <2>5. freeReplicationBacklog([q EXCEPT !.db = NoDatabase]) = r
      BY <1>6 DEF freeReplicationBacklog, Emptied, Server
  <2>6. f = r
      BY <2>1, <2>2, <2>5, <2>f
  <2>7. [al EXCEPT ![n].st = "transfer"] = [al EXCEPT ![n] = m]
      BY <1>4, <2>2
  <2>8. PICK d : d = With(a, n, r, m)
      OBVIOUS
  <2>9. d = [s |-> [as EXCEPT ![n] = r], l |-> [al EXCEPT ![n] = m], ids |-> aids]
      BY <2>1, <2>8 DEF With
  <2> QED
      BY <2>3, <2>4, <2>6, <2>7, <2>8, <2>9
<1>9. /\ With(a, n, r, m) \in World /\ With(a, n, r, m).ids = a.ids
      /\ With(a, n, r, m).s[n] = r /\ With(a, n, r, m).l[n] = m
      /\ \A k \in PsServer \ {n} : /\ With(a, n, r, m).s[k] = a.s[k]
                                   /\ With(a, n, r, m).l[k] = a.l[k]
    BY <1>3, <1>5, <1>7, WithIs
<1>10. PICK v : v = ReadFullResync(w, n)
    OBVIOUS
<1>11. v \in World /\ v.ids = w.ids /\ v.s[n] = r /\ v.l[n] = m
    BY <1>3, <1>8, <1>9, <1>10
<1>12. \A k \in PsServer \ {n} :
            /\ v.s[k] = w.s[k] /\ Cut(v.l[k], w.l[k])
            /\ w.s[k].master = n => ~Followed(v.l[k])
    BY <1>3, <1>8, <1>9, <1>10
<1> QED
    BY <1>0, <1>1, <1>4, <1>6, <1>10, <1>11, <1>12

LEMMA EmptiedLesser ==
    ASSUME NEW q \in Server, NEW l \in Link, Serving(l), NEW m, m = [l EXCEPT !.st = "transfer"]
    PROVE  Lesser(Emptied(q), m, q, l)
<1>1. PICK r : r = Emptied(q)
    OBVIOUS
<1>2. /\ r.id = q.id /\ ~r.on /\ r.db = NoDatabase /\ r.saved = q.saved
    BY <1>1, EmptiedIs
<1>3. m.id = l.id /\ m.sl = l.sl /\ m.off = l.off /\ m.buf = l.buf
    BY DEF Link
<1>4. Serving(m) /\ ~Online(m) /\ ~Online(l) /\ ~Witness(r)
    BY <1>2, <1>3 DEF Serving, Online, Witness
<1> QED
    BY <1>1, <1>2, <1>3, <1>4 DEF Lesser, UpTo, Apart, Unheard

LEMMA ReadFullResyncStep ==
    ASSUME NEW H, NEW w, WorldInv(H, w), NEW n \in PsServer, Serving(w.l[n])
    PROVE  WorldInv(H, ReadFullResync(w, n))
<1>1. PICK q : q = w.s[n]
    OBVIOUS
<1>2. PICK l : l = w.l[n]
    OBVIOUS
<1>3. /\ w \in World /\ H \in Histories /\ q \in Server /\ l \in Link /\ w.ids \in Nat
      /\ Shape(n, q, l) /\ Older(w.ids, q, l) /\ ServerAgrees(H, q)
      /\ LinkAgrees(H, q, l) /\ Linked(w.s, q, l)
    BY <1>1, <1>2, FitsParts
<1>4. Serving(l) /\ ~Online(l) /\ ~IsMaster(q) /\ q.master # n /\ l.sl # "start"
    BY <1>2, <1>3 DEF Shape, Serving, Online
<1>5. PICK v : v = ReadFullResync(w, n)
    OBVIOUS
<1>6. PICK r : r = Emptied(q)
    OBVIOUS
<1>7. PICK m : m = [l EXCEPT !.st = "transfer"]
    OBVIOUS
<1>8. /\ v \in World /\ v.ids = w.ids /\ v.s[n] = r /\ v.l[n] = m
      /\ \A k \in PsServer \ {n} :
            /\ v.s[k] = w.s[k] /\ Cut(v.l[k], w.l[k])
            /\ w.s[k].master = n => ~Followed(v.l[k])
    BY <1>1, <1>2, <1>3, <1>4, <1>5, <1>6, <1>7, ReadFullResyncIs
<1>9. /\ r \in Server /\ r.id = q.id /\ r.id2 = q.id2 /\ r.upto = q.upto
      /\ r.off = q.off /\ ~r.on /\ r.log = <<>> /\ r.master = q.master
      /\ r.db = NoDatabase /\ r.saved = q.saved
      /\ r.fail = q.fail /\ (r.force <=> q.force) /\ r.target = q.target
    BY <1>3, <1>6, EmptiedIs
<1>10. /\ m \in Link /\ m.st = "transfer" /\ m.sl = l.sl /\ m.id = l.id /\ m.off = l.off
       /\ m.snap = l.snap /\ m.db = l.db /\ m.buf = l.buf /\ (m.open <=> l.open)
  <2>1. m \in Link
      BY <1>3, <1>7 DEF Link
  <2> QED
      BY <1>3, <1>7, <2>1 DEF Link
<1>11. Serving(m) /\ ~Online(m) /\ ~IsMaster(r) /\ ~Witness(r) /\ ~Hidden(r)
    BY <1>4, <1>9, <1>10 DEF Online, Serving, IsMaster, Witness, Hidden
<1>12. Others(w, v, n)
    BY <1>3, <1>8 DEF Others
<1>13. Shape(n, r, m)
  <2>1. Len(<<>>) = 0 /\ q.off \in Nat
      BY <1>3, ServerParts
  <2>2. q.fail # "wait"
      BY <1>3, <1>4 DEF Shape
  <2> QED
      BY <1>3, <1>4, <1>9, <1>10, <1>11, <2>1, <2>2 DEF Shape
<1>14. Older(v.ids, r, m)
    BY <1>3, <1>8, <1>9, <1>10 DEF Older
<1>15. ServerAgrees(H, r)
    BY <1>3, <1>9, <1>11 DEF ServerAgrees
<1>16. LinkAgrees(H, r, m)
    BY <1>3, <1>4, <1>10, <1>11 DEF LinkAgrees
<1>17. Linked(v.s, r, m)
  <2>1. Behind(r, m) = Behind(q, l) /\ (Followed(m) => Followed(l))
      BY <1>4, <1>10, <1>11 DEF Behind, Followed
  <2>2. q.master \in PsServer => v.s[q.master] = w.s[q.master]
      BY <1>4, <1>8
  <2> QED
      BY <1>3, <1>9, <1>10, <2>1, <2>2 DEF Linked
<1>18. Leading(v, n)
  <2>1. \A k \in PsServer \ {n} : v.s[k].master = n => ~Followed(v.l[k])
      BY <1>8
  <2> QED
      BY <2>1, NoneLeading
<1>19. Respects(H, w, n, r, m)
  <2>1. Lesser(r, m, q, l)
      BY <1>3, <1>4, <1>6, <1>7, EmptiedLesser
  <2> QED
      BY <1>1, <1>2, <1>11, <2>1, LesserRespects
<1>20. Kept(H, w, n)
    BY KeptSame
<1>21. Fitting(H, w, v, n)
    BY <1>8, <1>11, <1>12, <1>13, <1>14, <1>15, <1>16, <1>17, <1>18, <1>19, <1>20 DEF Fitting
<1>22. WorldInv(H, v)
    BY <1>3, <1>8, <1>21, OneStep
<1> QED
    BY <1>5, <1>22

LEMMA SyncWithMasterStep ==
    ASSUME NEW n \in PsServer, PsInv, syncWithMaster(n)
    PROVE  PsInv'
<1>1. PICK H \in Histories : WorldInv(H, PsWorld)
    BY Now
<1>2. PICK w : w = PsWorld
    OBVIOUS
<1>3. WorldInv(H, w) /\ w \in World
    BY <1>1, <1>2 DEF WorldInv
<1>4. PICK c : c = (IF w.s[n].fail = "progress" THEN clearFailoverState(w, n) ELSE w)
    OBVIOUS
<1>5. WorldInv(H, c) /\ c.l = w.l
  <2>1. WorldInv(H, clearFailoverState(w, n))
      BY <1>3, ClearStep
  <2>2. clearFailoverState(w, n).l = w.l
      BY <1>3 DEF clearFailoverState, World
  <2> QED
      BY <1>3, <1>4, <2>1, <2>2
<1>6. psWrites' \in Nat /\ w.l[n].st = "psync"
    BY <1>2 DEF syncWithMaster, PsInv
<1>7. \/ w.l[n].sl = "online" /\ PsBecomes(ReadContinue(c, n))
      \/ w.l[n].sl \in {"end", "send"} /\ PsBecomes(ReadFullResync(c, n))
      \/ PsBecomes(IF w.s[n].fail = "progress" THEN abortFailover(w, n)
                   ELSE [w EXCEPT !.l[n] = Link0("connect")])
    BY <1>2, <1>4 DEF syncWithMaster
<1>8. CASE w.l[n].sl = "online" /\ PsBecomes(ReadContinue(c, n))
  <2>1. Online(c.l[n])
      BY <1>5, <1>8 DEF Online
  <2>2. WorldInv(H, ReadContinue(c, n))
      BY <1>5, <2>1, ReadContinueStep
  <2> QED
      BY <1>6, <1>8, <2>2, MakesWorld
<1>9. CASE w.l[n].sl \in {"end", "send"} /\ PsBecomes(ReadFullResync(c, n))
  <2>1. Serving(c.l[n])
      BY <1>5, <1>9 DEF Serving
  <2>2. WorldInv(H, ReadFullResync(c, n))
      BY <1>5, <2>1, ReadFullResyncStep
  <2> QED
      BY <1>6, <1>9, <2>2, MakesWorld
<1>10. CASE PsBecomes(IF w.s[n].fail = "progress" THEN abortFailover(w, n)
                      ELSE [w EXCEPT !.l[n] = Link0("connect")])
  <2>1. \E G \in Histories : WorldInv(G, abortFailover(w, n))
      BY <1>3, AbortStep
  <2>2. WorldInv(H, [w EXCEPT !.l[n] = Link0("connect")])
    <3>1. PICK st \in {"none", "connect", "psync"} : st = "connect"
        OBVIOUS
    <3>2. PICK l : l = Link0(st)
        OBVIOUS
    <3>3. Silent(l) /\ ~Followed(l)
        BY <3>2, LinkZero
    <3>4. ~IsMaster(w.s[n])
      <4>1. Shape(n, w.s[n], w.l[n])
          BY <1>3, FitsParts
      <4> QED
          BY <1>6, <4>1 DEF Shape
    <3>5. WorldInv(H, WithLink(w, n, l))
        BY <1>3, <3>3, <3>4, OneLink
    <3> QED
        BY <3>1, <3>2, <3>5 DEF WithLink
  <2>3. PICK v : v = IF w.s[n].fail = "progress" THEN abortFailover(w, n)
                     ELSE [w EXCEPT !.l[n] = Link0("connect")]
      OBVIOUS
  <2>4. \E G \in Histories : WorldInv(G, v)
      BY <2>1, <2>2, <2>3
  <2> QED
      BY <1>6, <1>10, <2>3, <2>4, MakesWorld
<1> QED
    BY <1>7, <1>8, <1>9, <1>10

\* The reply cannot be read: the replica gives up its past and its link.
LEMMA GivenUpLesser ==
    ASSUME NEW q \in Server, NEW l, NEW m, Silent(m)
    PROVE  Lesser(Emptied(q), m, q, l)
<1>1. PICK r : r = Emptied(q)
    OBVIOUS
<1>2. /\ r.id = q.id /\ ~r.on /\ r.db = NoDatabase /\ r.saved = q.saved
    BY <1>1, EmptiedIs
<1>3. ~Serving(m) /\ ~Online(m) /\ ~Witness(r)
    BY <1>2 DEF Silent, Witness
<1> QED
    BY <1>1, <1>2, <1>3 DEF Lesser, UpTo, Apart, Unheard

LEMMA PsyncNotSupportedStep ==
    ASSUME NEW H, NEW w, WorldInv(H, w), NEW n \in PsServer, ~IsMaster(w.s[n])
    PROVE  WorldInv(H, PsyncNotSupported(w, n))
<1>1. PICK q : q = w.s[n]
    OBVIOUS
<1>2. PICK l : l = w.l[n]
    OBVIOUS
<1>3. /\ w \in World /\ H \in Histories /\ q \in Server /\ l \in Link /\ w.ids \in Nat
      /\ Shape(n, q, l) /\ Older(w.ids, q, l) /\ ServerAgrees(H, q)
    BY <1>1, <1>2, FitsParts
<1>4. ~IsMaster(q) /\ q.master # n /\ q.fail # "wait"
    BY <1>1, <1>3 DEF Shape
<1>5. PICK st \in {"none", "connect", "psync"} : st = "connect"
    OBVIOUS
<1>6. PICK m : m = Link0(st)
    OBVIOUS
<1>7. Silent(m) /\ ~Followed(m) /\ m \in Link /\ m.st = "connect" /\ m.sl = "none"
    BY <1>5, <1>6, LinkZero DEF Silent
<1>8. PICK r : r = Emptied(q)
    OBVIOUS
<1>9. PICK a : a = ReadFullResync(w, n)
    OBVIOUS
<1>10. /\ a \in World /\ a.ids = w.ids /\ a.s[n] = r
       /\ \A k \in PsServer \ {n} :
            /\ a.s[k] = w.s[k] /\ Cut(a.l[k], w.l[k])
            /\ w.s[k].master = n => ~Followed(a.l[k])
    BY <1>1, <1>3, <1>4, <1>8, <1>9, ReadFullResyncIs
<1>11. PICK v : v = WithLink(a, n, m)
    OBVIOUS
<1>12. PsyncNotSupported(w, n) = v
    BY <1>5, <1>6, <1>9, <1>11 DEF PsyncNotSupported, WithLink
<1>13. /\ v \in World /\ v.ids = w.ids /\ v.s[n] = r /\ v.l[n] = m
       /\ \A k \in PsServer \ {n} :
            /\ v.s[k] = w.s[k] /\ Cut(v.l[k], w.l[k])
            /\ w.s[k].master = n => ~Followed(v.l[k])
    BY <1>7, <1>10, <1>11, WithLinkIs
<1>14. /\ r \in Server /\ r.id = q.id /\ r.id2 = q.id2 /\ r.upto = q.upto
       /\ r.off = q.off /\ ~r.on /\ r.log = <<>> /\ r.master = q.master
       /\ r.db = NoDatabase /\ r.saved = q.saved
       /\ r.fail = q.fail /\ (r.force <=> q.force) /\ r.target = q.target
    BY <1>3, <1>8, EmptiedIs
<1>15. ~IsMaster(r) /\ ~Witness(r) /\ ~Hidden(r)
    BY <1>4, <1>14 DEF IsMaster, Witness, Hidden
<1>16. Others(w, v, n)
    BY <1>3, <1>13 DEF Others
<1>17. Shape(n, r, m)
  <2>1. Len(<<>>) = 0 /\ q.off \in Nat
      BY <1>3, ServerParts
  <2> QED
      BY <1>3, <1>4, <1>7, <1>14, <1>15, <2>1 DEF Shape, Silent
<1>18. Older(v.ids, r, m)
  <2>1. Older(w.ids, r, l)
      BY <1>3, <1>14 DEF Older
  <2> QED
      BY <1>3, <1>7, <1>13, <1>14, <2>1, SilentAgrees
<1>19. ServerAgrees(H, r)
    BY <1>3, <1>14, <1>15 DEF ServerAgrees
<1>20. LinkAgrees(H, r, m) /\ Linked(v.s, r, m)
    BY <1>7, SilentAgrees, NotFollowed
<1>21. Leading(v, n)
  <2>1. \A k \in PsServer \ {n} : v.s[k].master = n => ~Followed(v.l[k])
      BY <1>13
  <2> QED
      BY <2>1, NoneLeading
<1>22. Respects(H, w, n, r, m)
  <2>1. Lesser(r, m, q, l)
      BY <1>3, <1>7, <1>8, GivenUpLesser
  <2> QED
      BY <1>1, <1>2, <1>15, <2>1, LesserRespects
<1>23. Kept(H, w, n)
    BY KeptSame
<1>24. Fitting(H, w, v, n)
    BY <1>13, <1>15, <1>16, <1>17, <1>18, <1>19, <1>20, <1>21, <1>22, <1>23 DEF Fitting
<1>25. WorldInv(H, v)
    BY <1>3, <1>13, <1>24, OneStep
<1> QED
    BY <1>12, <1>25

LEMMA SyncWithMasterErrorStep ==
    ASSUME NEW n \in PsServer, PsInv, syncWithMasterError(n)
    PROVE  PsInv'
<1>1. PICK H \in Histories : WorldInv(H, PsWorld)
    BY Now
<1>2. PICK w : w = PsWorld
    OBVIOUS
<1>3. WorldInv(H, w)
    BY <1>1, <1>2
<1>4. /\ psWrites' \in Nat /\ w.l[n].st \in {"connect", "psync"}
      /\ PsBecomes(IF w.s[n].fail = "progress" THEN abortFailover(w, n)
                   ELSE PsyncNotSupported(w, n))
    BY <1>2 DEF syncWithMasterError, PsInv
<1>5. \E G \in Histories : WorldInv(G, abortFailover(w, n))
    BY <1>3, AbortStep
<1>6. ~IsMaster(w.s[n])
  <2>1. Shape(n, w.s[n], w.l[n])
      BY <1>3, FitsParts
  <2> QED
      BY <1>4, <2>1 DEF Shape
<1>7. H \in Histories /\ WorldInv(H, PsyncNotSupported(w, n))
    BY <1>3, <1>6, PsyncNotSupportedStep
<1>8. PICK v : v = IF w.s[n].fail = "progress" THEN abortFailover(w, n)
                   ELSE PsyncNotSupported(w, n)
    OBVIOUS
<1>9. \E G \in Histories : WorldInv(G, v)
    BY <1>5, <1>7, <1>8
<1> QED
    BY <1>4, <1>8, <1>9, MakesWorld

\* The file has been loaded.
Loaded(q, l) ==
    [q EXCEPT !.data = l.snap, !.id = l.id, !.id2 = NoId, !.upto = -1, !.off = l.off,
              !.db = LoadedDb(l), !.on = TRUE, !.log = <<>>,
              !.saved = [data |-> l.snap, id |-> l.id, off |-> l.off, db |-> l.db]]

LEMMA LoadedIs ==
    ASSUME NEW q \in Server, NEW l \in Link, l.id \in Nat \ {NoId}
    PROVE  /\ Loaded(q, l) \in Server /\ Loaded(q, l).id = l.id /\ Loaded(q, l).id2 = NoId
           /\ Loaded(q, l).upto = -1 /\ Loaded(q, l).data = l.snap
           /\ Loaded(q, l).off = l.off /\ Loaded(q, l).on /\ Loaded(q, l).log = <<>>
           /\ Loaded(q, l).master = q.master /\ Loaded(q, l).db = l.db
           /\ Loaded(q, l).saved.data = l.snap /\ Loaded(q, l).saved.id = l.id
           /\ Loaded(q, l).saved.off = l.off /\ Loaded(q, l).saved.db = l.db
           /\ Loaded(q, l).fail = q.fail /\ (Loaded(q, l).force <=> q.force)
           /\ Loaded(q, l).target = q.target
<1>1. PICK b \in BOOLEAN : b = TRUE
    OBVIOUS
<1>2. <<>> \in Seq(Item)
    OBVIOUS
<1>3. PICK e \in Seq(Item) : e = <<>>
    BY <1>2
<1>4. PICK d \in Int, data \in Data, off \in Nat :
            d = l.db /\ data = l.snap /\ off = l.off
    BY LinkParts
<1>5. PICK i2 \in Nat : i2 = NoId
    BY PsNumbers
<1>6. PICK u \in Int : u = -1
    OBVIOUS
<1>7. PICK i \in Nat \ {0} : i = l.id
    BY DEF NoId
<1>8. PICK f : f = [data |-> data, id |-> i, off |-> off, db |-> d]
    OBVIOUS
<1>9. f \in Saved /\ f.data = data /\ f.id = i /\ f.off = off /\ f.db = d
    BY <1>8 DEF Saved
<1>10. PICK r : r = [q EXCEPT !.data = data, !.id = i, !.id2 = i2, !.upto = u, !.off = off,
                              !.db = d, !.on = b, !.log = e, !.saved = f]
    OBVIOUS
<1>11. r \in Server
    BY <1>9, <1>10 DEF Server
<1>12. /\ r.id = i /\ r.id2 = i2 /\ r.upto = u /\ r.data = data
       /\ r.off = off /\ (r.on <=> b) /\ r.log = e /\ r.master = q.master
       /\ r.db = d /\ r.saved = f /\ r.fail = q.fail /\ (r.force <=> q.force)
       /\ r.target = q.target
    BY <1>10 DEF Server
<1>13. Loaded(q, l) = r
    BY <1>1, <1>3, <1>4, <1>5, <1>6, <1>7, <1>8, <1>10 DEF Loaded, LoadedDb
<1> QED
    BY <1>1, <1>3, <1>4, <1>5, <1>6, <1>7, <1>9, <1>11, <1>12, <1>13

LEMMA LoadedLesser ==
    ASSUME NEW q \in Server, NEW l \in Link, Serving(l), l.id \in Nat \ {NoId},
           NEW m, m = [l EXCEPT !.st = "online", !.sl = "online"]
    PROVE  Lesser(Loaded(q, l), m, q, l)
<1>1. PICK r : r = Loaded(q, l)
    OBVIOUS
<1>2. /\ r.id = l.id /\ r.id2 = NoId /\ r.on /\ r.off = l.off
      /\ r.saved.id = l.id /\ r.saved.off = l.off
    BY <1>1, LoadedIs
<1>3. m.id = l.id /\ m.sl = "online" /\ m.off = l.off /\ m.buf = l.buf
    BY DEF Link
<1>4. ~Serving(m) /\ Online(m) /\ ~Online(l)
    BY <1>3 DEF Serving, Online
<1>5. l.off \in Nat /\ Len(l.buf) \in Nat
    BY LinkParts
<1>6. ASSUME NEW id \in Nat \ {NoId}
      PROVE  /\ \A H : \A off \in Nat : UpTo(H, id, off, q, l) => UpTo(H, id, off, r, m)
             /\ Apart(id, q, l) => Apart(id, r, m)
             /\ Unheard(id, q, l) => Unheard(id, r, m)
  <2>1. ASSUME NEW H, NEW off \in Nat, UpTo(H, id, off, q, l) PROVE UpTo(H, id, off, r, m)
    <3>1. l.id = id => l.off + Len(l.buf) <= off
        BY <2>1 DEF UpTo
    <3>2. l.id = id => l.off <= off
        BY <1>5, <3>1
    <3> QED
        BY <1>2, <1>3, <1>4, <3>1, <3>2 DEF UpTo
  <2>2. Apart(id, q, l) => Apart(id, r, m)
      BY <1>2, <1>3, <1>4 DEF Apart
  <2>3. Unheard(id, q, l) => Unheard(id, r, m)
      BY <1>2, <1>3, <1>4 DEF Unheard
  <2> QED
      BY <2>1, <2>2, <2>3
<1> QED
    BY <1>1, <1>6 DEF Lesser

LEMMA BulkPayloadStep ==
    ASSUME NEW n \in PsServer, PsInv, readSyncBulkPayload(n)
    PROVE  PsInv'
<1>0. PICK H \in Histories : WorldInv(H, PsWorld)
    BY Now
<1>w. PICK w : w = PsWorld
    OBVIOUS
<1>1. PICK q : q = w.s[n]
    OBVIOUS
<1>2. PICK l : l = w.l[n]
    OBVIOUS
<1>3. /\ w \in World /\ H \in Histories /\ q \in Server /\ l \in Link /\ w.ids \in Nat
      /\ Shape(n, q, l) /\ Older(w.ids, q, l) /\ ServerAgrees(H, q)
      /\ LinkAgrees(H, q, l) /\ Linked(w.s, q, l) /\ WorldInv(H, w)
    BY <1>0, <1>w, <1>1, <1>2, FitsParts
<1>4. w.s = psS /\ w.l = psL /\ w.ids = psIds
    BY <1>w, NowParts
<1>5. l.st = "transfer" /\ l.sl = "send" /\ psWrites' \in Nat
    BY <1>2, <1>4 DEF readSyncBulkPayload, PsInv
<1>6. Serving(l) /\ ~Online(l) /\ ~IsMaster(q) /\ q.master # n /\ ~q.on /\ l.db # NoDatabase
    BY <1>3, <1>5 DEF Shape, Serving, Online
<1>7. l.id \in Nat \ {NoId}
    BY <1>3, <1>6, LinkParts DEF Shape
<1>8. PICK m : m = [l EXCEPT !.st = "online", !.sl = "online"]
    OBVIOUS
<1>9. /\ m \in Link /\ m.st = "online" /\ m.sl = "online" /\ m.id = l.id /\ m.off = l.off
      /\ m.snap = l.snap /\ m.db = l.db /\ m.buf = l.buf /\ (m.open <=> l.open)
  <2>1. m \in Link
      BY <1>3, <1>8 DEF Link
  <2> QED
      BY <1>3, <1>8, <2>1 DEF Link
<1>10. PICK r : r = Loaded(q, l)
    OBVIOUS
<1>11. /\ r \in Server /\ r.id = l.id /\ r.id2 = NoId
       /\ r.upto = -1 /\ r.data = l.snap
       /\ r.off = l.off /\ r.on /\ r.log = <<>>
       /\ r.master = q.master /\ r.db = l.db
       /\ r.saved.data = l.snap /\ r.saved.id = l.id
       /\ r.saved.off = l.off /\ r.saved.db = l.db
       /\ r.fail = q.fail /\ (r.force <=> q.force)
       /\ r.target = q.target
    BY <1>3, <1>7, <1>10, LoadedIs
<1>12. PICK v : v = With(w, n, r, m)
    OBVIOUS
<1>13. /\ v \in World /\ v.ids = w.ids /\ v.s[n] = r /\ v.l[n] = m
       /\ \A k \in PsServer \ {n} : v.s[k] = w.s[k] /\ v.l[k] = w.l[k]
    BY <1>3, <1>9, <1>11, <1>12, WithIs
<1>14. PsBecomes(v)
  <2>1. PICK g : g = [psS[n] EXCEPT !.data = l.snap, !.id = l.id, !.id2 = NoId,
                !.upto = -1, !.off = l.off, !.db = LoadedDb(l),
                !.saved = [data |-> l.snap, id |-> l.id, off |-> l.off,
                           db |-> l.db]]
      OBVIOUS
  <2>2. PsBecomes([PsWorld EXCEPT !.l[n].st = "online", !.l[n].sl = "online",
                                 !.s[n] = IF g.on THEN g ELSE createReplicationBacklog(g)])
      BY <1>2, <1>4, <2>1 DEF readSyncBulkPayload
  <2>3. ~g.on
      BY <1>1, <1>3, <1>4, <1>6, <2>1 DEF Server
  <2>4. createReplicationBacklog(g) = r
      BY <1>1, <1>3, <1>4, <1>10, <2>1 DEF createReplicationBacklog, Loaded, Server
  <2>5. [w EXCEPT !.l[n].st = "online", !.l[n].sl = "online", !.s[n] = r] = v
    <3>1. PICK as \in [PsServer -> Server], al \in [PsServer -> Link], aids \in Nat :
              w = [s |-> as, l |-> al, ids |-> aids]
        BY <1>3 DEF World
    <3>2. PICK c : c = [w EXCEPT !.l[n].st = "online", !.l[n].sl = "online", !.s[n] = r]
        OBVIOUS
    <3>3. c = [s |-> [as EXCEPT ![n] = r],
               l |-> [[al EXCEPT ![n].st = "online"] EXCEPT ![n].sl = "online"],
               ids |-> aids]
        BY <3>1, <3>2
    <3>4. al[n] = l
        BY <1>2, <3>1
    <3>5. [[al EXCEPT ![n].st = "online"] EXCEPT ![n].sl = "online"] = [al EXCEPT ![n] = m]
        BY <1>3, <1>8, <3>4 DEF Link
    <3>6. v = [s |-> [as EXCEPT ![n] = r], l |-> [al EXCEPT ![n] = m], ids |-> aids]
        BY <1>12, <3>1 DEF With
    <3> QED
        BY <3>2, <3>3, <3>5, <3>6
  <2> QED
      BY <1>w, <2>2, <2>3, <2>4, <2>5
<1>15. ~Serving(m) /\ Online(m) /\ m.sl # "start" /\ ~IsMaster(r) /\ ~Hidden(r) /\ Witness(r)
    BY <1>6, <1>9, <1>11 DEF Online, Serving, IsMaster, Hidden, Witness
<1>16. Others(w, v, n)
    BY <1>3, <1>13, WorldParts, CutSelf DEF Others
<1>17. l.off \in Nat /\ Len(<<>>) = 0 /\ l.off - 0 = l.off
    BY <1>3, LinkParts
<1>18. Shape(n, r, m)
  <2>1. q.fail # "wait"
      BY <1>3, <1>6 DEF Shape
  <2> QED
      BY <1>3, <1>6, <1>7, <1>9, <1>11, <1>15, <1>17, <2>1 DEF Shape
<1>19. Older(v.ids, r, m)
    BY <1>3, <1>7, <1>9, <1>11, <1>13, PsNumbers DEF Older
<1>20. At(H[l.id][l.off], l.snap, l.db) /\ Run(H[l.id], l.off, l.buf)
    BY <1>3, <1>6 DEF LinkAgrees
<1>21. ServerAgrees(H, r)
  <2>1. Run(H[r.id], r.off - Len(r.log), r.log)
      BY <1>11 DEF Run
  <2> QED
      BY <1>11, <1>15, <1>20, <2>1 DEF ServerAgrees
<1>22. LinkAgrees(H, r, m)
    BY <1>9, <1>11, <1>15, <1>20 DEF LinkAgrees
<1>23. Linked(v.s, r, m)
  <2>1. Behind(r, m) = Behind(q, l) /\ (Followed(m) => Followed(l)) /\ l.sl # "start"
      BY <1>5, <1>6, <1>9, <1>11, <1>15 DEF Behind, Followed
  <2>2. q.master \in PsServer => v.s[q.master] = w.s[q.master]
      BY <1>6, <1>13
  <2> QED
      BY <1>3, <1>9, <1>11, <2>1, <2>2 DEF Linked
<1>24. Leading(v, n)
  <2>1. \A k \in PsServer : w.s[k].master = n => ~Followed(w.l[k])
      BY <1>1, <1>3, <1>6, NoneFollows
  <2>2. \A k \in PsServer \ {n} : v.s[k].master = n => ~Followed(v.l[k])
      BY <1>13, <2>1
  <2> QED
      BY <2>2, NoneLeading
<1>25. Respects(H, w, n, r, m)
  <2>1. Lesser(r, m, q, l)
      BY <1>3, <1>6, <1>7, <1>8, <1>10, LoadedLesser
  <2> QED
      BY ONLY <1>1, <1>2, <1>3, <1>15, <2>1, LesserRespects
<1>26. Kept(H, w, n)
    BY <1>3, KeptSame
<1>27. Fitting(H, w, v, n)
    BY <1>13, <1>15, <1>16, <1>18, <1>19, <1>21, <1>22, <1>23, <1>24, <1>25, <1>26 DEF Fitting
<1>28. WorldInv(H, v)
    BY <1>3, <1>13, <1>27, OneStep
<1> QED
    BY <1>3, <1>5, <1>14, <1>28, MakesWorld

\* What the variables are if server n has another record and another link.
LEMMA WithMakes ==
    ASSUME NEW w \in World, NEW n \in PsServer, NEW r \in Server, NEW l \in Link
    PROVE  /\ With(w, n, r, l).s = [w.s EXCEPT ![n] = r]
           /\ With(w, n, r, l).l = [w.l EXCEPT ![n] = l]
           /\ With(w, n, r, l).ids = w.ids
    BY DEF With, World

LEMMA LoadingFailsStep ==
    ASSUME NEW n \in PsServer, PsInv, LoadingFails(n)
    PROVE  PsInv'
<1>0. PICK H \in Histories : WorldInv(H, PsWorld)
    BY Now
<1>w. PICK w : w = PsWorld
    OBVIOUS
<1>1. PICK q : q = w.s[n]
    OBVIOUS
<1>2. PICK m : m = w.l[n]
    OBVIOUS
<1>3. /\ w \in World /\ H \in Histories /\ q \in Server /\ m \in Link /\ w.ids \in Nat
      /\ Shape(n, q, m) /\ Older(w.ids, q, m) /\ ServerAgrees(H, q) /\ WorldInv(H, w)
    BY <1>0, <1>w, <1>1, <1>2, FitsParts
<1>4. w.s = psS /\ w.l = psL /\ w.ids = psIds
    BY <1>w, NowParts
<1>5. m.st = "transfer" /\ psWrites' \in Nat
    BY <1>2, <1>4 DEF LoadingFails, PsInv
<1>6. q.db = NoDatabase /\ ~q.on /\ ~IsMaster(q) /\ q.fail # "wait"
    BY <1>3, <1>5 DEF Shape
<1>7. PICK st \in {"none", "connect", "psync"} : st = "connect"
    OBVIOUS
<1>8. PICK l : l = Link0(st)
    OBVIOUS
<1>9. Silent(l) /\ ~Followed(l) /\ l \in Link
    BY <1>8, LinkZero DEF Silent
<1>10. <<>> \in Data
    BY DEF Data
<1>11. PICK data \in Data : data = <<>>
    BY <1>10
<1>12. PICK r : r = [q EXCEPT !.data = data]
    OBVIOUS
<1>13. /\ r \in Server /\ r.id = q.id /\ r.id2 = q.id2 /\ r.upto = q.upto /\ r.off = q.off
       /\ r.on = q.on /\ r.log = q.log /\ r.master = q.master /\ r.db = q.db
       /\ r.saved = q.saved /\ r.fail = q.fail /\ r.force = q.force /\ r.target = q.target
  <2>1. r \in Server
      BY <1>3, <1>12 DEF Server
  <2> QED
      BY <1>3, <1>12, <2>1 DEF Server
<1>14. PICK v : v = With(w, n, r, l)
    OBVIOUS
<1>15. /\ v \in World /\ v.ids = w.ids /\ v.s[n] = r /\ v.l[n] = l
       /\ \A k \in PsServer \ {n} : v.s[k] = w.s[k] /\ v.l[k] = w.l[k]
    BY <1>3, <1>9, <1>13, <1>14, WithIs
<1>16. psS' = v.s /\ psL' = v.l /\ psIds' = v.ids
  <2>1. /\ v.s = [w.s EXCEPT ![n] = r] /\ v.l = [w.l EXCEPT ![n] = l] /\ v.ids = w.ids
      BY ONLY <1>3, <1>9, <1>13, <1>14, WithMakes
  <2>2. psS' = [psS EXCEPT ![n] = r]
      BY <1>1, <1>4, <1>11, <1>12 DEF LoadingFails
  <2>3. psL' = [psL EXCEPT ![n] = l] /\ psIds' = psIds
      BY <1>7, <1>8 DEF LoadingFails
  <2> QED
      BY <1>4, <2>1, <2>2, <2>3
<1>17. Others(w, v, n)
    BY <1>3, <1>15, WorldParts, CutSelf DEF Others
<1>18. ~Witness(r) /\ ~IsMaster(r) /\ ~Hidden(r)
    BY <1>6, <1>13 DEF Witness, IsMaster, Hidden
<1>19. Lesser(r, l, q, m)
    BY <1>6, <1>9, <1>13, <1>18 DEF Lesser, UpTo, Apart, Unheard, Silent
<1>20. Shape(n, r, l)
    BY <1>3, <1>6, <1>9, <1>13, <1>18 DEF Shape, Silent
<1>21. Older(w.ids, r, l)
  <2>1. Older(w.ids, r, m)
      BY <1>3, <1>13 DEF Older
  <2> QED
      BY <1>3, <1>9, <1>13, <2>1, SilentAgrees
<1>22. ServerAgrees(H, r)
    BY <1>3, <1>6, <1>13, <1>18 DEF ServerAgrees
<1>23. LinkAgrees(H, r, l) /\ Linked(v.s, r, l)
    BY <1>9, SilentAgrees, NotFollowed
<1>24. Steady(H, w, v, n)
    BY <1>1, <1>2, <1>13, <1>15, <1>17, <1>18, <1>19, <1>20, <1>21, <1>22, <1>23 DEF Steady
<1>25. WorldInv(H, v)
    BY <1>3, <1>15, <1>24, SteadyStep
<1> QED
    BY <1>3, <1>5, <1>16, <1>25, MakesParts

\* The server n saves its data, with the place in its history if it has one.
LEMMA SaveStep ==
    ASSUME NEW n \in PsServer, PsInv, rdbPopulateSaveInfo(n)
    PROVE  PsInv'
<1>0. PICK H \in Histories : WorldInv(H, PsWorld)
    BY Now
<1>w. PICK w : w = PsWorld
    OBVIOUS
<1>1. PICK q : q = w.s[n]
    OBVIOUS
<1>2. PICK l : l = w.l[n]
    OBVIOUS
<1>3. /\ w \in World /\ H \in Histories /\ q \in Server /\ l \in Link /\ w.ids \in Nat
      /\ Shape(n, q, l) /\ Older(w.ids, q, l) /\ ServerAgrees(H, q) /\ WorldInv(H, w)
      /\ LinkAgrees(H, q, l) /\ Linked(w.s, q, l)
    BY <1>0, <1>w, <1>1, <1>2, FitsParts
<1>4. w.s = psS /\ w.l = psL /\ w.ids = psIds
    BY <1>w, NowParts
<1>5. psWrites' \in Nat
    BY DEF rdbPopulateSaveInfo, PsInv
<1>6. PICK known \in BOOLEAN : known = IF IsReplica(PsWorld, n) THEN q.db # NoDatabase ELSE q.on
    BY <1>3, ServerParts
<1>7. PICK id \in Nat : id = IF known THEN q.id ELSE NoId
    BY <1>3, ServerParts, PsNumbers
<1>8. PICK d \in Int : d = IF known THEN StreamDb(q) ELSE NoDatabase
    BY <1>3, ServerParts, PsNumbers DEF StreamDb
<1>9. /\ q.off \in Nat /\ q.id # NoId /\ q.data \in Data
    BY <1>3, ServerParts
<1>10. PICK f : f = [data |-> q.data, id |-> id, off |-> q.off, db |-> d]
    OBVIOUS
<1>11. f \in Saved /\ f.data = q.data /\ f.id = id /\ f.off = q.off /\ f.db = d
    BY <1>9, <1>10 DEF Saved
<1>12. PICK r : r = [q EXCEPT !.saved = f]
    OBVIOUS
<1>13. /\ r \in Server /\ r.data = q.data /\ r.id = q.id /\ r.id2 = q.id2 /\ r.upto = q.upto
       /\ r.off = q.off /\ r.on = q.on /\ r.log = q.log /\ r.sel = q.sel
       /\ r.master = q.master /\ r.db = q.db /\ r.saved = f
       /\ r.fail = q.fail /\ r.force = q.force /\ r.target = q.target
  <2>1. r \in Server
      BY <1>3, <1>11, <1>12 DEF Server
  <2> QED
      BY <1>3, <1>12, <2>1 DEF Server
<1>14. PICK v : v = With(w, n, r, l)
    OBVIOUS
<1>15. /\ v \in World /\ v.ids = w.ids /\ v.s[n] = r /\ v.l[n] = l
       /\ \A k \in PsServer \ {n} : v.s[k] = w.s[k] /\ v.l[k] = w.l[k]
    BY <1>3, <1>13, <1>14, WithIs
<1>16. psS' = v.s /\ psL' = v.l /\ psIds' = v.ids
  <2>1. /\ v.s = [w.s EXCEPT ![n] = r] /\ v.l = [w.l EXCEPT ![n] = l] /\ v.ids = w.ids
      BY <1>3, <1>13, <1>14, WithMakes
  <2>2. psS' = [psS EXCEPT ![n].saved = f]
      BY <1>1, <1>4, <1>6, <1>7, <1>8, <1>10 DEF rdbPopulateSaveInfo
  <2>3. psS' = [psS EXCEPT ![n] = r]
      BY <1>1, <1>4, <1>12, <2>2
  <2>4. w.l = [w.l EXCEPT ![n] = l]
      BY <1>2, <1>3, WorldParts
  <2>5. psL' = psL /\ psIds' = psIds
      BY DEF rdbPopulateSaveInfo
  <2> QED
      BY <1>4, <2>1, <2>3, <2>4, <2>5
<1>17. Others(w, v, n)
    BY <1>3, <1>15, WorldParts, CutSelf DEF Others
<1>18. /\ Witness(r) <=> Witness(q)
       /\ IsMaster(r) <=> IsMaster(q)
       /\ Hidden(r) <=> Hidden(q)
       /\ IsReplica(PsWorld, n) <=> ~IsMaster(q)
    BY <1>1, <1>w, <1>13 DEF Witness, IsMaster, Hidden, IsReplica
<1>19. known => Witness(q)
    BY <1>6 DEF Witness
<1>20. Lesser(r, l, q, l)
  <2> SUFFICES ASSUME NEW i \in Nat \ {NoId}
               PROVE  /\ \A K : \A off \in Nat : UpTo(K, i, off, q, l) => UpTo(K, i, off, r, l)
                      /\ Apart(i, q, l) => Apart(i, r, l)
                      /\ Unheard(i, q, l) => Unheard(i, r, l)
      BY DEF Lesser
  <2>1. f.id = i => Witness(q) /\ q.id = i
      BY <1>7, <1>11, <1>19
  <2>2. Unheard(i, q, l) => Unheard(i, r, l)
      BY <1>13 DEF Unheard
  <2>3. Apart(i, q, l) => Apart(i, r, l)
      BY <1>13, <1>18, <2>1 DEF Apart
  <2>4. \A K : \A off \in Nat : UpTo(K, i, off, q, l) => UpTo(K, i, off, r, l)
      BY <1>11, <1>13, <1>18, <2>1 DEF UpTo
  <2> QED
      BY <2>2, <2>3, <2>4
<1>21. known => d # NoDatabase /\ At(H[q.id][q.off], q.data, d)
  <2>1. CASE known /\ IsMaster(q)
    <3>1. q.on
        BY <1>6, <1>18, <2>1
    <3>2. At(H[q.id][q.off], q.data, q.sel)
        BY <1>3, <1>19, <2>1 DEF ServerAgrees
    <3>3. d = IF q.sel = NoDatabase THEN 0 ELSE q.sel
        BY <1>8, <2>1 DEF StreamDb, IsMaster
    <3> QED
        BY <3>2, <3>3, PsNumbers DEF At
  <2>2. CASE known /\ ~IsMaster(q)
    <3>1. q.db # NoDatabase
        BY <1>6, <1>18, <2>2
    <3>2. At(H[q.id][q.off], q.data, q.db)
        BY <1>3, <1>19, <2>2 DEF ServerAgrees
    <3>3. d = q.db
        BY <1>8, <2>2 DEF StreamDb, IsMaster
    <3> QED
        BY <3>1, <3>2, <3>3
  <2> QED
      BY <2>1, <2>2
<1>22. Shape(n, r, l)
  <2>1. r.saved.id # NoId => r.saved.off \in Nat /\ r.saved.db # NoDatabase
      BY <1>7, <1>9, <1>11, <1>13, <1>21
  <2>2. r.force <=> q.force
      BY <1>13
  <2> QED
      BY <1>3, <1>13, <1>18, <2>1, <2>2 DEF Shape
<1>23. Older(v.ids, r, l)
  <2>1. q.id < w.ids /\ q.id2 < w.ids /\ l.id < w.ids /\ q.id \in Nat
      BY <1>3, ServerParts DEF Older
  <2>2. id < w.ids
      BY <1>3, <1>7, <2>1 DEF NoId
  <2> QED
      BY <1>11, <1>13, <1>15, <2>1, <2>2 DEF Older
<1>24. ServerAgrees(H, r)
  <2>1. r.saved.id # NoId => At(H[r.saved.id][r.saved.off], r.saved.data, r.saved.db)
      BY <1>7, <1>11, <1>13, <1>21
  <2> QED
      BY <1>3, <1>13, <1>18, <2>1 DEF ServerAgrees
<1>25. LinkAgrees(H, r, l)
    BY <1>3, <1>13 DEF LinkAgrees
<1>26. Linked(v.s, r, l)
  <2>1. r.master # n
      BY <1>22 DEF Shape
  <2>2. r.master \in PsServer => v.s[r.master] = w.s[r.master]
      BY <1>15, <2>1
  <2> QED
      BY <1>3, <1>13, <2>2 DEF Linked, Behind
<1>27. Steady(H, w, v, n)
    BY <1>1, <1>2, <1>13, <1>15, <1>17, <1>18, <1>20, <1>22, <1>23, <1>24, <1>25, <1>26
       DEF Steady
<1>28. WorldInv(H, v)
    BY <1>3, <1>15, <1>27, SteadyStep
<1> QED
    BY <1>3, <1>5, <1>16, <1>28, MakesParts

LEMMA FreeBacklogStep ==
    ASSUME NEW n \in PsServer, PsInv, CronFreeBacklog(n)
    PROVE  PsInv'
<1>0. PICK H \in Histories : WorldInv(H, PsWorld)
    BY Now
<1>w. PICK w : w = PsWorld
    OBVIOUS
<1>1. w \in World /\ WorldInv(H, w)
    BY <1>0, <1>w DEF WorldInv
<1>2. IsMaster(w.s[n])
    BY <1>w DEF CronFreeBacklog, IsReplica, IsMaster
<1>3. \A k \in PsServer : w.s[k].master = n => ~Followed(w.l[k])
    BY <1>w, SlavesAre DEF CronFreeBacklog
<1>4. PICK v : v = NoBacklog(w, n)
    OBVIOUS
<1>5. w.ids # 0
    BY <1>1, Fresh, PsNumbers
<1>6. PICK t \in BOOLEAN : t = FALSE
    OBVIOUS
<1>7. Renews(w, v, n, t)
    BY <1>1, <1>4, <1>5, <1>6, BacklogsAre DEF Renews
<1>8. \E G \in Histories : WorldInv(G, v)
    BY <1>1, <1>2, <1>3, <1>7, RenewStep
<1>9. PsBecomes(v) /\ psWrites' \in Nat
    BY <1>w, <1>4 DEF CronFreeBacklog, NoBacklog, PsInv
<1> QED
    BY <1>8, <1>9, MakesWorld

-----------------------------------------------------------------------------
(* Operators and FAILOVER.                                                   *)

LEMMA ReplicaofStep ==
    ASSUME NEW n \in PsServer, NEW m \in PsServer \cup {NoServer}, PsInv,
           replicaofCommand(n, m)
    PROVE  PsInv'
<1>0. PICK H \in Histories : WorldInv(H, PsWorld)
    BY Now
<1>1. PsWorld.s[n].fail # "wait" /\ m # n /\ psWrites' \in Nat
    BY NowParts DEF replicaofCommand, PsInv
<1>2. CASE m = NoServer
  <2>1. PsBecomes(replicationUnsetMaster(PsWorld, n))
      BY <1>2 DEF replicaofCommand
  <2>2. \E G \in Histories : WorldInv(G, replicationUnsetMaster(PsWorld, n))
      BY <1>0, UnsetMasterStep
  <2> QED
      BY <1>1, <2>1, <2>2, MakesWorld
<1>3. CASE m # NoServer
  <2>1. PsBecomes(replicationSetMaster(PsWorld, n, m))
      BY <1>3 DEF replicaofCommand
  <2>2. m \in PsServer
      BY <1>3
  <2>3. \E G \in Histories : WorldInv(G, replicationSetMaster(PsWorld, n, m))
      BY <1>0, <1>1, <2>2, SetMasterStep
  <2> QED
      BY <1>1, <2>1, <2>3, MakesWorld
<1> QED
    BY <1>2, <1>3

\* A master has no replica that is itself.
LEMMA NotOwnSlave ==
    ASSUME NEW H, NEW w, WorldInv(H, w), NEW n \in PsServer
    PROVE  n \notin Slaves(w, n)
<1>1. Shape(n, w.s[n], w.l[n])
    BY FitsParts
<1> QED
    BY <1>1, SlavesAre DEF Shape

LEMMA FailoverCommandStep ==
    ASSUME NEW n \in PsServer, NEW t \in PsServer \cup {NoServer}, NEW force \in BOOLEAN,
           PsInv, failoverCommand(n, t, force)
    PROVE  PsInv'
<1>0. PICK H \in Histories : WorldInv(H, PsWorld)
    BY Now
<1>w. PICK w : w = PsWorld
    OBVIOUS
<1>1. w \in World /\ WorldInv(H, w) /\ w.s[n] \in Server
    BY <1>0, <1>w, WorldParts DEF WorldInv
<1>2. IsMaster(w.s[n])
    BY <1>w DEF failoverCommand, IsReplica, IsMaster
<1>3. t # n /\ (force => t # NoServer) /\ psWrites' \in Nat
  <2>1. n \notin Slaves(w, n)
      BY <1>1, NotOwnSlave
  <2>2. t # NoServer => t \in Slaves(w, n)
      BY <1>w DEF failoverCommand
  <2> QED
      BY <2>1, <2>2, PsNumbers DEF failoverCommand, PsInv
<1>4. PICK fail \in {"none", "wait", "progress"} : fail = "wait"
    OBVIOUS
<1>5. PICK v : v = FailoverSet(w, n, fail, force, t)
    OBVIOUS
<1>6. WorldInv(H, v)
    BY <1>1, <1>2, <1>3, <1>5, FailoverStep
<1>7. PICK r : r = [w.s[n] EXCEPT !.fail = fail, !.force = force, !.target = t]
    OBVIOUS
<1>8. v.s = [w.s EXCEPT ![n] = r] /\ v.l = w.l /\ v.ids = w.ids
    BY ONLY <1>1, <1>5, <1>7 DEF FailoverSet, World
<1>9. psS' = [psS EXCEPT ![n] = r]
  <2>1. psS' = [[[psS EXCEPT ![n].fail = fail] EXCEPT ![n].force = force] EXCEPT ![n].target = t]
      BY <1>4 DEF failoverCommand
  <2>2. psS \in [PsServer -> Server] /\ psS[n] = w.s[n]
      BY <1>1, <1>w, NowParts, WorldParts
  <2> QED
      BY <1>1, <1>7, <2>1, <2>2 DEF Server
<1>10. psL' = psL /\ psIds' = psIds
    BY DEF failoverCommand
<1>11. psS' = v.s /\ psL' = v.l /\ psIds' = v.ids
    BY <1>w, <1>8, <1>9, <1>10, NowParts
<1> QED
    BY <1>1, <1>3, <1>6, <1>11, MakesParts DEF WorldInv

LEMMA FailoverStatusStep ==
    ASSUME NEW n \in PsServer, PsInv, updateFailoverStatus(n)
    PROVE  PsInv'
<1>0. PICK H \in Histories : WorldInv(H, PsWorld)
    BY Now
<1>w. PICK w : w = PsWorld
    OBVIOUS
<1>1. w \in World /\ WorldInv(H, w) /\ w.s[n] \in Server /\ Shape(n, w.s[n], w.l[n])
    BY ONLY <1>0, <1>w, FitsParts
<1>2. w.s[n].fail = "wait" /\ psWrites' \in Nat
    BY <1>w, NowParts DEF updateFailoverStatus, PsInv
<1>3. CASE PsBecomes(abortFailover(PsWorld, n))
  <2>1. \E G \in Histories : WorldInv(G, abortFailover(w, n))
      BY <1>1, AbortStep
  <2> QED
      BY <1>w, <1>2, <1>3, <2>1, MakesWorld
<1>4. CASE ~PsBecomes(abortFailover(PsWorld, n))
  <2>1. PICK t \in PsServer :
            /\ psS[n].target \in {t, NoServer}
            /\ CaughtUp(n, t) \/ psS[n].force
            /\ PsBecomes(replicationSetMaster(
                [PsWorld EXCEPT !.s[n].fail = "progress", !.s[n].target = t], n, t))
      BY <1>4 DEF updateFailoverStatus
  <2>2. t # n
    <3>1. CASE CaughtUp(n, t)
      <4>1. t \in Slaves(w, n)
          BY <1>w, <3>1 DEF CaughtUp
      <4> QED
          BY <1>1, <4>1, NotOwnSlave
    <3>2. CASE psS[n].force
      <4>1. w.s[n].force /\ w.s[n].target \in {t, NoServer}
          BY <1>w, <2>1, <3>2, NowParts
      <4>2. w.s[n].target # NoServer /\ w.s[n].target # n
          BY <1>1, <1>2, <4>1 DEF Shape
      <4> QED
          BY <4>1, <4>2
    <3> QED
        BY <2>1, <3>1, <3>2
  <2>3. PICK fail \in {"none", "wait", "progress"} : fail = "progress"
      OBVIOUS
  <2>4. PICK force \in BOOLEAN : force = w.s[n].force
      BY <1>1, ServerParts
  <2>5. PICK target \in PsServer \cup {NoServer} : target = t
      OBVIOUS
  <2>6. PICK u : u = FailoverSet(w, n, fail, force, target)
      OBVIOUS
  <2>7. WorldInv(H, u)
      BY ONLY <1>1, <2>2, <2>3, <2>5, <2>6, FailoverStep
  <2>8. u = [PsWorld EXCEPT !.s[n].fail = "progress", !.s[n].target = t]
    <3>1. PICK as \in [PsServer -> Server], al \in [PsServer -> Link], aids \in Nat :
              w = [s |-> as, l |-> al, ids |-> aids]
        BY <1>1 DEF World
    <3>2. PICK c : c = [w EXCEPT !.s[n].fail = fail, !.s[n].target = target]
        OBVIOUS
    <3>3. c = [s |-> [[as EXCEPT ![n].fail = fail] EXCEPT ![n].target = target],
               l |-> al, ids |-> aids]
        BY <3>1, <3>2
    <3>4. PICK r : r = [as[n] EXCEPT !.fail = fail, !.force = force, !.target = target]
        OBVIOUS
    <3>5. u = [s |-> [as EXCEPT ![n] = r], l |-> al, ids |-> aids]
        BY <2>6, <3>1, <3>4 DEF FailoverSet
    <3>6. as[n].force = force
        BY <2>4, <3>1
    <3>7. [[as EXCEPT ![n].fail = fail] EXCEPT ![n].target = target] = [as EXCEPT ![n] = r]
        BY <3>4, <3>6 DEF Server
    <3> QED
        BY <1>w, <2>3, <2>5, <3>2, <3>3, <3>5, <3>7
  <2>9. u.s[n].fail # "wait"
    <3>1. u.s[n] = [w.s[n] EXCEPT !.fail = fail, !.force = force, !.target = target]
        BY <1>1, <2>6 DEF FailoverSet, World
    <3> QED
        BY <1>1, <2>3, <3>1 DEF Server
  <2>10. \E G \in Histories : WorldInv(G, replicationSetMaster(u, n, t))
      BY <2>2, <2>7, <2>9, SetMasterStep
  <2> QED
      BY ONLY <1>2, <2>1, <2>8, <2>10, MakesWorld
<1> QED
    BY <1>3, <1>4

LEMMA FailoverAbortStep ==
    ASSUME NEW n \in PsServer, PsInv, FailoverAbort(n)
    PROVE  PsInv'
<1>0. PICK H \in Histories : WorldInv(H, PsWorld)
    BY Now
<1>1. \E G \in Histories : WorldInv(G, abortFailover(PsWorld, n))
    BY <1>0, AbortStep
<1>2. PsBecomes(abortFailover(PsWorld, n)) /\ psWrites' \in Nat
    BY DEF FailoverAbort, PsInv
<1> QED
    BY <1>1, <1>2, MakesWorld

-----------------------------------------------------------------------------
(* Restarts.                                                                 *)

\* The server that has started again, as replica of m or as master.
Fresh0(q, m, ids) == [Server0(m, ids) EXCEPT !.data = q.saved.data, !.saved = q.saved]
Restarted(q, m, ids) ==
    IF m # NoServer /\ q.saved.id # NoId
    THEN [Fresh0(q, m, ids) EXCEPT !.id = q.saved.id, !.off = q.saved.off, !.db = q.saved.db]
    ELSE Fresh0(q, m, ids)

LEMMA Fresh0Is ==
    ASSUME NEW q \in Server, NEW m \in PsServer \cup {NoServer}, NEW ids \in Nat \ {NoId}
    PROVE  /\ Fresh0(q, m, ids) \in Server
           /\ Fresh0(q, m, ids).data = q.saved.data /\ Fresh0(q, m, ids).id = ids
           /\ Fresh0(q, m, ids).id2 = NoId /\ Fresh0(q, m, ids).upto = -1
           /\ Fresh0(q, m, ids).off = 0 /\ ~Fresh0(q, m, ids).on
           /\ Fresh0(q, m, ids).log = <<>> /\ Fresh0(q, m, ids).sel = NoDatabase
           /\ Fresh0(q, m, ids).master = m /\ Fresh0(q, m, ids).db = NoDatabase
           /\ Fresh0(q, m, ids).fail = "none" /\ Fresh0(q, m, ids).saved = q.saved
           /\ Fresh0(q, m, ids).target = NoServer
<1>1. q.saved \in Saved /\ q.saved.data \in Data
    BY ServerParts
<1>2. PICK data \in Data, f \in Saved : data = q.saved.data /\ f = q.saved
    BY <1>1
<1>3. PICK b \in BOOLEAN : b = FALSE
    OBVIOUS
<1>4. <<>> \in Seq(Item) /\ <<>> \in Data
    BY DEF Data
<1>5. PICK e \in Seq(Item) : e = <<>>
    BY <1>4
<1>6. PICK d \in Int : d = NoDatabase
    BY PsNumbers
<1>7. PICK i2 \in Nat : i2 = NoId
    BY PsNumbers
<1>8. PICK u \in Int : u = -1
    OBVIOUS
<1>9. PICK o \in Nat : o = 0
    OBVIOUS
<1>10. PICK z \in Data : z = <<>>
    BY <1>4
<1>11. PICK g : g = [data |-> z, id |-> i2, off |-> u, db |-> d]
    OBVIOUS
<1>12. g \in Saved
    BY <1>11 DEF Saved
<1>13. PICK s : s = Server0(m, ids)
    OBVIOUS
<1>14. s = [data |-> z, id |-> ids, id2 |-> i2, upto |-> u, off |-> o,
            on |-> b, log |-> e, sel |-> d, master |-> m,
            db |-> d, fail |-> "none", force |-> b, target |-> NoServer, saved |-> g]
    BY <1>3, <1>5, <1>6, <1>7, <1>8, <1>9, <1>10, <1>11, <1>13 DEF Server0
<1>15. s \in Server
    BY <1>12, <1>14 DEF Server, NoId
<1>16. /\ s.id = ids /\ s.id2 = i2 /\ s.upto = u /\ s.off = o
       /\ (s.on <=> b) /\ s.log = e /\ s.sel = d /\ s.master = m /\ s.db = d
       /\ s.fail = "none" /\ s.target = NoServer
    BY <1>14
<1> HIDE <1>14
<1>17. PICK r : r = [s EXCEPT !.data = data, !.saved = f]
    OBVIOUS
<1>18. r \in Server
    BY <1>15, <1>17 DEF Server
<1>19. /\ r.data = data /\ r.id = s.id /\ r.id2 = s.id2 /\ r.upto = s.upto /\ r.off = s.off
       /\ (r.on <=> s.on) /\ r.log = s.log /\ r.sel = s.sel /\ r.master = s.master
       /\ r.db = s.db /\ r.fail = s.fail /\ r.saved = f /\ r.target = s.target
    BY <1>15, <1>17 DEF Server
<1>20. Fresh0(q, m, ids) = r
    BY <1>2, <1>13, <1>17 DEF Fresh0
<1> QED
    BY <1>2, <1>3, <1>5, <1>6, <1>7, <1>8, <1>9, <1>16, <1>18, <1>19, <1>20

LEMMA RestartedIs ==
    ASSUME NEW q \in Server, NEW m \in PsServer \cup {NoServer}, NEW ids \in Nat \ {NoId},
           q.saved.id # NoId => q.saved.off \in Nat /\ q.saved.db # NoDatabase
    PROVE  /\ Restarted(q, m, ids) \in Server
           /\ Restarted(q, m, ids).data = q.saved.data
           /\ Restarted(q, m, ids).id2 = NoId /\ Restarted(q, m, ids).upto = -1
           /\ Restarted(q, m, ids).off \in Nat /\ ~Restarted(q, m, ids).on
           /\ Restarted(q, m, ids).log = <<>> /\ Restarted(q, m, ids).master = m
           /\ Restarted(q, m, ids).fail = "none" /\ Restarted(q, m, ids).saved = q.saved
           /\ \/ /\ m = NoServer \/ q.saved.id = NoId
                 /\ Restarted(q, m, ids).id = ids /\ Restarted(q, m, ids).db = NoDatabase
              \/ /\ m # NoServer /\ q.saved.id # NoId
                 /\ Restarted(q, m, ids).id = q.saved.id
                 /\ Restarted(q, m, ids).off = q.saved.off
                 /\ Restarted(q, m, ids).db = q.saved.db
<1>1. PICK f : f = Fresh0(q, m, ids)
    OBVIOUS
<1>2. /\ f \in Server /\ f.data = q.saved.data /\ f.id = ids
      /\ f.id2 = NoId /\ f.upto = -1 /\ f.off = 0 /\ ~f.on
      /\ f.log = <<>> /\ f.master = m /\ f.db = NoDatabase
      /\ f.fail = "none" /\ f.saved = q.saved
    BY <1>1, Fresh0Is
<1>3. CASE m # NoServer /\ q.saved.id # NoId
  <2>1. PICK i \in Nat \ {0}, o \in Nat, d \in Int :
            i = q.saved.id /\ o = q.saved.off /\ d = q.saved.db
      BY <1>3, ServerParts DEF NoId
  <2>2. PICK r : r = [f EXCEPT !.id = i, !.off = o, !.db = d]
      OBVIOUS
  <2>3. r \in Server
      BY <1>2, <2>2 DEF Server
  <2>4. /\ r.data = f.data /\ r.id = i /\ r.id2 = f.id2 /\ r.upto = f.upto /\ r.off = o
        /\ (r.on <=> f.on) /\ r.log = f.log /\ r.master = f.master /\ r.db = d
        /\ r.fail = f.fail /\ r.saved = f.saved
      BY <1>2, <2>2 DEF Server
  <2>5. Restarted(q, m, ids) = r
      BY <1>1, <1>3, <2>1, <2>2 DEF Restarted
  <2> QED
      BY <1>2, <1>3, <2>1, <2>3, <2>4, <2>5
<1>4. CASE ~(m # NoServer /\ q.saved.id # NoId)
  <2>1. Restarted(q, m, ids) = f
      BY <1>1, <1>4 DEF Restarted
  <2> QED
      BY <1>2, <1>4, <2>1
<1> QED
    BY <1>3, <1>4

\* The world in which server n has started again.
Restarting(w, n, m) ==
    [s |-> [w.s EXCEPT ![n] = Restarted(w.s[n], m, w.ids)],
     l |-> [Closing(w, {k \in PsServer : w.s[k].master = n}).l
                EXCEPT ![n] = Link0(IF m = NoServer THEN "none" ELSE "connect")],
     ids |-> w.ids + 1]

LEMMA RestartStep ==
    ASSUME NEW H, NEW w, WorldInv(H, w), NEW n \in PsServer, NEW m \in {w.s[n].master, NoServer}
    PROVE  WorldInv(H, Restarting(w, n, m))
<1>1. PICK q : q = w.s[n]
    OBVIOUS
<1>2. PICK o : o = w.l[n]
    OBVIOUS
<1>3. /\ w \in World /\ H \in Histories /\ q \in Server /\ o \in Link /\ w.ids \in Nat
      /\ Shape(n, q, o) /\ Older(w.ids, q, o) /\ ServerAgrees(H, q)
      /\ w.s \in [PsServer -> Server]
    BY <1>1, <1>2, FitsParts, WorldParts
<1>4. w.ids \in Nat \ {NoId} /\ w.ids + 1 \in Nat
    BY Fresh
<1>5. q.saved.id # NoId => q.saved.off \in Nat /\ q.saved.db # NoDatabase
    BY <1>3 DEF Shape
<1>6. m \in PsServer \cup {NoServer} /\ m # n
    BY <1>1, <1>3, ServerParts, PsNumbers DEF Shape
<1>7. PICK r : r = Restarted(q, m, w.ids)
    OBVIOUS
<1>8. /\ r \in Server /\ r.data = q.saved.data /\ r.id2 = NoId /\ r.upto = -1
      /\ r.off \in Nat /\ ~r.on /\ r.log = <<>> /\ r.master = m
      /\ r.fail = "none" /\ r.saved = q.saved
      /\ \/ /\ m = NoServer \/ q.saved.id = NoId
            /\ r.id = w.ids /\ r.db = NoDatabase
         \/ /\ m # NoServer /\ q.saved.id # NoId
            /\ r.id = q.saved.id /\ r.off = q.saved.off /\ r.db = q.saved.db
  <2>1. PICK ids \in Nat \ {NoId} : ids = w.ids
      BY <1>4
  <2>2. PICK a \in PsServer \cup {NoServer} : a = m
      BY <1>6
  <2>3. r = Restarted(q, a, ids)
      BY <1>7, <2>1, <2>2
  <2>4. /\ Restarted(q, a, ids) \in Server
        /\ Restarted(q, a, ids).data = q.saved.data
        /\ Restarted(q, a, ids).id2 = NoId /\ Restarted(q, a, ids).upto = -1
        /\ Restarted(q, a, ids).off \in Nat /\ ~Restarted(q, a, ids).on
        /\ Restarted(q, a, ids).log = <<>> /\ Restarted(q, a, ids).master = a
        /\ Restarted(q, a, ids).fail = "none" /\ Restarted(q, a, ids).saved = q.saved
        /\ \/ /\ a = NoServer \/ q.saved.id = NoId
              /\ Restarted(q, a, ids).id = ids /\ Restarted(q, a, ids).db = NoDatabase
           \/ /\ a # NoServer /\ q.saved.id # NoId
              /\ Restarted(q, a, ids).id = q.saved.id
              /\ Restarted(q, a, ids).off = q.saved.off
              /\ Restarted(q, a, ids).db = q.saved.db
      BY ONLY <1>3, <1>5, RestartedIs
  <2> QED
      BY <2>1, <2>2, <2>3, <2>4
<1>9. PICK st \in {"none", "connect", "psync"} : st = IF m = NoServer THEN "none" ELSE "connect"
    OBVIOUS
<1>10. PICK l : l = Link0(st)
    OBVIOUS
<1>11. Silent(l) /\ ~Followed(l) /\ l \in Link /\ l.sl = "none" /\ l.st = st
    BY ONLY <1>10, LinkZero DEF Silent
<1>12. PICK ks : ks = {k \in PsServer : w.s[k].master = n}
    OBVIOUS
<1>13. PICK c : c = Closing(w, ks)
    OBVIOUS
<1>14. /\ c \in World
       /\ \A k \in PsServer : /\ Cut(c.l[k], w.l[k])
                              /\ c.l[k].open <=> (w.l[k].open /\ k \notin ks)
    BY <1>3, <1>13, ClosingParts
<1>15. PICK v : v = Restarting(w, n, m)
    OBVIOUS
<1>16. v = [s |-> [w.s EXCEPT ![n] = r], l |-> [c.l EXCEPT ![n] = l], ids |-> w.ids + 1]
    BY <1>1, <1>7, <1>9, <1>10, <1>12, <1>13, <1>15 DEF Restarting
<1>17. c.l \in [PsServer -> Link]
    BY <1>14, WorldParts
<1>18. /\ v \in World /\ v.ids = w.ids + 1 /\ v.s[n] = r /\ v.l[n] = l
       /\ \A k \in PsServer \ {n} : v.s[k] = w.s[k] /\ v.l[k] = c.l[k]
    BY <1>3, <1>4, <1>8, <1>11, <1>16, <1>17 DEF World
<1>19. Others(w, v, n)
    BY <1>3, <1>14, <1>18 DEF Others
<1>20. Shape(n, r, l)
  <2>1. Len(<<>>) = 0 /\ -1 <= r.off + 1
      BY <1>8
  <2>2. IsMaster(r) => r.db = NoDatabase /\ l.st = "none"
      BY <1>8, <1>9, <1>11 DEF IsMaster
  <2>3. ~Online(l) /\ ~Serving(l) /\ l.st \notin {"online", "transfer"}
      BY <1>11 DEF Silent
  <2> QED
      BY <1>5, <1>6, <1>8, <1>11, <2>1, <2>2, <2>3 DEF Shape
<1>21. q.id < w.ids /\ q.saved.id < w.ids /\ q.saved.id \in Nat
    BY <1>3, ServerParts DEF Older
<1>22. Older(v.ids, r, l)
  <2>1. r.id < w.ids + 1 /\ r.saved.id < w.ids + 1
      BY <1>4, <1>8, <1>21
  <2>2. r.id2 < w.ids + 1 /\ l.id < w.ids + 1
      BY <1>4, <1>8, <1>11 DEF Silent, NoId
  <2> QED
      BY <1>18, <2>1, <2>2 DEF Older
<1>23. ServerAgrees(H, r)
  <2>1. q.saved.id # NoId => At(H[q.saved.id][q.saved.off], q.saved.data, q.saved.db)
      BY <1>3 DEF ServerAgrees
  <2>2. Witness(r) => ~IsMaster(r) /\ q.saved.id # NoId /\ r.id = q.saved.id
                      /\ r.off = q.saved.off /\ r.db = q.saved.db
      BY <1>8 DEF Witness, IsMaster
  <2> QED
      BY <1>8, <2>1, <2>2 DEF ServerAgrees
<1>24. LinkAgrees(H, r, l) /\ Linked(v.s, r, l)
    BY <1>11, SilentAgrees, NotFollowed
<1>25. Leading(v, n)
  <2>1. ASSUME NEW k \in PsServer \ {n}, v.s[k].master = n PROVE ~Followed(v.l[k])
    <3>1. k \in ks
        BY <1>12, <1>18, <2>1
    <3> QED
        BY <1>14, <1>18, <3>1 DEF Followed
  <2> QED
      BY <2>1, NoneLeading
<1>26. Lesser(r, l, q, o)
  <2> SUFFICES ASSUME NEW i \in Nat \ {NoId}
               PROVE  /\ \A K : \A off \in Nat : UpTo(K, i, off, q, o) => UpTo(K, i, off, r, l)
                      /\ Apart(i, q, o) => Apart(i, r, l)
                      /\ Unheard(i, q, o) => Unheard(i, r, l)
      BY DEF Lesser
  <2>1. Witness(r) => r.id = q.saved.id /\ r.off = q.saved.off
      BY <1>8 DEF Witness
  <2>2. ~Serving(l) /\ ~Online(l)
      BY <1>11 DEF Silent
  <2> QED
      BY <1>8, <2>1, <2>2 DEF UpTo, Apart, Unheard
<1>27. \A k \in PsServer : w.s[k].id # w.ids
    BY Fresh
<1>28. IsMaster(r) => r.id = w.ids
    BY <1>8 DEF IsMaster
<1>29. Respects(H, w, n, r, l)
    BY <1>1, <1>2, <1>26, <1>27, <1>28, LesserRespects
<1>30. Kept(H, w, n)
    BY KeptSame
<1>31. ~Hidden(r)
    BY <1>8 DEF Hidden
<1>32. IsMaster(r) => Owns(H, v, n)
  <2> SUFFICES ASSUME IsMaster(r) PROVE Owns(H, v, n)
      OBVIOUS
  <2>1. \A k \in PsServer \ {n} : v.s[k].id # r.id
      BY <1>18, <1>27, <1>28
  <2>2. ASSUME NEW k \in PsServer PROVE Apart(r.id, v.s[k], v.l[k])
    <3>1. CASE k = n
      <4>1. Apart(r.id, r, l)
        <5>1. ~Witness(r)
            BY <1>8 DEF Witness, IsMaster
        <5>2. r.saved.id # r.id
            BY <1>4, <1>8, <1>21, <1>28
        <5> QED
            BY <1>8, <1>11, <5>1, <5>2 DEF Apart, Silent
      <4> QED
          BY <1>18, <3>1, <4>1
    <3>2. CASE k # n
      <4>1. Apart(w.ids, w.s[k], w.l[k])
          BY Fresh
      <4>2. Cut(v.l[k], w.l[k]) /\ v.s[k] = w.s[k]
          BY <1>14, <1>18, <3>2
      <4> QED
          BY <1>28, <4>1, <4>2, CutSame
    <3> QED
        BY <3>1, <3>2
  <2> QED
      BY <1>8, <1>18, <2>1, <2>2 DEF Owns
<1>33. Fitting(H, w, v, n)
    BY <1>18, <1>19, <1>20, <1>22, <1>23, <1>24, <1>25, <1>29, <1>30, <1>31, <1>32 DEF Fitting
<1>34. WorldInv(H, v)
    BY <1>3, <1>18, <1>33, OneStep
<1> QED
    BY <1>15, <1>34

LEMMA LoadDataStep ==
    ASSUME NEW n \in PsServer, NEW m \in PsServer \cup {NoServer}, PsInv, loadDataFromDisk(n, m)
    PROVE  PsInv'
<1>0. PICK H \in Histories : WorldInv(H, PsWorld)
    BY Now
<1>w. PICK w : w = PsWorld
    OBVIOUS
<1>1. w \in World /\ WorldInv(H, w) /\ w.s = psS /\ w.l = psL /\ w.ids = psIds
    BY <1>0, <1>w, NowParts DEF WorldInv
<1>2. m \in {w.s[n].master, NoServer} /\ psWrites' \in Nat
    BY <1>1 DEF loadDataFromDisk, PsInv
<1>3. PICK v : v = Restarting(w, n, m)
    OBVIOUS
<1>4. WorldInv(H, v)
    BY ONLY <1>1, <1>2, <1>3, RestartStep
<1>5. psS' = v.s
  <2>1. v.s = [psS EXCEPT ![n] = Restarted(psS[n], m, psIds)]
      BY ONLY <1>1, <1>3 DEF Restarting
  <2> QED
      BY <2>1 DEF loadDataFromDisk, Restarted, Fresh0
<1>6. psL' = v.l
    BY <1>1, <1>w, <1>3 DEF loadDataFromDisk, Restarting
<1>7. psIds' = v.ids
    BY <1>1, <1>3 DEF loadDataFromDisk, Restarting
<1> QED
    BY <1>0, <1>2, <1>4, <1>5, <1>6, <1>7, MakesParts

-----------------------------------------------------------------------------
(* Feeding the replicas.                                                     *)

\* Server r is q with the items in its backlog.
FedServer(r, q, items, row) ==
    /\ r \in Server /\ r.off = q.off + Len(items) /\ r.on
    /\ r.data = q.data /\ r.id = q.id /\ r.id2 = q.id2 /\ r.upto = q.upto
    /\ r.sel = q.sel /\ r.master = q.master /\ r.db = q.db /\ r.saved = q.saved
    /\ r.fail = q.fail /\ (r.force <=> q.force) /\ r.target = q.target
    /\ Len(r.log) <= r.off /\ Run(row, r.off - Len(r.log), r.log)

LEMMA FedServerIs ==
    ASSUME NEW q \in Server, q.on, NEW items \in Seq(Item), NEW row,
           NEW r, r = feedReplicationBacklog(q, items), Len(q.log) <= q.off,
           Run(row, q.off - Len(q.log), q.log), Run(row, q.off, items)
    PROVE  FedServer(r, q, items, row)
<1>1. /\ q.off \in Nat /\ q.log \in Seq(Item) /\ Len(q.log) \in Nat /\ Len(items) \in Nat
      /\ Len(q.log) <= q.off
    BY ServerParts
<1>2. PICK log : log = q.log \o items
    OBVIOUS
<1>3. log \in Seq(Item) /\ Len(log) = Len(q.log) + Len(items)
    BY <1>1, <1>2
<1>4. PICK f \in Int : f = q.off - Len(q.log)
    BY <1>1
<1>5. Run(row, f, log)
  <2>1. f + Len(q.log) = q.off
      BY <1>1, <1>4
  <2> QED
      BY <1>1, <1>2, <1>4, <2>1, RunMore
<1>6. PICK kept : kept = (IF Len(log) > BacklogSize THEN LastItems(log) ELSE log)
    OBVIOUS
<1>7. PICK off \in Nat : off = q.off + Len(items)
    BY <1>1
<1>8. kept \in Seq(Item) /\ Len(kept) <= off /\ Run(row, off - Len(kept), kept)
  <2>1. CASE Len(log) > BacklogSize
    <3>0. Len(log) \in Int /\ BacklogSize \in Int
        BY <1>1, <1>3, PsNumbers
    <3>t. Len(log) - BacklogSize + 1 \in Int
        BY <3>0
    <3>1. PICK m \in Int : m = Len(log) - BacklogSize + 1
        BY <3>t
    <3>2. PICK start \in Int : start = f + m - 1
        BY <1>4, <3>1
    <3>3. 1 <= m /\ m <= Len(log) + 1
        BY ONLY <1>1, <1>3, <2>1, <3>1, PsNumbers
    <3>4. kept = SubSeq(log, m, Len(log))
        BY <1>6, <2>1, <3>1 DEF LastItems
    <3>l. log \in Seq(Item)
        BY <1>3
    <3>r. /\ SubSeq(log, m, Len(log)) \in Seq(Item)
          /\ Len(SubSeq(log, m, Len(log))) = Len(log) - m + 1
          /\ Run(row, start, SubSeq(log, m, Len(log)))
        BY <3>l, <1>5, <3>2, <3>3, RunRest
    <3>5. kept \in Seq(Item) /\ Len(kept) = Len(log) - m + 1 /\ Run(row, start, kept)
        BY <3>4, <3>r
    <3>n. Len(log) = Len(q.log) + Len(items)
        BY <1>3
    <3>k. Len(kept) = Len(log) - m + 1
        BY <3>5
    <3>7. Len(kept) = BacklogSize
        BY ONLY <3>0, <3>1, <3>k
    <3>8. f + Len(log) = off
        BY ONLY <1>1, <3>n, <1>4, <1>7
    <3>9. start = f + Len(log) - BacklogSize
        BY ONLY <3>0, <3>1, <3>2, f \in Int
    <3>10. Len(log) <= off
        BY ONLY <1>1, <3>n, <1>7
    <3>6. start = off - Len(kept) /\ Len(kept) <= off
        BY <3>0, <3>3, <3>1, <3>7, <3>8, <3>9, <3>10
    <3> QED
        BY <3>5, <3>6
  <2>2. CASE ~(Len(log) > BacklogSize)
    <3>0. Len(log) = Len(q.log) + Len(items)
        BY <1>3
    <3>1. f = off - Len(log) /\ Len(log) <= off
        BY <1>1, <3>0, <1>4, <1>7
    <3>2. kept = log
        BY <1>6, <2>2
    <3> QED
        BY <1>3, <1>5, <3>1, <3>2
  <2> QED
      BY <2>1, <2>2
<1>9. r = [q EXCEPT !.off = off, !.log = kept]
    BY <1>2, <1>6, <1>7 DEF feedReplicationBacklog
<1>10. r \in Server
    BY ONLY <1>8, <1>9 DEF Server
<1>11. /\ r.off = off /\ r.log = kept /\ r.on
       /\ r.data = q.data /\ r.id = q.id /\ r.id2 = q.id2 /\ r.upto = q.upto
       /\ r.sel = q.sel /\ r.master = q.master /\ r.db = q.db /\ r.saved = q.saved
       /\ r.fail = q.fail /\ (r.force <=> q.force) /\ r.target = q.target
    BY <1>8, <1>9 DEF Server
<1> QED
    BY <1>7, <1>8, <1>10, <1>11 DEF FedServer

\* The link of a replica that is fed.
MoreOn(l, items) == [l EXCEPT !.buf = l.buf \o items]

LEMMA MoreOnIs ==
    ASSUME NEW l \in Link, NEW items \in Seq(Item), NEW m, m = MoreOn(l, items)
    PROVE  /\ m \in Link /\ m.st = l.st /\ m.sl = l.sl /\ (m.open <=> l.open) /\ m.id = l.id
           /\ m.off = l.off /\ m.snap = l.snap /\ m.db = l.db /\ m.buf = l.buf \o items
           /\ Len(m.buf) = Len(l.buf) + Len(items)
<1>0. l.buf \in Seq(Item)
    BY LinkParts
<1>c. l.buf \o items \in Seq(Item)
    BY <1>0
<1>1. PICK buf \in Seq(Item) : buf = l.buf \o items
    BY <1>c
<1>2. m = [l EXCEPT !.buf = buf]
    BY <1>1 DEF MoreOn
<1>3. Len(buf) = Len(l.buf) + Len(items)
    BY <1>0, <1>1
<1>4. m \in Link
    BY <1>2 DEF Link
<1> QED
    BY ONLY <1>1, <1>2, <1>3, <1>4 DEF Link

\* What server n of v, its link and those of its replicas have become.
Feeding(w, v, n, items) ==
    /\ v.ids = w.ids /\ w.s[n].on /\ v.s[n].on
    /\ v.s[n].id = w.s[n].id /\ v.s[n].master = w.s[n].master
    /\ v.s[n].off = w.s[n].off + Len(items)
    /\ \A k \in PsServer \ {n} :
        /\ v.s[k] = w.s[k]
        /\ v.l[k] = IF k \in Fed(w, n) THEN MoreOn(w.l[k], items) ELSE w.l[k]

\* A replica that is fed may have the longer stream.
LEMMA FedAdmitted ==
    ASSUME NEW H, NEW w, WorldInv(H, w), NEW G, NEW c, WorldInv(G, c),
           NEW n \in PsServer, NEW k \in PsServer \ {n}, NEW items \in Seq(Item),
           w.s[k].master = n, Followed(w.l[k]),
           c.s[k] = w.s[k], Cut(c.l[k], w.l[k]), c.s[n].on, c.s[n].id = w.s[n].id,
           c.s[n].off = w.s[n].off + Len(items), Run(G[w.s[n].id], w.s[n].off, items),
           NEW m, m = IF w.l[k].sl # "start" THEN MoreOn(w.l[k], items) ELSE w.l[k]
    PROVE  Admitted(G, c, k, m)
<1>h. WorldInv(G, c) /\ k \in PsServer
    OBVIOUS
<1>1. PICK r : r = w.s[k]
    OBVIOUS
<1>2. PICK l : l = w.l[k]
    OBVIOUS
<1>3. /\ r \in Server /\ l \in Link /\ w.s[n] \in Server /\ c \in World /\ G \in Histories
      /\ Shape(k, r, l) /\ Linked(w.s, r, l) /\ c.s[k] = r
    BY <1>1, <1>2, FitsParts
<1>4. Older(c.ids, r, c.l[k]) /\ LinkAgrees(G, r, c.l[k])
    BY <1>3, FitsParts
<1>5. Older(c.ids, r, l) /\ LinkAgrees(G, r, l)
  <2>1. Cut(c.l[k], l)
      BY <1>2
  <2> QED
      BY <1>4, <2>1 DEF Cut, Older, LinkAgrees, Serving, Online
<1>6. /\ r.master = n /\ n # NoServer /\ r.off \in Nat /\ l.off \in Nat /\ l.buf \in Seq(Item)
      /\ Len(l.buf) \in Nat /\ w.s[n].off \in Nat /\ Len(items) \in Nat
    BY <1>1, <1>3, ServerParts, LinkParts, PsNumbers
<1>7. CASE l.sl = "start"
  <2>1. m = l
      BY <1>2, <1>7
  <2>2. Linked(c.s, r, l)
      BY <1>6, <1>7 DEF Linked
  <2>3. ~Serving(l) /\ ~Online(l)
      BY ONLY <1>7 DEF Serving, Online
  <2>4. ASSUME NEW j \in PsServer
        PROVE  /\ Hidden(c.s[j]) => Unheard(c.s[j].id, r, l)
               /\ IsMaster(c.s[j]) =>
                   IF c.s[j].on THEN UpTo(G, c.s[j].id, c.s[j].off, r, l)
                   ELSE Apart(c.s[j].id, r, l)
    <3>0. j \in PsServer
        OBVIOUS
    <3>1. /\ Hidden(c.s[j]) => Unheard(c.s[j].id, c.s[k], c.l[k])
          /\ IsMaster(c.s[j]) =>
              IF c.s[j].on THEN UpTo(G, c.s[j].id, c.s[j].off, c.s[k], c.l[k])
              ELSE Apart(c.s[j].id, c.s[k], c.l[k])
        BY ONLY <1>h, <3>0, FitsParts DEF Owns
    <3> QED
        BY ONLY <1>3, <2>3, <3>1 DEF Unheard, UpTo, Apart
  <2> QED
      BY <1>3, <1>5, <1>6, <2>1, <2>2, <2>4 DEF Admitted, IsMaster
<1>8. CASE l.sl # "start"
  <2>1. m = MoreOn(l, items)
      BY <1>2, <1>8
  <2>2. /\ m \in Link /\ m.st = l.st /\ m.sl = l.sl /\ (m.open <=> l.open) /\ m.id = l.id
        /\ m.off = l.off /\ m.snap = l.snap /\ m.db = l.db /\ m.buf = l.buf \o items
        /\ Len(m.buf) = Len(l.buf) + Len(items)
      BY ONLY <1>3, <2>1, MoreOnIs
  <2>3. /\ l.id = w.s[n].id /\ Behind(r, l) = w.s[n].off /\ (Serving(l) \/ Online(l))
        /\ Serving(l) => ~Online(l)
    <3>1. l.id = w.s[n].id /\ Behind(r, l) = w.s[n].off
        BY <1>2, <1>3, <1>6, <1>8 DEF Linked
    <3> QED
        BY <1>2, <1>8, <3>1 DEF Followed, Serving, Online
  <2>4. (Serving(m) <=> Serving(l)) /\ (Online(m) <=> Online(l))
      BY <2>2 DEF Serving, Online
  <2>5. /\ Serving(l) => l.off + Len(l.buf) = w.s[n].off
        /\ Online(l) => r.off + Len(l.buf) = w.s[n].off
      BY ONLY <2>3 DEF Behind
  <2>e. m.off = l.off /\ Len(m.buf) = Len(l.buf) + Len(items)
      BY <2>2
  <2>f. /\ r.off \in Nat /\ l.off \in Nat /\ Len(l.buf) \in Nat /\ w.s[n].off \in Nat
        /\ Len(items) \in Nat /\ c.s[n].off = w.s[n].off + Len(items)
      BY <1>6
  <2>6. /\ Serving(m) => m.off + Len(m.buf) = c.s[n].off
        /\ Online(m) => r.off + Len(m.buf) = c.s[n].off
      BY ONLY <2>4, <2>5, <2>e, <2>f
  <2>7. Shape(k, r, m)
      BY <1>3, <1>8, <2>2, <2>4 DEF Shape
  <2>8. Older(c.ids, r, m)
      BY ONLY <1>5, <2>2 DEF Older
  <2>9. LinkAgrees(G, r, m)
    <3>1. ASSUME NEW x \in Nat, x + Len(l.buf) = w.s[n].off, Run(G[l.id], x, l.buf)
          PROVE  Run(G[m.id], x, m.buf)
      <4>1. Run(G[l.id], x + Len(l.buf), items)
          BY <2>3, <3>1
      <4>b. l.buf \in Seq(Item) /\ x \in Int
          BY <1>6
      <4>2. Run(G[l.id], x, l.buf \o items)
          BY <4>b, <3>1, <4>1, RunMore
      <4> QED
          BY <2>2, <4>2
    <3>2. ASSUME Serving(m) PROVE At(G[m.id][m.off], m.snap, m.db) /\ Run(G[m.id], m.off, m.buf)
      <4>1. Run(G[l.id], l.off, l.buf) /\ At(G[l.id][l.off], l.snap, l.db)
          BY ONLY <1>5, <2>4, <3>2 DEF LinkAgrees
      <4> QED
          BY ONLY <1>6, <2>2, <2>4, <2>5, <3>1, <3>2, <4>1
    <3>3. ASSUME Online(m)
          PROVE  /\ At(G[m.id][r.off], r.data, r.db) /\ Run(G[m.id], r.off, m.buf)
                 /\ r.id # m.id => Agree(G[r.id], G[m.id], r.off + 1)
      <4>1. /\ Run(G[l.id], r.off, l.buf) /\ At(G[l.id][r.off], r.data, r.db)
            /\ r.id # l.id => Agree(G[r.id], G[l.id], r.off + 1)
          BY ONLY <1>5, <2>4, <3>3 DEF LinkAgrees
      <4> QED
          BY ONLY <1>6, <2>2, <2>4, <2>5, <3>1, <3>3, <4>1
    <3> QED
        BY ONLY <3>2, <3>3 DEF LinkAgrees
  <2>10. Linked(c.s, r, m)
    <3>1. Behind(r, m) = c.s[n].off
        BY ONLY <2>3, <2>4, <2>6 DEF Behind
    <3> QED
        BY <1>6, <2>2, <2>3, <3>1 DEF Linked
  <2>11. ASSUME NEW j \in PsServer
         PROVE  /\ Hidden(c.s[j]) => Unheard(c.s[j].id, r, m)
                /\ IsMaster(c.s[j]) =>
                    IF c.s[j].on THEN UpTo(G, c.s[j].id, c.s[j].off, r, m)
                    ELSE Apart(c.s[j].id, r, m)
    <3>0. j \in PsServer
        OBVIOUS
    <3>1. /\ Hidden(c.s[j]) => Unheard(c.s[j].id, c.s[k], c.l[k])
          /\ IsMaster(c.s[j]) =>
              IF c.s[j].on THEN /\ UpTo(G, c.s[j].id, c.s[j].off, c.s[k], c.l[k])
                                /\ UpTo(G, c.s[j].id, c.s[j].off, c.s[n], c.l[n])
              ELSE Apart(c.s[j].id, c.s[k], c.l[k])
        BY ONLY <1>h, <3>0, FitsParts DEF Owns
    <3>2. /\ c.l[k].id = m.id /\ (Serving(c.l[k]) <=> Serving(m))
          /\ (Online(c.l[k]) <=> Online(m))
        BY <1>2, <2>2 DEF Cut, Serving, Online
    <3>3. ASSUME IsMaster(c.s[j]), c.s[j].on PROVE UpTo(G, c.s[j].id, c.s[j].off, r, m)
      <4>1. c.s[n].id = c.s[j].id => c.s[n].off <= c.s[j].off
          BY <3>1, <3>3 DEF UpTo, Witness
      <4>2. m.id = c.s[n].id
          BY <2>2, <2>3
      <4>3. /\ Serving(m) /\ m.id = c.s[j].id => m.off + Len(m.buf) <= c.s[j].off
            /\ Online(m) /\ m.id = c.s[j].id => r.off + Len(m.buf) <= c.s[j].off
          BY ONLY <2>6, <4>1, <4>2
      <4>4. UpTo(G, c.s[j].id, c.s[j].off, r, c.l[k])
          BY ONLY <1>3, <3>1, <3>3
      <4> QED
          BY ONLY <3>2, <4>3, <4>4 DEF UpTo
    <3> QED
        BY ONLY <1>3, <3>1, <3>2, <3>3 DEF Unheard, Apart
  <2> QED
      BY ONLY <1>3, <1>6, <2>2, <2>7, <2>8, <2>9, <2>10, <2>11 DEF Admitted, IsMaster
<1> QED
    BY <1>7, <1>8

\* Server n adds to its stream and passes it on.
LEMMA FeedStep ==
    ASSUME NEW H, NEW w, WorldInv(H, w), NEW G \in Histories, NEW v \in World,
           NEW n \in PsServer, NEW items \in Seq(Item), Feeding(w, v, n, items),
           NEW r, r = v.s[n], NEW l, l = v.l[n],
           Kept(G, disconnectSlaves(w, n), n),
           Shape(n, r, l), Older(w.ids, r, l), ServerAgrees(G, r), LinkAgrees(G, r, l),
           Linked(v.s, r, l), Respects(G, disconnectSlaves(w, n), n, r, l),
           Run(G[w.s[n].id], w.s[n].off, items),
           IsMaster(r) => /\ G[r.id][r.off].db = r.sel
                          /\ \A k \in PsServer \ {n} : IsMaster(w.s[k]) => w.s[k].id # r.id
                          /\ UpTo(G, r.id, r.off, r, l)
                          /\ \A k \in PsServer \ {n} : UpTo(G, r.id, r.off, w.s[k], w.l[k])
    PROVE  WorldInv(G, v)
<1>1. PICK d : d = disconnectSlaves(w, n)
    OBVIOUS
<1>2. WorldInv(H, d) /\ w \in World
    BY <1>1, DisconnectStep DEF WorldInv
<1>3. /\ d \in World /\ d.s = w.s /\ d.ids = w.ids
      /\ \A k \in PsServer : Cut(d.l[k], w.l[k])
      /\ \A k \in PsServer : w.s[k].master = n => ~Followed(d.l[k])
    BY ONLY <1>1, <1>2, Disconnected
<1>4. r \in Server /\ l \in Link
    BY WorldParts
<1>5. PICK c : c = With(d, n, r, l)
    OBVIOUS
<1>6. /\ c \in World /\ c.ids = w.ids /\ c.s[n] = r /\ c.l[n] = l
      /\ \A k \in PsServer \ {n} : c.s[k] = w.s[k] /\ c.l[k] = d.l[k]
    BY ONLY <1>3, <1>4, <1>5, WithIs
<1>7. /\ v.ids = w.ids /\ w.s[n].on /\ r.on /\ r.id = w.s[n].id
      /\ r.master = w.s[n].master /\ r.off = w.s[n].off + Len(items)
      /\ \A k \in PsServer \ {n} :
          /\ v.s[k] = w.s[k]
          /\ v.l[k] = IF k \in Fed(w, n) THEN MoreOn(w.l[k], items) ELSE w.l[k]
    BY DEF Feeding
<1>8. c.s = v.s
  <2>1. \A k \in PsServer : c.s[k] = v.s[k]
      BY <1>6, <1>7
  <2> QED
      BY ONLY <1>6, <2>1, WorldParts
<1>9. Others(d, c, n)
  <2>1. \A k \in PsServer : d.l[k] \in Link
      BY ONLY <1>3, WorldParts
  <2>2. d.ids <= c.ids
      BY ONLY <1>3, <1>6, WorldParts
  <2> QED
      BY ONLY <1>3, <1>6, <2>1, <2>2, CutSelf DEF Others
<1>10. Leading(c, n)
  <2>1. \A k \in PsServer \ {n} : c.s[k].master = n => ~Followed(c.l[k])
      BY ONLY <1>3, <1>6
  <2> QED
      BY ONLY <2>1, NoneLeading
<1>11. ~Hidden(r)
    BY ONLY <1>7 DEF Hidden
<1>12. ASSUME IsMaster(r) PROVE Owns(G, c, n)
  <2>1. /\ G[r.id][r.off].db = r.sel
        /\ \A k \in PsServer \ {n} : IsMaster(c.s[k]) => c.s[k].id # r.id
      BY <1>6, <1>12
  <2>2. ASSUME NEW k \in PsServer PROVE UpTo(G, r.id, r.off, c.s[k], c.l[k])
    <3>1. CASE k = n
        BY <1>6, <1>12, <3>1
    <3>2. CASE k # n
      <4>1. UpTo(G, r.id, r.off, w.s[k], w.l[k])
          BY <1>12, <3>2
      <4> QED
          BY ONLY <1>3, <1>6, <3>2, <4>1, CutSame
    <3> QED
        BY ONLY <3>1, <3>2
  <2> QED
      BY ONLY <1>6, <1>7, <2>1, <2>2 DEF Owns
<1>13. Fitting(G, d, c, n)
    BY <1>1, <1>6, <1>8, <1>9, <1>10, <1>11, <1>12 DEF Fitting
<1>14. WorldInv(G, c)
    BY ONLY <1>2, <1>6, <1>13, OneStep
<1>15. ASSUME NEW k \in PsServer PROVE Cut(v.l[k], c.l[k]) \/ Admitted(G, c, k, v.l[k])
  <2>1. CASE k = n
      BY <1>4, <1>6, <2>1, CutSelf
  <2>2. CASE k # n /\ w.s[k].master = n /\ Followed(w.l[k])
    <3>1. v.l[k] = IF w.l[k].sl # "start" THEN MoreOn(w.l[k], items) ELSE w.l[k]
        BY ONLY <1>7, <2>2, SlavesAre
    <3>2. c.s[k] = w.s[k] /\ Cut(c.l[k], w.l[k])
        BY ONLY <1>3, <1>6, <2>2
    <3>3. Admitted(G, c, k, v.l[k])
        BY <1>6, <1>7, <1>14, <2>2, <3>1, <3>2, FedAdmitted
    <3> QED
        BY ONLY <3>3
  <2>3. CASE k # n /\ ~(w.s[k].master = n /\ Followed(w.l[k]))
    <3>1. k \notin Slaves(w, n)
        BY ONLY <2>3, SlavesAre
    <3>2. k \notin Fed(w, n)
        BY ONLY <3>1, SlavesAre
    <3>3. v.l[k] = w.l[k] /\ c.l[k] = d.l[k]
        BY ONLY <1>6, <1>7, <2>3, <3>2
    <3>4. d.l[k] = w.l[k]
      <4>1. d.l[k] = [w.l[k] EXCEPT !.open = w.l[k].open /\ k \notin Slaves(w, n)]
          BY ONLY <1>1, <1>2 DEF disconnectSlaves, Closing, World
      <4>2. w.l[k] \in Link
          BY ONLY <1>2, WorldParts
      <4>3. (w.l[k].open /\ k \notin Slaves(w, n)) = w.l[k].open
          BY ONLY <3>1, <4>2, LinkParts
      <4>4. d.l[k] = [w.l[k] EXCEPT !.open = w.l[k].open]
          BY ONLY <4>1, <4>3
      <4> QED
          BY ONLY <4>2, <4>4 DEF Link
    <3>5. v.l[k] \in Link
        BY WorldParts
    <3> QED
        BY ONLY <3>3, <3>4, <3>5, CutSelf
  <2> QED
      BY ONLY <2>1, <2>2, <2>3
<1> QED
    BY ONLY <1>6, <1>7, <1>8, <1>14, <1>15, LinksStep

LEMMA FeedSlavesIs ==
    ASSUME NEW b \in World, NEW n \in PsServer, b.s[n].on, NEW items \in Seq(Item),
           b.s[n].master # n, NEW r \in Server, r = feedReplicationBacklog(b.s[n], items),
           NEW v, v = FeedSlaves(b, n, items)
    PROVE  /\ v \in World /\ v.ids = b.ids /\ v.s[n] = r /\ v.l[n] = b.l[n]
           /\ \A k \in PsServer \ {n} :
               /\ v.s[k] = b.s[k]
               /\ v.l[k] = IF k \in Fed(b, n) THEN MoreOn(b.l[k], items) ELSE b.l[k]
<1>1. PICK links : links = [k \in PsServer |->
                        IF k \in Fed(b, n) THEN MoreOn(b.l[k], items) ELSE b.l[k]]
    OBVIOUS
<1>2. links \in [PsServer -> Link]
  <2>1. ASSUME NEW k \in PsServer
        PROVE  (IF k \in Fed(b, n) THEN MoreOn(b.l[k], items) ELSE b.l[k]) \in Link
    <3>1. b.l[k] \in Link
        BY WorldParts
    <3> QED
        BY <3>1, MoreOnIs
  <2> QED
      BY <1>1, <2>1
<1>3. PICK s \in [PsServer -> Server], l \in [PsServer -> Link], ids \in Nat :
            b = [s |-> s, l |-> l, ids |-> ids]
    BY ONLY DEF World
<1>4. v = [b EXCEPT !.s[n] = r, !.l = links]
    BY <1>1 DEF FeedSlaves, MoreOn
<1>5. v = [s |-> [s EXCEPT ![n] = r], l |-> links, ids |-> ids]
    BY <1>3, <1>4
<1>6. n \notin Fed(b, n)
    BY SlavesAre
<1> QED
    BY ONLY <1>1, <1>2, <1>3, <1>5, <1>6 DEF World

\* The row goes on.
GoesOn(H, id, x, p, t) ==
    \E G \in Histories : /\ Grown(H, G, id, x) /\ G[id][x] = H[id][x]
                         /\ G[id][x + 1] = p /\ G[id][x + 2] = t

LEMMA GrowRow ==
    ASSUME NEW H \in Histories, NEW id \in Nat, NEW x \in Nat, NEW p \in Point, NEW t \in Point
    PROVE  GoesOn(H, id, x, p, t)
<1> DEFINE row == [o \in Nat |-> IF o <= x THEN H[id][o] ELSE IF o = x + 1 THEN p ELSE t]
           G == [H EXCEPT ![id] = row]
<1>1. row \in [Nat -> Point]
    BY DEF Histories
<1>2. G \in Histories /\ G[id] = row /\ \A i \in Nat \ {id} : G[i] = H[i]
  <2> HIDE DEF row
  <2> QED
      BY <1>1 DEF Histories
<1>3. /\ row[x + 1] = p /\ row[x + 2] = t /\ row[x] = H[id][x]
      /\ \A o \in Nat : o < x => row[o] = H[id][o]
    OBVIOUS
<1>4. Grown(H, G, id, x)
  <2> HIDE DEF G, row
  <2> QED
      BY <1>2, <1>3 DEF Grown, KeptBut, At
<1> QED
    BY <1>2, <1>3, <1>4 DEF GoesOn

\* What a master with a backlog does to its data, and sends.
Writes(q, data, d, item) ==
    \/ item[1] = "write" /\ d \in Nat /\ data = Append(q.data, <<item[2], d>>)
    \/ item[1] = "ping" /\ d = q.sel /\ data = q.data
Sent(q, d, item) == IF q.sel # d THEN <<Sel(d), item>> ELSE <<item>>

LEMMA SentIs ==
    ASSUME NEW q \in Server, NEW data, NEW d \in Int, NEW item \in Item, Writes(q, data, d, item)
    PROVE  Sent(q, d, item) \in Seq(Item) /\ Len(Sent(q, d, item)) \in {1, 2}
<1>1. CASE q.sel # d
  <2>1. d \in Nat
      BY <1>1 DEF Writes
  <2>2. Sel(d) \in Item
      BY <2>1 DEF Sel, Item
  <2>3. PICK e \in Item : e = Sel(d)
      BY <2>2
  <2>4. <<e, item>> \in Seq(Item) /\ Len(<<e, item>>) = 2
      OBVIOUS
  <2> QED
      BY <1>1, <2>3, <2>4 DEF Sent
<1>2. CASE ~(q.sel # d)
  <2>1. <<item>> \in Seq(Item) /\ Len(<<item>>) = 1
      OBVIOUS
  <2> QED
      BY <1>2, <2>1 DEF Sent
<1> QED
    BY <1>1, <1>2

\* The history in which the row of the master goes on.
Continues(H, q, data, d, items) ==
    \E G \in Histories :
        /\ Grown(H, G, q.id, q.off) /\ Run(G[q.id], q.off, items)
        /\ G[q.id][q.off + Len(items)] = [data |-> data, db |-> d]

LEMMA SentRuns ==
    ASSUME NEW H \in Histories, NEW q \in Server, NEW data \in Data, NEW d \in Int,
           NEW item \in Item, Writes(q, data, d, item),
           H[q.id][q.off].data = q.data, H[q.id][q.off].db = q.sel
    PROVE  Continues(H, q, data, d, Sent(q, d, item))
<1>1. PICK id \in Nat : id = q.id
    BY ServerParts
<1>2. PICK x \in Nat : x = q.off
    BY ServerParts
<1>3. PICK h : h = H[id][x]
    OBVIOUS
<1>4. h.data = q.data /\ h.db = q.sel
    BY <1>1, <1>2, <1>3
<1>5. PICK t \in Point : t = [data |-> data, db |-> d]
    BY DEF Point
<1>6. t.data = data /\ t.db = d
    BY <1>5
<1>7. d = NoDatabase => item[1] = "ping"
    BY PsNumbers DEF Writes
<1>8. CASE q.sel # d
  <2>1. PICK p \in Point : p = [data |-> q.data, db |-> d]
    <3>1. q.data \in Data
        BY ServerParts
    <3> QED
        BY <3>1 DEF Point
  <2>2. p.data = q.data /\ p.db = d
      BY <2>1
  <2>g. GoesOn(H, id, x, p, t)
      BY GrowRow
  <2>3. PICK G \in Histories : /\ Grown(H, G, id, x) /\ G[id][x] = H[id][x]
                               /\ G[id][x + 1] = p /\ G[id][x + 2] = t
      BY <2>g DEF GoesOn
  <2>4. PICK e : e = Sel(d)
      OBVIOUS
  <2>5. e[1] = "select" /\ e[2] = d
      BY <2>4 DEF Sel
  <2>6. item[1] = "write" /\ d # NoDatabase /\ data = Append(q.data, <<item[2], d>>)
      BY <1>8, PsNumbers DEF Writes
  <2>7. Leads(h, e, p)
      BY ONLY <1>4, <2>2, <2>5 DEF Leads, At
  <2>8. Leads(p, item, t)
      BY <1>6, <2>2, <2>6 DEF Leads, At
  <2>9. Run(G[id], x, <<e, item>>)
      BY <1>3, <2>3, <2>7, <2>8, RunTwo
  <2>10. Sent(q, d, item) = <<e, item>> /\ Len(<<e, item>>) = 2
      BY <1>8, <2>4 DEF Sent
  <2> QED
      BY ONLY <1>1, <1>2, <1>5, <2>3, <2>9, <2>10 DEF Continues
<1>9. CASE ~(q.sel # d)
  <2>g. GoesOn(H, id, x, t, t)
      BY GrowRow
  <2>1. PICK G \in Histories : /\ Grown(H, G, id, x) /\ G[id][x] = H[id][x]
                               /\ G[id][x + 1] = t
      BY <2>g DEF GoesOn
  <2>2. q.sel = d
      BY <1>9
  <2>3. Leads(h, item, t)
    <3>1. CASE item[1] = "write" /\ d \in Nat /\ data = Append(q.data, <<item[2], d>>)
        BY <1>4, <1>6, <2>2, <3>1, PsNumbers DEF Leads, At
    <3>2. CASE item[1] = "ping" /\ d = q.sel /\ data = q.data
        BY <1>4, <1>6, <3>2 DEF Leads, At
    <3> QED
        BY <3>1, <3>2 DEF Writes
  <2>4. Run(G[id], x, <<item>>)
      BY <1>3, <2>1, <2>3, RunOne
  <2>5. Sent(q, d, item) = <<item>> /\ Len(<<item>>) = 1
      BY <2>2 DEF Sent
  <2> QED
      BY <1>1, <1>2, <1>5, <2>1, <2>4, <2>5 DEF Continues
<1> QED
    BY ONLY <1>8, <1>9

\* Nothing is beyond an offset, so nothing is beyond a later one.
LEMMA UpToLater ==
    ASSUME NEW H, NEW id, NEW x \in Nat, NEW y \in Nat, x < y, NEW r \in Server, NEW l \in Link,
           r.saved.id = id => r.saved.off \in Int,
           UpTo(H, id, x, r, l)
    PROVE  UpTo(H, id, y, r, l)
<1>1. /\ r.off \in Nat /\ r.upto \in Int /\ l.off \in Nat /\ Len(l.buf) \in Nat
      /\ r.saved.off \in Int
    BY ServerParts, LinkParts
<1>2. \A row : \A u \in Int : HeirUpTo(row, u, x) => HeirUpTo(row, u, y)
    BY DEF HeirUpTo
<1>3. r.off + 1 \in Int
    BY <1>1
<1>4. /\ Witness(r) /\ r.id = id => r.off <= y
      /\ r.saved.id = id => r.saved.off <= y
      /\ Serving(l) /\ l.id = id => l.off + Len(l.buf) <= y
      /\ Online(l) /\ l.id = id => r.off + Len(l.buf) <= y
    BY <1>1 DEF UpTo
<1>5. /\ r.on /\ r.id2 = id => HeirUpTo(H[r.id], r.upto, y)
      /\ Online(l) /\ r.id = id /\ l.id # id => HeirUpTo(H[l.id], r.off + 1, y)
    BY <1>1, <1>2, <1>3 DEF UpTo
<1> QED
    BY <1>4, <1>5 DEF UpTo

\* The record of a master that has written.
Wrote(q, data, d) == [q EXCEPT !.data = data, !.sel = d]

LEMMA WroteIs ==
    ASSUME NEW q \in Server, NEW data \in Data, NEW d \in Int, NEW t, t = Wrote(q, data, d)
    PROVE  /\ t \in Server /\ t.data = data /\ t.sel = d /\ t.id = q.id /\ t.id2 = q.id2
           /\ t.upto = q.upto /\ t.off = q.off /\ (t.on <=> q.on) /\ t.log = q.log
           /\ t.master = q.master /\ t.db = q.db /\ t.saved = q.saved /\ t.fail = q.fail
           /\ (t.force <=> q.force) /\ t.target = q.target
<1>1. t \in Server
    BY DEF Wrote, Server
<1> QED
    BY <1>1 DEF Wrote, Server

\* A master with a backlog writes, or sends a PING.
LEMMA MasterFeedStep ==
    ASSUME NEW H, NEW w, WorldInv(H, w), NEW n \in PsServer, NEW q, q = w.s[n],
           IsMaster(q), q.on, NEW data \in Data, NEW d \in Int, NEW item \in Item,
           Writes(q, data, d, item), NEW items, items = Sent(q, d, item),
           NEW r, r = feedReplicationBacklog(Wrote(q, data, d), items),
           NEW v \in World, v.ids = w.ids, v.s[n] = r, v.l[n] = w.l[n],
           \A k \in PsServer \ {n} :
               /\ v.s[k] = w.s[k]
               /\ v.l[k] = IF k \in Fed(w, n) THEN MoreOn(w.l[k], items) ELSE w.l[k]
    PROVE  \E G \in Histories : WorldInv(G, v)
<1>h. /\ WorldInv(H, w) /\ n \in PsServer /\ q = w.s[n] /\ IsMaster(q) /\ q.on
      /\ data \in Data /\ d \in Int /\ item \in Item /\ Writes(q, data, d, item)
      /\ items = Sent(q, d, item) /\ v \in World /\ v.ids = w.ids /\ v.s[n] = r
      /\ v.l[n] = w.l[n]
    OBVIOUS
<1>o. \A k \in PsServer \ {n} :
        /\ v.s[k] = w.s[k]
        /\ v.l[k] = IF k \in Fed(w, n) THEN MoreOn(w.l[k], items) ELSE w.l[k]
    OBVIOUS
<1>1. PICK l : l = w.l[n]
    OBVIOUS
<1>2. /\ w \in World /\ H \in Histories /\ q \in Server /\ l \in Link /\ w.ids \in Nat
      /\ Shape(n, q, l) /\ Older(w.ids, q, l) /\ ServerAgrees(H, q)
      /\ LinkAgrees(H, q, l) /\ Owns(H, w, n)
    BY <1>1, FitsParts
<1>3. /\ q.id \in Nat /\ q.off \in Nat /\ q.log \in Seq(Item) /\ q.upto \in Int
      /\ q.saved.off \in Int /\ q.id # NoId /\ Len(q.log) <= q.off
    BY ONLY <1>2, ServerParts DEF Shape
<1>4. H[q.id][q.off].data = q.data /\ H[q.id][q.off].db = q.sel
  <2>1. Witness(q)
      BY DEF Witness
  <2> QED
      BY ONLY <1>h, <1>2, <2>1 DEF ServerAgrees, At, Owns
<1>5. items \in Seq(Item) /\ Len(items) \in {1, 2}
    BY ONLY <1>h, <1>2, SentIs
<1>c. Continues(H, q, data, d, items)
    BY ONLY <1>h, <1>2, <1>4, SentRuns
<1>6. PICK G \in Histories : /\ Grown(H, G, q.id, q.off) /\ Run(G[q.id], q.off, items)
                             /\ G[q.id][q.off + Len(items)] = [data |-> data, db |-> d]
    BY <1>c DEF Continues
<1>7. PICK t : t = Wrote(q, data, d)
    OBVIOUS
<1>8. /\ t \in Server /\ t.data = data /\ t.sel = d /\ t.id = q.id /\ t.id2 = q.id2
      /\ t.upto = q.upto /\ t.off = q.off /\ (t.on <=> q.on) /\ t.log = q.log
      /\ t.master = q.master /\ t.db = q.db /\ t.saved = q.saved /\ t.fail = q.fail
      /\ (t.force <=> q.force) /\ t.target = q.target
    BY ONLY <1>2, <1>7, WroteIs
<1>9. UpTo(H, q.id, q.off, q, l)
    BY <1>1, <1>2 DEF Owns
<1>10. ServerAgrees(G, q) /\ LinkAgrees(G, q, l)
    BY ONLY <1>2, <1>3, <1>6, <1>9, GrownAgrees
<1>11. Run(G[q.id], q.off - Len(q.log), q.log)
    BY <1>10 DEF ServerAgrees
<1>12. /\ r \in Server /\ r.off = q.off + Len(items) /\ r.on
       /\ r.data = data /\ r.id = q.id /\ r.id2 = q.id2 /\ r.upto = q.upto
       /\ r.sel = d /\ r.master = q.master /\ r.db = q.db /\ r.saved = q.saved
       /\ r.fail = q.fail /\ (r.force <=> q.force) /\ r.target = q.target
       /\ Len(r.log) <= r.off /\ Run(G[q.id], r.off - Len(r.log), r.log)
  <2>1. t.on /\ Len(t.log) <= t.off /\ r = feedReplicationBacklog(t, items)
        /\ Run(G[q.id], t.off - Len(t.log), t.log) /\ Run(G[q.id], t.off, items)
      BY <1>3, <1>6, <1>7, <1>8, <1>11
  <2>2. /\ r \in Server /\ r.off = t.off + Len(items) /\ r.on
        /\ r.data = t.data /\ r.id = t.id /\ r.id2 = t.id2 /\ r.upto = t.upto
        /\ r.sel = t.sel /\ r.master = t.master /\ r.db = t.db /\ r.saved = t.saved
        /\ r.fail = t.fail /\ (r.force <=> t.force) /\ r.target = t.target
        /\ Len(r.log) <= r.off /\ Run(G[q.id], r.off - Len(r.log), r.log)
    <3>1. t \in Server /\ items \in Seq(Item)
        BY <1>5, <1>8
    <3>2. PICK row : row = G[q.id]
        OBVIOUS
    <3>3. Run(row, t.off - Len(t.log), t.log) /\ Run(row, t.off, items)
        BY ONLY <2>1, <3>2
    <3>4. FedServer(r, t, items, row)
        BY ONLY <2>1, <3>1, <3>3, FedServerIs
    <3> QED
        BY ONLY <3>2, <3>4 DEF FedServer
  <2> QED
      BY ONLY <1>8, <2>2
<1>13. PICK y \in Nat : y = r.off
    BY <1>12, ServerParts
<1>14. q.off < y
  <2>1. y = q.off + Len(items) /\ q.off \in Nat
      BY ONLY <1>3, <1>12, <1>13
  <2> QED
      BY ONLY <1>5, <2>1
<1>15. /\ IsMaster(r) /\ r.db = NoDatabase /\ l.sl = "none" /\ l.st = "none"
       /\ ~Serving(l) /\ ~Online(l) /\ ~Followed(l)
  <2>1. r.db = NoDatabase /\ l.sl = "none" /\ l.st = "none"
      BY ONLY <1>h, <1>2, <1>12 DEF Shape
  <2> QED
      BY ONLY <1>h, <1>12, <2>1 DEF IsMaster, Serving, Online, Followed
<1>16. Shape(n, r, l)
  <2>1. r.upto <= r.off + 1
    <3>1. q.upto <= q.off + 1
        BY <1>2 DEF Shape
    <3> QED
        BY <1>3, <1>12, <1>13, <1>14, <3>1
  <2> QED
      BY ONLY <1>2, <1>12, <1>15, <2>1 DEF Shape
<1>17. Older(w.ids, r, l)
    BY ONLY <1>2, <1>12 DEF Older
<1>18. G[r.id][r.off].data = data /\ G[r.id][r.off].db = r.sel
    BY ONLY <1>6, <1>12
<1>19. ServerAgrees(G, r)
  <2>1. At(G[r.id][r.off], r.data, r.sel)
      BY <1>12, <1>18 DEF At
  <2>2. r.id2 # NoId => Agree(G[r.id2], G[r.id], r.upto)
      BY <1>10, <1>12 DEF ServerAgrees
  <2>3. r.saved.id # NoId => At(G[r.saved.id][r.saved.off], r.saved.data, r.saved.db)
      BY ONLY <1>10, <1>12 DEF ServerAgrees
  <2> QED
      BY ONLY <1>12, <1>15, <2>1, <2>2, <2>3 DEF ServerAgrees
<1>20. LinkAgrees(G, r, l) /\ Linked(v.s, r, l)
    BY <1>15 DEF LinkAgrees, Linked
<1>21. PICK a : a = disconnectSlaves(w, n)
    OBVIOUS
<1>22. WorldInv(H, a) /\ a.s = w.s
    BY <1>2, <1>21, DisconnectStep, Disconnected
<1>23. Kept(G, a, n)
  <2>1. IsMaster(a.s[n]) /\ a.s[n].on /\ Grown(H, G, a.s[n].id, a.s[n].off)
      BY ONLY <1>h, <1>6, <1>22
  <2> QED
      BY ONLY <1>22, <2>1, KeptGrown
<1>24. ASSUME NEW k \in PsServer
       PROVE  /\ w.s[k] \in Server /\ w.l[k] \in Link /\ Shape(k, w.s[k], w.l[k])
              /\ UpTo(H, q.id, q.off, w.s[k], w.l[k])
              /\ w.s[k].saved.off \in Int
  <2>1. w.s[k] \in Server
      BY <1>2, WorldParts
  <2> QED
      BY ONLY <1>h, <1>2, <2>1, FitsParts, ServerParts DEF Owns
<1>25. ASSUME NEW k \in PsServer PROVE UpTo(G, r.id, r.off, w.s[k], w.l[k])
  <2>1. UpTo(G, q.id, q.off, w.s[k], w.l[k])
      BY ONLY <1>3, <1>6, <1>24, GrownUpTo
  <2>2. UpTo(G, q.id, y, w.s[k], w.l[k])
      BY <1>3, <1>14, <1>24, <2>1, UpToLater
  <2> QED
      BY ONLY <1>12, <1>13, <2>2
<1>26. UpTo(G, r.id, r.off, r, l)
  <2>1. UpTo(G, r.id, r.off, q, l)
      BY <1>1, <1>25
  <2>2. r.off \in Nat
      BY ONLY <1>13
  <2> QED
      BY <1>12, <1>15, <2>1, <2>2 DEF UpTo, Witness
<1>27. \A k \in PsServer \ {n} : IsMaster(w.s[k]) => w.s[k].id # r.id
    BY <1>2, <1>12 DEF Owns
<1>28. Respects(G, a, n, r, l)
  <2> SUFFICES ASSUME NEW k \in PsServer \ {n}
               PROVE  /\ Hidden(w.s[k]) => Unheard(w.s[k].id, r, l)
                      /\ IsMaster(w.s[k]) =>
                          /\ IsMaster(r) => w.s[k].id # r.id
                          /\ IF w.s[k].on THEN UpTo(G, w.s[k].id, w.s[k].off, r, l)
                             ELSE Apart(w.s[k].id, r, l)
      BY <1>22 DEF Respects
  <2>1. /\ Hidden(w.s[k]) => Unheard(w.s[k].id, q, l)
        /\ IsMaster(w.s[k]) =>
            IF w.s[k].on THEN UpTo(H, w.s[k].id, w.s[k].off, q, l)
            ELSE Apart(w.s[k].id, q, l)
      BY <1>1, FitsParts DEF Respects
  <2>2. w.s[k].id \in Nat /\ w.s[k].off \in Nat
      BY ONLY <1>24, ServerParts
  <2>3. Hidden(w.s[k]) => Unheard(w.s[k].id, r, l)
      BY ONLY <1>h, <1>12, <1>15, <2>1 DEF Unheard
  <2>4. ASSUME IsMaster(w.s[k]), w.s[k].on PROVE UpTo(G, w.s[k].id, w.s[k].off, r, l)
    <3>1. UpTo(G, w.s[k].id, w.s[k].off, q, l)
        BY ONLY <1>2, <1>3, <1>6, <1>9, <2>1, <2>2, <2>4, GrownUpTo
    <3>2. r.id # w.s[k].id
        BY ONLY <1>27, <2>4
    <3> QED
        BY <1>12, <1>15, <3>1, <3>2 DEF UpTo, Witness
  <2>5. ASSUME IsMaster(w.s[k]), ~w.s[k].on PROVE Apart(w.s[k].id, r, l)
    <3>1. Apart(w.s[k].id, q, l)
        BY <2>1, <2>5
    <3>2. r.id # w.s[k].id
        BY ONLY <1>27, <2>5
    <3> QED
        BY <1>12, <1>15, <3>1, <3>2 DEF Apart, Witness
  <2> QED
      BY ONLY <1>27, <2>3, <2>4, <2>5
<1>29. Feeding(w, v, n, items)
    BY ONLY <1>h, <1>o, <1>12 DEF Feeding
<1>30. WorldInv(G, v)
    BY ONLY <1>h, <1>1, <1>2, <1>5, <1>6, <1>16, <1>17, <1>18, <1>19, <1>20, <1>21, <1>23, <1>25, <1>26,
       <1>27, <1>28, <1>29, FeedStep
<1> QED
    BY <1>30

\* The two cases of replicationFeedSlaves.
LEMMA FeedingOff ==
    ASSUME NEW a, NEW n, NEW d, NEW item, ~a.s[n].on
    PROVE  replicationFeedSlaves(a, n, d, item) = a
    BY DEF replicationFeedSlaves

LEMMA FeedingOn ==
    ASSUME NEW w \in World, NEW n \in PsServer, NEW q, q = w.s[n], q.on, NEW data \in Data,
           NEW d \in Int, NEW item \in Item, NEW a, a = [w EXCEPT !.s[n].data = data]
    PROVE  replicationFeedSlaves(a, n, d, item)
                = FeedSlaves([w EXCEPT !.s[n] = Wrote(q, data, d)], n, Sent(q, d, item))
<1>1. PICK s \in [PsServer -> Server], l \in [PsServer -> Link], ids \in Nat :
            w = [s |-> s, l |-> l, ids |-> ids]
    BY DEF World
<1>2. q = s[n] /\ q \in Server
    BY <1>1
<1>3. PICK e : e = [q EXCEPT !.data = data]
    OBVIOUS
<1>4. a = [s |-> [s EXCEPT ![n] = e], l |-> l, ids |-> ids]
    BY <1>1, <1>2, <1>3
<1>5. e.on = q.on /\ e.sel = q.sel
    BY <1>2, <1>3 DEF Server
<1>6. a.s[n] = e
    BY <1>1, <1>4
<1>7. [a EXCEPT !.s[n].sel = d] = [s |-> [s EXCEPT ![n] = [e EXCEPT !.sel = d]], l |-> l, ids |-> ids]
  <2>1. PICK t : t = [s EXCEPT ![n] = e]
      OBVIOUS
  <2>2. a = [s |-> t, l |-> l, ids |-> ids] /\ t[n] = e
      BY <1>4, <2>1
  <2>3. PICK f : f = [e EXCEPT !.sel = d]
      OBVIOUS
  <2>c. PICK c : c = [a EXCEPT !.s[n].sel = d]
      OBVIOUS
  <2>4. c = [s |-> [t EXCEPT ![n] = f], l |-> l, ids |-> ids]
      BY <2>2, <2>3, <2>c
  <2>5. [t EXCEPT ![n] = f] = [s EXCEPT ![n] = f]
      BY <2>1
  <2> QED
      BY <2>3, <2>c, <2>4, <2>5
<1>8. [w EXCEPT !.s[n] = Wrote(q, data, d)]
            = [s |-> [s EXCEPT ![n] = Wrote(q, data, d)], l |-> l, ids |-> ids]
    BY <1>1
<1>9. [e EXCEPT !.sel = d] = Wrote(q, data, d)
    BY <1>2, <1>3 DEF Wrote, Server
<1>10. [a EXCEPT !.s[n].sel = d] = [w EXCEPT !.s[n] = Wrote(q, data, d)]
    BY ONLY <1>7, <1>8, <1>9
<1> QED
    BY <1>5, <1>6, <1>10 DEF replicationFeedSlaves, Sent

\* The master's part of a write or a PING, when there is a backlog.
LEMMA MasterStep ==
    ASSUME NEW H, NEW w, WorldInv(H, w), NEW n \in PsServer, NEW q, q = w.s[n],
           IsMaster(q), q.on, NEW data \in Data, NEW d \in Int, NEW item \in Item,
           Writes(q, data, d, item),
           NEW v, v = FeedSlaves([w EXCEPT !.s[n] = Wrote(q, data, d)], n, Sent(q, d, item))
    PROVE  \E G \in Histories : WorldInv(G, v)
<1>1. /\ w \in World /\ q \in Server /\ q.master # n
      /\ Shape(n, q, w.l[n]) /\ ServerAgrees(H, q)
    BY FitsParts DEF Shape
<1>2. PICK t : t = Wrote(q, data, d)
    OBVIOUS
<1>3. /\ t \in Server /\ t.off = q.off /\ t.log = q.log /\ t.on /\ t.master = q.master
      /\ t.id = q.id
    BY <1>1, <1>2, WroteIs
<1>4. PICK b : b = [w EXCEPT !.s[n] = t]
    OBVIOUS
<1>5. /\ b \in World /\ b.l = w.l /\ b.ids = w.ids /\ b.s[n] = t
      /\ \A k \in PsServer \ {n} : b.s[k] = w.s[k]
    BY <1>1, <1>3, <1>4, PutServer
<1>6. PICK items : items = Sent(q, d, item)
    OBVIOUS
<1>7. items \in Seq(Item)
    BY <1>1, <1>6, SentIs
<1>8. PICK r : r = feedReplicationBacklog(t, items)
    OBVIOUS
<1>9. r \in Server
  <2>1. t.off \in Nat /\ t.log \in Seq(Item) /\ Len(items) \in Nat
      BY ONLY <1>3, <1>7, ServerParts
  <2>2. PICK off \in Nat : off = t.off + Len(items)
      BY <2>1
  <2>3. t.log \o items \in Seq(Item)
      BY <1>7, <2>1
  <2>4. PICK log \in Seq(Item) : log = t.log \o items
      BY <2>3
  <2>5. LastItems(log) \in Seq(Item) \/ ~(Len(log) > BacklogSize)
    <3>1. ASSUME Len(log) > BacklogSize PROVE LastItems(log) \in Seq(Item)
        BY ONLY <3>1, PsNumbers DEF LastItems
    <3> QED
        BY <3>1
  <2>6. (IF Len(log) > BacklogSize THEN LastItems(log) ELSE log) \in Seq(Item)
      BY <2>5
  <2>7. PICK kept \in Seq(Item) : kept = (IF Len(log) > BacklogSize THEN LastItems(log) ELSE log)
      BY ONLY <2>6
  <2>8. r = [t EXCEPT !.off = off, !.log = kept]
      BY <1>3, <1>8, <2>2, <2>4, <2>7 DEF feedReplicationBacklog
  <2> QED
      BY <1>3, <2>8 DEF Server
<1>10. v = FeedSlaves(b, n, items)
    BY <1>2, <1>4, <1>6
<1>11. /\ v \in World /\ v.ids = b.ids /\ v.s[n] = r /\ v.l[n] = b.l[n]
       /\ \A k \in PsServer \ {n} :
           /\ v.s[k] = b.s[k]
           /\ v.l[k] = IF k \in Fed(b, n) THEN MoreOn(b.l[k], items) ELSE b.l[k]
    BY ONLY <1>1, <1>3, <1>5, <1>7, <1>8, <1>9, <1>10, FeedSlavesIs
<1>12. ASSUME NEW k \in PsServer \ {n} PROVE k \in Fed(b, n) <=> k \in Fed(w, n)
    BY <1>5 DEF Fed, Slaves
<1>13. \A k \in PsServer \ {n} :
           /\ v.s[k] = w.s[k]
           /\ v.l[k] = IF k \in Fed(w, n) THEN MoreOn(w.l[k], items) ELSE w.l[k]
    BY <1>5, <1>11, <1>12
<1>14. r = feedReplicationBacklog(Wrote(q, data, d), items)
    BY <1>2, <1>8
<1> QED
    BY <1>5, <1>6, <1>11, <1>13, <1>14, MasterFeedStep

\* Server n has another record.
WithServer(w, n, r) == [w EXCEPT !.s[n] = r]

LEMMA WithServerIs ==
    ASSUME NEW w \in World, NEW n \in PsServer, NEW r \in Server
    PROVE  /\ WithServer(w, n, r) \in World /\ WithServer(w, n, r).l = w.l
           /\ WithServer(w, n, r).ids = w.ids /\ WithServer(w, n, r).s[n] = r
           /\ \A k \in PsServer \ {n} : WithServer(w, n, r).s[k] = w.s[k]
    BY DEF WithServer, World

\* A master without backlog writes: nobody else ever sees it.
LEMMA UncountedStep ==
    ASSUME NEW H, NEW w, WorldInv(H, w), NEW n \in PsServer, NEW q, q = w.s[n],
           IsMaster(q), ~q.on, NEW data \in Data,
           NEW a, a = [w EXCEPT !.s[n].data = data]
    PROVE  WorldInv(H, a) /\ ~a.s[n].on
<1>p. PICK m : m = w.l[n]
    OBVIOUS
<1>0. /\ w \in World /\ H \in Histories /\ q \in Server /\ m \in Link /\ w.ids \in Nat
      /\ Shape(n, q, m) /\ Older(w.ids, q, m) /\ ServerAgrees(H, q) /\ LinkAgrees(H, q, m)
    BY <1>p, FitsParts
<1>1. PICK r : r = [q EXCEPT !.data = data]
    OBVIOUS
<1>2. /\ r \in Server /\ r.id = q.id /\ r.id2 = q.id2 /\ r.upto = q.upto /\ r.off = q.off
      /\ (r.on <=> q.on) /\ r.log = q.log /\ r.master = q.master /\ r.db = q.db
      /\ r.saved = q.saved /\ r.fail = q.fail /\ (r.force <=> q.force)
      /\ r.target = q.target
  <2>1. r \in Server
      BY ONLY <1>0, <1>1 DEF Server
  <2> QED
      BY ONLY <1>0, <1>1, <2>1 DEF Server
<1>3. a = WithServer(w, n, r)
    BY <1>1 DEF WithServer
<1>4. /\ a \in World /\ a.l = w.l /\ a.ids = w.ids /\ a.s[n] = r
      /\ \A k \in PsServer \ {n} : a.s[k] = w.s[k]
  <2>0. w \in World /\ r \in Server
      BY <1>0, <1>2
  <2>1. PICK b : b = WithServer(w, n, r)
      OBVIOUS
  <2>2. b \in World
      BY <2>0, <2>1, WithServerIs
  <2>3. b.l = w.l /\ b.ids = w.ids
      BY <2>0, <2>1, WithServerIs
  <2>4. b.s[n] = r
      BY <2>0, <2>1, WithServerIs
  <2>5. \A k \in PsServer \ {n} : b.s[k] = w.s[k]
      BY <2>0, <2>1, WithServerIs
  <2>6. a = b
      BY <1>3, <2>1
  <2> QED
      BY <2>2, <2>3, <2>4, <2>5, <2>6
<1>6. Others(w, a, n)
    BY <1>0, <1>4, WorldParts, CutSelf DEF Others
<1>7. ~Witness(r) /\ IsMaster(r) /\ ~Hidden(r) /\ ~r.on /\ r.db = NoDatabase
  <2>1. r.db = NoDatabase
      BY <1>0, <1>2 DEF Shape
  <2> QED
      BY <1>0, <1>2, <2>1 DEF Witness, IsMaster, Hidden
<1>8. m.sl = "none" /\ ~Serving(m) /\ ~Online(m) /\ ~Followed(m)
  <2>1. m.sl = "none"
      BY <1>0 DEF Shape
  <2> QED
      BY ONLY <2>1 DEF Serving, Online, Followed
<1>9. Lesser(r, m, q, m)
    BY ONLY <1>2, <1>7, <1>8 DEF Lesser, UpTo, Apart, Unheard
<1>10. Shape(n, r, m)
    BY <1>0, <1>2 DEF Shape, IsMaster
<1>11. Older(w.ids, r, m)
    BY ONLY <1>0, <1>2 DEF Older
<1>12. ServerAgrees(H, r)
    BY <1>0, <1>2, <1>7 DEF ServerAgrees
<1>13. LinkAgrees(H, r, m) /\ Linked(a.s, r, m)
    BY <1>8 DEF LinkAgrees, Linked
<1>o. r.on = q.on
    BY ONLY <1>0, <1>2, ServerParts
<1>14. Steady(H, w, a, n)
    BY <1>p, <1>2, <1>o, <1>4, <1>6, <1>7, <1>9, <1>10, <1>11, <1>12, <1>13 DEF Steady
<1>15. WorldInv(H, a)
    BY <1>0, <1>4, <1>14, SteadyStep
<1> QED
    BY <1>4, <1>7, <1>15

LEMMA WriteStep ==
    ASSUME NEW n \in PsServer, NEW d \in PsDb, PsInv, PsWrite(n, d)
    PROVE  PsInv'
<1>0. PICK H \in Histories : WorldInv(H, PsWorld)
    BY Now
<1>w. PICK w : w = PsWorld
    OBVIOUS
<1>1. PICK q : q = w.s[n]
    OBVIOUS
<1>2. PICK m : m = w.l[n]
    OBVIOUS
<1>3. /\ w \in World /\ H \in Histories /\ q \in Server /\ m \in Link /\ w.ids \in Nat
      /\ Shape(n, q, m) /\ Older(w.ids, q, m) /\ ServerAgrees(H, q) /\ WorldInv(H, w)
      /\ LinkAgrees(H, q, m)
    BY <1>0, <1>w, <1>1, <1>2, FitsParts
<1>4. psWrites \in Nat /\ psWrites' = psWrites + 1 /\ IsMaster(q) /\ d \in Nat
    BY <1>w, <1>1, PsNumbers DEF PsWrite, PsInv, IsReplica, IsMaster
<1>5. PICK i \in Nat : i = psWrites + 1
    BY <1>4
<1>6. PICK item : item = Wr(i)
    OBVIOUS
<1>7. item \in Item /\ item[1] = "write" /\ item[2] = i
    BY <1>6 DEF Wr, Item
<1>8. Append(q.data, <<i, d>>) \in Data
  <2>1. q.data \in Data /\ <<i, d>> \in Nat \X Int
      BY <1>3, <1>4, ServerParts
  <2> QED
      BY <2>1 DEF Data
<1>9. PICK data \in Data : data = Append(q.data, <<i, d>>)
    BY <1>8
<1>10. PICK a : a = [w EXCEPT !.s[n].data = data]
    OBVIOUS
<1>11. PICK v : v = replicationFeedSlaves(a, n, d, item)
    OBVIOUS
<1>12. PsBecomes(v)
  <2>1. [PsWorld EXCEPT !.s[n].data = Append(@, <<psWrites + 1, d>>)] = a
      BY <1>w, <1>1, <1>5, <1>9, <1>10
  <2> QED
      BY <1>5, <1>6, <1>11, <2>1 DEF PsWrite
<1>13. CASE q.on
  <2>1. v = FeedSlaves([w EXCEPT !.s[n] = Wrote(q, data, d)], n, Sent(q, d, item))
      BY <1>1, <1>3, <1>4, <1>7, <1>10, <1>11, <1>13, FeedingOn
  <2>2. Writes(q, data, d, item)
      BY <1>4, <1>7, <1>9 DEF Writes
  <2>3. d \in Int
      BY <1>4
  <2>4. \E G \in Histories : WorldInv(G, v)
      BY ONLY <1>1, <1>3, <1>4, <1>7, <1>13, <2>1, <2>2, <2>3, MasterStep
  <2>5. psWrites' \in Nat
      BY <1>4
  <2> QED
      BY <1>12, <2>4, <2>5, MakesWorld
<1>14. CASE ~q.on
  <2>15. WorldInv(H, a) /\ ~a.s[n].on
      BY <1>1, <1>3, <1>4, <1>10, <1>14, UncountedStep
  <2>5. v = a
      BY <1>11, <2>15, FeedingOff
  <2>16. psWrites' \in Nat
      BY <1>4
  <2> QED
      BY <1>0, <1>12, <2>5, <2>15, <2>16, MakesWorld
<1> QED
    BY <1>13, <1>14

LEMMA PingStep ==
    ASSUME NEW n \in PsServer, PsInv, CronPing(n)
    PROVE  PsInv'
<1>0. PICK H \in Histories : WorldInv(H, PsWorld)
    BY Now
<1>w. PICK w : w = PsWorld
    OBVIOUS
<1>1. PICK q : q = w.s[n]
    OBVIOUS
<1>3. /\ w \in World /\ H \in Histories /\ q \in Server /\ WorldInv(H, w)
    BY <1>0, <1>w, <1>1, FitsParts
<1>4. psWrites' \in Nat /\ IsMaster(q) /\ psS[n] = q /\ Slaves(w, n) # {}
    BY <1>w, <1>1, NowParts DEF CronPing, PsInv, IsReplica, IsMaster
<1>5. q.on
  <2> SUFFICES ASSUME ~q.on PROVE FALSE
      OBVIOUS
  <2>1. \A k \in PsServer : w.s[k].master = n => ~Followed(w.l[k])
      BY <1>1, <1>3, NoneFollows
  <2> QED
      BY <1>4, <2>1, SlavesAre
<1>6. PICK data \in Data : data = q.data
    BY <1>3, ServerParts
<1>7. PICK d \in Int : d = q.sel
    BY <1>3, ServerParts
<1>8. PICK item : item = Ping
    OBVIOUS
<1>9. item \in Item /\ item[1] = "ping"
    BY <1>8 DEF Ping, Item
<1>10. PICK a : a = [w EXCEPT !.s[n].data = data]
    OBVIOUS
<1>11. a = w
  <2>1. PICK s \in [PsServer -> Server], l \in [PsServer -> Link], ids \in Nat :
            w = [s |-> s, l |-> l, ids |-> ids]
      BY <1>3 DEF World
  <2>2. q = s[n]
      BY <1>1, <2>1
  <2>3. PICK e : e = [q EXCEPT !.data = data]
      OBVIOUS
  <2>4. e = q
      BY <1>3, <1>6, <2>3 DEF Server
  <2>5. a = [s |-> [s EXCEPT ![n] = e], l |-> l, ids |-> ids]
      BY <1>10, <2>1, <2>2, <2>3
  <2>6. [s EXCEPT ![n] = e] = s
      BY <2>2, <2>4
  <2> QED
      BY <2>1, <2>5, <2>6
<1>12. PICK v : v = replicationFeedSlaves(a, n, d, item)
    OBVIOUS
<1>13. PsBecomes(v)
    BY <1>w, <1>4, <1>7, <1>8, <1>11, <1>12 DEF CronPing
<1>14. v = FeedSlaves([w EXCEPT !.s[n] = Wrote(q, data, d)], n, Sent(q, d, item))
    BY <1>1, <1>3, <1>5, <1>9, <1>10, <1>12, FeedingOn
<1>15. Writes(q, data, d, item)
    BY <1>6, <1>7, <1>9 DEF Writes
<1>16. \E G \in Histories : WorldInv(G, v)
    BY <1>1, <1>3, <1>4, <1>5, <1>9, <1>14, <1>15, MasterStep
<1> QED
    BY <1>4, <1>13, <1>16, MakesWorld

\* A replica that has executed an item of its stream.
Executes(q, item) ==
    CASE item[1] = "select" -> [q EXCEPT !.db = item[2]]
      [] item[1] = "write" -> [q EXCEPT !.data = Append(q.data, <<item[2], q.db>>)]
      [] OTHER -> q

LEMMA ExecutesIs ==
    ASSUME NEW q \in Server, NEW item \in Item, NEW e, e = Executes(q, item),
           NEW h, NEW k, At(h, q.data, q.db), Leads(h, item, k), q.db # NoDatabase
    PROVE  /\ e \in Server /\ e.id = q.id /\ e.id2 = q.id2 /\ e.upto = q.upto /\ e.off = q.off
           /\ (e.on <=> q.on) /\ e.log = q.log /\ e.sel = q.sel /\ e.master = q.master
           /\ e.saved = q.saved /\ e.fail = q.fail /\ (e.force <=> q.force)
           /\ e.target = q.target /\ e.db # NoDatabase /\ At(k, e.data, e.db)
<1>1. item[1] \in {"select", "write", "ping"} /\ item[2] \in Nat
    BY DEF Item
<1>2. q.data \in Data /\ q.db \in Int
    BY ServerParts
<1>3. CASE item[1] = "select"
  <2>1. PICK d \in Int : d = item[2]
      BY <1>1
  <2>2. e = [q EXCEPT !.db = d]
      BY <1>3, <2>1 DEF Executes
  <2>3. e \in Server
      BY ONLY <2>2 DEF Server
  <2>4. /\ e.id = q.id /\ e.id2 = q.id2 /\ e.upto = q.upto /\ e.off = q.off
        /\ (e.on <=> q.on) /\ e.log = q.log /\ e.sel = q.sel /\ e.master = q.master
        /\ e.saved = q.saved /\ e.fail = q.fail /\ (e.force <=> q.force)
        /\ e.target = q.target /\ e.db = d /\ e.data = q.data
      BY <2>2, <2>3 DEF Server
  <2>5. d # NoDatabase
      BY <1>1, <2>1, PsNumbers
  <2>6. At(k, q.data, d)
      BY <1>3, <2>1, AtNext
  <2> QED
      BY <2>3, <2>4, <2>5, <2>6
<1>4. CASE item[1] = "write"
  <2>1. Append(q.data, <<item[2], q.db>>) \in Data
    <3>1. <<item[2], q.db>> \in Nat \X Int
        BY <1>1, <1>2
    <3> QED
        BY <1>2, <3>1 DEF Data
  <2>2. PICK data \in Data : data = Append(q.data, <<item[2], q.db>>)
      BY <2>1
  <2>3. e = [q EXCEPT !.data = data]
      BY <1>4, <2>2 DEF Executes
  <2>4. e \in Server
      BY ONLY <2>3 DEF Server
  <2>5. /\ e.id = q.id /\ e.id2 = q.id2 /\ e.upto = q.upto /\ e.off = q.off
        /\ (e.on <=> q.on) /\ e.log = q.log /\ e.sel = q.sel /\ e.master = q.master
        /\ e.saved = q.saved /\ e.fail = q.fail /\ (e.force <=> q.force)
        /\ e.target = q.target /\ e.db = q.db /\ e.data = data
      BY <2>3, <2>4 DEF Server
  <2>6. At(k, data, q.db)
      BY <1>4, <2>2, AtNext
  <2> QED
      BY <2>4, <2>5, <2>6
<1>5. CASE item[1] = "ping"
  <2>1. e = q
      BY <1>5 DEF Executes
  <2>2. At(k, q.data, q.db)
      BY <1>5, AtNext
  <2> QED
      BY <2>1, <2>2
<1> QED
    BY <1>1, <1>3, <1>4, <1>5

\* The link with one item less on its way.
LessOn(l) == [l EXCEPT !.buf = Tail(l.buf)]

LEMMA LessOnIs ==
    ASSUME NEW l \in Link, l.buf # <<>>, NEW m, m = LessOn(l)
    PROVE  /\ m \in Link /\ m.st = l.st /\ m.sl = l.sl /\ (m.open <=> l.open) /\ m.id = l.id
           /\ m.off = l.off /\ m.snap = l.snap /\ m.db = l.db /\ m.buf = Tail(l.buf)
           /\ Len(l.buf) \in Nat /\ Len(m.buf) = Len(l.buf) - 1 /\ Len(l.buf) > 0
<1>0. l.buf \in Seq(Item)
    BY LinkParts
<1>1. /\ Tail(l.buf) \in Seq(Item) /\ Len(Tail(l.buf)) = Len(l.buf) - 1
      /\ Len(l.buf) \in Nat /\ Len(l.buf) > 0
    BY <1>0
<1>2. PICK buf \in Seq(Item) : buf = Tail(l.buf)
    BY <1>1
<1>3. m = [l EXCEPT !.buf = buf]
    BY <1>2 DEF LessOn
<1>4. m \in Link
    BY <1>3 DEF Link
<1> QED
    BY <1>1, <1>2, <1>3, <1>4 DEF Link

\* The replica stays behind what others own.
LEMMA ExecutedLesser ==
    ASSUME NEW q \in Server, NEW m \in Link, NEW r \in Server, NEW l \in Link,
           Online(m), Online(l), ~Serving(l), q.on, r.on, q.id = m.id, l.id = m.id, r.id = q.id,
           r.id2 = q.id2, r.upto = q.upto, r.saved = q.saved, r.off = q.off + 1,
           Len(m.buf) \in Nat, Len(l.buf) = Len(m.buf) - 1, Len(m.buf) > 0
    PROVE  Lesser(r, l, q, m)
<1>1. q.off \in Nat
    BY ServerParts
<1>2. ASSUME NEW id \in Nat \ {NoId}, NEW H, NEW off \in Nat, UpTo(H, id, off, q, m)
      PROVE  UpTo(H, id, off, r, l)
  <2>1. m.id = id => q.off + Len(m.buf) <= off
      BY <1>2 DEF UpTo
  <2>2. q.id = id => q.off + 1 <= off /\ q.off + 1 + (Len(m.buf) - 1) <= off
      BY <1>1, <2>1
  <2>3. /\ r.saved.id = id => r.saved.off <= off
        /\ r.on /\ r.id2 = id => HeirUpTo(H[r.id], r.upto, off)
      BY <1>2 DEF UpTo
  <2>4. /\ r.id = id => r.off <= off
        /\ l.id = id => r.off + Len(l.buf) <= off
      BY <2>2
  <2> QED
      BY <2>3, <2>4 DEF UpTo
<1>3. ASSUME NEW id \in Nat \ {NoId}
      PROVE  /\ Apart(id, q, m) => Apart(id, r, l)
             /\ Unheard(id, q, m) => Unheard(id, r, l)
    BY DEF Apart, Unheard, Witness
<1> QED
    BY <1>2, <1>3 DEF Lesser

LEMMA CommandStep ==
    ASSUME NEW H, NEW w, WorldInv(H, w), NEW n \in PsServer, NEW q, q = w.s[n],
           NEW m, m = w.l[n], m.st = "online", m.buf # <<>>, NEW item, item = Head(m.buf),
           NEW v, v = FeedSlaves(With(w, n, Executes(q, item), LessOn(m)), n, <<item>>)
    PROVE  WorldInv(H, v)
<1>h. /\ WorldInv(H, w) /\ n \in PsServer /\ q = w.s[n] /\ m = w.l[n] /\ item = Head(m.buf)
    OBVIOUS
<1>1. /\ w \in World /\ H \in Histories /\ q \in Server /\ m \in Link /\ w.ids \in Nat
      /\ Shape(n, q, m) /\ Older(w.ids, q, m) /\ ServerAgrees(H, q)
      /\ LinkAgrees(H, q, m) /\ Linked(w.s, q, m)
    BY FitsParts
<1>2. /\ Online(m) /\ q.on /\ q.id = m.id /\ q.db # NoDatabase /\ ~IsMaster(q)
      /\ q.master # n /\ q.fail # "wait"
    BY <1>1 DEF Shape, Online
<1>3. PICK row : row = H[q.id]
    OBVIOUS
<1>4. /\ q.off \in Nat /\ q.id \in Nat /\ m.buf \in Seq(Item) /\ q.upto \in Int
      /\ row \in [Nat -> Point]
    BY ONLY <1>1, <1>3, ServerParts, LinkParts DEF Histories
<1>5. /\ At(row[q.off], q.data, q.db) /\ Run(row, q.off, m.buf)
      /\ Run(row, q.off - Len(q.log), q.log)
    BY ONLY <1>1, <1>2, <1>3 DEF LinkAgrees, ServerAgrees
<1>6. /\ Leads(row[q.off], item, row[q.off + 1]) /\ Run(row, q.off + 1, Tail(m.buf))
      /\ item \in Item
    BY <1>4, <1>5, RunHead
<1>7. PICK e : e = Executes(q, item)
    OBVIOUS
<1>8. /\ e \in Server /\ e.id = q.id /\ e.id2 = q.id2 /\ e.upto = q.upto /\ e.off = q.off
      /\ (e.on <=> q.on) /\ e.log = q.log /\ e.sel = q.sel /\ e.master = q.master
      /\ e.saved = q.saved /\ e.fail = q.fail /\ (e.force <=> q.force)
      /\ e.target = q.target /\ e.db # NoDatabase /\ At(row[q.off + 1], e.data, e.db)
    BY ONLY <1>1, <1>2, <1>5, <1>6, <1>7, ExecutesIs
<1>9. PICK l : l = LessOn(m)
    OBVIOUS
<1>10. /\ l \in Link /\ l.st = m.st /\ l.sl = m.sl /\ (l.open <=> m.open) /\ l.id = m.id
       /\ l.off = m.off /\ l.snap = m.snap /\ l.db = m.db /\ l.buf = Tail(m.buf)
       /\ Len(m.buf) \in Nat /\ Len(l.buf) = Len(m.buf) - 1 /\ Len(m.buf) > 0
    BY <1>1, <1>9, LessOnIs
<1>11. PICK items : items = <<item>>
    OBVIOUS
<1>12. items \in Seq(Item) /\ Len(items) = 1
    BY <1>6, <1>11
<1>13. PICK r : r = feedReplicationBacklog(e, items)
    OBVIOUS
<1>14. Run(row, q.off, items)
    BY ONLY <1>4, <1>6, <1>11, RunOne
<1>15. FedServer(r, e, items, row)
  <2>1. e.on /\ Len(e.log) <= e.off
      BY ONLY <1>1, <1>2, <1>8 DEF Shape
  <2>2. Run(row, e.off - Len(e.log), e.log) /\ Run(row, e.off, items)
      BY ONLY <1>5, <1>8, <1>14
  <2> QED
      BY ONLY <1>8, <1>12, <1>13, <2>1, <2>2, FedServerIs
<1>16. /\ r \in Server /\ r.off = q.off + 1 /\ r.on
       /\ r.data = e.data /\ r.id = q.id /\ r.id2 = q.id2 /\ r.upto = q.upto
       /\ r.sel = q.sel /\ r.master = q.master /\ r.db = e.db /\ r.saved = q.saved
       /\ r.fail = q.fail /\ (r.force <=> q.force) /\ r.target = q.target
       /\ Len(r.log) <= r.off /\ Run(row, r.off - Len(r.log), r.log)
    BY <1>8, <1>12, <1>15 DEF FedServer
<1>17. PICK b : b = With(w, n, e, l)
    OBVIOUS
<1>18. /\ b \in World /\ b.ids = w.ids /\ b.s[n] = e /\ b.l[n] = l
       /\ \A k \in PsServer \ {n} : b.s[k] = w.s[k] /\ b.l[k] = w.l[k]
    BY <1>1, <1>8, <1>10, <1>17, WithIs
<1>19. v = FeedSlaves(b, n, items)
    BY <1>7, <1>9, <1>11, <1>17
<1>20. /\ v \in World /\ v.ids = b.ids /\ v.s[n] = r /\ v.l[n] = b.l[n]
       /\ \A k \in PsServer \ {n} :
           /\ v.s[k] = b.s[k]
           /\ v.l[k] = IF k \in Fed(b, n) THEN MoreOn(b.l[k], items) ELSE b.l[k]
  <2>1. b.s[n].on /\ b.s[n].master # n /\ r = feedReplicationBacklog(b.s[n], items)
      BY <1>2, <1>8, <1>13, <1>18
  <2> QED
      BY ONLY <1>12, <1>16, <1>18, <1>19, <2>1, FeedSlavesIs
<1>21. ASSUME NEW k \in PsServer \ {n} PROVE k \in Fed(b, n) <=> k \in Fed(w, n)
    BY <1>18 DEF Fed, Slaves
<1>22. /\ v.ids = w.ids /\ v.s[n] = r /\ v.l[n] = l
       /\ \A k \in PsServer \ {n} :
           /\ v.s[k] = w.s[k]
           /\ v.l[k] = IF k \in Fed(w, n) THEN MoreOn(w.l[k], items) ELSE w.l[k]
    BY ONLY <1>18, <1>20, <1>21
<1>23. Feeding(w, v, n, items)
    BY ONLY <1>h, <1>1, <1>2, <1>12, <1>16, <1>22 DEF Feeding
<1>24. Online(l) /\ ~Serving(l) /\ l.sl # "start" /\ ~IsMaster(r)
    BY <1>2, <1>10, <1>16 DEF Online, Serving, IsMaster
<1>25. Shape(n, r, l)
  <2>1. r.upto <= r.off + 1
    <3>1. q.upto <= q.off + 1
        BY ONLY <1>1 DEF Shape
    <3> QED
        BY ONLY <1>4, <1>16, <3>1
  <2> QED
      BY ONLY <1>1, <1>2, <1>8, <1>10, <1>16, <1>24, <2>1 DEF Shape
<1>26. Older(w.ids, r, l)
    BY ONLY <1>1, <1>10, <1>16 DEF Older
<1>27. ServerAgrees(H, r)
  <2>1. At(row[r.off], r.data, r.db)
      BY ONLY <1>8, <1>16
  <2>2. r.id2 # NoId => Agree(H[r.id2], H[r.id], r.upto)
      BY ONLY <1>1, <1>2, <1>16 DEF ServerAgrees
  <2>3. r.saved.id # NoId => At(H[r.saved.id][r.saved.off], r.saved.data, r.saved.db)
      BY <1>1, <1>16 DEF ServerAgrees
  <2> QED
      BY ONLY <1>3, <1>16, <1>24, <2>1, <2>2, <2>3 DEF ServerAgrees
<1>28. LinkAgrees(H, r, l)
  <2>1. H[l.id] = row /\ l.id = r.id
      BY <1>2, <1>3, <1>10, <1>16
  <2>2. At(row[r.off], r.data, r.db)
      BY <1>8, <1>16
  <2>3. Run(row, r.off, l.buf)
      BY ONLY <1>6, <1>10, <1>16
  <2> QED
      BY ONLY <1>24, <2>1, <2>2, <2>3 DEF LinkAgrees
<1>29. Linked(v.s, r, l)
  <2>1. Behind(r, l) = Behind(q, m) /\ (Followed(l) <=> Followed(m))
    <3>1. q.off + 1 + (Len(m.buf) - 1) = q.off + Len(m.buf)
      <4>1. q.off \in Int /\ Len(m.buf) \in Int
          BY <1>4, <1>10
      <4> QED
          BY ONLY <4>1
    <3> QED
        BY <1>2, <1>10, <1>16, <1>24, <3>1 DEF Behind, Followed
  <2>2. q.master \in PsServer => v.s[q.master] = w.s[q.master]
      BY ONLY <1>2, <1>22
  <2> QED
      BY ONLY <1>1, <1>10, <1>16, <2>1, <2>2 DEF Linked
<1>30. PICK d : d = disconnectSlaves(w, n)
    OBVIOUS
<1>31. WorldInv(H, d) /\ d.s[n] = q /\ d.l[n] = m
    BY <1>1, <1>2, <1>30, DisconnectStep, Disconnected
<1>32. Kept(H, d, n)
    BY <1>31, KeptSame
<1>33. Respects(H, d, n, r, l)
  <2>1. Lesser(r, l, q, m)
      BY <1>1, <1>2, <1>10, <1>16, <1>24, ExecutedLesser
  <2> QED
      BY <1>24, <1>31, <2>1, LesserRespects
<1>34. Run(H[w.s[n].id], w.s[n].off, items)
    BY <1>3, <1>14
<1> QED
    BY ONLY <1>h, <1>1, <1>12, <1>20, <1>22, <1>23, <1>24, <1>25, <1>26, <1>27, <1>28, <1>29, <1>30, <1>32,
       <1>33, <1>34, FeedStep

LEMMA CommandProcessedStep ==
    ASSUME NEW n \in PsServer, PsInv, commandProcessed(n)
    PROVE  PsInv'
<1>0. PICK H \in Histories : WorldInv(H, PsWorld)
    BY Now
<1>w. PICK w : w = PsWorld
    OBVIOUS
<1>1. PICK q : q = w.s[n]
    OBVIOUS
<1>2. PICK m : m = w.l[n]
    OBVIOUS
<1>3. /\ w \in World /\ WorldInv(H, w) /\ w.s = psS /\ w.l = psL /\ w.ids = psIds
    BY <1>0, <1>w, NowParts DEF WorldInv
<1>4. PICK item : item = Head(m.buf)
    OBVIOUS
<1>5. m.st = "online" /\ m.buf # <<>> /\ psWrites' \in Nat
    BY <1>2, <1>3 DEF commandProcessed, PsInv
<1>6. PICK s \in [PsServer -> Server], l \in [PsServer -> Link], ids \in Nat :
            w = [s |-> s, l |-> l, ids |-> ids]
    BY <1>3 DEF World
<1>7. q = s[n] /\ m = l[n]
    BY <1>1, <1>2, <1>6
<1>8. PICK k : k = LessOn(m)
    OBVIOUS
<1>9. PICK a : a = [w EXCEPT !.l[n].buf = Tail(w.l[n].buf)]
    OBVIOUS
<1>10. a = [s |-> s, l |-> [l EXCEPT ![n] = k], ids |-> ids]
    BY <1>6, <1>7, <1>8, <1>9 DEF LessOn
<1>11. a.s[n] = q
    BY <1>7, <1>10
<1>12. PICK e : e = Executes(q, item)
    OBVIOUS
<1>13. PICK b : b = CASE item[1] = "select" -> [a EXCEPT !.s[n].db = item[2]]
               [] item[1] = "write" ->
                    [a EXCEPT !.s[n].data = Append(a.s[n].data, <<item[2], a.s[n].db>>)]
               [] OTHER -> a
    OBVIOUS
<1>14. PICK c : c = With(w, n, e, k)
    OBVIOUS
<1>15. c = [s |-> [s EXCEPT ![n] = e], l |-> [l EXCEPT ![n] = k], ids |-> ids]
    BY <1>6, <1>14 DEF With
<1>16. b = c
  <2>1. CASE item[1] = "select"
    <3>1. b = [a EXCEPT !.s[n].db = item[2]]
        BY <1>13, <2>1
    <3>2. e = [q EXCEPT !.db = item[2]]
        BY <1>12, <2>1 DEF Executes
    <3>3. b = [s |-> [s EXCEPT ![n] = e], l |-> [l EXCEPT ![n] = k], ids |-> ids]
        BY <1>7, <1>10, <3>1, <3>2
    <3> QED
        BY <1>15, <3>3
  <2>2. CASE item[1] = "write"
    <3>1. b = [a EXCEPT !.s[n].data = Append(q.data, <<item[2], q.db>>)]
        BY <1>11, <1>13, <2>2
    <3>2. e = [q EXCEPT !.data = Append(q.data, <<item[2], q.db>>)]
        BY <1>12, <2>2 DEF Executes
    <3>3. PICK data : data = Append(q.data, <<item[2], q.db>>)
        OBVIOUS
    <3>4. b = [a EXCEPT !.s[n].data = data] /\ e = [q EXCEPT !.data = data]
        BY <3>1, <3>2, <3>3
    <3>5. b = [s |-> [s EXCEPT ![n] = e], l |-> [l EXCEPT ![n] = k], ids |-> ids]
        BY <1>7, <1>10, <3>4
    <3> QED
        BY <1>15, <3>5
  <2>3. CASE item[1] \notin {"select", "write"}
    <3>1. b = a /\ e = q
        BY <1>12, <1>13, <2>3 DEF Executes
    <3>2. [s EXCEPT ![n] = q] = s
        BY <1>7
    <3> QED
        BY <1>10, <1>15, <3>1, <3>2
  <2> QED
      BY <2>1, <2>2, <2>3
<1>17. PICK v : v = FeedSlaves(With(w, n, Executes(q, item), LessOn(m)), n, <<item>>)
    OBVIOUS
<1>18. v = FeedSlaves(b, n, <<item>>)
    BY <1>8, <1>12, <1>14, <1>16, <1>17
<1>19. [PsWorld EXCEPT !.l[n].buf = Tail(@)] = a
    BY <1>w, <1>9
<1>20. PsBecomes(v)
    BY <1>2, <1>3, <1>4, <1>13, <1>18, <1>19, Zenon DEF commandProcessed
<1>21. WorldInv(H, v)
    BY <1>1, <1>2, <1>3, <1>4, <1>5, <1>17, CommandStep
<1> QED
    BY <1>0, <1>5, <1>20, <1>21, MakesWorld

-----------------------------------------------------------------------------
(* The beginning.                                                            *)

FirstMaster(id, b) == [Server0(NoServer, id) EXCEPT !.on = b]
FirstReplica(m, own, id) ==
    [Server0(m, own) EXCEPT !.id = id, !.on = TRUE, !.db = 0, !.saved.id = id,
                            !.saved.off = 0, !.saved.db = 0]
FirstLink(id) == [Link0("online") EXCEPT !.sl = "online", !.id = id]

LEMMA FirstMasterIs ==
    ASSUME NEW id \in Nat \ {NoId}, NEW b \in BOOLEAN, NEW r, r = FirstMaster(id, b)
    PROVE  /\ r \in Server /\ r.data = <<>> /\ r.id = id /\ r.id2 = NoId /\ r.upto = -1
           /\ r.off = 0 /\ (r.on <=> b) /\ r.log = <<>> /\ r.sel = NoDatabase
           /\ r.master = NoServer /\ r.db = NoDatabase /\ r.fail = "none"
           /\ r.target = NoServer /\ r.saved.id = NoId
<1>1. <<>> \in Seq(Item) /\ <<>> \in Data
    BY DEF Data
<1>2. PICK e \in Seq(Item) : e = <<>>
    BY <1>1
<1>3. PICK z \in Data : z = <<>>
    BY <1>1
<1>4. PICK d \in Int : d = NoDatabase
    BY PsNumbers
<1>5. PICK i2 \in Nat : i2 = NoId
    BY PsNumbers
<1>6. PICK u \in Int : u = -1
    OBVIOUS
<1>7. PICK o \in Nat : o = 0
    OBVIOUS
<1>8. PICK g : g = [data |-> z, id |-> i2, off |-> u, db |-> d]
    OBVIOUS
<1>9. g \in Saved /\ g.id = i2
    BY <1>8 DEF Saved
<1>10. PICK m \in PsServer \cup {NoServer} : m = NoServer
    OBVIOUS
<1>11. PICK f \in BOOLEAN : f = FALSE
    OBVIOUS
<1>12. r = [data |-> z, id |-> id, id2 |-> i2, upto |-> u, off |-> o,
            on |-> b, log |-> e, sel |-> d, master |-> m,
            db |-> d, fail |-> "none", force |-> f, target |-> m, saved |-> g]
    BY <1>2, <1>3, <1>4, <1>5, <1>6, <1>7, <1>8, <1>10, <1>11 DEF Server0, FirstMaster
<1>13. r \in Server
    BY <1>9, <1>12 DEF Server, NoId
<1>14. /\ r.data = z /\ r.id = id /\ r.id2 = i2 /\ r.upto = u
       /\ r.off = o /\ (r.on <=> b) /\ r.log = e /\ r.sel = d
       /\ r.master = m /\ r.db = d /\ r.fail = "none"
       /\ r.target = m /\ r.saved = g
    BY <1>12
<1> QED
    BY <1>2, <1>3, <1>4, <1>5, <1>6, <1>7, <1>9, <1>10, <1>13, <1>14

LEMMA FirstReplicaIs ==
    ASSUME NEW own \in Nat \ {NoId}, NEW id \in Nat \ {NoId}, NEW m \in PsServer, NEW r,
           r = FirstReplica(m, own, id)
    PROVE  /\ r \in Server /\ r.data = <<>> /\ r.id = id /\ r.id2 = NoId /\ r.upto = -1
           /\ r.off = 0 /\ r.on /\ r.log = <<>> /\ r.sel = NoDatabase
           /\ r.master = m /\ r.db = 0 /\ r.fail = "none"
           /\ r.target = NoServer /\ r.saved.id = id /\ r.saved.off = 0 /\ r.saved.db = 0
           /\ r.saved.data = <<>>
<1>1. <<>> \in Seq(Item) /\ <<>> \in Data
    BY DEF Data
<1>2. PICK e \in Seq(Item) : e = <<>>
    BY <1>1
<1>3. PICK z \in Data : z = <<>>
    BY <1>1
<1>4. PICK d \in Int : d = NoDatabase
    BY PsNumbers
<1>5. PICK i2 \in Nat : i2 = NoId
    BY PsNumbers
<1>6. PICK u \in Int : u = -1
    OBVIOUS
<1>7. PICK o \in Nat : o = 0
    OBVIOUS
<1>8. PICK g : g = [data |-> z, id |-> id, off |-> o, db |-> o]
    OBVIOUS
<1>9. g \in Saved /\ g.id = id /\ g.off = o /\ g.db = o /\ g.data = z
    BY <1>8 DEF Saved
<1>10. PICK t \in PsServer \cup {NoServer} : t = NoServer
    OBVIOUS
<1>11. PICK f \in BOOLEAN : f = FALSE
    OBVIOUS
<1>b. PICK b \in BOOLEAN : b = TRUE
    OBVIOUS
<1>s. PICK s : s = Server0(m, own)
    OBVIOUS
<1>t. s = [data |-> z, id |-> own, id2 |-> i2, upto |-> u, off |-> o,
           on |-> f, log |-> e, sel |-> d, master |-> m,
           db |-> d, fail |-> "none", force |-> f, target |-> t,
           saved |-> [data |-> z, id |-> i2, off |-> u, db |-> d]]
    BY <1>2, <1>3, <1>4, <1>5, <1>6, <1>7, <1>10, <1>11, <1>s DEF Server0
<1>u. r = [s EXCEPT !.id = id, !.on = b, !.db = o, !.saved.id = id, !.saved.off = o, !.saved.db = o]
    BY <1>7, <1>b, <1>s DEF FirstReplica
<1>12. r = [data |-> z, id |-> id, id2 |-> i2, upto |-> u, off |-> o,
            on |-> b, log |-> e, sel |-> d, master |-> m,
            db |-> o, fail |-> "none", force |-> f, target |-> t, saved |-> g]
  <2>1. PICK r1 : r1 = [s EXCEPT !.id = id, !.on = b, !.db = o]
      OBVIOUS
  <2>2. r1 = [data |-> z, id |-> id, id2 |-> i2, upto |-> u, off |-> o,
              on |-> b, log |-> e, sel |-> d, master |-> m,
              db |-> o, fail |-> "none", force |-> f, target |-> t,
              saved |-> [data |-> z, id |-> i2, off |-> u, db |-> d]]
      BY <1>t, <2>1
  <2>3. PICK r2 : r2 = [r1 EXCEPT !.saved.id = id]
      OBVIOUS
  <2>4. r2 = [data |-> z, id |-> id, id2 |-> i2, upto |-> u, off |-> o,
              on |-> b, log |-> e, sel |-> d, master |-> m,
              db |-> o, fail |-> "none", force |-> f, target |-> t,
              saved |-> [data |-> z, id |-> id, off |-> u, db |-> d]]
      BY <2>2, <2>3
  <2>5. PICK r3 : r3 = [r2 EXCEPT !.saved.off = o]
      OBVIOUS
  <2>6. r3 = [data |-> z, id |-> id, id2 |-> i2, upto |-> u, off |-> o,
              on |-> b, log |-> e, sel |-> d, master |-> m,
              db |-> o, fail |-> "none", force |-> f, target |-> t,
              saved |-> [data |-> z, id |-> id, off |-> o, db |-> d]]
      BY <2>4, <2>5
  <2>7. r = [r3 EXCEPT !.saved.db = o]
      BY <1>u, <2>1, <2>3, <2>5
  <2> QED
      BY <1>8, <2>6, <2>7
<1>13. r \in Server
    BY <1>9, <1>12 DEF Server, NoId
<1>14. /\ r.data = z /\ r.id = id /\ r.id2 = i2 /\ r.upto = u
       /\ r.off = o /\ (r.on <=> b) /\ r.log = e /\ r.sel = d
       /\ r.master = m /\ r.db = o /\ r.fail = "none"
       /\ r.target = t /\ r.saved = g
    BY <1>12
<1> QED
    BY <1>2, <1>3, <1>4, <1>5, <1>6, <1>7, <1>b, <1>9, <1>10, <1>13, <1>14

LEMMA FirstLinkIs ==
    ASSUME NEW id \in Nat \ {NoId}, NEW l, l = FirstLink(id)
    PROVE  /\ l \in Link /\ l.st = "online" /\ l.sl = "online" /\ l.open = TRUE /\ l.id = id
           /\ l.buf = <<>>
<1>1. <<>> \in Seq(Item) /\ <<>> \in Data
    BY DEF Data
<1>2. PICK e \in Seq(Item) : e = <<>>
    BY <1>1
<1>3. PICK z \in Data : z = <<>>
    BY <1>1
<1>4. PICK d \in Int : d = NoDatabase
    BY PsNumbers
<1>5. PICK o \in Nat : o = 0
    OBVIOUS
<1>6. PICK b \in BOOLEAN : b = TRUE
    OBVIOUS
<1>7. l = [st |-> "online", sl |-> "online", open |-> b, id |-> id, off |-> o,
           snap |-> z, db |-> d, buf |-> e, ack |-> o]
    BY <1>2, <1>3, <1>4, <1>5, <1>6 DEF FirstLink, Link0
<1>8. l \in Link
    BY <1>7 DEF Link
<1> QED
    BY <1>2, <1>6, <1>7, <1>8

\* The server whose ID the server n has.
Owner(top, n) == IF top[n] = NoServer THEN n ELSE Root(top, n)

LEMMA OwnerIs ==
    ASSUME NEW top \in Topologies, NEW n \in PsServer
    PROVE  /\ top[n] \in PsServer \cup {NoServer} /\ top[n] # n
           /\ Owner(top, n) \in PsServer /\ top[Owner(top, n)] = NoServer
           /\ top[n] # NoServer => /\ Owner(top, n) = Owner(top, top[n])
                                   /\ \E k \in PsServer : top[k] = Owner(top, n)
<1>1. /\ top \in [PsServer -> PsServer \cup {NoServer}] /\ NoServer \notin PsServer
      /\ \A k \in PsServer :
          /\ top[k] # k
          /\ top[k] # NoServer /\ top[top[k]] # NoServer => top[top[top[k]]] = NoServer
    BY PsAssumption DEF InitialChainsEnd
<1>2. CASE top[n] = NoServer
    BY <1>1, <1>2 DEF Owner
<1>3. CASE top[n] # NoServer /\ top[top[n]] = NoServer
    BY <1>1, <1>3 DEF Owner, Root
<1>4. CASE top[n] # NoServer /\ top[top[n]] # NoServer
    BY <1>1, <1>4 DEF Owner, Root
<1> QED
    BY <1>2, <1>3, <1>4

LEMMA IdsAre ==
    ASSUME NEW id \in FirstIds, NEW n \in PsServer
    PROVE  /\ id[n] \in Nat \ {NoId} /\ id[n] < Cardinality(PsServer) + 1
           /\ \A k \in PsServer : id[k] = id[n] => k = n
           /\ Cardinality(PsServer) \in Nat
<1>1. Cardinality(PsServer) \in Nat
    BY PsNumbers, FS_CardinalityType
<1>2. id \in [PsServer -> 1 .. Cardinality(PsServer)] /\ IsInjective(id)
    BY PsAssumption DEF Injection
<1>3. id[n] \in 1 .. Cardinality(PsServer)
    BY <1>2
<1>4. \A k \in PsServer : id[k] = id[n] => k = n
    BY <1>2 DEF IsInjective
<1> QED
    BY <1>1, <1>3, <1>4, PsNumbers

\* The server n and its link at the beginning.
Begun(top, id, n, r, l) ==
    /\ r \in Server /\ l \in Link /\ r.data = <<>> /\ r.off = 0 /\ r.log = <<>> /\ r.upto = -1
    /\ r.id2 = NoId /\ r.sel = NoDatabase /\ r.fail = "none" /\ r.master = top[n]
    /\ r.id = id[Owner(top, n)]
    /\ top[n] = NoServer => /\ r.on <=> \E k \in PsServer : top[k] = n
                            /\ r.db = NoDatabase /\ r.saved.id = NoId
                            /\ l.sl = "none" /\ l.st = "none" /\ l.id = NoId
    /\ top[n] # NoServer => /\ r.on /\ r.db = 0 /\ r.saved.id = r.id /\ r.saved.off = 0
                            /\ r.saved.db = 0 /\ r.saved.data = <<>>
                            /\ l.sl = "online" /\ l.st = "online" /\ l.id = r.id
                            /\ l.buf = <<>>

LEMMA InitBegins ==
    ASSUME PsInit
    PROVE  \E top \in Topologies : \E id \in FirstIds :
                /\ psS = [n \in PsServer |-> psS[n]] /\ psL = [n \in PsServer |-> psL[n]]
                /\ psIds = Cardinality(PsServer) + 1 /\ psWrites = 0
                /\ \A n \in PsServer : Begun(top, id, n, psS[n], psL[n])
<1>1. PICK top \in Topologies, id \in FirstIds :
        /\ psS = [n \in PsServer |->
                    LET r == Server0(top[n], id[n])
                    IN  IF top[n] = NoServer
                        THEN [r EXCEPT !.on = \E k \in PsServer : top[k] = n]
                        ELSE [r EXCEPT !.id = id[Root(top, n)], !.on = TRUE,
                                !.db = 0, !.saved.id = id[Root(top, n)],
                                !.saved.off = 0, !.saved.db = 0]]
        /\ psL = [n \in PsServer |->
                    IF top[n] = NoServer THEN Link0("none")
                    ELSE [Link0("online") EXCEPT !.sl = "online",
                                                 !.id = id[Root(top, n)]]]
    BY Zenon DEF PsInit
<1>2. psIds = Cardinality(PsServer) + 1 /\ psWrites = 0
    BY DEF PsInit
<1>3. ASSUME NEW n \in PsServer PROVE Begun(top, id, n, psS[n], psL[n])
  <2>1. /\ top[n] \in PsServer \cup {NoServer} /\ Owner(top, n) \in PsServer
        /\ \A k \in PsServer : id[k] \in Nat \ {NoId}
      BY OwnerIs, IdsAre
  <2>2. CASE top[n] = NoServer
    <3>1. PICK b \in BOOLEAN : b = \E k \in PsServer : top[k] = n
        OBVIOUS
    <3>2. psS[n] = FirstMaster(id[n], b)
        BY <1>1, <2>2, <3>1 DEF FirstMaster
    <3>3. PICK r : r = FirstMaster(id[n], b)
        OBVIOUS
    <3>4. PICK i \in Nat \ {NoId} : i = id[n]
        BY <2>1
    <3>5. /\ r \in Server /\ r.data = <<>> /\ r.id = i /\ r.id2 = NoId /\ r.upto = -1
          /\ r.off = 0 /\ (r.on <=> b) /\ r.log = <<>> /\ r.sel = NoDatabase
          /\ r.master = NoServer /\ r.db = NoDatabase /\ r.fail = "none"
          /\ r.target = NoServer /\ r.saved.id = NoId
        BY <3>3, <3>4, FirstMasterIs
    <3>6. PICK st \in {"none", "connect", "psync"} : st = "none"
        OBVIOUS
    <3>7. PICK l : l = Link0(st)
        OBVIOUS
    <3>8. /\ l \in Link /\ l.sl = "none" /\ l.st = "none" /\ l.id = NoId
        BY <3>6, <3>7, LinkZero DEF Silent
    <3>9. psL[n] = l
        BY <1>1, <2>2, <3>6, <3>7
    <3>10. Owner(top, n) = n
        BY <2>2 DEF Owner
    <3>11. Begun(top, id, n, r, l)
        BY <2>2, <3>1, <3>4, <3>5, <3>8, <3>10 DEF Begun
    <3> QED
        BY <3>2, <3>3, <3>9, <3>11
  <2>3. CASE top[n] # NoServer
    <3>1. Owner(top, n) = Root(top, n)
        BY <2>3 DEF Owner
    <3>2. PICK i \in Nat \ {NoId} : i = id[Root(top, n)]
        BY <2>1, <3>1
    <3>3. PICK own \in Nat \ {NoId} : own = id[n]
        BY <2>1
    <3>4. PICK m \in PsServer : m = top[n]
        BY <2>1, <2>3
    <3>5. PICK r : r = FirstReplica(m, own, i)
        OBVIOUS
    <3>6. psS[n] = r
        BY <1>1, <2>3, <3>2, <3>3, <3>4, <3>5 DEF FirstReplica
    <3>7. PICK l : l = FirstLink(i)
        OBVIOUS
    <3>8. psL[n] = l
        BY <1>1, <2>3, <3>2, <3>7 DEF FirstLink
    <3>9. /\ r \in Server /\ r.data = <<>> /\ r.id = i /\ r.id2 = NoId /\ r.upto = -1
          /\ r.off = 0 /\ r.on /\ r.log = <<>> /\ r.sel = NoDatabase
          /\ r.master = m /\ r.db = 0 /\ r.fail = "none"
          /\ r.target = NoServer /\ r.saved.id = i /\ r.saved.off = 0 /\ r.saved.db = 0
          /\ r.saved.data = <<>>
        BY <3>5, FirstReplicaIs
    <3>10. /\ l \in Link /\ l.st = "online" /\ l.sl = "online" /\ l.open = TRUE /\ l.id = i
           /\ l.buf = <<>>
        BY <3>7, FirstLinkIs
    <3>11. Begun(top, id, n, r, l)
        BY <2>3, <3>1, <3>2, <3>4, <3>9, <3>10 DEF Begun
    <3> QED
        BY <3>6, <3>8, <3>11
  <2> QED
      BY <2>2, <2>3
<1>4. psS = [n \in PsServer |-> psS[n]] /\ psL = [n \in PsServer |-> psL[n]]
    BY <1>1
<1> QED
    BY ONLY <1>2, <1>3, <1>4

\* Nothing has been written: every offset of every history is a SELECT away.
Blank == [i \in Nat |-> [o \in Nat |-> [data |-> <<>>, db |-> NoDatabase]]]

LEMMA BlankIs ==
    /\ Blank \in Histories
    /\ \A i \in Nat : \A o \in Nat : Blank[i][o].data = <<>> /\ Blank[i][o].db = NoDatabase
    /\ \A i \in Nat : \A db : At(Blank[i][0], <<>>, db)
    /\ \A row : \A off : Run(row, off, <<>>)
<1>1. <<>> \in Data
    BY DEF Data
<1>2. [data |-> <<>>, db |-> NoDatabase] \in Point
    BY <1>1, PsNumbers DEF Point
<1>3. Blank \in Histories
    BY <1>2 DEF Blank, Histories
<1>4. \A i \in Nat : \A o \in Nat : Blank[i][o].data = <<>> /\ Blank[i][o].db = NoDatabase
    BY DEF Blank
<1>5. \A i \in Nat : \A db : At(Blank[i][0], <<>>, db)
    BY <1>4 DEF At
<1>6. Len(<<>>) = 0 /\ 1 .. 0 = {}
    OBVIOUS
<1>7. \A row : \A off : Run(row, off, <<>>)
    BY <1>6 DEF Run
<1> QED
    BY <1>3, <1>4, <1>5, <1>7

LEMMA BegunFits ==
    ASSUME NEW top \in Topologies, NEW id \in FirstIds, NEW w \in World,
           w.ids = Cardinality(PsServer) + 1,
           \A k \in PsServer : Begun(top, id, k, w.s[k], w.l[k]),
           NEW n \in PsServer
    PROVE  Fits(Blank, w, n)
<1> DEFINE r == w.s[n]
           l == w.l[n]
<1>1. ASSUME NEW k \in PsServer
      PROVE  /\ w.s[k] \in Server /\ w.l[k] \in Link /\ w.s[k].off = 0 /\ w.s[k].data = <<>>
             /\ w.s[k].log = <<>> /\ w.s[k].upto = -1 /\ w.s[k].id2 = NoId
             /\ w.s[k].sel = NoDatabase /\ w.s[k].fail = "none" /\ w.s[k].master = top[k]
             /\ w.s[k].id = id[Owner(top, k)]
    BY <1>1 DEF Begun
<1>2. ASSUME NEW k \in PsServer, top[k] = NoServer
      PROVE  /\ w.s[k].on <=> \E j \in PsServer : top[j] = k
             /\ w.s[k].db = NoDatabase /\ w.s[k].saved.id = NoId
             /\ w.l[k].sl = "none" /\ w.l[k].st = "none" /\ w.l[k].id = NoId
             /\ Owner(top, k) = k /\ IsMaster(w.s[k])
  <2>1. Begun(top, id, k, w.s[k], w.l[k]) /\ Owner(top, k) = k
      BY <1>2 DEF Owner
  <2> QED
      BY <1>2, <2>1 DEF Begun, IsMaster
<1>3. ASSUME NEW k \in PsServer, top[k] # NoServer
      PROVE  /\ w.s[k].on /\ w.s[k].db = 0 /\ w.s[k].saved.id = w.s[k].id
             /\ w.s[k].saved.off = 0 /\ w.s[k].saved.db = 0 /\ w.s[k].saved.data = <<>>
             /\ w.l[k].sl = "online" /\ w.l[k].st = "online" /\ w.l[k].id = w.s[k].id
             /\ w.l[k].buf = <<>> /\ ~IsMaster(w.s[k])
  <2>1. Begun(top, id, k, w.s[k], w.l[k])
      OBVIOUS
  <2> QED
      BY <1>3, <2>1 DEF Begun, IsMaster
<1>4. ASSUME NEW k \in PsServer
      PROVE  /\ top[k] \in PsServer \cup {NoServer} /\ top[k] # k
             /\ Owner(top, k) \in PsServer /\ top[Owner(top, k)] = NoServer
             /\ top[k] # NoServer => /\ Owner(top, k) = Owner(top, top[k])
                                     /\ \E j \in PsServer : top[j] = Owner(top, k)
    BY OwnerIs
<1>5. ASSUME NEW k \in PsServer
      PROVE  w.s[k].id \in Nat \ {NoId} /\ w.s[k].id < w.ids
    BY <1>1, <1>4, IdsAre
<1>6. Len(<<>>) = 0 /\ NoDatabase # 0 /\ w.ids \in Nat /\ NoId = 0 /\ NoId < w.ids
    BY <1>5, PsNumbers, WorldParts
<1>7. Shape(n, r, l)
  <2>1. CASE top[n] = NoServer
      BY <1>1, <1>2, <1>4, <1>6, <2>1 DEF Shape, Online, Serving
  <2>2. CASE top[n] # NoServer
      BY <1>1, <1>3, <1>4, <1>5, <1>6, <2>2 DEF Shape, Online, Serving
  <2> QED
      BY <2>1, <2>2
<1>8. Older(w.ids, r, l)
  <2>1. r.saved.id \in {NoId, r.id} /\ l.id \in {NoId, r.id}
      BY ONLY <1>2, <1>3
  <2> QED
      BY <1>1, <1>5, <1>6, <2>1 DEF Older
<1>9. ServerAgrees(Blank, r)
  <2>1. r.id \in Nat /\ r.off = 0 /\ r.data = <<>> /\ r.log = <<>> /\ r.id2 = NoId
      BY <1>1, <1>5
  <2>2. At(Blank[r.id][r.off], r.data, IF IsMaster(r) THEN r.sel ELSE r.db)
      BY <2>1, BlankIs
  <2>3. Run(Blank[r.id], r.off - Len(r.log), r.log)
      BY <2>1, BlankIs
  <2>4. r.saved.id # NoId => At(Blank[r.saved.id][r.saved.off], r.saved.data, r.saved.db)
    <3>1. CASE top[n] = NoServer
        BY <1>2, <3>1
    <3>2. CASE top[n] # NoServer
      <4>1. r.saved.id = r.id /\ r.saved.off = 0 /\ r.saved.data = <<>>
          BY <1>3, <3>2
      <4> QED
          BY <2>1, <4>1, BlankIs
    <3> QED
        BY <3>1, <3>2
  <2> QED
      BY <2>1, <2>2, <2>3, <2>4 DEF ServerAgrees
<1>10. LinkAgrees(Blank, r, l)
  <2>1. CASE top[n] = NoServer
      BY ONLY <1>2, <2>1 DEF LinkAgrees, Serving, Online
  <2>2. CASE top[n] # NoServer
    <3>1. ~Serving(l) /\ l.id = r.id /\ l.buf = <<>>
        BY <1>3, <2>2 DEF Serving
    <3>2. r.id \in Nat /\ r.off = 0 /\ r.data = <<>>
        BY <1>1, <1>5
    <3>3. At(Blank[l.id][r.off], r.data, r.db)
        BY <3>1, <3>2, BlankIs
    <3>4. Run(Blank[l.id], r.off, l.buf)
        BY <3>1, <3>2, BlankIs
    <3> QED
        BY <3>1, <3>3, <3>4 DEF LinkAgrees
  <2> QED
      BY <2>1, <2>2
<1>11. Linked(w.s, r, l)
  <2>1. CASE top[n] = NoServer
      BY ONLY <1>2, <2>1 DEF Linked, Followed
  <2>2. CASE top[n] # NoServer
    <3>1. PICK m \in PsServer : m = top[n]
        BY <1>4, <2>2
    <3>2. w.s[m].on
        BY <1>2, <1>3, <3>1
    <3>3. l.id = w.s[m].id
        BY <1>1, <1>3, <1>4, <2>2, <3>1
    <3>4. Behind(r, l) = w.s[m].off
      <4>1. r.off = 0 /\ w.s[m].off = 0
          BY <1>1
      <4>2. Len(l.buf) = 0 /\ Online(l) /\ ~Serving(l)
          BY <1>3, <1>6, <2>2 DEF Online, Serving
      <4> QED
          BY ONLY <4>1, <4>2 DEF Behind
    <3> QED
        BY <1>1, <3>1, <3>2, <3>3, <3>4 DEF Linked
  <2> QED
      BY <2>1, <2>2
<1>12. ~Hidden(r)
    BY ONLY <1>1 DEF Hidden
<1>13. ASSUME IsMaster(r) PROVE Owns(Blank, w, n)
  <2>0. top[n] = NoServer /\ Owner(top, n) = n /\ r.id = id[n]
      BY <1>1, <1>2, <1>13 DEF IsMaster
  <2>1. r.on => Blank[r.id][r.off].db = r.sel
    <3>1. r.id \in Nat /\ r.off = 0 /\ r.sel = NoDatabase
        BY <1>1, <1>5
    <3> QED
        BY <3>1, BlankIs
  <2>2. ASSUME NEW k \in PsServer, w.s[k].id = r.id PROVE Owner(top, k) = n
      BY <1>1, <1>4, <2>0, <2>2, IdsAre
  <2>3. ASSUME NEW k \in PsServer \ {n}, IsMaster(w.s[k]) PROVE w.s[k].id # r.id
    <3>1. top[k] = NoServer
        BY <1>1, <2>3 DEF IsMaster
    <3> QED
        BY <1>2, <2>2, <3>1
  <2>4. ASSUME NEW k \in PsServer, r.on PROVE UpTo(Blank, r.id, r.off, w.s[k], w.l[k])
    <3>1. w.s[k].off = 0 /\ r.off = 0 /\ w.s[k].id2 # r.id
        BY <1>1, <1>5
    <3>2. CASE top[k] = NoServer
      <4>1. w.s[k].saved.id # r.id /\ ~Serving(w.l[k]) /\ ~Online(w.l[k])
          BY <1>2, <1>5, <3>2 DEF Serving, Online
      <4> QED
          BY <3>1, <4>1 DEF UpTo
    <3>3. CASE top[k] # NoServer
      <4>1. /\ w.s[k].saved.off = 0 /\ ~Serving(w.l[k]) /\ w.l[k].buf = <<>>
            /\ w.l[k].id = w.s[k].id
          BY <1>3, <3>3 DEF Serving
      <4> QED
          BY <1>6, <3>1, <4>1 DEF UpTo
    <3> QED
        BY <3>2, <3>3
  <2>5. ASSUME NEW k \in PsServer, ~r.on PROVE Apart(r.id, w.s[k], w.l[k])
    <3>1. w.s[k].id2 # r.id
        BY <1>1, <1>5
    <3>2. CASE top[k] = NoServer
      <4>1. w.s[k].saved.id # r.id /\ ~Serving(w.l[k]) /\ ~Online(w.l[k])
            /\ w.s[k].db = NoDatabase
          BY <1>2, <1>5, <3>2 DEF Serving, Online
      <4>2. w.s[k].on => w.s[k].id # r.id
        <5>1. ASSUME w.s[k].id = r.id PROVE ~w.s[k].on
          <6>1. k = n
              BY <1>2, <2>2, <3>2, <5>1
          <6> QED
              BY <2>5, <6>1
        <5> QED
            BY <5>1
      <4> QED
          BY <3>1, <4>1, <4>2 DEF Apart, Witness
    <3>3. CASE top[k] # NoServer
      <4>1. /\ w.s[k].saved.id = w.s[k].id /\ w.l[k].id = w.s[k].id
          BY <1>3, <3>3
      <4>2. w.s[k].id # r.id
        <5>1. ASSUME w.s[k].id = r.id PROVE FALSE
          <6>1. Owner(top, k) = n
              BY <2>2, <5>1
          <6>2. \E j \in PsServer : top[j] = n
              BY <1>4, <3>3, <6>1
          <6>3. r.on
              BY <1>2, <2>0, <6>2
          <6> QED
              BY <2>5, <6>3
        <5> QED
            BY <5>1
      <4> QED
          BY ONLY <3>1, <4>1, <4>2 DEF Apart
    <3> QED
        BY <3>2, <3>3
  <2> QED
      BY <2>1, <2>3, <2>4, <2>5 DEF Owns
<1> QED
    BY <1>7, <1>8, <1>9, <1>10, <1>11, <1>12, <1>13 DEF Fits

LEMMA InitStep ==
    ASSUME PsInit
    PROVE  PsInv
<1>1. PICK top \in Topologies, id \in FirstIds :
                /\ psS = [n \in PsServer |-> psS[n]] /\ psL = [n \in PsServer |-> psL[n]]
                /\ psIds = Cardinality(PsServer) + 1 /\ psWrites = 0
                /\ \A n \in PsServer : Begun(top, id, n, psS[n], psL[n])
    BY InitBegins
<1>2. \A n \in PsServer : psS[n] \in Server /\ psL[n] \in Link
    BY <1>1 DEF Begun
<1>3. psS \in [PsServer -> Server] /\ psL \in [PsServer -> Link]
    BY <1>1, <1>2
<1>4. psIds \in Nat
    BY <1>1, PsNumbers, FS_CardinalityType
<1>5. PICK w : w = PsWorld
    OBVIOUS
<1>6. w.s = psS /\ w.l = psL /\ w.ids = psIds
    BY <1>5, NowParts
<1>7. w \in World
    BY <1>3, <1>4, <1>5 DEF PsWorld, World
<1>8. \A n \in PsServer : Begun(top, id, n, w.s[n], w.l[n])
    BY <1>1, <1>6
<1>9. \A n \in PsServer : Fits(Blank, w, n)
    BY <1>1, <1>6, <1>7, <1>8, BegunFits
<1>10. WorldInv(Blank, w)
    BY <1>7, <1>9, BlankIs DEF WorldInv
<1>11. \E H \in Histories : WorldInv(H, PsWorld)
    BY <1>5, <1>10, BlankIs
<1>12. psWrites \in Nat
    BY <1>1
<1> QED
    BY <1>11, <1>12 DEF PsInv

-----------------------------------------------------------------------------
(* Every step.                                                               *)

LEMMA ProtocolStep ==
    ASSUME NEW n \in PsServer, PsInv, PsProtocol(n)
    PROVE  PsInv'
<1>1. CASE slaveTryPartialResynchronization(n)
    BY <1>1, AskingStep
<1>2. CASE replicationStartPendingFork(n)
    BY <1>2, PendingForkStep
<1>3. CASE updateSlavesWaitingBgsave(n)
    BY <1>3, WaitingBgsaveStep
<1>4. CASE syncWithMaster(n)
    BY <1>4, SyncWithMasterStep
<1>5. CASE readSyncBulkPayload(n)
    BY <1>5, BulkPayloadStep
<1>6. CASE commandProcessed(n)
    BY <1>6, CommandProcessedStep
<1>7. CASE replicationSendAck(n)
    BY <1>7, SendAckStep
<1>8. CASE LoseMaster(n)
    BY <1>8, LoseMasterStep
<1>9. CASE syncWithMasterError(n)
    BY <1>9, SyncWithMasterErrorStep
<1> QED
    BY <1>1, <1>2, <1>3, <1>4, <1>5, <1>6, <1>7, <1>8, <1>9 DEF PsProtocol

LEMMA NextStep ==
    ASSUME PsInv, [PsNext]_psVars
    PROVE  PsInv'
<1>1. CASE UNCHANGED psVars
  <2>1. /\ psS' = psS /\ psL' = psL /\ psIds' = psIds /\ psWrites' = psWrites
      BY <1>1 DEF psVars
  <2>2. \E G \in Histories : WorldInv(G, PsWorld)
      BY Now
  <2>3. psWrites' \in Nat
      BY <2>1 DEF PsInv
  <2> QED
      BY <2>1, <2>2, <2>3, NowParts, MakesParts
<1>2. CASE PsNext
  <2>1. PICK n \in PsServer :
            \/ PsProtocol(n)
            \/ LoadingFails(n) \/ LoseMaster(n) \/ syncWithMasterError(n)
            \/ freeSlave(n)
            \/ \E d \in PsDb : PsWrite(n, d)
            \/ CronPing(n) \/ CronFreeBacklog(n)
            \/ \E m \in PsServer \cup {NoServer} :
                    replicaofCommand(n, m) \/ loadDataFromDisk(n, m)
            \/ rdbPopulateSaveInfo(n)
            \/ \E t \in PsServer \cup {NoServer}, force \in BOOLEAN :
                    failoverCommand(n, t, force)
            \/ updateFailoverStatus(n) \/ FailoverAbort(n)
      BY <1>2 DEF PsNext
  <2>2. CASE PsProtocol(n)
      BY <2>2, ProtocolStep
  <2>3. CASE LoadingFails(n)
      BY <2>3, LoadingFailsStep
  <2>4. CASE LoseMaster(n)
      BY <2>4, LoseMasterStep
  <2>5. CASE freeSlave(n)
      BY <2>5, FreeSlaveStep
  <2>6. ASSUME NEW d \in PsDb, PsWrite(n, d) PROVE PsInv'
      BY <2>6, WriteStep
  <2>7. CASE CronPing(n)
      BY <2>7, PingStep
  <2>8. CASE CronFreeBacklog(n)
      BY <2>8, FreeBacklogStep
  <2>9. ASSUME NEW m \in PsServer \cup {NoServer}, replicaofCommand(n, m) PROVE PsInv'
      BY <2>9, ReplicaofStep
  <2>10. ASSUME NEW m \in PsServer \cup {NoServer}, loadDataFromDisk(n, m) PROVE PsInv'
      BY <2>10, LoadDataStep
  <2>11. CASE rdbPopulateSaveInfo(n)
      BY <2>11, SaveStep
  <2>12. ASSUME NEW t \in PsServer \cup {NoServer}, NEW force \in BOOLEAN,
                failoverCommand(n, t, force)
         PROVE PsInv'
      BY <2>12, FailoverCommandStep
  <2>13. CASE updateFailoverStatus(n)
      BY <2>13, FailoverStatusStep
  <2>14. CASE FailoverAbort(n)
      BY <2>14, FailoverAbortStep
  <2>15. CASE syncWithMasterError(n)
      BY <2>15, SyncWithMasterErrorStep
  <2> QED
      BY <2>1, <2>2, <2>3, <2>4, <2>5, <2>6, <2>7, <2>8, <2>9, <2>10, <2>11, <2>12, <2>13,
         <2>14, <2>15
<1> QED
    BY <1>1, <1>2

\* At every moment there is one history that all servers, backlogs, links and
\* RDB files agree with, and that nobody but the master with an ID adds to.
THEOREM ServersShareHistory == PsSpec => []PsInv
<1>1. PsInit => PsInv
    BY InitStep
<1>2. PsInv /\ [PsNext]_psVars => PsInv'
    BY NextStep
<1> QED
    BY <1>1, <1>2, PTL DEF PsSpec

-----------------------------------------------------------------------------
(* What follows for the data.                                                *)

LEMMA OneHistory ==
    ASSUME PsInv
    PROVE  OneHistoryPerId
<1>1. PICK H \in Histories : WorldInv(H, PsWorld)
    BY Now
<1>2. ASSUME NEW n \in PsServer, psS[n].on
      PROVE  psS[n].data = H[psS[n].id][psS[n].off].data
  <2>1. ServerAgrees(H, psS[n])
      BY <1>1, NowParts DEF WorldInv, Fits
  <2> QED
      BY <1>2, <2>1 DEF ServerAgrees, Witness, At
<1> QED
    BY <1>2 DEF OneHistoryPerId

\* Servers that are at the same offset of the same history have the same data,
\* whatever IDs, restarts, failovers and lost links came before
\* (changeReplicationId, shiftReplicationId, masterTryPartialResynchronization).
THEOREM OffsetsNameOneHistory == PsSpec => []OneHistoryPerId
<1>1. PsInv => OneHistoryPerId
    BY OneHistory
<1> QED
    BY <1>1, ServersShareHistory, PTL

\* What the replica makes of one item.
Did(s, it) ==
    CASE it[1] = "select" -> [s EXCEPT !.db = it[2]]
      [] it[1] = "write" -> [s EXCEPT !.data = Append(@, <<it[2], s.db>>)]
      [] OTHER -> s

LEMMA DidIs ==
    ASSUME NEW s \in Point, NEW it \in Item
    PROVE  /\ Did(s, it) \in Point
           /\ it[1] = "select" => Did(s, it).data = s.data /\ Did(s, it).db = it[2]
           /\ it[1] = "write" => /\ Did(s, it).data = Append(s.data, <<it[2], s.db>>)
                                 /\ Did(s, it).db = s.db
           /\ it[1] \notin {"select", "write"} => Did(s, it) = s
<1>1. it[1] \in {"select", "write", "ping"} /\ it[2] \in Nat /\ it[2] \in Int
    BY DEF Item
<1>2. s.data \in Data /\ s.db \in Int
    BY DEF Point
<1>3. <<it[2], s.db>> \in Nat \X Int
    BY <1>1, <1>2
<1>4. Append(s.data, <<it[2], s.db>>) \in Data
    BY <1>2, <1>3 DEF Data
<1>5. CASE it[1] = "select"
    BY <1>1, <1>2, <1>5 DEF Did, Point
<1>6. CASE it[1] = "write"
    BY <1>1, <1>2, <1>4, <1>6 DEF Did, Point
<1>7. CASE it[1] \notin {"select", "write"}
    BY <1>7 DEF Did
<1> QED
    BY <1>5, <1>6, <1>7

LEMMA DidLeads ==
    ASSUME NEW s \in Point, NEW it \in Item, NEW h, NEW k,
           At(h, s.data, s.db), Leads(h, it, k)
    PROVE  At(k, Did(s, it).data, Did(s, it).db)
<1>0. PICK d : d = Did(s, it)
    OBVIOUS
<1>1. CASE it[1] = "select"
  <2>1. d.data = s.data /\ d.db = it[2]
      BY <1>0, <1>1, DidIs
  <2>2. At(k, s.data, it[2])
      BY <1>1, AtNext
  <2> QED
      BY <1>0, <2>1, <2>2
<1>2. CASE it[1] = "write"
  <2>1. d.data = Append(s.data, <<it[2], s.db>>) /\ d.db = s.db
      BY <1>0, <1>2, DidIs
  <2>2. At(k, Append(s.data, <<it[2], s.db>>), s.db)
      BY <1>2, AtNext
  <2> QED
      BY <1>0, <2>1, <2>2
<1>3. CASE it[1] \notin {"select", "write"}
    BY <1>3, AtNext, DidIs
<1> QED
    BY <1>1, <1>2, <1>3

\* The states a replica that executes items goes through.
ExecutedFrom(h, s, items) ==
    /\ h[0] = s
    /\ \A k \in 1 .. Len(items) : h[k] = Did(h[k - 1], items[k])
    /\ \A k \in 0 .. Len(items) : h[k] \in Point

LEMMA ExecutedGoes ==
    ASSUME NEW data \in Data, NEW db \in Int, NEW items \in Seq(Item)
    PROVE  \E h : /\ ExecutedFrom(h, [data |-> data, db |-> db], items)
                  /\ Executed(data, db, items) = h[Len(items)].data
<1> DEFINE n == Len(items)
           s == [data |-> data, db |-> db]
           F == [p \in Point \X Item |-> Did(p[1], p[2])]
           Equation(h) == h = [D \in SUBSET DOMAIN items |->
                IF D = {} THEN s ELSE Did(h[D \ {Max(D)}], items[Max(D)])]
           h == CHOOSE g : Equation(g)
<1>1. n \in Nat /\ DOMAIN items = 1 .. n /\ \A k \in 1 .. n : items[k] \in Item
    OBVIOUS
<1>s. s \in Point
    BY DEF Point
<1>2. F \in [Point \X Item -> Point]
    BY DidIs
<1>3. \A p \in Point, e \in Item : F[<<p, e>>] = Did(p, e)
    OBVIOUS
<1>p. Executed(data, db, items) = (h[1 .. n]).data
    BY <1>1 DEF Executed, FoldLeft, MapThenFoldSet, Did
<1> HIDE DEF F, n, s
<1>4. PICK g \in [SUBSET (1 .. n) -> Point] : FoldsOver(g, F, s, items, 1 .. n)
  <2>1. AllIn(items, n, Item) /\ IsStep(F, Point, Item)
      BY <1>1, <1>2 DEF AllIn, IsStep
  <2>2. FoldIn(Point, F, s, items, n)
      BY <1>1, <1>s, <2>1, FunctionFoldExists
  <2> QED
      BY <2>2 DEF FoldIn
<1>5. Equation(g)
  <2>1. ASSUME NEW D \in SUBSET (1 .. n), D # {}
        PROVE  F[<<g[D \ {Max(D)}], items[Max(D)]>>] = Did(g[D \ {Max(D)}], items[Max(D)])
    <3>1. Max(D) \in 1 .. n
        BY <1>1, <2>1, MaxUpTo
    <3>2. g[D \ {Max(D)}] \in Point /\ items[Max(D)] \in Item
        BY <1>1, <3>1
    <3> QED
        BY <1>3, <3>2
  <2>2. g = [D \in SUBSET (1 .. n) |->
                IF D = {} THEN s ELSE Did(g[D \ {Max(D)}], items[Max(D)])]
      BY <1>4, <2>1 DEF FoldsOver
  <2> QED
      BY <1>1, <2>2
<1>6. Equation(h)
    BY <1>5
<1> HIDE DEF h
<1>8. h[{}] = s
    BY <1>6
<1>9. ASSUME NEW k \in 1 .. n
      PROVE  h[1 .. k] = Did(h[1 .. k - 1], items[k])
  <2> DEFINE D == 1 .. k
  <2>1. D \in SUBSET (1 .. n) /\ D # {} /\ Max(D) = k /\ D \ {k} = 1 .. k - 1
      BY <1>1, LastPosition
  <2> HIDE DEF D
  <2>2. h[D] = Did(h[D \ {Max(D)}], items[Max(D)])
      BY <1>1, <1>6, <2>1
  <2> QED
      BY <2>1, <2>2 DEF D
<1>10. \A k \in 0 .. n : h[1 .. k] \in Point
  <2>1. \A k \in 1 .. n : h[1 .. k - 1] \in Point => h[1 .. k] \in Point
      BY <1>1, <1>9, DidIs
  <2> QED
      BY <1>1, <1>s, <1>8, <2>1, FoldGoesUp
<1> DEFINE R == [k \in 0 .. n |-> h[1 .. k]]
<1>11. R[0] = s
  <2>1. 1 .. 0 = {}
      OBVIOUS
  <2> QED
      BY <1>1, <1>8, <2>1
<1>12. \A k \in 1 .. n : R[k] = Did(R[k - 1], items[k])
  <2>1. ASSUME NEW k \in 1 .. n PROVE R[k] = Did(R[k - 1], items[k])
    <3>1. k \in 0 .. n /\ k - 1 \in 0 .. n
        BY <1>1
    <3>2. R[k] = h[1 .. k] /\ R[k - 1] = h[1 .. k - 1]
        BY <3>1
    <3> QED
        BY <1>9, <3>2
  <2> QED
      BY <2>1
<1>13. \A k \in 0 .. n : R[k] \in Point
    BY <1>10
<1>14. R[n] = h[1 .. n]
    BY <1>1
<1> HIDE DEF R
<1>15. ExecutedFrom(R, s, items)
    BY <1>11, <1>12, <1>13 DEF ExecutedFrom, n
<1> QED
    BY <1>p, <1>14, <1>15 DEF n, s

\* A stream that runs from where the replica is leads it to the data at the end.
LEMMA ExecutedRuns ==
    ASSUME NEW row \in [Nat -> Point], NEW off \in Nat, NEW data \in Data, NEW db \in Int,
           NEW items \in Seq(Item), At(row[off], data, db), Run(row, off, items)
    PROVE  Executed(data, db, items) = row[off + Len(items)].data
<1>1. PICK h : /\ ExecutedFrom(h, [data |-> data, db |-> db], items)
               /\ Executed(data, db, items) = h[Len(items)].data
    BY ExecutedGoes
<1>2. PICK n \in Nat : n = Len(items)
    OBVIOUS
<1>3. /\ h[0] = [data |-> data, db |-> db]
      /\ \A k \in 1 .. n : h[k] = Did(h[k - 1], items[k])
      /\ \A k \in 0 .. n : h[k] \in Point
      /\ \A k \in 1 .. n : items[k] \in Item
      /\ \A k \in 1 .. n : Leads(row[off + k - 1], items[k], row[off + k])
    BY <1>1, <1>2 DEF ExecutedFrom, Run
<1> DEFINE S == {k \in Nat : k <= n => At(row[off + k], h[k].data, h[k].db)}
<1>4. 0 \in S
  <2>1. off + 0 = off /\ h[0].data = data /\ h[0].db = db
      BY <1>3
  <2> QED
      BY <2>1
<1>5. ASSUME NEW k \in Nat, k \in S PROVE k + 1 \in S
  <2> SUFFICES ASSUME k + 1 <= n PROVE At(row[off + (k + 1)], h[k + 1].data, h[k + 1].db)
      OBVIOUS
  <2>1. k + 1 \in 1 .. n /\ (k + 1) - 1 = k /\ k \in 0 .. n /\ off + (k + 1) - 1 = off + k
      OBVIOUS
  <2>2. At(row[off + k], h[k].data, h[k].db)
      BY <1>5, <2>1
  <2>3. h[k + 1] = Did(h[k], items[k + 1]) /\ h[k] \in Point /\ items[k + 1] \in Item
      BY <1>3, <2>1
  <2>4. Leads(row[off + k], items[k + 1], row[off + (k + 1)])
      BY <1>3, <2>1
  <2> QED
      BY <2>2, <2>3, <2>4, DidLeads
<1>6. \A k \in Nat : k \in S
  <2> HIDE DEF S
  <2> QED
    BY <1>4, <1>5, Induction
<1>7. At(row[off + n], h[n].data, h[n].db)
    BY <1>6
<1> QED
    BY <1>1, <1>2, <1>7 DEF At

LEMMA StreamCompletes ==
    ASSUME PsInv
    PROVE  StreamCompletesReplica
<1>1. PICK H \in Histories : WorldInv(H, PsWorld)
    BY Now
<1>2. SUFFICES ASSUME NEW n \in PsServer, psL[n].open,
                      psL[n].sl \in {"end", "send", "online"}
               PROVE  LET l == psL[n]
                          m == psS[n].master
                          loading == l.sl \in {"end", "send"}
                          from == IF loading
                                  THEN [data |-> l.snap, db |-> l.db, off |-> l.off]
                                  ELSE psS[n]
                      IN  /\ Executed(from.data, from.db, l.buf) = psS[m].data
                          /\ from.off + Len(l.buf) = psS[m].off
    BY DEF StreamCompletesReplica
<1>3. PICK l : l = psL[n]
    OBVIOUS
<1>4. PICK r : r = psS[n]
    OBVIOUS
<1>5. PICK m : m = r.master
    OBVIOUS
<1>6. /\ PsWorld \in World /\ \A k \in PsServer : Fits(H, PsWorld, k)
    BY <1>1 DEF WorldInv
<1>7. r \in Server /\ l \in Link /\ \A k \in PsServer : psS[k] \in Server
    BY <1>3, <1>4, <1>6, NowParts, WorldParts
<1>8. LinkAgrees(H, r, l) /\ Linked(psS, r, l)
    BY <1>3, <1>4, <1>6, NowParts DEF Fits
<1>9. Followed(l) /\ l.sl # "start"
    BY <1>2, <1>3 DEF Followed
<1>10. m \in PsServer /\ psS[m].on /\ l.id = psS[m].id /\ Behind(r, l) = psS[m].off
    BY <1>5, <1>8, <1>9 DEF Linked
<1>11. ServerAgrees(H, psS[m])
    BY <1>6, <1>10, NowParts DEF Fits
<1>12. psS[m].data = H[l.id][psS[m].off].data
    BY <1>10, <1>11 DEF ServerAgrees, Witness, At
<1>13. H[l.id] \in [Nat -> Point] /\ l.buf \in Seq(Item)
  <2>1. l.id \in Nat /\ l.buf \in Seq(Item)
      BY <1>7 DEF Link
  <2> QED
      BY <2>1 DEF Histories
<1>14. CASE Serving(l)
  <2>1. At(H[l.id][l.off], l.snap, l.db) /\ Run(H[l.id], l.off, l.buf) /\ ~Online(l)
      BY <1>8, <1>14 DEF LinkAgrees, Serving, Online
  <2>2. l.off \in Nat /\ l.snap \in Data /\ l.db \in Int
      BY <1>7 DEF Link
  <2>3. Executed(l.snap, l.db, l.buf) = H[l.id][l.off + Len(l.buf)].data
      BY <1>13, <2>1, <2>2, ExecutedRuns
  <2>4. l.off + Len(l.buf) = psS[m].off
      BY <1>10, <2>1 DEF Behind
  <2> QED
      BY <1>3, <1>4, <1>5, <1>12, <1>14, <2>3, <2>4 DEF Serving
<1>15. CASE Online(l)
  <2>1. At(H[l.id][r.off], r.data, r.db) /\ Run(H[l.id], r.off, l.buf) /\ ~Serving(l)
      BY <1>8, <1>15 DEF LinkAgrees, Serving, Online
  <2>2. r.off \in Nat /\ r.data \in Data /\ r.db \in Int
      BY <1>7 DEF Server
  <2>3. Executed(r.data, r.db, l.buf) = H[l.id][r.off + Len(l.buf)].data
      BY <1>13, <2>1, <2>2, ExecutedRuns
  <2>4. r.off + Len(l.buf) = psS[m].off
      BY <1>10, <1>15 DEF Behind
  <2> QED
      BY <1>3, <1>4, <1>5, <1>12, <2>1, <2>3, <2>4 DEF Serving
<1> QED
    BY <1>2, <1>3, <1>14, <1>15 DEF Serving, Online

\* What is on its way to a replica is what it still lacks of its master's data,
\* in the right databases and at the right offsets, after a partial or a full
\* resynchronisation and through chains (masterTryPartialResynchronization,
\* disconnectSlaves, replicationFeedSlavesFromMasterStream).
THEOREM StreamBringsTheRest == PsSpec => []StreamCompletesReplica
<1>1. PsInv => StreamCompletesReplica
    BY StreamCompletes
<1> QED
    BY <1>1, ServersShareHistory, PTL

=============================================================================
