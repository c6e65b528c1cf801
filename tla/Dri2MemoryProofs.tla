-------------------------- MODULE Dri2MemoryProofs --------------------------
(***************************************************************************)
(* Theorems about the memory of Dri2Swap: no assert() fails, reference     *)
(* counts of bos and pixmaps are the numbers of their holders, and the     *)
(* screen pixmap shows the scanout bo. They hold for double buffering, if  *)
(* a name for a bo can be had and memory for one more bo is always left;   *)
(* without these the code does fail its assertions, see the README.        *)
(*                                                                         *)
(* The invariant is about worlds, so that a handler keeps it call by call. *)
(* Between the calls of a handler it holds of the windows other than the   *)
(* one that the handler works on.                                          *)
(***************************************************************************)
EXTENDS Dri2UsersProofs

-----------------------------------------------------------------------------
(* The invariant of a world w whose windows have the pixmaps of wn. *)

BufPixs(bf) == [x \in Buf |-> bf[x].pix[0]]
BufBos(bf)  == [x \in Buf |-> bf[x].bo]
OldSrcs(cm) == [k \in Cmd |-> cm[k].oldSrc]
OldDsts(cm) == [k \in Cmd |-> cm[k].oldDst]

\* How often bo b is held.
Held(m, bf, cm, sc, b) ==
  Times(m.pbo, b) + Times(BufBos(bf), b)
  + Times(OldSrcs(cm), b) + Times(OldDsts(cm), b) + Is(sc, b)

BosCounted(w) ==
  \A b \in Bo : w.mem.ref[b] = Held(w.mem, w.buf, w.cmd, w.scanout, b)

\* How many windows have pixmap p; that of the root window is never freed.
Windows(wn, p) == IF p = Root THEN 1 ELSE Times(wn, p)

PixCounted(w, wn) ==
  \A p \in Pix : /\ w.mem.ext[p] = Times(BufPixs(w.buf), p)
                 /\ w.mem.pref[p] = w.mem.ext[p] + Windows(wn, p)

\* A pixmap has a bo of its own as long as it lives.
PixSound(m) ==
  \A p \in Pix :
    /\ IF m.pref[p] > 0 THEN m.pbo[p] \in Bo ELSE m.pbo[p] = NoBo
    /\ \A q \in Pix \ {p} : m.pbo[q] = m.pbo[p] => m.pbo[p] = NoBo

\* A buffer has a pixmap and a bo, a back buffer has the pixmap for itself,
\* and a free one has nothing.
BufSound(w) ==
  \A x \in Buf :
    IF w.buf[x].ref > 0
    THEN /\ w.buf[x].pix[0] \in Pix /\ w.buf[x].bo \in Bo
         /\ w.buf[x].att = "back" => w.mem.pref[w.buf[x].pix[0]] = 1
    ELSE w.buf[x] = NoBufRec

Sound(w, wn) == /\ w.mem.ok
                /\ BosCounted(w)
                /\ PixCounted(w, wn)
                /\ PixSound(w.mem)
                /\ BufSound(w)

\* What the counts need of the windows.
WinsTyped(wn) == wn \in [Draw -> Pix \cup {NoPix}]

-----------------------------------------------------------------------------
(* Counting holders *)

\* The functions that are counted have finite domains.
LEMMA HolderDomains ==
  ASSUME NEW bf, NEW cm
  PROVE  /\ DOMAIN BufPixs(bf) = Buf /\ DOMAIN BufBos(bf) = Buf
         /\ DOMAIN OldSrcs(cm) = Cmd /\ DOMAIN OldDsts(cm) = Cmd
         /\ IsFiniteSet(Buf) /\ IsFiniteSet(Cmd) /\ IsFiniteSet(Pix)
         /\ IsFiniteSet(Draw)
BY SwapAssumption, MemAssumption DEF BufPixs, BufBos, OldSrcs, OldDsts

\* What a function has as a value occurs.
LEMMA TimesAtLeast ==
  ASSUME NEW S, IsFiniteSet(S), NEW f, DOMAIN f = S, NEW a \in S, NEW v
  PROVE  Times(f, v) \in Nat /\ Times(f, v) >= Is(f[a], v)
BY TimesType DEF Is

\* The number of holders is a number, and each holder is in it.
LEMMA HeldAtLeast ==
  ASSUME NEW m \in Mem, NEW bf, NEW cm, NEW sc, NEW b
  PROVE  /\ Held(m, bf, cm, sc, b) \in Nat
         /\ \A p \in Pix : Held(m, bf, cm, sc, b) >= Is(m.pbo[p], b)
         /\ \A x \in Buf : Held(m, bf, cm, sc, b) >= Is(bf[x].bo, b)
         /\ \A k \in Cmd : Held(m, bf, cm, sc, b) >= Is(cm[k].oldSrc, b)
         /\ \A k \in Cmd : Held(m, bf, cm, sc, b) >= Is(cm[k].oldDst, b)
         /\ Held(m, bf, cm, sc, b) >= Is(sc, b)
<1>1. DOMAIN m.pbo = Pix
  BY MemFields
<1>2. /\ Times(m.pbo, b) \in Nat /\ Times(BufBos(bf), b) \in Nat
      /\ Times(OldSrcs(cm), b) \in Nat /\ Times(OldDsts(cm), b) \in Nat
      /\ Is(sc, b) \in Nat
  BY <1>1, HolderDomains, TimesType DEF Is
<1>3. Held(m, bf, cm, sc, b)
        = Times(m.pbo, b) + Times(BufBos(bf), b)
          + Times(OldSrcs(cm), b) + Times(OldDsts(cm), b) + Is(sc, b)
  BY DEF Held
<1>4. ASSUME NEW p \in Pix PROVE Held(m, bf, cm, sc, b) >= Is(m.pbo[p], b)
  <2>1. Times(m.pbo, b) >= Is(m.pbo[p], b)
    BY <1>1, HolderDomains, TimesAtLeast
  <2>2. Is(m.pbo[p], b) \in Nat
    BY DEF Is
  <2> QED BY <1>2, <1>3, <2>1, <2>2
<1>5. ASSUME NEW x \in Buf PROVE Held(m, bf, cm, sc, b) >= Is(bf[x].bo, b)
  <2>1. BufBos(bf)[x] = bf[x].bo
    BY DEF BufBos
  <2>2. Times(BufBos(bf), b) >= Is(BufBos(bf)[x], b)
    BY HolderDomains, TimesAtLeast
  <2>3. Is(bf[x].bo, b) \in Nat
    BY DEF Is
  <2> QED BY <1>2, <1>3, <2>1, <2>2, <2>3
<1>6. ASSUME NEW k \in Cmd
      PROVE  /\ Held(m, bf, cm, sc, b) >= Is(cm[k].oldSrc, b)
             /\ Held(m, bf, cm, sc, b) >= Is(cm[k].oldDst, b)
  <2>1. OldSrcs(cm)[k] = cm[k].oldSrc /\ OldDsts(cm)[k] = cm[k].oldDst
    BY DEF OldSrcs, OldDsts
  <2>2. /\ Times(OldSrcs(cm), b) >= Is(OldSrcs(cm)[k], b)
        /\ Times(OldDsts(cm), b) >= Is(OldDsts(cm)[k], b)
    BY HolderDomains, TimesAtLeast
  <2>3. Is(cm[k].oldSrc, b) \in Nat /\ Is(cm[k].oldDst, b) \in Nat
    BY DEF Is
  <2> QED BY <1>2, <1>3, <2>1, <2>2, <2>3
<1>7. Held(m, bf, cm, sc, b) >= Is(sc, b) /\ Held(m, bf, cm, sc, b) \in Nat
  BY <1>2, <1>3
<1> QED BY <1>4, <1>5, <1>6, <1>7

\* A pixmap gets another bo.
LEMMA HeldByPixmap ==
  ASSUME NEW m \in Mem, NEW n \in Mem, NEW p \in Pix,
         \A q \in Pix \ {p} : n.pbo[q] = m.pbo[q],
         NEW bf, NEW cm, NEW sc, NEW b
  PROVE  Held(n, bf, cm, sc, b)
           = Held(m, bf, cm, sc, b) + Is(n.pbo[p], b) - Is(m.pbo[p], b)
<1>1. DOMAIN m.pbo = Pix /\ DOMAIN n.pbo = Pix
  BY MemFields
<1>2. /\ Times(m.pbo, b) \in Nat /\ Times(BufBos(bf), b) \in Nat
      /\ Times(OldSrcs(cm), b) \in Nat /\ Times(OldDsts(cm), b) \in Nat
      /\ Is(sc, b) \in Nat /\ Is(n.pbo[p], b) \in Nat /\ Is(m.pbo[p], b) \in Nat
  BY <1>1, HolderDomains, TimesType DEF Is
<1>3. Times(n.pbo, b) = Times(m.pbo, b) + Is(n.pbo[p], b) - Is(m.pbo[p], b)
  BY <1>1, HolderDomains, TimesUpdate
<1> QED BY <1>2, <1>3 DEF Held

\* The terms of that sum.
LEMMA HeldTypes ==
  ASSUME NEW m \in Mem, NEW bf, NEW cm, NEW b
  PROVE  /\ Times(m.pbo, b) \in Nat /\ Times(BufBos(bf), b) \in Nat
         /\ Times(OldSrcs(cm), b) \in Nat /\ Times(OldDsts(cm), b) \in Nat
         /\ \A a, c : Is(a, c) \in {0, 1}
<1>1. DOMAIN m.pbo = Pix
  BY MemFields
<1> QED BY <1>1, HolderDomains, TimesType DEF Is

\* A buffer gets another bo.
LEMMA HeldByBuffer ==
  ASSUME NEW bf, NEW bg, NEW x \in Buf,
         \A y \in Buf \ {x} : bg[y].bo = bf[y].bo, NEW b
  PROVE  Times(BufBos(bg), b)
           = Times(BufBos(bf), b) + Is(bg[x].bo, b) - Is(bf[x].bo, b)
<1>1. \A y \in Buf : BufBos(bf)[y] = bf[y].bo /\ BufBos(bg)[y] = bg[y].bo
  BY DEF BufBos
<1>2. \A y \in Buf \ {x} : BufBos(bg)[y] = BufBos(bf)[y]
  BY <1>1
<1>3. Times(BufBos(bg), b)
        = Times(BufBos(bf), b) + Is(BufBos(bg)[x], b) - Is(BufBos(bf)[x], b)
  BY <1>2, HolderDomains, TimesUpdate
<1> QED BY <1>1, <1>3

\* A command gets other bos.
LEMMA HeldByCommand ==
  ASSUME NEW cm, NEW cn, NEW k \in Cmd,
         \A j \in Cmd \ {k} : cn[j] = cm[j], NEW b
  PROVE  /\ Times(OldSrcs(cn), b)
              = Times(OldSrcs(cm), b) + Is(cn[k].oldSrc, b) - Is(cm[k].oldSrc, b)
         /\ Times(OldDsts(cn), b)
              = Times(OldDsts(cm), b) + Is(cn[k].oldDst, b) - Is(cm[k].oldDst, b)
<1>1. \A j \in Cmd : /\ OldSrcs(cm)[j] = cm[j].oldSrc /\ OldSrcs(cn)[j] = cn[j].oldSrc
                     /\ OldDsts(cm)[j] = cm[j].oldDst /\ OldDsts(cn)[j] = cn[j].oldDst
  BY DEF OldSrcs, OldDsts
<1>2. \A j \in Cmd \ {k} : /\ OldSrcs(cn)[j] = OldSrcs(cm)[j]
                           /\ OldDsts(cn)[j] = OldDsts(cm)[j]
  BY <1>1
<1>3. Times(OldSrcs(cn), b)
        = Times(OldSrcs(cm), b) + Is(OldSrcs(cn)[k], b) - Is(OldSrcs(cm)[k], b)
  BY <1>2, HolderDomains, TimesUpdate
<1>4. Times(OldDsts(cn), b)
        = Times(OldDsts(cm), b) + Is(OldDsts(cn)[k], b) - Is(OldDsts(cm)[k], b)
  BY <1>2, HolderDomains, TimesUpdate
<1> QED BY <1>1, <1>3, <1>4

\* A buffer gets another pixmap.
LEMMA PointsByBuffer ==
  ASSUME NEW bf, NEW bg, NEW x \in Buf,
         \A y \in Buf \ {x} : bg[y].pix[0] = bf[y].pix[0], NEW p
  PROVE  Times(BufPixs(bg), p)
           = Times(BufPixs(bf), p) + Is(bg[x].pix[0], p) - Is(bf[x].pix[0], p)
<1>1. \A y \in Buf : /\ BufPixs(bf)[y] = bf[y].pix[0]
                     /\ BufPixs(bg)[y] = bg[y].pix[0]
  BY DEF BufPixs
<1>2. \A y \in Buf \ {x} : BufPixs(bg)[y] = BufPixs(bf)[y]
  BY <1>1
<1>3. Times(BufPixs(bg), p)
        = Times(BufPixs(bf), p) + Is(BufPixs(bg)[x], p) - Is(BufPixs(bf)[x], p)
  BY <1>2, HolderDomains, TimesUpdate
<1> QED BY <1>1, <1>3

\* A pixmap that one buffer points to is counted once, one that two point to
\* twice.
LEMMA PointsAtLeast ==
  ASSUME NEW bf, NEW p
  PROVE  /\ Times(BufPixs(bf), p) \in Nat
         /\ \A x \in Buf : Times(BufPixs(bf), p) >= Is(bf[x].pix[0], p)
         /\ \A x, y \in Buf : x # y /\ bf[x].pix[0] = p /\ bf[y].pix[0] = p
                                => Times(BufPixs(bf), p) >= 2
<1>1. \A y \in Buf : BufPixs(bf)[y] = bf[y].pix[0]
  BY DEF BufPixs
<1>2. Times(BufPixs(bf), p) \in Nat
  BY HolderDomains, TimesType
<1>3. ASSUME NEW x \in Buf PROVE Times(BufPixs(bf), p) >= Is(bf[x].pix[0], p)
  <2>1. Times(BufPixs(bf), p) >= Is(BufPixs(bf)[x], p)
    BY HolderDomains, TimesAtLeast
  <2> QED BY <1>1, <2>1
<1>4. ASSUME NEW x \in Buf, NEW y \in Buf, x # y, bf[x].pix[0] = p, bf[y].pix[0] = p
      PROVE  Times(BufPixs(bf), p) >= 2
  <2>1. BufPixs(bf)[x] = p /\ BufPixs(bf)[x] = BufPixs(bf)[y]
    BY <1>1, <1>4
  <2>2. Times(BufPixs(bf), BufPixs(bf)[x]) >= 2
    BY <1>4, <2>1, HolderDomains, TimesTwo
  <2> QED BY <2>1, <2>2
<1> QED BY <1>2, <1>3, <1>4

\* The windows of a pixmap are counted.
LEMMA WindowsAtLeast ==
  ASSUME NEW wn, WinsTyped(wn), NEW p
  PROVE  /\ Windows(wn, p) \in Nat
         /\ \A d \in Draw : Windows(wn, p) >= Is(wn[d], p)
<1>1. DOMAIN wn = Draw
  BY DEF WinsTyped
<1>2. Times(wn, p) \in Nat /\ \A d \in Draw : Times(wn, p) >= Is(wn[d], p)
  BY <1>1, HolderDomains, TimesAtLeast, TimesType
<1> QED BY <1>2 DEF Windows, Is

-----------------------------------------------------------------------------
(* What the operations on memory do, argument by argument. *)

\* armsoc_bo_unreference
LEMMA BoUnrefForm ==
  ASSUME NEW m \in Mem, NEW b \in Bo \cup {NoBo}
  PROVE  LET v == BoUnref(m, b)
         IN  /\ v.pref = m.pref /\ v.ext = m.ext /\ v.pbo = m.pbo
             /\ \A x \in Bo : v.ref[x] = m.ref[x] - Is(b, x)
             /\ \A x \in Bo : v.fb[x] => m.fb[x]
             /\ \A x \in Bo : v.ref[x] > 0 => (v.fb[x] <=> m.fb[x])
             /\ m.ok /\ (b \in Bo => m.ref[b] > 0) => v.ok
<1> DEFINE r == [m.ref EXCEPT ![b] = @ - 1]
           f == [m.fb EXCEPT ![b] = @ /\ m.ref[b] > 1]
           v == BoUnref(m, b)
<1>0. m.ref \in [Bo -> Int] /\ m.fb \in [Bo -> BOOLEAN] /\ NoBo \notin Bo
  BY MemFields, MemAssumption
<1>1. CASE b = NoBo
  <2>1. \A x \in Bo : Is(b, x) = 0
    BY <1>0, <1>1 DEF Is
  <2> QED BY <1>0, <1>1, <2>1 DEF BoUnref
<1>2. CASE b \in Bo
  <2>1. v = [m EXCEPT !.ref = r, !.fb = f, !.ok = @ /\ m.ref[b] > 0]
    BY <1>0, <1>2 DEF BoUnref
  <2>2. \A x \in Bo : r[x] = m.ref[x] - Is(b, x)
    BY <1>0 DEF Is
  <2>3. \A x \in Bo : f[x] => m.fb[x]
    BY <1>0
  <2>4. \A x \in Bo : r[x] > 0 => (f[x] <=> m.fb[x])
    BY <1>0
  <2> HIDE DEF r, f, v
  <2>5. /\ v.pref = m.pref /\ v.ext = m.ext /\ v.pbo = m.pbo
        /\ v.ref = r /\ v.fb = f /\ v.ok = (m.ok /\ m.ref[b] > 0)
    BY <2>1 DEF Mem
  <2> QED BY <1>2, <2>2, <2>3, <2>4, <2>5 DEF v
<1> QED BY <1>1, <1>2

\* armsoc_bo_reference
LEMMA BoRefForm ==
  ASSUME NEW m \in Mem, NEW b \in Bo
  PROVE  LET v == BoRef(m, b)
         IN  /\ v.pref = m.pref /\ v.ext = m.ext /\ v.pbo = m.pbo
             /\ v.fb = m.fb /\ v.pdim = m.pdim /\ v.size = m.size
             /\ \A x \in Bo : v.ref[x] = m.ref[x] + Is(b, x)
             /\ m.ok /\ m.ref[b] > 0 => v.ok
<1> DEFINE r == [m.ref EXCEPT ![b] = @ + 1]
           v == BoRef(m, b)
<1>1. m.ref \in [Bo -> Int]
  BY MemFields
<1>2. v = [m EXCEPT !.ref = r, !.ok = @ /\ m.ref[b] > 0]
  BY DEF BoRef
<1>3. \A x \in Bo : r[x] = m.ref[x] + Is(b, x)
  BY <1>1 DEF Is
<1> HIDE DEF r, v
<1>4. /\ v.pref = m.pref /\ v.ext = m.ext /\ v.pbo = m.pbo
      /\ v.fb = m.fb /\ v.pdim = m.pdim /\ v.size = m.size
      /\ v.ref = r /\ v.ok = (m.ok /\ m.ref[b] > 0)
  BY <1>2 DEF Mem
<1> QED BY <1>3, <1>4 DEF v

\* ARMSOCDeregisterExternalAccess on one pixmap
LEMMA DeregisterForm ==
  ASSUME NEW m \in Mem, NEW p \in Pix
  PROVE  LET v == Deregister(m, {p})
         IN  /\ v.pref = m.pref /\ v.pbo = m.pbo /\ v.ref = m.ref /\ v.fb = m.fb
             /\ \A q \in Pix : v.ext[q] = m.ext[q] - Is(p, q)
             /\ m.ok /\ m.ext[p] > 0 => v.ok
<1> DEFINE e == [q \in Pix |-> IF q \in {p} THEN m.ext[q] - 1 ELSE m.ext[q]]
           v == Deregister(m, {p})
<1>1. m.ext \in [Pix -> Int]
  BY MemFields
<1>2. v = [m EXCEPT !.ext = e, !.ok = @ /\ \A q \in {p} : m.ext[q] > 0]
  BY DEF Deregister
<1>3. \A q \in Pix : e[q] = m.ext[q] - Is(p, q)
  BY <1>1 DEF Is
<1> HIDE DEF e, v
<1>4. /\ v.pref = m.pref /\ v.pbo = m.pbo /\ v.ref = m.ref /\ v.fb = m.fb
      /\ v.ext = e /\ v.ok = (m.ok /\ \A q \in {p} : m.ext[q] > 0)
  BY <1>2 DEF Mem
<1> QED BY <1>3, <1>4 DEF v

\* DestroyPixmap on one pixmap
LEMMA DropForm ==
  ASSUME NEW m \in Mem, NEW p \in Pix
  PROVE  LET v == DropPixmaps(m, {p})
             i == IF m.pref[p] = 1 THEN m.pbo[p] ELSE NoBo
         IN  /\ v.ext = m.ext
             /\ \A q \in Pix : /\ v.pref[q] = m.pref[q] - Is(p, q)
                               /\ v.pbo[q] = IF q = p /\ m.pref[p] = 1 THEN NoBo
                                             ELSE m.pbo[q]
             /\ \A b \in Bo : /\ v.ref[b] = m.ref[b] - Is(i, b)
                              /\ v.fb[b] => m.fb[b]
                              /\ v.ref[b] > 0 => (v.fb[b] <=> m.fb[b])
             /\ /\ m.ok /\ m.pref[p] > 0 /\ (m.pref[p] = 1 => m.ext[p] = 0)
                /\ \A b \in Bo : v.ref[b] >= 0
                => v.ok
<1> DEFINE P == {p}
           dead == {q \in P : m.pref[q] = 1}
           i == IF m.pref[p] = 1 THEN m.pbo[p] ELSE NoBo
           lost(b) == Cardinality({q \in dead : m.pbo[q] = b})
           ref == [b \in Bo |-> m.ref[b] - lost(b)]
           pr == [q \in Pix |-> IF q \in P THEN m.pref[q] - 1 ELSE m.pref[q]]
           pb == [q \in Pix |-> IF q \in dead THEN NoBo ELSE m.pbo[q]]
           fb == [b \in Bo |-> m.fb[b] /\ (lost(b) = 0 \/ ref[b] > 0)]
           ok == /\ \A q \in P : m.pref[q] > 0
                 /\ \A q \in dead : m.ext[q] = 0
                 /\ \A b \in Bo : ref[b] >= 0 \/ lost(b) = 0
           v == DropPixmaps(m, P)
<1>1. v = [m EXCEPT !.pref = pr, !.pbo = pb, !.ref = ref, !.fb = fb, !.ok = @ /\ ok]
  BY DEF DropPixmaps
<1>2. /\ m.ref \in [Bo -> Int] /\ m.fb \in [Bo -> BOOLEAN]
      /\ m.pref \in [Pix -> Int] /\ m.pbo \in [Pix -> Bo \cup {NoBo}]
      /\ NoBo \notin Bo
  BY MemFields, MemAssumption
<1>3. ASSUME NEW b \in Bo PROVE lost(b) = Is(i, b)
  <2>1. CASE i = b
    <3>1. {q \in dead : m.pbo[q] = b} = {p}
      BY <1>2, <2>1
    <3> QED BY <2>1, <3>1, FS_Singleton DEF Is
  <2>2. CASE i # b
    <3>1. {q \in dead : m.pbo[q] = b} = {}
      BY <1>2, <2>2
    <3> QED BY <2>2, <3>1, FS_EmptySet DEF Is
  <2> QED BY <2>1, <2>2
<1>4. \A q \in Pix : /\ pr[q] = m.pref[q] - Is(p, q)
                     /\ pb[q] = IF q = p /\ m.pref[p] = 1 THEN NoBo ELSE m.pbo[q]
  BY <1>2 DEF Is
<1>5. /\ \A q \in P : q = p
      /\ \A q \in dead : q = p /\ m.pref[p] = 1
  OBVIOUS
<1> HIDE DEF lost, dead, pr, pb, i
<1>6. \A b \in Bo : ref[b] = m.ref[b] - Is(i, b)
  BY <1>3
<1>7. \A b \in Bo : /\ fb[b] => m.fb[b]
                    /\ ref[b] > 0 => (fb[b] <=> m.fb[b])
  OBVIOUS
<1>8. /\ m.pref[p] > 0 /\ (m.pref[p] = 1 => m.ext[p] = 0)
      /\ \A b \in Bo : ref[b] >= 0
      => ok
  BY <1>5
<1> HIDE DEF P, ref, fb, ok, v
<1>9. /\ v.ext = m.ext /\ v.pref = pr /\ v.pbo = pb /\ v.ref = ref /\ v.fb = fb
      /\ v.ok = (m.ok /\ ok)
  BY <1>1 DEF Mem
<1>10. /\ m.ok /\ m.pref[p] > 0 /\ (m.pref[p] = 1 => m.ext[p] = 0)
       /\ \A b \in Bo : v.ref[b] >= 0
       => v.ok
  BY <1>8, <1>9
<1> QED BY <1>4, <1>6, <1>7, <1>9, <1>10 DEF v, i, P

\* ARMSOCRegisterExternalAccess
LEMMA RegisterForm ==
  ASSUME NEW m \in Mem, NEW p \in Pix
  PROVE  LET v == Register(m, p)
         IN  /\ v.pref = m.pref /\ v.pbo = m.pbo /\ v.ref = m.ref /\ v.fb = m.fb
             /\ v.ok = m.ok
             /\ \A q \in Pix : v.ext[q] = m.ext[q] + Is(p, q)
<1> DEFINE e == [m.ext EXCEPT ![p] = @ + 1]
           v == Register(m, p)
<1>1. m.ext \in [Pix -> Int]
  BY MemFields
<1>2. v = [m EXCEPT !.ext = e]
  BY DEF Register
<1>3. \A q \in Pix : e[q] = m.ext[q] + Is(p, q)
  BY <1>1 DEF Is
<1> HIDE DEF e, v
<1>4. /\ v.pref = m.pref /\ v.pbo = m.pbo /\ v.ref = m.ref /\ v.fb = m.fb
      /\ v.ok = m.ok /\ v.ext = e
  BY <1>2 DEF Mem
<1> QED BY <1>3, <1>4 DEF v

\* ARMSOCCreatePixmap2 on a free pixmap and a free bo
LEMMA NewPixmapForm ==
  ASSUME NEW m \in Mem, NEW p \in Pix, NEW b \in Bo, NEW s \in Size
  PROVE  LET v == NewPixmap(m, p, b, s)
         IN  /\ \A q \in Pix : /\ v.pref[q] = IF q = p THEN 1 ELSE m.pref[q]
                               /\ v.pbo[q]  = IF q = p THEN b ELSE m.pbo[q]
                               /\ v.ext[q]  = IF q = p THEN 0 ELSE m.ext[q]
             /\ \A x \in Bo : /\ v.ref[x] = IF x = b THEN 1 ELSE m.ref[x]
                              /\ v.fb[x] <=> (x # b /\ m.fb[x])
             /\ v.ok = m.ok
<1> DEFINE n  == NewBo(m, b, s)
           rf == [m.ref EXCEPT ![b] = 1]
           f  == [m.fb EXCEPT ![b] = FALSE]
           z  == [m.size EXCEPT ![b] = s]
           c  == [m.cap EXCEPT ![b] = s]
           r  == [n.pref EXCEPT ![p] = 1]
           o  == [n.pbo EXCEPT ![p] = b]
           e  == [n.ext EXCEPT ![p] = 0]
           t  == [n.pdim EXCEPT ![p] = s]
           v  == NewPixmap(m, p, b, s)
<1>1. n = [m EXCEPT !.ref = rf, !.fb = f, !.size = z, !.cap = c]
  BY DEF NewBo
<1>2. v = [n EXCEPT !.pref = r, !.pbo = o, !.ext = e, !.pdim = t]
  BY DEF NewPixmap
<1>3. /\ m.ref \in [Bo -> Int] /\ m.fb \in [Bo -> BOOLEAN]
      /\ m.pref \in [Pix -> Int] /\ m.pbo \in [Pix -> Bo \cup {NoBo}]
      /\ m.ext \in [Pix -> Int]
  BY MemFields
<1>4. \A x \in Bo : /\ rf[x] = IF x = b THEN 1 ELSE m.ref[x]
                    /\ f[x] <=> (x # b /\ m.fb[x])
  BY <1>3
<1> HIDE DEF rf, f, z, c, n
<1>5. /\ n \in [ref : {rf}, fb : {f}, size : {z}, cap : {c}, pref : {m.pref},
                pbo : {m.pbo}, ext : {m.ext}, pdim : {m.pdim}, ok : {m.ok}]
  BY <1>1 DEF Mem
<1>6. n.pref = m.pref /\ n.pbo = m.pbo /\ n.ext = m.ext
  BY <1>5
<1>7. \A q \in Pix : /\ r[q] = IF q = p THEN 1 ELSE m.pref[q]
                     /\ o[q] = IF q = p THEN b ELSE m.pbo[q]
                     /\ e[q] = IF q = p THEN 0 ELSE m.ext[q]
  BY <1>3, <1>6
<1> HIDE DEF r, o, e, t, v
<1>8. /\ v.pref = r /\ v.pbo = o /\ v.ext = e /\ v.ref = rf /\ v.fb = f /\ v.ok = m.ok
  BY <1>2, <1>5
<1> QED BY <1>4, <1>7, <1>8 DEF v

\* armsoc_bo_add_fb
LEMMA AddFbForm ==
  ASSUME NEW m \in Mem, NEW b \in Bo
  PROVE  LET v == AddFb(m, b)
         IN  /\ v.pref = m.pref /\ v.pbo = m.pbo /\ v.ref = m.ref /\ v.ext = m.ext
             /\ \A x \in Bo : v.fb[x] <=> (x = b \/ m.fb[x])
             /\ m.ok /\ m.ref[b] > 0 /\ ~m.fb[b] => v.ok
<1> DEFINE f == [m.fb EXCEPT ![b] = TRUE]
           v == AddFb(m, b)
<1>1. m.fb \in [Bo -> BOOLEAN]
  BY MemFields
<1>2. v = [m EXCEPT !.fb = f, !.ok = @ /\ m.ref[b] > 0 /\ ~m.fb[b]]
  BY DEF AddFb
<1>3. \A x \in Bo : f[x] <=> (x = b \/ m.fb[x])
  BY <1>1
<1> HIDE DEF f, v
<1>4. /\ v.pref = m.pref /\ v.pbo = m.pbo /\ v.ref = m.ref /\ v.ext = m.ext
      /\ v.fb = f /\ v.ok = (m.ok /\ m.ref[b] > 0 /\ ~m.fb[b])
  BY <1>2 DEF Mem
<1> QED BY <1>3, <1>4 DEF v

\* armsoc_bo_rm_fb
LEMMA RmFbForm ==
  ASSUME NEW m \in Mem, NEW b \in Bo
  PROVE  LET v == RmFb(m, b)
         IN  /\ v.pref = m.pref /\ v.pbo = m.pbo /\ v.ref = m.ref /\ v.ext = m.ext
             /\ \A x \in Bo : v.fb[x] <=> (x # b /\ m.fb[x])
             /\ m.ok /\ m.ref[b] > 0 /\ m.fb[b] => v.ok
<1> DEFINE f == [m.fb EXCEPT ![b] = FALSE]
           v == RmFb(m, b)
<1>1. m.fb \in [Bo -> BOOLEAN]
  BY MemFields
<1>2. v = [m EXCEPT !.fb = f, !.ok = @ /\ m.ref[b] > 0 /\ m.fb[b]]
  BY DEF RmFb
<1>3. \A x \in Bo : f[x] <=> (x # b /\ m.fb[x])
  BY <1>1
<1> HIDE DEF f, v
<1>4. /\ v.pref = m.pref /\ v.pbo = m.pbo /\ v.ref = m.ref /\ v.ext = m.ext
      /\ v.fb = f /\ v.ok = (m.ok /\ m.ref[b] > 0 /\ m.fb[b])
  BY <1>2 DEF Mem
<1> QED BY <1>3, <1>4 DEF v

-----------------------------------------------------------------------------
(* What the counts say of the pixmaps and bos that are in use. *)

\* A count that is kept is a number, and what is in use is alive.
LEMMA InUse ==
  ASSUME NEW w \in World, NEW wn, WinsTyped(wn), Sound(w, wn)
  PROVE  /\ \A b \in Bo : w.mem.ref[b] \in Nat
         /\ \A p \in Pix : /\ w.mem.ext[p] \in Nat /\ w.mem.pref[p] \in Nat
                           /\ w.mem.pref[p] >= w.mem.ext[p]
         /\ \A p \in Pix : w.mem.pref[p] > 0 =>
              /\ w.mem.pbo[p] \in Bo /\ w.mem.ref[w.mem.pbo[p]] > 0
              /\ \A q \in Pix \ {p} : w.mem.pbo[q] # w.mem.pbo[p]
         /\ Root \in Pix /\ w.mem.pref[Root] > 0
         /\ \A d \in Draw : wn[d] # NoPix => wn[d] \in Pix /\ w.mem.pref[wn[d]] > 0
         /\ w.scanout \in Bo /\ w.mem.ref[w.scanout] > 0
         /\ \A k \in Cmd :
              /\ w.cmd[k].oldSrc \in Bo => w.mem.ref[w.cmd[k].oldSrc] > 0
              /\ w.cmd[k].oldDst \in Bo => w.mem.ref[w.cmd[k].oldDst] > 0
<1>0. w.mem \in Mem /\ w.scanout \in Bo /\ Root \in Pix
  BY WorldFields, SwapAssumption
<1> DEFINE m == w.mem
           H(b) == Held(m, w.buf, w.cmd, w.scanout, b)
<1>1. ASSUME NEW b \in Bo
      PROVE  /\ m.ref[b] \in Nat
             /\ \A p \in Pix : m.pbo[p] = b => m.ref[b] > 0
             /\ \A k \in Cmd : w.cmd[k].oldSrc = b \/ w.cmd[k].oldDst = b => m.ref[b] > 0
             /\ w.scanout = b => m.ref[b] > 0
  <2>1. m.ref[b] = H(b)
    BY DEF Sound, BosCounted
  <2>2. /\ H(b) \in Nat
        /\ \A p \in Pix : H(b) >= Is(m.pbo[p], b)
        /\ \A k \in Cmd : H(b) >= Is(w.cmd[k].oldSrc, b)
        /\ \A k \in Cmd : H(b) >= Is(w.cmd[k].oldDst, b)
        /\ H(b) >= Is(w.scanout, b)
    BY <1>0, HeldAtLeast
  <2> HIDE DEF H, m
  <2> QED BY <2>1, <2>2 DEF Is
<1>2. ASSUME NEW p \in Pix
      PROVE  /\ m.ext[p] \in Nat /\ m.pref[p] \in Nat /\ m.pref[p] >= m.ext[p]
             /\ p = Root => m.pref[p] > 0
             /\ \A d \in Draw : wn[d] = p => m.pref[p] > 0
  <2>1. m.ext[p] = Times(BufPixs(w.buf), p) /\ m.pref[p] = m.ext[p] + Windows(wn, p)
    BY DEF Sound, PixCounted
  <2>2. Times(BufPixs(w.buf), p) \in Nat
    BY PointsAtLeast
  <2>3. Windows(wn, p) \in Nat /\ \A d \in Draw : Windows(wn, p) >= Is(wn[d], p)
    BY WindowsAtLeast
  <2>4. p = Root => Windows(wn, p) = 1
    BY DEF Windows
  <2> HIDE DEF m
  <2> QED BY <2>1, <2>2, <2>3, <2>4 DEF Is
<1>3. \A p \in Pix : m.pref[p] > 0 =>
        /\ m.pbo[p] \in Bo
        /\ \A q \in Pix \ {p} : m.pbo[q] # m.pbo[p]
  BY MemAssumption DEF Sound, PixSound
<1>4. \A d \in Draw : wn[d] # NoPix => wn[d] \in Pix
  BY DEF WinsTyped
<1> HIDE DEF m
<1> QED BY <1>0, <1>1, <1>2, <1>3, <1>4 DEF m

\* So are the pixmap and the bo of a buffer, and a back buffer shares its
\* pixmap with nobody.
LEMMA InBuffers ==
  ASSUME NEW w \in World, NEW wn, WinsTyped(wn), Sound(w, wn),
         NEW x \in Buf, w.buf[x].ref > 0
  PROVE  /\ w.buf[x].pix[0] \in Pix /\ w.mem.ext[w.buf[x].pix[0]] > 0
         /\ w.mem.pref[w.buf[x].pix[0]] > 0
         /\ w.buf[x].bo \in Bo /\ w.mem.ref[w.buf[x].bo] > 0
         /\ w.buf[x].att = "back" =>
              /\ w.mem.pref[w.buf[x].pix[0]] = 1
              /\ w.mem.ext[w.buf[x].pix[0]] = 1
              /\ w.buf[x].pix[0] # Root
              /\ \A d \in Draw : wn[d] # w.buf[x].pix[0]
              /\ \A y \in Buf \ {x} : w.buf[y].pix[0] # w.buf[x].pix[0]
<1> DEFINE p == w.buf[x].pix[0]
           b == w.buf[x].bo
           m == w.mem
           H == Held(m, w.buf, w.cmd, w.scanout, b)
<1>1. p \in Pix /\ b \in Bo /\ (w.buf[x].att = "back" => m.pref[p] = 1)
  BY DEF Sound, BufSound
<1>2. m.ref[b] = H /\ H >= Is(b, b) /\ H \in Nat
  <2>1. m \in Mem
    BY WorldFields
  <2> QED BY <1>1, <2>1, HeldAtLeast DEF Sound, BosCounted
<1>3. m.ext[p] = Times(BufPixs(w.buf), p) /\ m.pref[p] = m.ext[p] + Windows(wn, p)
  BY <1>1 DEF Sound, PixCounted
<1>4. /\ Times(BufPixs(w.buf), p) \in Nat
      /\ Times(BufPixs(w.buf), p) >= Is(p, p)
      /\ \A y \in Buf \ {x} : w.buf[y].pix[0] = p => Times(BufPixs(w.buf), p) >= 2
  BY PointsAtLeast
<1>5. /\ Windows(wn, p) \in Nat
      /\ \A d \in Draw : wn[d] = p => Windows(wn, p) >= 1
      /\ p = Root => Windows(wn, p) = 1
  BY WindowsAtLeast DEF Is, Windows
<1>6. Is(p, p) = 1 /\ Is(b, b) = 1
  BY DEF Is
<1> HIDE DEF H, p, b, m
<1>7. m.ref[b] > 0
  BY <1>2, <1>6
<1>8. m.ext[p] > 0 /\ m.pref[p] > 0
  BY <1>3, <1>4, <1>5, <1>6
<1>9. ASSUME w.buf[x].att = "back"
      PROVE  /\ m.ext[p] = 1 /\ p # Root
             /\ \A d \in Draw : wn[d] # p
             /\ \A y \in Buf \ {x} : w.buf[y].pix[0] # p
  <2>1. m.ext[p] = 1 /\ Windows(wn, p) = 0
    BY <1>1, <1>3, <1>4, <1>5, <1>6, <1>9
  <2>2. \A d \in Draw : wn[d] # p
    BY <1>5, <2>1
  <2>3. \A y \in Buf \ {x} : w.buf[y].pix[0] # p
    BY <1>3, <1>4, <2>1
  <2>4. p # Root
    BY <1>5, <2>1
  <2> QED BY <2>1, <2>2, <2>3, <2>4
<1> QED BY <1>1, <1>7, <1>8, <1>9, Zenon DEF p, b, m

LEMMA BackBuffers ==
  ASSUME NEW w \in World, NEW wn, WinsTyped(wn), Sound(w, wn)
  PROVE  \A x \in Buf : w.buf[x].ref > 0 =>
           /\ w.buf[x].pix[0] \in Pix /\ w.buf[x].bo \in Bo
           /\ w.mem.pref[w.buf[x].pix[0]] > 0
           /\ w.buf[x].att = "back" =>
                /\ w.mem.pref[w.buf[x].pix[0]] = 1 /\ w.buf[x].pix[0] # Root
                /\ \A d \in Draw : wn[d] # w.buf[x].pix[0]
<1> TAKE x \in Buf
<1> HAVE w.buf[x].ref > 0
<1> QED BY InBuffers

-----------------------------------------------------------------------------
(* What the screen, a window and a command have. *)

\* The screen pixmap is around the scanout bo, which has an fb.
ScreenSound(w) == w.mem.pbo[Root] = w.scanout /\ w.mem.fb[w.scanout]

\* A window that has buffers has both. A back buffer with an fb is there to be
\* flipped to the screen, so its front is the screen pixmap, and no window has
\* the front of another one.
WinSound(w, wn, e) ==
  LET b == w.priv[e].back
      f == w.priv[e].front
  IN  b # NoBuf =>
        /\ f # NoBuf /\ wn[e] # NoPix
        /\ w.buf[b].ref > 0 /\ w.buf[b].att = "back"
        /\ w.buf[f].ref > 0 /\ w.buf[f].att = "front"
        /\ w.mem.fb[w.mem.pbo[w.buf[b].pix[0]]] => w.buf[f].pix[0] = Root
        /\ wn[e] # Root /\ w.mem.fb[w.mem.pbo[wn[e]]] =>
             w.buf[f].pix[0] \in {Root, wn[e]}
        /\ \A g \in Draw \ {e} : w.buf[f].pix[0] = wn[g] => wn[g] = Root

\* A command in flight holds two bos, and only a flip can fail half way.
CmdHolds(c) ==
  c.live => /\ Whole(c) /\ c.oldSrc \in Bo /\ c.oldDst \in Bo
            /\ c.type = "none" => ~c.fail

\* One that has not failed and whose window is there is a swap of the buffers
\* that the window has, and what it holds is what they still show; but the
\* screen may have got another bo.
CmdSound(w, wn, k) ==
  LET c == w.cmd[k]
  IN  c.live /\ ~c.fail /\ wn[c.draw] # NoPix =>
        /\ w.priv[c.draw].back = c.src /\ w.priv[c.draw].front = c.dst
        /\ w.mem.pbo[w.buf[c.src].pix[0]] = c.oldSrc
        /\ w.buf[c.dst].pix[0] # Root => w.mem.pbo[w.buf[c.dst].pix[0]] = c.oldDst
        /\ c.type = "flip" => w.mem.fb[c.oldSrc]

\* All this, for the windows of D and the commands of K.
SwapInv(w, wn, D, K) ==
  /\ Sound(w, wn)
  /\ \A e \in D : WinSound(w, wn, e)
  /\ \A k \in K : CmdHolds(w.cmd[k]) /\ (w.cmd[k].draw \in D => CmdSound(w, wn, k))

-----------------------------------------------------------------------------
(* What a call may change without disturbing the windows of D. *)

\* A pixmap that lives before and after keeps its bo, and a bo its fb.
Kept(w, v) ==
  /\ \A p \in Pix \ {Root} :
       w.mem.pref[p] > 0 /\ v.mem.pref[p] > 0 => v.mem.pbo[p] = w.mem.pbo[p]
  /\ \A b \in Bo :
       w.mem.ref[b] > 0 /\ v.mem.ref[b] > 0 => (v.mem.fb[b] <=> w.mem.fb[b])

SameScreen(w, v) == /\ v.scanout = w.scanout
                    /\ v.mem.pbo[Root] = w.mem.pbo[Root]

\* A command goes on as it was, or ends.
CmdKept(w, v, K) ==
  \A k \in K :
    LET c == w.cmd[k]
        n == v.cmd[k]
    IN  n.live => /\ c.live /\ n.draw = c.draw /\ n.src = c.src /\ n.dst = c.dst
                  /\ n.oldSrc = c.oldSrc /\ n.oldDst = c.oldDst /\ n.fail = c.fail
                  /\ n.type \in {"none", "flip"} => n.type = c.type

BufKept(w, v, x) ==
  v.buf[x].ref > 0 /\ v.buf[x].att = w.buf[x].att /\ v.buf[x].pix[0] = w.buf[x].pix[0]

\* The windows of D keep their buffers.
HoldsKept(w, v, D) ==
  \A e \in D :
    LET b == w.priv[e].back
        f == w.priv[e].front
    IN  /\ v.priv[e].back = b /\ v.priv[e].front = f
        /\ b # NoBuf => BufKept(w, v, b) /\ BufKept(w, v, f)

\* The windows of D stay where they are, and a window only moves to the screen
\* pixmap or to one that is made for it.
WinsKept(w, v, wn, vn, D) ==
  /\ \A e \in D : wn[e] = NoPix <=> vn[e] = NoPix
  /\ \A g \in Draw : \/ vn[g] = wn[g]
                     \/ vn[g] \in {Root, NoPix}
                     \/ w.mem.pref[vn[g]] = 0 /\ ~v.mem.fb[v.mem.pbo[vn[g]]]

\* Such a call keeps the windows of D sound.
LEMMA WinKept ==
  ASSUME NEW w \in World, NEW v \in World,
         NEW wn, WinsTyped(wn), NEW vn, WinsTyped(vn),
         Sound(w, wn), Sound(v, vn), Kept(w, v),
         NEW D \in SUBSET Draw, HoldsKept(w, v, D), WinsKept(w, v, wn, vn, D),
         NEW e \in D, WinSound(w, wn, e)
  PROVE  WinSound(v, vn, e)
<1> DEFINE b == w.priv[e].back
           f == w.priv[e].front
<1>1. v.priv[e].back = b /\ v.priv[e].front = f
  BY DEF HoldsKept
<1> SUFFICES ASSUME b # NoBuf
             PROVE  /\ f # NoBuf /\ vn[e] # NoPix
                    /\ v.buf[b].ref > 0 /\ v.buf[b].att = "back"
                    /\ v.buf[f].ref > 0 /\ v.buf[f].att = "front"
                    /\ v.mem.fb[v.mem.pbo[v.buf[b].pix[0]]] => v.buf[f].pix[0] = Root
                    /\ vn[e] # Root /\ v.mem.fb[v.mem.pbo[vn[e]]] =>
                         v.buf[f].pix[0] \in {Root, vn[e]}
                    /\ \A g \in Draw \ {e} : v.buf[f].pix[0] = vn[g] => vn[g] = Root
  BY <1>1, Zenon DEF WinSound
<1>2. /\ f # NoBuf /\ wn[e] # NoPix
      /\ w.buf[b].ref > 0 /\ w.buf[b].att = "back"
      /\ w.buf[f].ref > 0 /\ w.buf[f].att = "front"
      /\ w.mem.fb[w.mem.pbo[w.buf[b].pix[0]]] => w.buf[f].pix[0] = Root
      /\ wn[e] # Root /\ w.mem.fb[w.mem.pbo[wn[e]]] =>
           w.buf[f].pix[0] \in {Root, wn[e]}
      /\ \A g \in Draw \ {e} : w.buf[f].pix[0] = wn[g] => wn[g] = Root
  BY Zenon DEF WinSound
<1>3. /\ v.buf[b].ref > 0 /\ v.buf[b].att = "back"
      /\ v.buf[f].ref > 0 /\ v.buf[f].att = "front"
      /\ v.buf[b].pix[0] = w.buf[b].pix[0] /\ v.buf[f].pix[0] = w.buf[f].pix[0]
  BY <1>2, Zenon DEF HoldsKept, BufKept
<1>4. b \in Buf
  BY WorldFields, PrivFields
<1> DEFINE p == w.buf[b].pix[0]
<1>5. /\ p \in Pix \ {Root} /\ w.mem.pref[p] > 0 /\ v.mem.pref[p] > 0
  BY <1>2, <1>3, <1>4, InBuffers, Zenon
<1>6. \A q \in Pix \ {Root} : w.mem.pref[q] > 0 /\ v.mem.pref[q] > 0 =>
        v.mem.pbo[q] = w.mem.pbo[q] /\ (v.mem.fb[v.mem.pbo[q]] <=> w.mem.fb[w.mem.pbo[q]])
  <2>1. \A q \in Pix : w.mem.pref[q] > 0 =>
                         w.mem.pbo[q] \in Bo /\ w.mem.ref[w.mem.pbo[q]] > 0
    BY InUse
  <2>2. \A q \in Pix : v.mem.pref[q] > 0 =>
                         v.mem.pbo[q] \in Bo /\ v.mem.ref[v.mem.pbo[q]] > 0
    BY InUse
  <2> QED BY <2>1, <2>2 DEF Kept
<1>7. wn[e] # Root /\ vn[e] = wn[e] =>
        /\ wn[e] \in Pix \ {Root}
        /\ w.mem.pref[wn[e]] > 0 /\ v.mem.pref[wn[e]] > 0
  <2>1. wn[e] \in Pix /\ w.mem.pref[wn[e]] > 0
    BY <1>2, InUse, Zenon
  <2>2. vn[e] = wn[e] => v.mem.pref[wn[e]] > 0
    BY <1>2, InUse, Zenon
  <2> QED BY <2>1, <2>2
<1>8. /\ v.mem.pbo[p] = w.mem.pbo[p]
      /\ v.mem.fb[v.mem.pbo[p]] <=> w.mem.fb[w.mem.pbo[p]]
  BY <1>5, <1>6, Zenon
<1>9. wn[e] # Root /\ vn[e] = wn[e] =>
        (v.mem.fb[v.mem.pbo[wn[e]]] <=> w.mem.fb[w.mem.pbo[wn[e]]])
  BY <1>6, <1>7
<1>a. f \in Buf
  BY <1>2, WorldFields, PrivFields, Zenon
<1>b. w.buf[f].pix[0] \in Pix /\ w.mem.pref[w.buf[f].pix[0]] > 0
  BY <1>2, <1>a, InBuffers, Zenon
<1>c. vn[e] # NoPix
  BY <1>2, Zenon DEF WinsKept
<1>d. \A g \in Draw : \/ vn[g] = wn[g]
                      \/ vn[g] \in {Root, NoPix}
                      \/ w.mem.pref[vn[g]] = 0 /\ ~v.mem.fb[v.mem.pbo[vn[g]]]
  BY DEF WinsKept
<1> HIDE DEF b, f
<1>10. v.mem.fb[v.mem.pbo[v.buf[b].pix[0]]] => v.buf[f].pix[0] = Root
  BY <1>2, <1>3, <1>8, Zenon
<1>11. vn[e] # Root /\ v.mem.fb[v.mem.pbo[vn[e]]] => v.buf[f].pix[0] \in {Root, vn[e]}
  BY <1>2, <1>3, <1>9, <1>c, <1>d, Zenon
<1>12. \A g \in Draw \ {e} : v.buf[f].pix[0] = vn[g] => vn[g] = Root
  <2> SUFFICES ASSUME NEW g \in Draw \ {e}, v.buf[f].pix[0] = vn[g], vn[g] # Root
               PROVE  FALSE
    OBVIOUS
  <2>1. vn[g] = w.buf[f].pix[0] /\ vn[g] # NoPix
    BY <1>3, <1>b, MemAssumption
  <2>2. ~(w.mem.pref[vn[g]] = 0)
    BY <1>b, <2>1
  <2>3. vn[g] = wn[g]
    BY <1>d, <2>1, <2>2
  <2> QED BY <1>2, <2>1, <2>3, Zenon
<1> QED BY <1>2, <1>3, <1>10, <1>11, <1>12, <1>c, Zenon

\* It keeps their commands sound.
LEMMA SwapKept ==
  ASSUME NEW w \in World, NEW v \in World,
         NEW wn, WinsTyped(wn), NEW vn, WinsTyped(vn),
         Sound(w, wn), Sound(v, vn), Kept(w, v),
         NEW D \in SUBSET Draw, HoldsKept(w, v, D), WinsKept(w, v, wn, vn, D),
         \A e \in D : WinSound(w, wn, e),
         NEW K \in SUBSET Cmd, CmdKept(w, v, K),
         NEW k \in K, w.cmd[k].draw \in D, CmdHolds(w.cmd[k]), CmdSound(w, wn, k)
  PROVE  CmdSound(v, vn, k)
<1> DEFINE c == w.cmd[k]
           n == v.cmd[k]
           d == c.draw
<1> SUFFICES ASSUME n.live, ~n.fail, vn[n.draw] # NoPix
             PROVE  /\ v.priv[n.draw].back = n.src /\ v.priv[n.draw].front = n.dst
                    /\ v.mem.pbo[v.buf[n.src].pix[0]] = n.oldSrc
                    /\ v.buf[n.dst].pix[0] # Root =>
                         v.mem.pbo[v.buf[n.dst].pix[0]] = n.oldDst
                    /\ n.type = "flip" => v.mem.fb[n.oldSrc]
  BY Zenon DEF CmdSound
<1>1. /\ c.live /\ n.draw = d /\ n.src = c.src /\ n.dst = c.dst
      /\ n.oldSrc = c.oldSrc /\ n.oldDst = c.oldDst /\ n.fail = c.fail
      /\ n.type = "flip" => c.type = "flip"
  BY DEF CmdKept
<1>2. /\ w.priv[d].back = c.src /\ w.priv[d].front = c.dst
      /\ w.mem.pbo[w.buf[c.src].pix[0]] = c.oldSrc
      /\ w.buf[c.dst].pix[0] # Root => w.mem.pbo[w.buf[c.dst].pix[0]] = c.oldDst
      /\ c.type = "flip" => w.mem.fb[c.oldSrc]
  <2>1. wn[d] # NoPix
    BY <1>1 DEF WinsKept
  <2> QED BY <1>1, <2>1, Zenon DEF CmdSound
<1>3. c.src \in Buf /\ c.dst \in Buf /\ c.oldSrc \in Bo
  BY <1>1 DEF CmdHolds, Whole
<1>4. /\ w.buf[c.src].ref > 0 /\ w.buf[c.src].att = "back" /\ w.buf[c.dst].ref > 0
  <2>1. WinSound(w, wn, d) /\ w.priv[d].back # NoBuf
    BY <1>2, <1>3, SwapAssumption, Zenon
  <2> QED BY <1>2, <2>1, Zenon DEF WinSound
<1>5. /\ v.priv[d].back = c.src /\ v.priv[d].front = c.dst
      /\ BufKept(w, v, c.src) /\ BufKept(w, v, c.dst)
  BY <1>2, <1>3, SwapAssumption, Zenon DEF HoldsKept
<1> DEFINE p == w.buf[c.src].pix[0]
           q == w.buf[c.dst].pix[0]
<1>6. /\ v.buf[c.src].pix[0] = p /\ v.buf[c.dst].pix[0] = q
      /\ v.buf[c.src].ref > 0 /\ v.buf[c.dst].ref > 0
  BY <1>5, Zenon DEF BufKept
<1>7. /\ p \in Pix \ {Root} /\ w.mem.pref[p] > 0 /\ v.mem.pref[p] > 0
      /\ q \in Pix /\ w.mem.pref[q] > 0 /\ v.mem.pref[q] > 0
  <2>b. \A x \in Buf : w.buf[x].ref > 0 /\ w.buf[x].att = "back" =>
          /\ w.buf[x].pix[0] \in Pix /\ w.buf[x].pix[0] # Root
          /\ w.mem.pref[w.buf[x].pix[0]] > 0
    <3>1. w \in World /\ WinsTyped(wn) /\ Sound(w, wn)
      OBVIOUS
    <3> QED BY ONLY <3>1, BackBuffers, Zenon
  <2>1. p \in Pix /\ p # Root /\ w.mem.pref[p] > 0
    BY <1>3, <1>4, <2>b, Zenon
  <2>a. q \in Pix /\ w.mem.pref[q] > 0
    BY <1>3, <1>4, InBuffers, Zenon
  <2>2. v.mem.pref[p] > 0 /\ v.mem.pref[q] > 0
    BY <1>3, <1>6, InBuffers, Zenon
  <2> QED BY <2>1, <2>a, <2>2, Zenon
<1>8. v.mem.pbo[p] = w.mem.pbo[p] /\ (q # Root => v.mem.pbo[q] = w.mem.pbo[q])
  BY <1>7, Zenon DEF Kept
<1>9. v.mem.fb[c.oldSrc] <=> w.mem.fb[c.oldSrc]
  <2>1. w.mem.ref[c.oldSrc] > 0 /\ v.mem.ref[c.oldSrc] > 0
    BY <1>1, <1>3, InUse, Zenon
  <2> QED BY <1>3, <2>1 DEF Kept
<1> QED BY <1>1, <1>2, <1>5, <1>6, <1>8, <1>9, Zenon

\* So it keeps the invariant if it keeps the counts.
LEMMA Frame ==
  ASSUME NEW w \in World, NEW v \in World,
         NEW wn, WinsTyped(wn), NEW vn, WinsTyped(vn),
         NEW D \in SUBSET Draw, NEW K \in SUBSET Cmd, SwapInv(w, wn, D, K),
         Sound(v, vn), Kept(w, v),
         CmdKept(w, v, K), HoldsKept(w, v, D), WinsKept(w, v, wn, vn, D)
  PROVE  SwapInv(v, vn, D, K)
<1>1. \A e \in D : WinSound(v, vn, e)
  BY WinKept DEF SwapInv
<1>2. ASSUME NEW k \in K
      PROVE  CmdHolds(v.cmd[k]) /\ (v.cmd[k].draw \in D => CmdSound(v, vn, k))
  <2>1. CmdHolds(w.cmd[k])
    BY DEF SwapInv
  <2>2. CASE ~v.cmd[k].live
    BY <2>2, Zenon DEF CmdHolds, CmdSound
  <2>3. CASE v.cmd[k].live
    <3>1. CmdHolds(v.cmd[k])
      BY <2>1, <2>3 DEF CmdKept, CmdHolds, Whole
    <3>2. v.cmd[k].draw = w.cmd[k].draw
      BY <2>3 DEF CmdKept
    <3>3. w.cmd[k].draw \in D => CmdSound(w, wn, k)
      BY DEF SwapInv
    <3> QED BY <2>1, <3>1, <3>2, <3>3, SwapKept DEF SwapInv
  <2> QED BY <2>2, <2>3
<1> QED BY <1>1, <1>2 DEF SwapInv

\* The screen stays sound if it stays the same.
LEMMA ScreenKept ==
  ASSUME NEW w \in World, NEW v \in World,
         NEW wn, WinsTyped(wn), NEW vn, WinsTyped(vn),
         Sound(w, wn), Sound(v, vn), Kept(w, v), ScreenSound(w), SameScreen(w, v)
  PROVE  ScreenSound(v)
<1>1. w.scanout \in Bo /\ w.mem.ref[w.scanout] > 0
  BY InUse
<1>2. v.mem.ref[v.scanout] > 0
  BY InUse
<1> QED BY <1>1, <1>2 DEF ScreenSound, SameScreen, Kept

\* The whole invariant.
MemInv(w, wn, D, K) == SwapInv(w, wn, D, K) /\ ScreenSound(w)

\* Everything but memory and buffers is the same.
SameRest(w, v) == SameSwaps(w, v) /\ v.scanout = w.scanout

\* The buffers of the windows of D are spared.
Spared(w, v, D) ==
  \A e \in D : w.priv[e].back # NoBuf =>
    \A x \in {w.priv[e].back, w.priv[e].front} : x \in Buf => BufKept(w, v, x)

\* A call that only works on memory and on buffers of other windows.
LEMMA Call ==
  ASSUME NEW w \in World, NEW v \in World, NEW wn, WinsTyped(wn),
         NEW D \in SUBSET Draw, NEW K \in SUBSET Cmd, MemInv(w, wn, D, K),
         Sound(v, wn), Kept(w, v), SameRest(w, v),
         v.mem.pbo[Root] = w.mem.pbo[Root], Spared(w, v, D)
  PROVE  MemInv(v, wn, D, K)
<1>1. HoldsKept(w, v, D)
  <2> SUFFICES ASSUME NEW e \in D
               PROVE  /\ v.priv[e].back = w.priv[e].back
                      /\ v.priv[e].front = w.priv[e].front
                      /\ w.priv[e].back # NoBuf => /\ BufKept(w, v, w.priv[e].back)
                                                   /\ BufKept(w, v, w.priv[e].front)
    BY DEF HoldsKept
  <2>1. v.priv = w.priv
    BY DEF SameRest, SameSwaps
  <2>2. w.priv[e].back \in Buf \cup {NoBuf} /\ w.priv[e].front \in Buf \cup {NoBuf}
    BY WorldFields, PrivFields
  <2>3. w.priv[e].back # NoBuf => w.priv[e].front # NoBuf
    BY Zenon DEF MemInv, SwapInv, WinSound
  <2> QED BY <2>1, <2>2, <2>3 DEF Spared
<1>2. CmdKept(w, v, K)
  BY DEF CmdKept, SameRest, SameSwaps
<1>3. WinsKept(w, v, wn, wn, D)
  BY DEF WinsKept
<1>4. SwapInv(v, wn, D, K)
  BY <1>1, <1>2, <1>3, Frame DEF MemInv
<1>5. ScreenSound(v)
  BY ScreenKept DEF MemInv, SwapInv, SameScreen, SameRest
<1> QED BY <1>4, <1>5 DEF MemInv

\* Sound is about what holds pixmaps and bos only.
LEMMA SameHolders ==
  ASSUME NEW w \in World, NEW v \in World, NEW wn, Sound(w, wn),
         v.mem = w.mem, v.scanout = w.scanout,
         \A k \in Cmd : /\ v.cmd[k].oldSrc = w.cmd[k].oldSrc
                        /\ v.cmd[k].oldDst = w.cmd[k].oldDst,
         \A x \in Buf : \/ v.buf[x] = w.buf[x]
                        \/ /\ w.buf[x].ref > 0 /\ v.buf[x].ref > 0
                           /\ v.buf[x].pix[0] = w.buf[x].pix[0]
                           /\ v.buf[x].bo = w.buf[x].bo
                           /\ v.buf[x].att = w.buf[x].att
  PROVE  Sound(v, wn) /\ Kept(w, v)
<1>1. \A x \in Buf : v.buf[x].pix[0] = w.buf[x].pix[0] /\ v.buf[x].bo = w.buf[x].bo
  OBVIOUS
<1>2. BufPixs(v.buf) = BufPixs(w.buf) /\ BufBos(v.buf) = BufBos(w.buf)
  BY <1>1 DEF BufPixs, BufBos
<1>3. OldSrcs(v.cmd) = OldSrcs(w.cmd) /\ OldDsts(v.cmd) = OldDsts(w.cmd)
  BY DEF OldSrcs, OldDsts
<1>4. BosCounted(v)
  BY <1>2, <1>3 DEF Sound, BosCounted, Held
<1>5. PixCounted(v, wn)
  BY <1>2 DEF Sound, PixCounted
<1>6. BufSound(v)
  BY DEF Sound, BufSound
<1> QED BY <1>4, <1>5, <1>6 DEF Sound, Kept

-----------------------------------------------------------------------------
(* Destroying buffers *)

\* With double buffering a buffer has one pixmap.
LEMMA OnePixmap ==
  ASSUME NumBufs = 2
  PROVE  /\ Slots = {0}
         /\ \A att : NumPixmaps(att) = 1
         /\ \A r \in BufRec : r.cur = 0 /\ r.num = 1
<1>1. Slots = {0}
  BY DEF Slots
<1>2. \A att : NumPixmaps(att) = 1
  BY DEF NumPixmaps
<1>3. ASSUME NEW r \in BufRec PROVE r.cur = 0 /\ r.num = 1
  BY <1>1, BufFields
<1> QED BY <1>1, <1>2, <1>3

\* No free bo is taken.
KeepsFree(w, v) == FreeBo(w) \subseteq FreeBo(v)

\* destroyBufferResources and the free of the buffer keep the counts.
LEMMA DestroyResources ==
  ASSUME NumBufs = 2, NEW w \in World, NEW wn, WinsTyped(wn), Sound(w, wn),
         NEW x \in Buf, w.buf[x].ref > 0
  PROVE  LET v == [w EXCEPT !.mem = DestroyBufferResources(w.mem, w.buf[x]),
                            !.buf[x] = NoBufRec]
         IN  /\ v \in World /\ SameRest(w, v)
             /\ \A y \in Buf \ {x} : v.buf[y] = w.buf[y]
             /\ v.buf[x] = NoBufRec
             /\ Sound(v, wn) /\ Kept(w, v) /\ KeepsFree(w, v)
             /\ v.mem.pbo[Root] = w.mem.pbo[Root]
             /\ w.buf[x].att = "back" => FreePix(v) # {}
<1> DEFINE r  == w.buf[x]
           p  == r.pix[0]
           m  == w.mem
           m1 == Deregister(m, {p})
           m2 == DropPixmaps(m1, {p})
           n  == BoUnref(m2, r.bo)
           f  == [w.buf EXCEPT ![x] = NoBufRec]
           v  == [w EXCEPT !.mem = n, !.buf = f]
           i  == IF m.pref[p] = 1 THEN m.pbo[p] ELSE NoBo
<1>0. m \in Mem /\ w.buf \in [Buf -> BufRec] /\ r \in BufRec
  BY WorldFields
<1>1. DestroyBufferResources(m, r) = n
  <2>1. {r.pix[j] : j \in {j \in 0 .. NumPixmaps(r.att) - 1 :
                             \A l \in 0 .. j : r.pix[l] # NoPix}} = {p}
    <3>1. p # NoPix /\ NumPixmaps(r.att) = 1
      BY InBuffers, OnePixmap, MemAssumption
    <3>2. {j \in 0 .. NumPixmaps(r.att) - 1 : \A l \in 0 .. j : r.pix[l] # NoPix} = {0}
      BY <3>1
    <3> QED BY <3>2
  <2> HIDE DEF r
  <2> QED BY <2>1 DEF DestroyBufferResources
<1>2. /\ p \in Pix /\ m.ext[p] > 0 /\ m.pref[p] > 0 /\ r.bo \in Bo
      /\ r.att = "back" => m.pref[p] = 1
  BY InBuffers, Zenon
<1>3. /\ \A b \in Bo : m.ref[b] \in Nat
      /\ \A q \in Pix : /\ m.ext[q] \in Nat /\ m.pref[q] \in Nat
                        /\ m.pref[q] >= m.ext[q]
      /\ \A q \in Pix : m.pref[q] > 0 => /\ m.pbo[q] \in Bo
                                         /\ \A s \in Pix \ {q} : m.pbo[s] # m.pbo[q]
      /\ Root \in Pix /\ m.pref[Root] > 0
  BY InUse
<1>4. /\ m1 \in Mem /\ m2 \in Mem /\ n \in Mem
  <2>1. m1 \in Mem
    BY <1>0, DeregisterType
  <2>2. m2 \in Mem
    BY <1>2, <2>1, DropPixmapsType
  <2> HIDE DEF m1, m2
  <2> QED BY <2>1, <2>2, BoUnrefType
<1>5. /\ m1.pref = m.pref /\ m1.pbo = m.pbo /\ m1.ref = m.ref /\ m1.fb = m.fb
      /\ \A q \in Pix : m1.ext[q] = m.ext[q] - Is(p, q)
      /\ m1.ok
  BY <1>0, <1>2, DeregisterForm DEF Sound
<1> HIDE DEF m1
<1>6. /\ m2.ext = m1.ext
      /\ \A q \in Pix : /\ m2.pref[q] = m.pref[q] - Is(p, q)
                        /\ m2.pbo[q] = IF q = p /\ m.pref[p] = 1 THEN NoBo
                                       ELSE m.pbo[q]
      /\ \A b \in Bo : /\ m2.ref[b] = m.ref[b] - Is(i, b)
                       /\ m2.ref[b] > 0 => (m2.fb[b] <=> m.fb[b])
      /\ /\ m1.pref[p] > 0 /\ (m1.pref[p] = 1 => m1.ext[p] = 0)
         /\ \A b \in Bo : m2.ref[b] >= 0
         => m2.ok
  <2> DEFINE k == IF m1.pref[p] = 1 THEN m1.pbo[p] ELSE NoBo
  <2>1. /\ m2.ext = m1.ext
        /\ \A q \in Pix : /\ m2.pref[q] = m1.pref[q] - Is(p, q)
                          /\ m2.pbo[q] = IF q = p /\ m1.pref[p] = 1 THEN NoBo
                                         ELSE m1.pbo[q]
        /\ \A b \in Bo : /\ m2.ref[b] = m1.ref[b] - Is(k, b)
                         /\ m2.ref[b] > 0 => (m2.fb[b] <=> m1.fb[b])
        /\ /\ m1.ok /\ m1.pref[p] > 0 /\ (m1.pref[p] = 1 => m1.ext[p] = 0)
           /\ \A b \in Bo : m2.ref[b] >= 0
           => m2.ok
    <3> HIDE DEF p
    <3> QED BY <1>2, <1>4, DropForm
  <2> HIDE DEF m2, p, m
  <2> QED BY <1>5, <2>1
<1> HIDE DEF m2
<1>7. /\ n.pref = m2.pref /\ n.ext = m2.ext /\ n.pbo = m2.pbo
      /\ \A b \in Bo : n.ref[b] = m2.ref[b] - Is(r.bo, b)
      /\ \A b \in Bo : n.ref[b] > 0 => (n.fb[b] <=> m2.fb[b])
      /\ m2.ok /\ m2.ref[r.bo] > 0 => n.ok
  BY <1>2, <1>4, BoUnrefForm
<1> HIDE DEF n
<1>8. /\ v \in World /\ SameRest(w, v)
      /\ v.mem = n /\ v.buf = f /\ v.cmd = w.cmd /\ v.scanout = w.scanout
      /\ v.hw = w.hw
  <2>1. f \in [Buf -> BufRec]
    BY <1>0, NoBufRecType
  <2> HIDE DEF f
  <2> QED BY <1>4, <2>1 DEF World, SameRest, SameSwaps
<1>9. v = [w EXCEPT !.mem = DestroyBufferResources(w.mem, w.buf[x]),
                    !.buf[x] = NoBufRec]
  BY <1>1
<1> HIDE DEF v
<1>10. \A y \in Buf : f[y] = IF y = x THEN NoBufRec ELSE w.buf[y]
  BY <1>0
<1> HIDE DEF f
<1>11. /\ NoBufRec.pix[0] = NoPix /\ NoBufRec.bo = NoBo /\ NoBufRec.ref = 0
       /\ \A q \in Pix : Is(NoPix, q) = 0
       /\ \A b \in Bo : Is(NoBo, b) = 0
       /\ \A a, b : Is(a, b) \in {0, 1}
  BY MemAssumption, SlotZero DEF NoBufRec, Is
<1>12. ASSUME NEW q \in Pix
       PROVE  /\ n.ext[q] = Times(BufPixs(f), q)
              /\ n.pref[q] = n.ext[q] + Windows(wn, q)
              /\ n.pref[q] >= 0
  <2>1. m.ext[q] = Times(BufPixs(w.buf), q) /\ m.pref[q] = m.ext[q] + Windows(wn, q)
    BY DEF Sound, PixCounted
  <2>2. Times(BufPixs(f), q) = Times(BufPixs(w.buf), q) + Is(NoPix, q) - Is(p, q)
    <3>1. \A y \in Buf \ {x} : f[y].pix[0] = w.buf[y].pix[0]
      BY <1>10
    <3>2. f[x].pix[0] = NoPix
      BY <1>10, <1>11
    <3> DEFINE bf == w.buf
    <3>3. \A y \in Buf \ {x} : f[y].pix[0] = bf[y].pix[0]
      BY <3>1
    <3> HIDE DEF bf
    <3>4. Times(BufPixs(f), q) = Times(BufPixs(bf), q) + Is(f[x].pix[0], q) - Is(bf[x].pix[0], q)
      BY <3>3, PointsByBuffer
    <3> QED BY <3>2, <3>4 DEF bf
  <2>3. Windows(wn, q) \in Nat /\ Times(BufPixs(w.buf), q) \in Nat
        /\ Times(BufPixs(f), q) \in Nat
    BY WindowsAtLeast, PointsAtLeast
  <2> HIDE DEF m, p, r
  <2> QED BY <1>5, <1>6, <1>7, <1>11, <2>1, <2>2, <2>3
<1>13. ASSUME NEW b \in Bo
       PROVE  n.ref[b] = Held(n, f, w.cmd, w.scanout, b) /\ n.ref[b] \in Nat
  <2>1. m.ref[b] = Held(m, w.buf, w.cmd, w.scanout, b)
    BY DEF Sound, BosCounted
  <2>2. Held(n, w.buf, w.cmd, w.scanout, b)
          = Held(m, w.buf, w.cmd, w.scanout, b) + Is(n.pbo[p], b) - Is(m.pbo[p], b)
    <3>1. \A q \in Pix \ {p} : n.pbo[q] = m.pbo[q]
      BY <1>6, <1>7
    <3> QED BY <1>0, <1>2, <1>4, <3>1, HeldByPixmap
  <2>3. Held(n, f, w.cmd, w.scanout, b)
          = Held(n, w.buf, w.cmd, w.scanout, b) + Is(NoBo, b) - Is(r.bo, b)
    <3>1. \A y \in Buf \ {x} : f[y].bo = w.buf[y].bo
      BY <1>10
    <3>2. f[x].bo = NoBo
      BY <1>10, <1>11
    <3> DEFINE bf == w.buf
               cm == w.cmd
               sc == w.scanout
    <3>3. \A y \in Buf \ {x} : f[y].bo = bf[y].bo
      BY <3>1
    <3> HIDE DEF bf, cm, sc
    <3>4. Times(BufBos(f), b) = Times(BufBos(bf), b) + Is(f[x].bo, b) - Is(bf[x].bo, b)
      BY <3>3, HeldByBuffer
    <3>5. /\ Times(n.pbo, b) \in Nat
          /\ Times(BufBos(bf), b) \in Nat /\ Times(BufBos(f), b) \in Nat
          /\ Times(OldSrcs(cm), b) \in Nat /\ Times(OldDsts(cm), b) \in Nat
          /\ \A a, c : Is(a, c) \in {0, 1}
      BY <1>4, HeldTypes
    <3> HIDE DEF p
    <3>6. Held(n, f, cm, sc, b) = Held(n, bf, cm, sc, b) + Is(f[x].bo, b) - Is(bf[x].bo, b)
      BY <3>4, <3>5 DEF Held
    <3> QED BY <3>2, <3>6 DEF bf, cm, sc
  <2>4. Is(n.pbo[p], b) - Is(m.pbo[p], b) = -Is(i, b)
    <3>1. i = IF m.pref[p] = 1 THEN m.pbo[p] ELSE NoBo
      OBVIOUS
    <3>2. n.pbo[p] = IF m.pref[p] = 1 THEN NoBo ELSE m.pbo[p]
      <4>1. p \in Pix /\ n.pbo = m2.pbo
        BY <1>2, <1>7
      <4>2. \A q \in Pix : m2.pbo[q] = IF q = p /\ m.pref[p] = 1 THEN NoBo ELSE m.pbo[q]
        BY <1>6, Zenon
      <4> HIDE DEF p, m
      <4> QED BY ONLY <4>1, <4>2
    <3> HIDE DEF i, m, p
    <3>3. CASE m.pref[p] = 1
      <4>1. i = m.pbo[p] /\ n.pbo[p] = NoBo
        BY <3>1, <3>2, <3>3
      <4> QED BY <1>11, <4>1
    <3>4. CASE m.pref[p] # 1
      <4>1. i = NoBo /\ n.pbo[p] = m.pbo[p]
        BY <3>1, <3>2, <3>4
      <4> QED BY <1>11, <4>1
    <3> QED BY <3>3, <3>4
  <2>5. /\ Held(n, f, w.cmd, w.scanout, b) \in Nat
        /\ Held(n, w.buf, w.cmd, w.scanout, b) \in Nat
        /\ Held(m, w.buf, w.cmd, w.scanout, b) \in Nat
    BY <1>0, <1>4, HeldAtLeast
  <2> HIDE DEF i, m, r, p
  <2>6. n.ref[b] = m.ref[b] - Is(i, b) - Is(r.bo, b)
    <3>1. n.ref[b] = m2.ref[b] - Is(r.bo, b) /\ m2.ref[b] = m.ref[b] - Is(i, b)
      BY <1>6, <1>7, Zenon
    <3> QED BY <3>1
  <2> QED BY <1>11, <2>1, <2>2, <2>3, <2>4, <2>5, <2>6
<1>14. n.ok
  <2>1. \A b \in Bo : m2.ref[b] = n.ref[b] + Is(r.bo, b)
    <3> SUFFICES ASSUME NEW b \in Bo PROVE m2.ref[b] = n.ref[b] + Is(r.bo, b)
      OBVIOUS
    <3> HIDE DEF r
    <3>1. n.ref[b] = m2.ref[b] - Is(r.bo, b) /\ Is(r.bo, b) \in {0, 1}
      BY <1>7, <1>11
    <3>2. m2.ref[b] \in Int
      BY <1>4, MemFields
    <3> QED BY <3>1, <3>2
  <2>2. \A b \in Bo : m2.ref[b] >= 0
    BY <1>11, <1>13, <2>1
  <2>3. Is(r.bo, r.bo) = 1 /\ Is(p, p) = 1
    BY DEF Is
  <2>4. m2.ref[r.bo] > 0
    BY <1>2, <1>13, <2>1, <2>3
  <2>5. m1.pref[p] > 0 /\ (m1.pref[p] = 1 => m1.ext[p] = 0)
    BY <1>2, <1>3, <1>5, <2>3
  <2> QED BY <1>6, <1>7, <2>2, <2>4, <2>5
<1>15. PixSound(n)
  <2>1. \A q \in Pix : q # p \/ m.pref[p] # 1 => n.pbo[q] = m.pbo[q]
    BY <1>6, <1>7, Zenon
  <2>2. m.pref[p] = 1 => n.pbo[p] = NoBo
    BY <1>2, <1>6, <1>7
  <2>3. \A q \in Pix : /\ q # p => n.pref[q] = m.pref[q]
                       /\ q = p => n.pref[q] = m.pref[q] - 1
    BY <1>3, <1>6, <1>7 DEF Is
  <2>4. PixSound(m)
    BY DEF Sound
  <2> HIDE DEF p, m
  <2> QED BY <1>2, <1>3, <2>1, <2>2, <2>3, <2>4 DEF PixSound
<1>16. BufSound(v)
  <2> SUFFICES ASSUME NEW y \in Buf \ {x}, w.buf[y].ref > 0
               PROVE  /\ w.buf[y].pix[0] \in Pix /\ w.buf[y].bo \in Bo
                      /\ w.buf[y].att = "back" => n.pref[w.buf[y].pix[0]] = 1
    <3>1. \A y \in Buf \ {x} : v.buf[y] = w.buf[y] /\ (w.buf[y].ref > 0 \/ w.buf[y] = NoBufRec)
      BY <1>8, <1>10 DEF Sound, BufSound
    <3>2. v.buf[x] = NoBufRec /\ ~(NoBufRec.ref > 0)
      BY <1>8, <1>10, <1>11
    <3>3. v.mem = n
      BY <1>8
    <3> QED BY <3>1, <3>2, <3>3 DEF BufSound
  <2>1. /\ w.buf[y].pix[0] \in Pix /\ w.buf[y].bo \in Bo
        /\ w.buf[y].att = "back" => /\ m.pref[w.buf[y].pix[0]] = 1
                                    /\ p # w.buf[y].pix[0]
    <3>1. w.buf[y].pix[0] \in Pix /\ w.buf[y].bo \in Bo
      BY InBuffers
    <3>2. w.buf[y].att = "back" => /\ m.pref[w.buf[y].pix[0]] = 1
                                   /\ p # w.buf[y].pix[0]
      <4>1. /\ w \in World /\ WinsTyped(wn) /\ Sound(w, wn)
            /\ y \in Buf /\ w.buf[y].ref > 0
        OBVIOUS
      <4>2. w.buf[y].att = "back" =>
              /\ w.mem.pref[w.buf[y].pix[0]] = 1
              /\ \A z \in Buf \ {y} : w.buf[z].pix[0] # w.buf[y].pix[0]
        BY ONLY <4>1, InBuffers, Zenon
      <4>3. x \in Buf \ {y} /\ p = w.buf[x].pix[0]
        OBVIOUS
      <4> QED BY <4>2, <4>3, Zenon
    <3> QED BY <3>1, <3>2, Zenon
  <2>2. w.buf[y].att = "back" => Is(p, w.buf[y].pix[0]) = 0
    BY <2>1 DEF Is
  <2> DEFINE z == w.buf[y].pix[0]
  <2>3. n.pref[z] = m.pref[z] - Is(p, z)
    <3>1. z \in Pix
      BY <2>1
    <3> HIDE DEF m, p, z
    <3> QED BY ONLY <1>6, <1>7, <3>1, Zenon
  <2> HIDE DEF m, p, z
  <2>4. w.buf[y].att = "back" => n.pref[z] = 1
    BY <2>1, <2>2, <2>3 DEF z
  <2> QED BY <2>1, <2>4 DEF z
<1>17. Sound(v, wn)
  <2>1. BosCounted(v)
    BY <1>8, <1>13 DEF BosCounted
  <2>2. PixCounted(v, wn)
    BY <1>8, <1>12 DEF PixCounted
  <2> QED BY <1>8, <1>14, <1>15, <1>16, <2>1, <2>2 DEF Sound
<1>18. \A q \in Pix : n.pref[q] > 0 => n.pbo[q] = m.pbo[q]
  <2>1. n.pref[p] = m.pref[p] - Is(p, p) /\ Is(p, p) = 1
    BY <1>2, <1>6, <1>7 DEF Is
  <2>2. \A q \in Pix : n.pbo[q] = IF q = p /\ m.pref[p] = 1 THEN NoBo ELSE m.pbo[q]
    BY <1>6, <1>7
  <2> HIDE DEF m, p
  <2>3. m.pref[p] = 1 => n.pref[p] = 0
    BY <2>1
  <2> QED BY <2>2, <2>3
<1>19. Kept(w, v)
  <2>1. \A b \in Bo : n.ref[b] > 0 => (n.fb[b] <=> m.fb[b])
    <3>1. \A b \in Bo : n.ref[b] > 0 => m2.ref[b] > 0
      BY <1>3, <1>6, <1>7, <1>11
    <3> QED BY <1>6, <1>7, <3>1
  <2> QED BY <1>8, <1>18, <2>1 DEF Kept
<1>20. KeepsFree(w, v)
  <2>1. \A b \in Bo : m.ref[b] = 0 => n.ref[b] = 0
    <3> HIDE DEF i, r, m
    <3>1. \A b \in Bo : n.ref[b] = m.ref[b] - Is(i, b) - Is(r.bo, b)
      <4> SUFFICES ASSUME NEW b \in Bo
                   PROVE  n.ref[b] = m.ref[b] - Is(i, b) - Is(r.bo, b)
        OBVIOUS
      <4>1. n.ref[b] = m2.ref[b] - Is(r.bo, b) /\ m2.ref[b] = m.ref[b] - Is(i, b)
        BY <1>6, <1>7
      <4> QED BY <4>1
    <3> QED BY <1>3, <1>11, <1>13, <3>1
  <2> QED BY <1>8, <2>1 DEF KeepsFree, FreeBo
<1>21. v.mem.pbo[Root] = w.mem.pbo[Root]
  <2>1. Sound(v, wn) /\ v \in World
    BY <1>8, <1>17
  <2>2. v.mem.pref[Root] > 0
    BY <2>1, InUse
  <2> QED BY <1>3, <1>8, <1>18, <2>2
<1>22. r.att = "back" => FreePix(v) # {}
  <2>1. r.att = "back" => m.pref[p] = 1
    BY <1>2
  <2>2. n.pref[p] = m.pref[p] - Is(p, p) /\ Is(p, p) = 1
    BY <1>2, <1>6, <1>7 DEF Is
  <2> HIDE DEF m, p, r
  <2>3. r.att = "back" => n.pref[p] = 0
    BY <2>1, <2>2
  <2> QED BY <1>2, <1>8, <2>3 DEF FreePix
<1>23. v.buf[x] = NoBufRec /\ \A y \in Buf \ {x} : v.buf[y] = w.buf[y]
  BY <1>8, <1>10
<1> QED BY <1>8, <1>9, <1>17, <1>19, <1>20, <1>21, <1>22, <1>23

\* DestroyBuffer keeps the counts, and what is still used.
LEMMA DestroyOne ==
  ASSUME NumBufs = 2, NEW w \in World, NEW wn, WinsTyped(wn), Sound(w, wn),
         NEW x \in Buf \cup {NoBuf}, x \in Buf => w.buf[x].ref > 0
  PROVE  LET v == DestroyBuffer(w, x)
         IN  /\ v \in World /\ SameRest(w, v)
             /\ \A y \in Buf \ {x} : v.buf[y] = w.buf[y]
             /\ Sound(v, wn) /\ Kept(w, v) /\ KeepsFree(w, v)
             /\ v.mem.pbo[Root] = w.mem.pbo[Root]
             /\ x \in Buf /\ w.buf[x].ref > 1 =>
                  BufKept(w, v, x) /\ v.buf[x].ref = w.buf[x].ref - 1
<1> DEFINE v == DestroyBuffer(w, x)
<1>1. CASE x = NoBuf
  <2>1. v = w
    BY <1>1 DEF DestroyBuffer
  <2> QED BY <1>1, <2>1, SwapAssumption
        DEF SameRest, SameSwaps, Kept, KeepsFree
<1>2. CASE x \in Buf /\ w.buf[x].ref > 1
  <2> DEFINE f == [w.buf EXCEPT ![x].ref = @ - 1]
  <2>1. v = [w EXCEPT !.buf = f]
    BY <1>2, SwapAssumption DEF DestroyBuffer
  <2>2. f \in [Buf -> BufRec]
    BY <1>2, WorldFields, BufUpdates
  <2>3. /\ \A y \in Buf \ {x} : f[y] = w.buf[y]
        /\ f[x].ref = w.buf[x].ref - 1 /\ f[x].pix = w.buf[x].pix
        /\ f[x].bo = w.buf[x].bo /\ f[x].att = w.buf[x].att
    BY <1>2, WorldFields DEF BufRec
  <2> HIDE DEF f, v
  <2>4. /\ v \in World /\ SameRest(w, v) /\ v.buf = f /\ v.mem = w.mem
        /\ v.cmd = w.cmd /\ v.scanout = w.scanout /\ v.hw = w.hw
    BY <2>1, <2>2 DEF World, SameRest, SameSwaps
  <2>5. w.buf[x].ref \in Int
    BY <1>2, WorldFields, BufFields
  <2>6. f[x].ref > 0
    BY <1>2, <2>3, <2>5
  <2>7. Sound(v, wn) /\ Kept(w, v)
    BY <1>2, <2>3, <2>4, <2>6, SameHolders
  <2>8. KeepsFree(w, v)
    BY <2>4 DEF KeepsFree, FreeBo
  <2>9. BufKept(w, v, x) /\ v.buf[x].ref = w.buf[x].ref - 1
    BY <2>3, <2>4, <2>6 DEF BufKept
  <2> QED BY <2>3, <2>4, <2>7, <2>8, <2>9 DEF v
<1>3. CASE x \in Buf /\ ~(w.buf[x].ref > 1)
  <2> DEFINE u == [w EXCEPT !.mem = DestroyBufferResources(w.mem, w.buf[x]),
                            !.buf[x] = NoBufRec]
  <2>1. v = u
    BY <1>3, SwapAssumption DEF DestroyBuffer
  <2>2. /\ u \in World /\ SameRest(w, u)
        /\ \A y \in Buf \ {x} : u.buf[y] = w.buf[y]
        /\ Sound(u, wn) /\ Kept(w, u) /\ KeepsFree(w, u)
        /\ u.mem.pbo[Root] = w.mem.pbo[Root]
    BY <1>3, DestroyResources, Zenon
  <2> HIDE DEF u, v
  <2> QED BY <1>3, <2>1, <2>2 DEF v
<1> QED BY <1>1, <1>2, <1>3

-----------------------------------------------------------------------------
(* What the buffers show *)

\* The bo of the pixmap of buffer x.
Showing(w, x) == w.mem.pbo[w.buf[x].pix[0]]

\* Buffer x was in use, and has the name and the bo that it had.
Stays(w, v, x) ==
  /\ w.buf[x].ref > 0
  /\ v.buf[x].att = w.buf[x].att /\ v.buf[x].name = w.buf[x].name
  /\ Showing(v, x) = Showing(w, x)

\* Buffer x has the name of its bo, which no CRTC scans out if x is a back.
Fresh(v, x) ==
  /\ v.buf[x].name = Showing(v, x)
  /\ v.buf[x].att = "back" => \A c \in Crtc : v.hw[c] # v.buf[x].name

\* A call that leaves the screen and the CRTCs alone, and every buffer that it
\* does not make afresh.
Quiet(w, v) ==
  /\ v.mem.pbo[Root] = w.mem.pbo[Root] /\ v.hw = w.hw
  /\ \A x \in Buf : v.buf[x].ref > 0 => Stays(w, v, x) \/ Fresh(v, x)

\* Buffer x was in use, and has the name and the pixmap that it had.
Left(w, v, x) ==
  /\ w.buf[x].ref > 0
  /\ v.buf[x].att = w.buf[x].att /\ v.buf[x].name = w.buf[x].name
  /\ v.buf[x].pix[0] = w.buf[x].pix[0]

\* The pixmap of a buffer in use keeps its bo.
LEMMA QuietIf ==
  ASSUME NEW w \in World, NEW v \in World,
         NEW wn, WinsTyped(wn), NEW vn, WinsTyped(vn),
         Sound(w, wn), Sound(v, vn), Kept(w, v),
         v.mem.pbo[Root] = w.mem.pbo[Root], v.hw = w.hw,
         \A x \in Buf : v.buf[x].ref > 0 => Left(w, v, x) \/ Fresh(v, x)
  PROVE  Quiet(w, v)
<1> SUFFICES ASSUME NEW x \in Buf, v.buf[x].ref > 0, Left(w, v, x)
             PROVE  Stays(w, v, x)
  BY Zenon DEF Quiet
<1> DEFINE p == w.buf[x].pix[0]
<1>1. w.buf[x].ref > 0 /\ v.buf[x].pix[0] = p
  BY Zenon DEF Left
<1>2. p \in Pix /\ w.mem.pref[p] > 0
  BY <1>1, InBuffers, Zenon
<1>3. v.mem.pref[p] > 0
  BY <1>1, InBuffers, Zenon
<1> HIDE DEF p
<1>4. v.mem.pbo[p] = w.mem.pbo[p]
  BY <1>2, <1>3 DEF Kept
<1> QED BY <1>1, <1>4, Zenon DEF Stays, Left, Showing, p

\* Quiet calls in a row are quiet.
LEMMA QuietTrans ==
  ASSUME NEW w, NEW u, NEW v, Quiet(w, u), Quiet(u, v)
  PROVE  Quiet(w, v)
<1>1. /\ v.mem.pbo[Root] = w.mem.pbo[Root] /\ v.hw = w.hw /\ v.hw = u.hw
  BY Zenon DEF Quiet
<1>2. ASSUME NEW x \in Buf, v.buf[x].ref > 0
      PROVE  Stays(w, v, x) \/ Fresh(v, x)
  <2>1. Stays(u, v, x) \/ Fresh(v, x)
    BY <1>2, Zenon DEF Quiet
  <2>2. ASSUME Stays(u, v, x) PROVE Stays(w, v, x) \/ Fresh(v, x)
    <3>1. Stays(w, u, x) \/ Fresh(u, x)
      BY <2>2, Zenon DEF Quiet, Stays
    <3>2. Stays(w, u, x) => Stays(w, v, x)
      BY <2>2, Zenon DEF Stays
    <3>3. Fresh(u, x) => Fresh(v, x)
      BY <1>1, <2>2, Zenon DEF Stays, Fresh
    <3> QED BY <3>1, <3>2, <3>3, Zenon
  <2> QED BY <2>1, <2>2, Zenon
<1> QED BY <1>1, <1>2, Zenon DEF Quiet

-----------------------------------------------------------------------------
(* Creating buffers *)

\* m is the memory of w with one more reference to pixmap p, that of a window
\* or one that had none.
Ready(w, wn, m, p) ==
  /\ m.ok
  /\ \A q \in Pix : /\ m.pref[q] = w.mem.pref[q] + Is(p, q)
                    /\ m.ext[q] = w.mem.ext[q]
  /\ \A q \in Pix \ {p} : m.pbo[q] = w.mem.pbo[q] /\ w.mem.pbo[q] # m.pbo[p]
  /\ m.pbo[p] \in Bo
  /\ w.mem.pref[p] > 0 => m.pbo[p] = w.mem.pbo[p]
  /\ w.mem.pref[p] = 0 \/ \E d \in Draw : wn[d] = p
  /\ \A x \in Bo : /\ m.ref[x] = w.mem.ref[x] + Is(m.pbo[p], x) - Is(w.mem.pbo[p], x)
                   /\ w.mem.ref[x] > 0 => (m.fb[x] <=> w.mem.fb[x])

\* A buffer that points to p.
Takes(g, w, m, p) == /\ g.ref > 0 /\ g.pix[0] = p /\ g.bo = m.pbo[p]
                     /\ g.att = "back" => w.mem.pref[p] = 0

\* The end of CreateBufferResources, with pixmap p at hand: the buffer takes
\* a reference of the bo, and p is registered for external access.
AttachTo(w, b, m, p, g) ==
  [w EXCEPT !.mem = BoRef(Register(m, p), m.pbo[p]), !.buf[b] = g]

LEMMA Attach ==
  ASSUME NEW w \in World, NEW wn, WinsTyped(wn), Sound(w, wn),
         NEW b \in Buf, w.buf[b] = NoBufRec,
         NEW m \in Mem, NEW p \in Pix, Ready(w, wn, m, p),
         NEW g \in BufRec, Takes(g, w, m, p)
  PROVE  LET v == AttachTo(w, b, m, p, g)
         IN  /\ v \in World /\ SameRest(w, v)
             /\ \A y \in Buf \ {b} : v.buf[y] = w.buf[y]
             /\ v.buf[b] = g /\ v.mem.pbo = m.pbo /\ v.mem.fb = m.fb
             /\ Sound(v, wn) /\ Kept(w, v)
<1> USE DEF Ready, Takes
<1> DEFINE a  == m.pbo[p]
           m1 == Register(m, p)
           n  == BoRef(m1, a)
           f  == [w.buf EXCEPT ![b] = g]
           v  == [w EXCEPT !.mem = n, !.buf = f]
<1>0. w.mem \in Mem /\ w.buf \in [Buf -> BufRec]
  BY WorldFields
<1>1. m1 \in Mem
  BY RegisterType
<1>2. /\ m1.pref = m.pref /\ m1.pbo = m.pbo /\ m1.ref = m.ref /\ m1.fb = m.fb
      /\ m1.ok = m.ok
      /\ \A q \in Pix : m1.ext[q] = m.ext[q] + Is(p, q)
  BY ONLY m \in Mem, p \in Pix, RegisterForm
<1> HIDE DEF m1
<1>3. n \in Mem
  BY <1>1, BoRefType
<1>4. /\ n.pref = m.pref /\ n.ext = m1.ext /\ n.pbo = m.pbo /\ n.fb = m.fb
      /\ \A x \in Bo : n.ref[x] = m.ref[x] + Is(a, x)
      /\ m.ok /\ m.ref[a] > 0 => n.ok
  <2> HIDE DEF n, a
  <2>1. a \in Bo
    BY DEF a
  <2> USE DEF n
  <2>2. /\ n.pref = m1.pref /\ n.ext = m1.ext /\ n.pbo = m1.pbo /\ n.fb = m1.fb
        /\ \A x \in Bo : n.ref[x] = m1.ref[x] + Is(a, x)
        /\ m1.ok /\ m1.ref[a] > 0 => n.ok
    BY <1>1, <2>1, BoRefForm
  <2> HIDE DEF n
  <2> QED BY <1>2, <2>2
<1> HIDE DEF n
<1>5. /\ v \in World /\ SameRest(w, v)
      /\ v.mem = n /\ v.buf = f /\ v.cmd = w.cmd /\ v.scanout = w.scanout
  <2>1. f \in [Buf -> BufRec]
    BY <1>0
  <2> HIDE DEF f
  <2> QED BY <1>3, <2>1 DEF World, SameRest, SameSwaps
<1>6. v = AttachTo(w, b, m, p, g)
  BY DEF n, m1, AttachTo
<1> HIDE DEF v
<1>7. \A y \in Buf : f[y] = IF y = b THEN g ELSE w.buf[y]
  BY <1>0
<1> HIDE DEF f
<1>8. /\ NoBufRec.pix[0] = NoPix /\ NoBufRec.bo = NoBo /\ NoBufRec.ref = 0
      /\ \A q \in Pix : Is(NoPix, q) = 0
      /\ \A x \in Bo : Is(NoBo, x) = 0
      /\ \A c, x : Is(c, x) \in {0, 1}
  BY MemAssumption, SlotZero DEF NoBufRec, Is
<1>9. /\ \A x \in Bo : w.mem.ref[x] \in Nat
      /\ \A q \in Pix : w.mem.ext[q] \in Nat /\ w.mem.pref[q] \in Nat
  BY InUse
<1>10. ASSUME NEW q \in Pix
       PROVE  /\ n.ext[q] = Times(BufPixs(f), q)
              /\ n.pref[q] = n.ext[q] + Windows(wn, q)
  <2>1. /\ w.mem.ext[q] = Times(BufPixs(w.buf), q)
        /\ w.mem.pref[q] = w.mem.ext[q] + Windows(wn, q)
    BY DEF Sound, PixCounted
  <2>2. Times(BufPixs(f), q) = Times(BufPixs(w.buf), q) + Is(p, q) - Is(NoPix, q)
    <3>1. f[b].pix[0] = p /\ w.buf[b].pix[0] = NoPix
      BY <1>7, <1>8
    <3> DEFINE F == BufPixs(f)
               G == BufPixs(w.buf)
    <3>2. /\ \A y \in Buf \ {b} : F[y] = G[y]
          /\ F[b] = p /\ G[b] = NoPix
      BY <1>7, <3>1 DEF BufPixs
    <3>3. DOMAIN F = Buf /\ DOMAIN G = Buf /\ IsFiniteSet(Buf)
      BY HolderDomains
    <3> HIDE DEF F, G
    <3>4. Times(F, q) = Times(G, q) + Is(F[b], q) - Is(G[b], q)
      BY <3>2, <3>3, TimesUpdate
    <3> QED BY <3>2, <3>4 DEF F, G
  <2>3. /\ Windows(wn, q) \in Nat /\ Times(BufPixs(w.buf), q) \in Nat
        /\ Times(BufPixs(f), q) \in Nat
    BY WindowsAtLeast, PointsAtLeast
  <2> QED BY <1>2, <1>4, <1>8, <2>1, <2>2, <2>3
<1>11. ASSUME NEW x \in Bo
       PROVE  /\ n.ref[x] = Held(n, f, w.cmd, w.scanout, x) /\ n.ref[x] \in Nat
              /\ m.ref[x] = n.ref[x] - Is(a, x)
  <2> DEFINE bf == w.buf
             cm == w.cmd
             sc == w.scanout
             wm == w.mem
  <2>1. wm.ref[x] = Held(wm, bf, cm, sc, x)
    BY DEF Sound, BosCounted
  <2>a. wm \in Mem
    BY <1>0
  <2>b. \A q \in Pix \ {p} : n.pbo[q] = wm.pbo[q]
    BY <1>4
  <2>c. f[b].bo = a /\ bf[b].bo = NoBo /\ \A y \in Buf \ {b} : f[y].bo = bf[y].bo
    BY <1>7, <1>8
  <2>d. n.ref[x] = wm.ref[x] + Is(a, x) - Is(wm.pbo[p], x) + Is(a, x)
    BY <1>4, <1>8, <1>9
  <2>e. n.pbo[p] = a
    BY <1>4
  <2>f. m.ref[x] = wm.ref[x] + Is(a, x) - Is(wm.pbo[p], x)
    OBVIOUS
  <2>g. wm.ref[x] \in Nat
    BY <1>9
  <2> HIDE DEF bf, cm, sc, wm, a
  <2>2. Held(n, bf, cm, sc, x) = Held(wm, bf, cm, sc, x) + Is(n.pbo[p], x) - Is(wm.pbo[p], x)
    BY <1>3, <2>a, <2>b, HeldByPixmap
  <2>3. Times(BufBos(f), x) = Times(BufBos(bf), x) + Is(f[b].bo, x) - Is(bf[b].bo, x)
    <3>1. \A y \in Buf \ {b} : f[y].bo = bf[y].bo
      BY <2>c
    <3> QED BY ONLY b \in Buf, <3>1, HeldByBuffer
  <2>4. /\ Times(n.pbo, x) \in Nat
        /\ Times(BufBos(bf), x) \in Nat /\ Times(BufBos(f), x) \in Nat
        /\ Times(OldSrcs(cm), x) \in Nat /\ Times(OldDsts(cm), x) \in Nat
    BY <1>3, HeldTypes
  <2>5. Held(n, f, cm, sc, x) = Held(n, bf, cm, sc, x) + Is(f[b].bo, x) - Is(bf[b].bo, x)
    BY <1>8, <2>3, <2>4 DEF Held
  <2>6. Held(wm, bf, cm, sc, x) \in Nat /\ Held(n, bf, cm, sc, x) \in Nat
    BY <1>3, <2>a, HeldAtLeast
  <2>7. Held(n, f, cm, sc, x) \in Nat
    BY <1>3, HeldAtLeast
  <2>8. Is(n.pbo[p], x) = Is(a, x) /\ Is(f[b].bo, x) = Is(a, x) /\ Is(bf[b].bo, x) = 0
    BY <1>8, <2>c, <2>e
  <2>9. n.ref[x] = Held(n, f, cm, sc, x)
    BY <1>8, <2>1, <2>2, <2>5, <2>6, <2>7, <2>8, <2>d, <2>g
  <2>10. m.ref[x] = n.ref[x] - Is(a, x)
    BY <1>8, <2>d, <2>f, <2>g
  <2> QED BY <2>7, <2>9, <2>10 DEF cm, sc
<1>12. n.ok
  <2>1. m.ref[a] = w.mem.ref[a] + 1 - Is(w.mem.pbo[p], a)
    BY DEF Is
  <2>2. w.mem.pbo[p] = a => w.mem.ref[a] > 0
    <3> DEFINE H == Held(w.mem, w.buf, w.cmd, w.scanout, a)
    <3>1. H >= Is(w.mem.pbo[p], a) /\ H \in Nat
      BY <1>0, HeldAtLeast
    <3>2. w.mem.ref[a] = H
      BY DEF Sound, BosCounted
    <3> HIDE DEF H, a
    <3> QED BY <3>1, <3>2 DEF Is
  <2>3. w.mem.ref[a] \in Nat
    BY <1>9
  <2>4. m.ref[a] > 0
    BY <2>1, <2>2, <2>3 DEF Is
  <2> QED BY <1>4, <2>4
<1>13. PixSound(n)
  <2>1. \A q \in Pix \ {p} : n.pref[q] = w.mem.pref[q]
    BY <1>4, <1>9 DEF Is
  <2>2. n.pref[p] > 0
    BY <1>4, <1>9 DEF Is
  <2> QED BY <1>4, <2>1, <2>2 DEF Sound, PixSound
<1>14. BufSound(v)
  <2> SUFFICES ASSUME NEW y \in Buf
               PROVE  IF f[y].ref > 0
                      THEN /\ f[y].pix[0] \in Pix /\ f[y].bo \in Bo
                           /\ f[y].att = "back" => n.pref[f[y].pix[0]] = 1
                      ELSE f[y] = NoBufRec
    BY <1>5 DEF BufSound
  <2>1. CASE y = b
    <3>1. g.att = "back" => n.pref[p] = 1
      BY <1>4 DEF Is
    <3> QED BY <1>7, <2>1, <3>1
  <2>2. CASE y # b
    <3>1. f[y] = w.buf[y] /\ (w.buf[y].ref > 0 \/ w.buf[y] = NoBufRec)
      BY <1>7, <2>2 DEF Sound, BufSound
    <3>2. CASE w.buf[y].ref > 0
      <4>1. /\ w.buf[y].pix[0] \in Pix /\ w.buf[y].bo \in Bo
            /\ w.mem.pref[w.buf[y].pix[0]] > 0
            /\ w.buf[y].att = "back" =>
                 /\ w.mem.pref[w.buf[y].pix[0]] = 1
                 /\ \A d \in Draw : wn[d] # w.buf[y].pix[0]
        <5>1. w \in World /\ WinsTyped(wn) /\ Sound(w, wn) /\ y \in Buf
          OBVIOUS
        <5> QED BY ONLY <3>2, <5>1, BackBuffers, Zenon
      <4>2. w.buf[y].att = "back" => w.buf[y].pix[0] # p
        BY <4>1
      <4>3. w.buf[y].att = "back" => n.pref[w.buf[y].pix[0]] = 1
        BY <1>4, <1>9, <4>1, <4>2 DEF Is
      <4> QED BY <3>1, <3>2, <4>1, <4>3
    <3>3. CASE w.buf[y] = NoBufRec
      BY <1>8, <3>1, <3>3
    <3> QED BY <3>1, <3>2, <3>3
  <2> QED BY <2>1, <2>2
<1>15. Sound(v, wn)
  <2>1. BosCounted(v)
    BY <1>5, <1>11 DEF BosCounted
  <2>2. PixCounted(v, wn)
    BY <1>5, <1>10 DEF PixCounted
  <2> QED BY <1>5, <1>12, <1>13, <1>14, <2>1, <2>2 DEF Sound
<1>16. Kept(w, v)
  BY <1>4, <1>5 DEF Kept
<1>17. v.buf[b] = g /\ \A y \in Buf \ {b} : v.buf[y] = w.buf[y]
  BY <1>5, <1>7
<1> QED BY <1>4, <1>5, <1>6, <1>15, <1>16, <1>17

\* A call that keeps the counts of the windows as they are.
SoundCall(w, v) == /\ v \in World /\ SameRest(w, v)
                   /\ Sound(v, win) /\ Kept(w, v)
                   /\ v.mem.pbo[Root] = w.mem.pbo[Root]

\* Buffers for window d.
BackBuffer(v, d, b) ==
  /\ v.buf[b].ref > 0 /\ v.buf[b].att = "back"
  /\ v.mem.fb[v.mem.pbo[v.buf[b].pix[0]]] => CanFlip(d)

FrontBuffer(v, d, b) ==
  v.buf[b].ref > 0 /\ v.buf[b].att = "front" /\ v.buf[b].pix[0] = win[d]

\* The record r with its resources becomes buffer b.
Recreate(w, d, b, r, ch) ==
  LET res == CreateBufferResources(w, d, r, ch)
  IN  [w EXCEPT !.mem = res.mem, !.buf[b] = res.r]

\* What CreateBufferResources makes of window d's pixmap for its front buffer.
LEMMA CreateFront ==
  ASSUME NumBufs = 2, NEW w \in World, WinsTyped(win), Sound(w, win),
         NEW d \in Draw, win[d] # NoPix, NEW ch \in Choices,
         NEW r \in BufRec, r.ref > 0, r.att = "front",
         NEW b \in Buf, w.buf[b] = NoBufRec
  PROVE  LET v == Recreate(w, d, b, r, ch)
         IN  /\ CreateBufferResources(w, d, r, ch).ok
             /\ SoundCall(w, v) /\ FrontBuffer(v, d, b) /\ v.buf[b].ref = r.ref
             /\ Fresh(v, b)
             /\ \A y \in Buf \ {b} : v.buf[y] = w.buf[y]
<1> DEFINE res == CreateBufferResources(w, d, r, ch)
           p  == win[d]
           t  == [w.mem.pref EXCEPT ![p] = @ + 1]
           m  == [w.mem EXCEPT !.pref = t]
           a  == m.pbo[p]
           g  == [r EXCEPT !.pix[0] = p, !.name = a, !.bo = a, !.tried = @ \/ FALSE]
           v  == AttachTo(w, b, m, p, g)
<1>1. p \in Pix /\ w.mem.pref[p] > 0 /\ w.mem.pbo[p] \in Bo
      /\ \A q \in Pix \ {p} : w.mem.pbo[q] # w.mem.pbo[p]
  <2>1. p \in Pix /\ w.mem.pref[p] > 0
    BY InUse
  <2> QED BY <2>1, InUse
<1>2. w.mem \in Mem /\ w.mem.ok /\ r.cur = 0
  BY WorldFields, OnePixmap DEF Sound
<1>3. t \in [Pix -> Int] /\ \A q \in Pix : t[q] = w.mem.pref[q] + Is(p, q)
  BY <1>1, <1>2, MemFields DEF Is
<1>4. res = [ok |-> TRUE, mem |-> BoRef(Register(m, p), m.pbo[p]), r |-> g]
  <2> DEFINE m1 == [w.mem EXCEPT !.pref[p] = @ + 1]
             m2 == [m1 EXCEPT !.ok = @ /\ r.cur = 0]
             r1 == [r EXCEPT !.pix[0] = p]
             bo == PixmapBo(m2, p)
  <2>1. res = [ok  |-> TRUE,
               mem |-> BoRef(Register(m2, p), bo),
               r   |-> [r1 EXCEPT !.name = bo, !.bo = bo, !.tried = @ \/ FALSE]]
    BY DEF CreateBufferResources
  <2>2. m1 = m
    OBVIOUS
  <2>3. m \in Mem /\ m.ok
    BY <1>2, <1>3 DEF Mem
  <2>4. m2 = m
    <3> HIDE DEF m, m1
    <3>1. m2 = [m EXCEPT !.ok = m.ok]
      BY <1>2, <2>2, <2>3
    <3> HIDE DEF m2
    <3> QED BY <2>3, <3>1 DEF Mem
  <2>5. bo = a
    BY <1>1, <2>4 DEF PixmapBo
  <2>6. [r1 EXCEPT !.name = bo, !.bo = bo, !.tried = @ \/ FALSE] = g
    <3> HIDE DEF bo, a
    <3> QED BY <2>5
  <2> HIDE DEF m, m2, bo, a, r1, g
  <2> QED BY <2>1, <2>4, <2>5, <2>6 DEF a
<1>5. /\ m \in Mem /\ m.ok /\ m.pref = t /\ m.ext = w.mem.ext /\ m.pbo = w.mem.pbo
      /\ m.ref = w.mem.ref /\ m.fb = w.mem.fb
  <2> HIDE DEF t
  <2> QED BY <1>2, <1>3 DEF Mem
<1>6. /\ g \in BufRec /\ g.ref = r.ref /\ g.att = "front" /\ g.pix[0] = p
      /\ g.bo = m.pbo[p] /\ g.name = m.pbo[p]
  <2> DEFINE x == [r.pix EXCEPT ![0] = p]
  <2>1. x \in [Slots -> Pix \cup {NoPix}] /\ x[0] = p
    BY <1>1, SlotZero, BufFields
  <2>2. g = [r EXCEPT !.pix = x, !.name = a, !.bo = a, !.tried = @ \/ FALSE]
    OBVIOUS
  <2>3. a \in Bo /\ a = m.pbo[p]
    BY <1>1, <1>5
  <2> HIDE DEF x, a, g
  <2> QED BY <2>1, <2>2, <2>3 DEF BufRec
<1> HIDE DEF m, g, t
<1>7. /\ v \in World /\ SameRest(w, v)
      /\ \A y \in Buf \ {b} : v.buf[y] = w.buf[y]
      /\ v.buf[b] = g /\ v.mem.pbo = m.pbo
      /\ Sound(v, win) /\ Kept(w, v)
  <2>1. /\ \A q \in Pix : /\ m.pref[q] = w.mem.pref[q] + Is(p, q)
                          /\ m.ext[q] = w.mem.ext[q]
        /\ \A q \in Pix \ {p} : m.pbo[q] = w.mem.pbo[q] /\ w.mem.pbo[q] # m.pbo[p]
        /\ m.pbo[p] \in Bo /\ m.pbo[p] = w.mem.pbo[p]
    BY <1>1, <1>3, <1>5
  <2>2. \A x \in Bo : /\ m.ref[x] = w.mem.ref[x] + Is(m.pbo[p], x) - Is(w.mem.pbo[p], x)
                      /\ w.mem.ref[x] > 0 => (m.fb[x] <=> w.mem.fb[x])
    <3>1. \A x \in Bo : w.mem.ref[x] \in Int
      BY <1>2, MemFields
    <3> QED BY <1>5, <3>1 DEF Is
  <2>3. g.ref > 0 /\ (g.att = "back" => w.mem.pref[p] = 0)
    BY <1>6
  <2>4. \E e \in Draw : win[e] = p
    OBVIOUS
  <2> HIDE DEF p
  <2>5. Ready(w, win, m, p)
    BY <1>5, <2>1, <2>2, <2>4 DEF Ready
  <2>6. Takes(g, w, m, p)
    BY <1>6, <2>3 DEF Takes
  <2> QED BY <1>1, <1>5, <1>6, <2>5, <2>6, Attach
<1> HIDE DEF v
<1>8. /\ res.ok /\ v = Recreate(w, d, b, r, ch)
  <2> HIDE DEF res
  <2> QED BY <1>4 DEF v, AttachTo, Recreate, res
<1>9. SoundCall(w, v) /\ FrontBuffer(v, d, b)
  BY <1>5, <1>6, <1>7 DEF SoundCall, FrontBuffer
<1>10. Fresh(v, b)
  BY <1>6, <1>7 DEF Fresh, Showing
<1> HIDE DEF res
<1> QED BY <1>6, <1>7, <1>8, <1>9, <1>10 DEF res

\* What it makes for a back buffer: a pixmap around a new bo, with an fb only
\* if the window can be flipped.
LEMMA CreateBack ==
  ASSUME NumBufs = 2, "name" \notin Env, NEW w \in World, WinsTyped(win), Sound(w, win),
         NEW d \in Draw, win[d] # NoPix, NEW ch \in Choices, CanCreatePix(w),
         NEW r \in BufRec, r.ref > 0, r.att = "back",
         NEW b \in Buf, w.buf[b] = NoBufRec
  PROVE  LET v == Recreate(w, d, b, r, ch)
         IN  /\ CreateBufferResources(w, d, r, ch).ok
             /\ SoundCall(w, v) /\ BackBuffer(v, d, b) /\ v.buf[b].ref = r.ref
             /\ Fresh(v, b)
             /\ \A y \in Buf \ {b} : v.buf[y] = w.buf[y]
<1> DEFINE res == CreateBufferResources(w, d, r, ch)
           p  == Pick(FreePix(w))
           a  == Pick(FreeBo(w))
           s  == w.mem.pdim[win[d]]
           m1 == NewPixmap(w.mem, p, a, s)
           m  == IF CanFlip(d) /\ ch.fb THEN AddFb(m1, a) ELSE m1
           g  == [r EXCEPT !.pix[0] = p, !.name = a, !.bo = a, !.tried = @ \/ CanFlip(d)]
           v  == AttachTo(w, b, m, p, g)
<1>1. /\ p \in Pix /\ w.mem.pref[p] = 0 /\ a \in Bo /\ w.mem.ref[a] = 0
      /\ s \in Size /\ \A c \in Crtc : w.hw[c] # a
  <2>1. p \in FreePix(w) /\ a \in FreeBo(w)
    BY PickIn DEF CanCreatePix
  <2>2. win[d] \in Pix
    BY InUse
  <2>3. s \in Size
    BY <2>2, WorldFields, MemFields
  <2> HIDE DEF p, a, s
  <2> QED BY <2>1, <2>3 DEF FreePix, FreeBo
<1> HIDE DEF p, a, s
<1>2. w.mem \in Mem /\ w.mem.ok /\ r.cur = 0
  BY WorldFields, OnePixmap DEF Sound
<1>3. /\ \A q \in Pix : /\ m1.pref[q] = IF q = p THEN 1 ELSE w.mem.pref[q]
                        /\ m1.pbo[q]  = IF q = p THEN a ELSE w.mem.pbo[q]
                        /\ m1.ext[q]  = IF q = p THEN 0 ELSE w.mem.ext[q]
      /\ \A x \in Bo : /\ m1.ref[x] = IF x = a THEN 1 ELSE w.mem.ref[x]
                       /\ m1.fb[x] <=> (x # a /\ w.mem.fb[x])
      /\ m1.ok = w.mem.ok
      /\ m1 \in Mem
  <2>1. m1 \in Mem
    BY <1>1, <1>2, NewPixmapType
  <2> DEFINE wm == w.mem
  <2>2. wm \in Mem
    BY <1>2
  <2> HIDE DEF wm
  <2>3. LET n == NewPixmap(wm, p, a, s)
        IN  /\ \A q \in Pix : /\ n.pref[q] = IF q = p THEN 1 ELSE wm.pref[q]
                              /\ n.pbo[q]  = IF q = p THEN a ELSE wm.pbo[q]
                              /\ n.ext[q]  = IF q = p THEN 0 ELSE wm.ext[q]
            /\ \A x \in Bo : /\ n.ref[x] = IF x = a THEN 1 ELSE wm.ref[x]
                             /\ n.fb[x] <=> (x # a /\ wm.fb[x])
            /\ n.ok = wm.ok
    BY ONLY <1>1, <2>2, NewPixmapForm
  <2> QED BY <2>1, <2>3 DEF wm
<1>4. m1.pbo[p] = a /\ m1.ok
  BY <1>1, <1>2, <1>3
<1>5. res = [ok |-> TRUE, mem |-> BoRef(Register(m, p), a), r |-> g]
  <2> DEFINE m2 == [CreatePix(w, d) EXCEPT !.ok = @ /\ r.cur = 0]
             r1 == [r EXCEPT !.pix[0] = p]
             bo == PixmapBo(m2, p)
             m3 == IF CanFlip(d) /\ ch.fb THEN AddFb(m2, bo) ELSE m2
  <2>1. ch.name
    BY DEF Choices
  <2>2. res = [ok  |-> TRUE,
               mem |-> BoRef(Register(m3, p), bo),
               r   |-> [r1 EXCEPT !.name = bo, !.bo = bo, !.tried = @ \/ CanFlip(d)]]
    BY <2>1 DEF CreateBufferResources, p
  <2>3. CreatePix(w, d) = m1
    BY DEF CreatePix, p, a, s
  <2>4. m2 = m1
    <3> HIDE DEF m1
    <3>1. m2 = [m1 EXCEPT !.ok = m1.ok]
      BY <1>2, <1>4, <2>3
    <3> HIDE DEF m2
    <3> QED BY <1>3, <3>1 DEF Mem
  <2>5. bo = a
    BY <1>1, <1>4, <2>4 DEF PixmapBo
  <2>6. m3 = m
    BY <2>4, <2>5
  <2>7. [r1 EXCEPT !.name = bo, !.bo = bo, !.tried = @ \/ CanFlip(d)] = g
    <3> HIDE DEF bo
    <3> QED BY <2>5
  <2> HIDE DEF m, m3, bo, r1, g
  <2> QED BY <2>2, <2>5, <2>6, <2>7
<1> HIDE DEF m1
<1>6. /\ m \in Mem /\ m.ok /\ m.pref = m1.pref /\ m.ext = m1.ext /\ m.pbo = m1.pbo
      /\ m.ref = m1.ref
      /\ \A x \in Bo \ {a} : m.fb[x] <=> m1.fb[x]
      /\ m.fb[a] => CanFlip(d)
  <2>1. CASE CanFlip(d) /\ ch.fb
    <3>1. m = AddFb(m1, a)
      BY <2>1
    <3>2. m1.ref[a] > 0 /\ ~m1.fb[a]
      BY <1>1, <1>3
    <3>3. AddFb(m1, a) \in Mem
      BY <1>1, <1>3, AddFbType
    <3> QED BY <1>1, <1>3, <1>4, <2>1, <3>1, <3>2, <3>3, AddFbForm
  <2>2. CASE ~(CanFlip(d) /\ ch.fb)
    <3>1. m = m1
      BY <2>2
    <3> QED BY <1>1, <1>3, <1>4, <3>1
  <2> QED BY <2>1, <2>2
<1>7. /\ g \in BufRec /\ g.ref = r.ref /\ g.att = "back" /\ g.pix[0] = p
      /\ g.bo = a /\ g.name = a
  <2> DEFINE x == [r.pix EXCEPT ![0] = p]
             t == r.tried \/ CanFlip(d)
  <2>1. x \in [Slots -> Pix \cup {NoPix}] /\ x[0] = p
    BY <1>1, SlotZero, BufFields
  <2>2. g = [r EXCEPT !.pix = x, !.name = a, !.bo = a, !.tried = t]
    OBVIOUS
  <2>3. t \in BOOLEAN
    OBVIOUS
  <2> HIDE DEF x, g, t
  <2> QED BY <1>1, <2>1, <2>2, <2>3 DEF BufRec
<1> HIDE DEF m, g
<1>8. \A q \in Pix : w.mem.pref[q] = 0 => w.mem.ext[q] = 0 /\ w.mem.pbo[q] = NoBo
  <2>1. \A q \in Pix : /\ w.mem.ext[q] \in Nat /\ w.mem.pref[q] \in Nat
                       /\ w.mem.pref[q] >= w.mem.ext[q]
    BY InUse
  <2>2. \A q \in Pix : w.mem.pref[q] = 0 => w.mem.pbo[q] = NoBo
    BY DEF Sound, PixSound
  <2> QED BY <2>1, <2>2
<1>9. \A q \in Pix : w.mem.pbo[q] # a
  <2>1. \A q \in Pix : w.mem.pref[q] > 0 => w.mem.ref[w.mem.pbo[q]] > 0
    BY InUse
  <2>2. \A q \in Pix : w.mem.pref[q] \in Nat
    BY InUse
  <2> QED BY <1>1, <1>8, <2>1, <2>2, MemAssumption
<1>10. Ready(w, win, m, p)
  <2>1. \A q \in Pix : /\ m.pref[q] = w.mem.pref[q] + Is(p, q)
                       /\ m.ext[q] = w.mem.ext[q]
    <3>1. \A q \in Pix : w.mem.pref[q] \in Nat
      BY InUse
    <3> QED BY <1>1, <1>3, <1>6, <1>8, <3>1 DEF Is
  <2>2. /\ \A q \in Pix \ {p} : m.pbo[q] = w.mem.pbo[q] /\ w.mem.pbo[q] # m.pbo[p]
        /\ m.pbo[p] = a /\ w.mem.pbo[p] = NoBo
    BY <1>1, <1>3, <1>6, <1>8, <1>9
  <2>3. \A x \in Bo : /\ m.ref[x] = w.mem.ref[x] + Is(m.pbo[p], x) - Is(w.mem.pbo[p], x)
                      /\ w.mem.ref[x] > 0 => (m.fb[x] <=> w.mem.fb[x])
    <3>1. \A x \in Bo : w.mem.ref[x] \in Nat /\ Is(NoBo, x) = 0
      BY InUse, MemAssumption DEF Is
    <3>2. ASSUME NEW x \in Bo PROVE m.ref[x] = w.mem.ref[x] + Is(a, x)
      <4>1. m.ref[x] = IF x = a THEN 1 ELSE w.mem.ref[x]
        BY <1>3, <1>6
      <4> QED BY <1>1, <3>1, <4>1 DEF Is
    <3>3. \A x \in Bo : m.ref[x] = w.mem.ref[x] + Is(m.pbo[p], x) - Is(w.mem.pbo[p], x)
      BY <2>2, <3>1, <3>2 DEF Is
    <3>4. ASSUME NEW x \in Bo, w.mem.ref[x] > 0 PROVE m.fb[x] <=> w.mem.fb[x]
      <4>1. x # a
        BY <1>1, <3>4
      <4> QED BY <1>3, <1>6, <4>1
    <3> QED BY <3>3, <3>4
  <2> QED BY <1>1, <1>6, <2>1, <2>2, <2>3 DEF Ready
<1>11. Takes(g, w, m, p)
  BY <1>1, <1>3, <1>6, <1>7 DEF Takes
<1>12. /\ v \in World /\ SameRest(w, v)
       /\ \A y \in Buf \ {b} : v.buf[y] = w.buf[y]
       /\ v.buf[b] = g /\ v.mem.pbo = m.pbo /\ v.mem.fb = m.fb
       /\ Sound(v, win) /\ Kept(w, v)
  BY <1>1, <1>6, <1>7, <1>10, <1>11, Attach
<1> HIDE DEF v
<1>13. /\ res.ok /\ v = Recreate(w, d, b, r, ch)
  <2>1. m.pbo[p] = a
    BY <1>1, <1>3, <1>6
  <2> HIDE DEF res
  <2> QED BY <1>5, <2>1 DEF v, AttachTo, Recreate, res
<1>14. m.pbo[Root] = w.mem.pbo[Root]
  <2>1. Root \in Pix /\ w.mem.pref[Root] > 0
    BY InUse
  <2> QED BY <1>1, <1>3, <1>6, <2>1
<1>15. v.mem.fb[v.mem.pbo[v.buf[b].pix[0]]] => CanFlip(d)
  BY <1>1, <1>3, <1>6, <1>7, <1>12
<1>16. SoundCall(w, v) /\ BackBuffer(v, d, b)
  BY <1>7, <1>12, <1>14, <1>15 DEF SoundCall, BackBuffer
<1>17. Fresh(v, b)
  <2>1. v.mem.pbo[p] = a /\ v.hw = w.hw
    BY <1>1, <1>3, <1>6, <1>12 DEF SameRest, SameSwaps
  <2> QED BY <1>1, <1>7, <1>12, <2>1, Zenon DEF Fresh, Showing
<1> HIDE DEF res
<1> QED BY <1>7, <1>12, <1>13, <1>16, <1>17 DEF res

\* ARMSOCDRI2CreateBuffer takes a free buffer or does nothing.
LEMMA CreateOne ==
  ASSUME NumBufs = 2, "name" \notin Env, NEW w \in World, WinsTyped(win), Sound(w, win),
         NEW d \in Draw, win[d] # NoPix, NEW ch \in Choices,
         NEW att \in {"front", "back"}
  PROVE  LET v == CreateBuffer(w, d, att, ch).w
             b == CreateBuffer(w, d, att, ch).b
         IN  /\ SoundCall(w, v)
             /\ b = NoBuf \/ /\ b \in Buf /\ w.buf[b].ref = 0 /\ Fresh(v, b)
                             /\ IF att = "back" THEN BackBuffer(v, d, b)
                                ELSE FrontBuffer(v, d, b)
             /\ \A y \in Buf \ {b} : v.buf[y] = w.buf[y]
<1> DEFINE x == Pick(FreeBuf(w))
           r == [NoBufRec EXCEPT !.ref = 1, !.att = att, !.num = NumPixmaps(att)]
           res == CreateBufferResources(w, d, r, ch)
           u == Recreate(w, d, x, r, ch)
           v == CreateBuffer(w, d, att, ch).w
           b == CreateBuffer(w, d, att, ch).b
<1>0. SoundCall(w, w)
  BY DEF SoundCall, SameRest, SameSwaps, Kept
<1>1. CASE FreeBuf(w) = {}
  <2>1. v = w /\ b = NoBuf
    BY <1>1 DEF CreateBuffer
  <2> HIDE DEF v, b
  <2> QED BY <1>0, <2>1 DEF v, b
<1>2. CASE FreeBuf(w) # {} /\ att = "back" /\ ~CanCreatePix(w)
  <2>1. r.att = "back"
    BY <1>2 DEF NoBufRec
  <2>2. ~res.ok /\ res.mem = w.mem
    BY <1>2, <2>1 DEF CreateBufferResources
  <2> HIDE DEF res
  <2>3. b = NoBuf /\ v = [w EXCEPT !.mem = res.mem]
    BY <1>2, <2>2 DEF CreateBuffer, res
  <2>4. v = w
    <3> HIDE DEF v
    <3>1. v = [w EXCEPT !.mem = w.mem]
      BY <2>2, <2>3
    <3> QED BY <3>1 DEF World
  <2> HIDE DEF v, b
  <2> QED BY <1>0, <2>3, <2>4 DEF v, b
<1>3. CASE FreeBuf(w) # {} /\ (att = "front" \/ CanCreatePix(w))
  <2>1. r \in BufRec /\ r.ref = 1 /\ r.att = att
    <3>1. NumPixmaps(att) \in 1 .. NumBufs - 1
      BY SwapAssumption DEF NumPixmaps
    <3> DEFINE r1 == [NoBufRec EXCEPT !.ref = 1]
               r2 == [r1 EXCEPT !.att = att]
    <3>2. r1 \in BufRec /\ r1.ref = 1
      BY NoBufRecType DEF BufRec
    <3>3. r = [r2 EXCEPT !.num = NumPixmaps(att)]
      OBVIOUS
    <3> HIDE DEF r1
    <3>4. r2 \in BufRec /\ r2.ref = 1 /\ r2.att = att
      BY <3>2 DEF BufRec
    <3> HIDE DEF r2, r
    <3> QED BY <3>1, <3>3, <3>4 DEF BufRec
  <2> HIDE DEF r
  <2>2. x \in Buf /\ w.buf[x].ref = 0
    BY <1>3, PickIn DEF FreeBuf
  <2> HIDE DEF x
  <2>3. w.buf[x] = NoBufRec
    BY <2>2 DEF Sound, BufSound
  <2>4. /\ res.ok /\ SoundCall(w, u)
        /\ \A y \in Buf \ {x} : u.buf[y] = w.buf[y]
        /\ Fresh(u, x)
        /\ att = "back" => BackBuffer(u, d, x)
        /\ att = "front" => FrontBuffer(u, d, x)
    <3> HIDE DEF u
    <3>1. CASE att = "front"
      BY <2>1, <2>2, <2>3, <3>1, CreateFront DEF u
    <3>2. CASE att = "back"
      BY <1>3, <2>1, <2>2, <2>3, <3>2, CreateBack DEF u
    <3> QED BY <3>1, <3>2
  <2>5. v = u /\ b = x
    BY <1>3, <2>4 DEF CreateBuffer, Recreate, x, r
  <2> HIDE DEF u, v, b
  <2> QED BY <2>2, <2>4, <2>5 DEF v, b
<1> QED BY <1>1, <1>2, <1>3

-----------------------------------------------------------------------------
(* Reusing a back buffer *)

\* The windows of D do not hold buffer b.
Apart(w, D, b) == \A e \in D : w.priv[e].back # b /\ w.priv[e].front # b

\* What a call leaves to the windows of D that only touches buffer b.
LEMMA SparedApart ==
  ASSUME NEW w, NEW v, NEW wn, NEW D \in SUBSET Draw, NEW K, MemInv(w, wn, D, K),
         NEW b, Apart(w, D, b),
         \A y \in Buf \ {b} : w.buf[y].ref > 0 => v.buf[y] = w.buf[y]
  PROVE  Spared(w, v, D)
<1> SUFFICES ASSUME NEW e \in D, w.priv[e].back # NoBuf,
                    NEW x \in {w.priv[e].back, w.priv[e].front}, x \in Buf
             PROVE  BufKept(w, v, x)
  BY DEF Spared
<1>1. x # b
  BY DEF Apart
<1>2. w.buf[x].ref > 0
  BY <1>1, Zenon DEF MemInv, SwapInv, WinSound
<1> QED BY <1>1, <1>2 DEF BufKept

\* armsoc_bo_rm_fb of the bo of a back buffer does not concern other windows.
WithoutFb(w, b) == [w EXCEPT !.mem = RmFb(w.mem, w.mem.pbo[w.buf[b].pix[0]])]

LEMMA RemoveFb ==
  ASSUME NEW w \in World, NEW wn, WinsTyped(wn),
         NEW D \in SUBSET Draw, NEW K \in SUBSET Cmd, MemInv(w, wn, D, K),
         NEW b \in Buf, w.buf[b].ref > 0, w.buf[b].att = "back", Apart(w, D, b),
         w.mem.fb[w.mem.pbo[w.buf[b].pix[0]]]
  PROVE  LET v == WithoutFb(w, b)
         IN  /\ v \in World /\ SameRest(w, v) /\ v.buf = w.buf
             /\ v.mem.ref = w.mem.ref /\ v.mem.pbo = w.mem.pbo
             /\ MemInv(v, wn, D, K)
<1> DEFINE p == w.buf[b].pix[0]
           a == w.mem.pbo[p]
           m == RmFb(w.mem, a)
           v == [w EXCEPT !.mem = m]
<1>0. Sound(w, wn)
  BY Zenon DEF MemInv, SwapInv
<1>1. /\ p \in Pix /\ w.mem.pref[p] > 0 /\ p # Root
      /\ \A y \in Buf \ {b} : w.buf[y].pix[0] # p
  BY <1>0, InBuffers, Zenon
<1>2. /\ a \in Bo /\ w.mem.ref[a] > 0
      /\ \A q \in Pix \ {p} : w.mem.pbo[q] # a
      /\ Root \in Pix
  BY <1>0, <1>1, InUse, Zenon
<1>3. w.mem \in Mem /\ w.mem.ok /\ m \in Mem
  BY <1>0, WorldFields, RmFbType, Zenon DEF Sound
<1>4. /\ m.pref = w.mem.pref /\ m.pbo = w.mem.pbo /\ m.ref = w.mem.ref
      /\ m.ext = w.mem.ext /\ m.ok
      /\ \A x \in Bo : m.fb[x] <=> (x # a /\ w.mem.fb[x])
  <2> DEFINE wm == w.mem
  <2>1. wm \in Mem /\ wm.ok /\ a \in Bo /\ wm.ref[a] > 0 /\ wm.fb[a]
    BY <1>2, <1>3, Zenon
  <2> HIDE DEF wm, a
  <2>2. /\ RmFb(wm, a).pref = wm.pref /\ RmFb(wm, a).pbo = wm.pbo
        /\ RmFb(wm, a).ref = wm.ref /\ RmFb(wm, a).ext = wm.ext /\ RmFb(wm, a).ok
        /\ \A x \in Bo : RmFb(wm, a).fb[x] <=> (x # a /\ wm.fb[x])
    BY <2>1, RmFbForm, Zenon
  <2> QED BY <2>2, Zenon DEF wm
<1> HIDE DEF m
<1>5. /\ v \in World /\ SameRest(w, v) /\ v.buf = w.buf /\ v.mem = m
      /\ v.cmd = w.cmd /\ v.scanout = w.scanout /\ v.priv = w.priv
  BY <1>3, Zenon DEF World, SameRest, SameSwaps
<1> HIDE DEF v
<1>6. Sound(v, wn)
  <2>1. BosCounted(v)
    <3>1. \A x : Held(v.mem, v.buf, v.cmd, v.scanout, x)
                   = Held(w.mem, w.buf, w.cmd, w.scanout, x)
      BY <1>4, <1>5, Zenon DEF Held
    <3>2. v.mem.ref = w.mem.ref
      BY <1>4, <1>5, Zenon
    <3> QED BY <1>0, <3>1, <3>2, Zenon DEF Sound, BosCounted
  <2>a. /\ v.mem.pref = w.mem.pref /\ v.mem.pbo = w.mem.pbo
        /\ v.mem.ext = w.mem.ext /\ v.buf = w.buf
    BY <1>4, <1>5, Zenon
  <2>b. PixCounted(w, wn) /\ PixSound(w.mem) /\ BufSound(w)
    BY <1>0, Zenon DEF Sound
  <2> HIDE DEF a, p
  <2>2. PixCounted(v, wn)
    BY ONLY <2>a, <2>b, Zenon DEF PixCounted
  <2>3. PixSound(v.mem)
    BY ONLY <2>a, <2>b, Zenon DEF PixSound
  <2>4. BufSound(v)
    BY ONLY <2>a, <2>b, Zenon DEF BufSound
  <2> QED BY <1>4, <1>5, <2>1, <2>2, <2>3, <2>4, Zenon DEF Sound
<1>7. ScreenSound(v)
  <2>1. w.mem.pbo[Root] # a /\ w.mem.pbo[Root] = w.scanout /\ w.mem.fb[w.scanout]
    BY <1>1, <1>2, Zenon DEF MemInv, ScreenSound
  <2>2. w.scanout \in Bo
    BY WorldFields, Zenon
  <2> QED BY <1>4, <1>5, <2>1, <2>2, Zenon DEF ScreenSound
<1>8. ASSUME NEW e \in D PROVE WinSound(v, wn, e)
  <2>1. WinSound(w, wn, e)
    BY Zenon DEF MemInv, SwapInv
  <2>2. \A q \in Pix : m.fb[m.pbo[q]] /\ w.mem.pref[q] > 0 => w.mem.fb[w.mem.pbo[q]]
    BY <1>0, <1>4, InUse, Zenon
  <2>3. w.priv[e].back # NoBuf =>
          /\ wn[e] \in Pix /\ w.mem.pref[wn[e]] > 0
          /\ w.buf[w.priv[e].back].pix[0] \in Pix
          /\ w.mem.pref[w.buf[w.priv[e].back].pix[0]] > 0
    <3> SUFFICES ASSUME w.priv[e].back # NoBuf
                 PROVE  /\ wn[e] \in Pix /\ w.mem.pref[wn[e]] > 0
                        /\ w.buf[w.priv[e].back].pix[0] \in Pix
                        /\ w.mem.pref[w.buf[w.priv[e].back].pix[0]] > 0
      BY Zenon
    <3>1. wn[e] # NoPix /\ w.buf[w.priv[e].back].ref > 0
      BY <2>1, Zenon DEF WinSound
    <3>2. w.priv[e].back \in Buf
      BY WorldFields, PrivFields, Zenon
    <3>3. wn[e] \in Pix /\ w.mem.pref[wn[e]] > 0
      BY <1>0, <3>1, InUse, Zenon
    <3> QED BY <1>0, <3>1, <3>2, <3>3, InBuffers, Zenon
  <2> DEFINE x == w.priv[e].back
             f == w.priv[e].front
  <2>4. /\ v.priv[e].back = x /\ v.priv[e].front = f /\ v.buf = w.buf
        /\ v.mem.pbo = w.mem.pbo /\ v.mem.fb = m.fb /\ m.pbo = w.mem.pbo
    BY <1>4, <1>5, Zenon
  <2>5. ASSUME x # NoBuf
        PROVE  /\ f # NoBuf /\ wn[e] # NoPix
               /\ w.buf[x].ref > 0 /\ w.buf[x].att = "back"
               /\ w.buf[f].ref > 0 /\ w.buf[f].att = "front"
               /\ m.fb[w.mem.pbo[w.buf[x].pix[0]]] => w.buf[f].pix[0] = Root
               /\ wn[e] # Root /\ m.fb[w.mem.pbo[wn[e]]] =>
                    w.buf[f].pix[0] \in {Root, wn[e]}
               /\ \A g \in Draw \ {e} : w.buf[f].pix[0] = wn[g] => wn[g] = Root
    <3>1. /\ f # NoBuf /\ wn[e] # NoPix
          /\ w.buf[x].ref > 0 /\ w.buf[x].att = "back"
          /\ w.buf[f].ref > 0 /\ w.buf[f].att = "front"
          /\ w.mem.fb[w.mem.pbo[w.buf[x].pix[0]]] => w.buf[f].pix[0] = Root
          /\ wn[e] # Root /\ w.mem.fb[w.mem.pbo[wn[e]]] =>
               w.buf[f].pix[0] \in {Root, wn[e]}
          /\ \A g \in Draw \ {e} : w.buf[f].pix[0] = wn[g] => wn[g] = Root
      BY <2>1, <2>5, Zenon DEF WinSound
    <3>2. m.fb[w.mem.pbo[w.buf[x].pix[0]]] => w.mem.fb[w.mem.pbo[w.buf[x].pix[0]]]
      BY <1>4, <2>2, <2>3, <2>5, Zenon
    <3>3. m.fb[w.mem.pbo[wn[e]]] => w.mem.fb[w.mem.pbo[wn[e]]]
      BY <1>4, <2>2, <2>3, <2>5, Zenon
    <3> HIDE DEF x, f
    <3> QED BY <3>1, <3>2, <3>3, Zenon
  <2> HIDE DEF x, f
  <2> QED BY <2>4, <2>5, Zenon DEF WinSound
<1>9. ASSUME NEW k \in K
      PROVE  CmdHolds(v.cmd[k]) /\ (v.cmd[k].draw \in D => CmdSound(v, wn, k))
  <2> DEFINE c == w.cmd[k]
  <2>1. CmdHolds(c) /\ (c.draw \in D => CmdSound(w, wn, k))
    BY Zenon DEF MemInv, SwapInv
  <2>2. ASSUME c.draw \in D, c.live, ~c.fail, wn[c.draw] # NoPix, c.type = "flip"
        PROVE  m.fb[c.oldSrc]
    <3>1. /\ w.priv[c.draw].back = c.src /\ w.mem.pbo[w.buf[c.src].pix[0]] = c.oldSrc
          /\ w.mem.fb[c.oldSrc]
      BY <2>1, <2>2, Zenon DEF CmdSound
    <3>2. c.src \in Buf /\ c.oldSrc \in Bo
      BY <2>1, <2>2, Zenon DEF CmdHolds, Whole
    <3>3. c.src # b /\ w.buf[c.src].ref > 0
      <4>1. WinSound(w, wn, c.draw) /\ c.src # NoBuf
        BY <2>2, <3>2, SwapAssumption, Zenon DEF MemInv, SwapInv
      <4> QED BY <2>2, <3>1, <4>1, Zenon DEF WinSound, Apart
    <3>4. w.buf[c.src].pix[0] \in Pix \ {p}
      BY <1>0, <1>1, <3>2, <3>3, InBuffers, Zenon
    <3> QED BY <1>2, <1>4, <3>1, <3>2, <3>4, Zenon
  <2>3. c.draw \in D => CmdSound(v, wn, k)
    <3>1. v.cmd[k] = c /\ v.priv = w.priv /\ v.buf = w.buf /\ v.mem.pbo = w.mem.pbo
          /\ v.mem.fb = m.fb
      BY <1>4, <1>5, Zenon
    <3> HIDE DEF c
    <3> QED BY <2>1, <2>2, <3>1, Zenon DEF CmdSound, c
  <2> QED BY <1>5, <2>1, <2>3, Zenon
<1>10. MemInv(v, wn, D, K)
  BY <1>5, <1>6, <1>7, <1>8, <1>9, Zenon DEF MemInv, SwapInv
<1>11. v = WithoutFb(w, b)
  BY Zenon DEF v, m, WithoutFb
<1> QED BY <1>4, <1>5, <1>10, <1>11, Zenon

\* CreateBufferResources looks at memory and CRTCs only.
LEMMA CreateSame ==
  ASSUME NEW w, NEW v, v.mem = w.mem, v.hw = w.hw, NEW d, NEW r, NEW ch
  PROVE  CreateBufferResources(v, d, r, ch) = CreateBufferResources(w, d, r, ch)
<1>1. FreeBo(v) = FreeBo(w) /\ FreePix(v) = FreePix(w)
  BY DEF FreeBo, FreePix
<1>2. CanCreatePix(v) = CanCreatePix(w)
  BY <1>1 DEF CanCreatePix
<1>3. CreatePix(v, d) = CreatePix(w, d)
  BY <1>1 DEF CreatePix
<1> QED BY <1>1, <1>2, <1>3 DEF CreateBufferResources

\* A back buffer that the windows of D do not hold.
LoneBack(w, D, K, b) ==
  /\ MemInv(w, win, D, K) /\ Apart(w, D, b)
  /\ b \in Buf /\ w.buf[b].ref > 0 /\ w.buf[b].att = "back"

\* v is w with other resources for the back buffer b of window d.
Reused(w, v, d, D, K, b) ==
  /\ v \in World /\ SameRest(w, v) /\ MemInv(v, win, D, K)
  /\ BackBuffer(v, d, b) /\ v.buf[b].ref = w.buf[b].ref
  /\ \A y \in Buf \ {b} : v.buf[y] = w.buf[y]
  /\ Quiet(w, v)

\* ARMSOCDRI2ReuseBufferNotify on the back buffer b of window d, which finds
\* memory for another one: it has released that of the old one.
LEMMA ReuseOne ==
  ASSUME NumBufs = 2, "name" \notin Env, NEW w \in World, WinsTyped(win),
         NEW d \in Draw, win[d] # NoPix, NEW ch \in Choices,
         NEW D \in SUBSET Draw, NEW K \in SUBSET Cmd, NEW b, LoneBack(w, D, K, b),
         FreeBo(w) # {}
  PROVE  Reused(w, ReuseBufferNotify(w, d, b, ch), d, D, K, b)
<1> DEFINE r    == w.buf[b]
           a    == w.mem.pbo[r.pix[0]]
           up   == CanFlip(d) /\ ~r.tried /\ ~w.mem.fb[a]
           down == ~CanFlip(d) /\ w.mem.fb[a]
           u    == IF down THEN [w EXCEPT !.mem = RmFb(w.mem, a)] ELSE w
           n    == DestroyBufferResources(u.mem, r)
           u1   == [u EXCEPT !.mem = n, !.buf[b] = NoBufRec]
           r1   == [r EXCEPT !.tried = @ /\ ~down]
           u2   == Recreate(u1, d, b, r1, ch)
           v    == ReuseBufferNotify(w, d, b, ch)
<1>a. /\ MemInv(w, win, D, K) /\ Apart(w, D, b)
      /\ b \in Buf /\ w.buf[b].ref > 0 /\ w.buf[b].att = "back"
  BY DEF LoneBack
<1> USE <1>a
<1>0. Sound(w, win)
  BY DEF MemInv, SwapInv
<1>1. r \in BufRec /\ r.pix[0] \in Pix /\ PixmapBo(w.mem, r.pix[0]) = a
  BY <1>0, WorldFields, InBuffers, Zenon DEF PixmapBo
<1>2. CASE ~(up \/ down)
  <2>1. v = w
    BY <1>1, <1>2, Zenon DEF ReuseBufferNotify
  <2>2. BackBuffer(w, d, b)
    BY <1>2, Zenon DEF BackBuffer
  <2>3. Quiet(w, w)
    BY Zenon DEF Quiet, Stays
  <2> HIDE DEF v
  <2> QED BY <2>1, <2>2, <2>3 DEF Reused, SameRest, SameSwaps, v
<1>3. CASE up \/ down
  <2>1. /\ u \in World /\ SameRest(w, u) /\ u.buf = w.buf /\ MemInv(u, win, D, K)
        /\ u.mem.ref = w.mem.ref /\ u.mem.pbo = w.mem.pbo
    <3>1. CASE down
      <4>1. u = WithoutFb(w, b)
        BY <3>1, Zenon DEF WithoutFb
      <4> HIDE DEF u
      <4>2. LET t == WithoutFb(w, b)
            IN  /\ t \in World /\ SameRest(w, t) /\ t.buf = w.buf
                /\ t.mem.ref = w.mem.ref /\ t.mem.pbo = w.mem.pbo
                /\ MemInv(t, win, D, K)
        <5>1. w.mem.fb[w.mem.pbo[w.buf[b].pix[0]]]
          BY <3>1, Zenon
        <5>2. /\ WithoutFb(w, b) \in World /\ SameRest(w, WithoutFb(w, b))
              /\ WithoutFb(w, b).buf = w.buf /\ WithoutFb(w, b).mem.ref = w.mem.ref
              /\ WithoutFb(w, b).mem.pbo = w.mem.pbo
              /\ MemInv(WithoutFb(w, b), win, D, K)
          BY ONLY <5>1, <1>a, w \in World, WinsTyped(win), D \in SUBSET Draw,
                  K \in SUBSET Cmd, RemoveFb, ZenonT(40)
        <5> QED BY <5>2
      <4> QED BY <4>1, <4>2
    <3>2. CASE ~down
      BY <3>2, Zenon DEF SameRest, SameSwaps
    <3> QED BY <3>1, <3>2, Zenon
  <2>2. u.mem = IF down THEN RmFb(w.mem, a) ELSE w.mem
    BY DEF World
  <2> HIDE DEF u
  <2>3. u.buf[b] = r /\ Sound(u, win)
    BY <2>1 DEF MemInv, SwapInv
  <2>4. /\ u1 \in World /\ SameRest(u, u1)
        /\ \A y \in Buf \ {b} : u1.buf[y] = u.buf[y]
        /\ u1.buf[b] = NoBufRec
        /\ Sound(u1, win) /\ Kept(u, u1) /\ KeepsFree(u, u1)
        /\ u1.mem.pbo[Root] = u.mem.pbo[Root]
        /\ FreePix(u1) # {}
    <3>1. u1 = [u EXCEPT !.mem = DestroyBufferResources(u.mem, u.buf[b]),
                         !.buf[b] = NoBufRec]
      BY <2>3
    <3> HIDE DEF u1, r
    <3>2. u.buf[b].ref > 0 /\ u.buf[b].att = "back"
      BY <2>3 DEF r
    <3> QED BY <2>1, <2>3, <3>1, <3>2, DestroyResources, ZenonT(40)
  <2>5. u1.mem = n
    BY <2>1 DEF World
  <2> HIDE DEF u1
  <2>6. MemInv(u1, win, D, K)
    <3>1. Apart(u, D, b)
      BY <2>1 DEF Apart, SameRest, SameSwaps
    <3>2. Spared(u, u1, D)
      BY <2>1, <2>4, <3>1, SparedApart
    <3> QED BY <2>1, <2>4, <3>2, Call
  <2>7. CanCreatePix(u1)
    <3>1. FreeBo(u) = FreeBo(w)
      BY <2>1 DEF FreeBo, SameRest, SameSwaps
    <3> QED BY <2>4, <3>1 DEF KeepsFree, CanCreatePix
  <2>8. r1 \in BufRec /\ r1.ref = r.ref /\ r1.att = "back"
    BY <1>1, Zenon DEF BufRec
  <2> HIDE DEF r1
  <2>9. /\ CreateBufferResources(u1, d, r1, ch).ok
        /\ SoundCall(u1, u2) /\ BackBuffer(u2, d, b) /\ u2.buf[b].ref = r.ref
        /\ Fresh(u2, b)
        /\ \A y \in Buf \ {b} : u2.buf[y] = u1.buf[y]
    BY <2>4, <2>7, <2>8, CreateBack
  <2>10. MemInv(u2, win, D, K)
    <3> HIDE DEF u2
    <3>1. Apart(u1, D, b)
      BY <2>1, <2>4 DEF Apart, SameRest, SameSwaps
    <3>2. Spared(u1, u2, D)
      BY <2>6, <2>9, <3>1, SparedApart
    <3> QED BY <2>4, <2>6, <2>9, <3>2, Call DEF SoundCall
  <2>11. SameRest(w, u2)
    BY <2>1, <2>4, <2>9 DEF SameRest, SameSwaps, SoundCall
  <2>12. \A y \in Buf \ {b} : u2.buf[y] = w.buf[y]
    BY <2>1, <2>4, <2>9
  <2>13. v = u2
    <3> DEFINE t   == [w EXCEPT !.mem = n]
               res == CreateBufferResources(t, d, r1, ch)
               s   == CreateBufferResources(u1, d, r1, ch)
    <3>1. v = [w EXCEPT !.mem = res.mem, !.buf[b] = res.r]
      BY <1>1, <1>3, <2>2, Zenon DEF ReuseBufferNotify, r1
    <3>2. t.mem = u1.mem /\ t.hw = u1.hw
      <4>1. t.mem = n /\ t.hw = w.hw
        BY DEF World
      <4>2. u1.hw = w.hw
        BY <2>1, <2>4 DEF SameRest, SameSwaps
      <4> QED BY <2>5, <4>1, <4>2
    <3> HIDE DEF t
    <3>3. res = s
      BY <3>2, CreateSame
    <3> HIDE DEF res
    <3>4. u2 = [u1 EXCEPT !.mem = s.mem, !.buf[b] = s.r]
      BY DEF Recreate
    <3>5. \A q : [u1.buf EXCEPT ![b] = q] = [w.buf EXCEPT ![b] = q]
      <4>1. /\ u1.buf \in [Buf -> BufRec] /\ w.buf \in [Buf -> BufRec]
            /\ \A y \in Buf \ {b} : u1.buf[y] = w.buf[y]
        BY <2>1, <2>4, WorldFields
      <4> QED BY <4>1
    <3> HIDE DEF s
    <3> DEFINE f == [u1.buf EXCEPT ![b] = s.r]
               g == [w.buf EXCEPT ![b] = s.r]
    <3>6. u2 = [u1 EXCEPT !.mem = s.mem, !.buf = f]
      BY <3>4
    <3>7. v = [w EXCEPT !.mem = s.mem, !.buf = g]
      BY <3>1, <3>3
    <3>8. f = g
      BY <3>5
    <3>9. /\ u1.cmd = w.cmd /\ u1.scanout = w.scanout /\ u1.pending = w.pending
          /\ u1.priv = w.priv /\ u1.hw = w.hw
      BY <2>1, <2>4 DEF SameRest, SameSwaps
    <3>a. u1 \in World
      BY <2>4
    <3> HIDE DEF f, g, u1, u2, v, s
    <3>b. u1 = [w EXCEPT !.mem = u1.mem, !.buf = u1.buf]
      BY ONLY <3>9, <3>a, w \in World DEF World
    <3>c. u2 = [w EXCEPT !.mem = s.mem, !.buf = f]
      BY ONLY <3>6, <3>9, <3>a, w \in World DEF World
    <3> QED BY <3>7, <3>8, <3>c, Zenon
  <2> HIDE DEF u2, v
  <2>14. Quiet(w, u2)
    <3>1. Quiet(w, u)
      BY <2>1, Zenon DEF Quiet, Stays, Showing, SameRest, SameSwaps
    <3>2. Quiet(u, u1)
      <4>1. \A x \in Buf : u1.buf[x].ref > 0 => Left(u, u1, x)
        BY <2>4 DEF Left, NoBufRec
      <4>2. u1.hw = u.hw
        BY <2>4 DEF SameRest, SameSwaps
      <4> QED BY <2>1, <2>3, <2>4, <4>1, <4>2, QuietIf, Zenon
    <3>3. Quiet(u1, u2)
      <4>1. \A x \in Buf : u2.buf[x].ref > 0 => Left(u1, u2, x) \/ Fresh(u2, x)
        BY <2>9, Zenon DEF Left
      <4>2. /\ u2 \in World /\ u2.hw = u1.hw /\ Sound(u2, win) /\ Kept(u1, u2)
            /\ u2.mem.pbo[Root] = u1.mem.pbo[Root]
        BY <2>9 DEF SoundCall, SameRest, SameSwaps
      <4> QED BY <2>4, <4>1, <4>2, QuietIf, Zenon
    <3> QED BY <3>1, <3>2, <3>3, QuietTrans, Zenon
  <2> QED BY <2>9, <2>10, <2>11, <2>12, <2>13, <2>14 DEF Reused, SoundCall, v
<1> QED BY <1>2, <1>3, Zenon

-----------------------------------------------------------------------------
(* The buffers of a window *)

\* DestroyBuffer leaves the buffers that are still in use as they are.
LEMMA DestroyLeaves ==
  ASSUME NEW w \in World, NEW x \in Buf \cup {NoBuf},
         x \in Buf => w.buf[x].ref > 0,
         NEW y \in Buf, DestroyBuffer(w, x).buf[y].ref > 0
  PROVE  Left(w, DestroyBuffer(w, x), y)
<1> DEFINE v == DestroyBuffer(w, x)
<1>1. CASE x = NoBuf
  <2>1. v = w
    BY <1>1 DEF DestroyBuffer
  <2> QED BY <2>1 DEF Left
<1>2. CASE x \in Buf /\ w.buf[x].ref > 1
  <2> DEFINE f == [w.buf EXCEPT ![x].ref = @ - 1]
  <2>1. v = [w EXCEPT !.buf = f]
    BY <1>2, SwapAssumption DEF DestroyBuffer
  <2>2. w.buf \in [Buf -> BufRec] /\ w.buf[x] \in BufRec
    BY <1>2, WorldFields
  <2>3. /\ w.buf[y].ref > 0
        /\ f[y].att = w.buf[y].att /\ f[y].name = w.buf[y].name
        /\ f[y].pix = w.buf[y].pix
    <3>1. CASE y = x
      <4> DEFINE r == w.buf[x]
                 q == [r EXCEPT !.ref = @ - 1]
      <4>1. f[y] = q
        BY <2>2, <3>1
      <4>2. q.att = r.att /\ q.name = r.name /\ q.pix = r.pix
        BY <2>2 DEF BufRec
      <4> QED BY <1>2, <3>1, <4>1, <4>2
    <3>2. CASE y # x
      <4>1. f[y] = w.buf[y]
        BY <2>2, <3>2
      <4>2. v.buf = f
        BY <2>1 DEF World
      <4> QED BY <4>1, <4>2
    <3> QED BY <3>1, <3>2
  <2> HIDE DEF f
  <2>4. v.buf = f
    BY <2>1 DEF World
  <2> QED BY <2>3, <2>4 DEF Left
<1>3. CASE x \in Buf /\ ~(w.buf[x].ref > 1)
  <2> DEFINE m == DestroyBufferResources(w.mem, w.buf[x])
             f == [w.buf EXCEPT ![x] = NoBufRec]
  <2>1. v = [w EXCEPT !.mem = m, !.buf = f]
    BY <1>3, SwapAssumption DEF DestroyBuffer
  <2> HIDE DEF m
  <2>2. v.buf = f
    BY <2>1 DEF World
  <2>3. y # x
    BY <1>3, <2>2, WorldFields DEF NoBufRec
  <2>4. v.buf[y] = w.buf[y]
    BY <2>2, <2>3, WorldFields
  <2> HIDE DEF v
  <2> QED BY <2>4 DEF Left, v
<1> QED BY <1>1, <1>2, <1>3

\* DestroyBuffer on a buffer that the windows of D do not hold.
LEMMA DestroyStep ==
  ASSUME NumBufs = 2, NEW w \in World, NEW wn, WinsTyped(wn),
         NEW D \in SUBSET Draw, NEW K \in SUBSET Cmd, MemInv(w, wn, D, K),
         NEW x \in Buf \cup {NoBuf}, x \in Buf => w.buf[x].ref > 0 /\ Apart(w, D, x)
  PROVE  LET v == DestroyBuffer(w, x)
         IN  /\ v \in World /\ SameRest(w, v) /\ Kept(w, v) /\ KeepsFree(w, v)
             /\ MemInv(v, wn, D, K) /\ Quiet(w, v)
             /\ \A y \in Buf \ {x} : v.buf[y] = w.buf[y]
<1> DEFINE v == DestroyBuffer(w, x)
<1>1. Sound(w, wn)
  BY DEF MemInv, SwapInv
<1>2. /\ v \in World /\ SameRest(w, v)
      /\ \A y \in Buf \ {x} : v.buf[y] = w.buf[y]
      /\ Sound(v, wn) /\ Kept(w, v) /\ KeepsFree(w, v)
      /\ v.mem.pbo[Root] = w.mem.pbo[Root]
  BY <1>1, DestroyOne
<1>a. \A y \in Buf : v.buf[y].ref > 0 => Left(w, v, y)
  BY DestroyLeaves
<1> HIDE DEF v
<1>3. Spared(w, v, D)
  <2>1. CASE x \in Buf
    BY <1>2, <2>1, SparedApart
  <2>2. CASE x = NoBuf
    <3> SUFFICES ASSUME NEW e \in D, w.priv[e].back # NoBuf,
                        NEW y \in {w.priv[e].back, w.priv[e].front}, y \in Buf
                 PROVE  BufKept(w, v, y)
      BY DEF Spared
    <3>1. w.buf[y].ref > 0
      BY Zenon DEF MemInv, SwapInv, WinSound
    <3> QED BY <1>2, <2>2, <3>1, SwapAssumption DEF BufKept
  <2> QED BY <2>1, <2>2
<1>4. MemInv(v, wn, D, K)
  BY <1>2, <1>3, Call
<1>5. Quiet(w, v)
  <2>1. v.hw = w.hw
    BY <1>2 DEF SameRest, SameSwaps
  <2> QED BY <1>1, <1>2, <1>a, <2>1, QuietIf, Zenon
<1> QED BY <1>2, <1>4, <1>5 DEF v

\* The same for the windows as they are, with a name for what it says.
Freed(w, v, D, x) ==
  /\ v \in World /\ SameRest(w, v) /\ Kept(w, v) /\ KeepsFree(w, v)
  /\ MemInv(v, win, D, Cmd) /\ Quiet(w, v)
  /\ \A y \in Buf \ {x} : v.buf[y] = w.buf[y]

LEMMA Destroying ==
  ASSUME NumBufs = 2, NEW w \in World, WinsTyped(win), NEW D \in SUBSET Draw,
         MemInv(w, win, D, Cmd), NEW x \in Buf \cup {NoBuf},
         x \in Buf => w.buf[x].ref > 0 /\ Apart(w, D, x)
  PROVE  Freed(w, DestroyBuffer(w, x), D, x)
<1> DEFINE v == DestroyBuffer(w, x)
<1>1. Cmd \in SUBSET Cmd
  OBVIOUS
<1>2. /\ v \in World /\ SameRest(w, v) /\ Kept(w, v) /\ KeepsFree(w, v)
      /\ MemInv(v, win, D, Cmd) /\ Quiet(w, v)
      /\ \A y \in Buf \ {x} : v.buf[y] = w.buf[y]
  BY <1>1, DestroyStep, SMTT(30)
<1> QED BY <1>2, Zenon DEF Freed

\* CreateBuffer, which only takes a buffer that no window holds.
LEMMA CreateStep ==
  ASSUME NumBufs = 2, "name" \notin Env, NEW w \in World, WinsTyped(win),
         NEW d \in Draw, win[d] # NoPix, NEW ch \in Choices,
         NEW att \in {"front", "back"},
         NEW D \in SUBSET Draw, NEW K \in SUBSET Cmd, MemInv(w, win, D, K)
  PROVE  LET v == CreateBuffer(w, d, att, ch).w
             b == CreateBuffer(w, d, att, ch).b
         IN  /\ v \in World /\ SameRest(w, v) /\ Kept(w, v) /\ MemInv(v, win, D, K)
             /\ b = NoBuf \/ /\ b \in Buf /\ w.buf[b].ref = 0
                             /\ IF att = "back" THEN BackBuffer(v, d, b)
                                ELSE FrontBuffer(v, d, b)
             /\ \A y \in Buf : w.buf[y].ref > 0 => v.buf[y] = w.buf[y]
             /\ Quiet(w, v)
<1> DEFINE v == CreateBuffer(w, d, att, ch).w
           b == CreateBuffer(w, d, att, ch).b
<1>1. Sound(w, win)
  BY DEF MemInv, SwapInv
<1>0. /\ SoundCall(w, v)
      /\ b = NoBuf \/ /\ b \in Buf /\ w.buf[b].ref = 0 /\ Fresh(v, b)
                      /\ IF att = "back" THEN BackBuffer(v, d, b)
                         ELSE FrontBuffer(v, d, b)
      /\ \A y \in Buf \ {b} : v.buf[y] = w.buf[y]
  BY <1>1, CreateOne
<1> HIDE DEF v, b
<1>2. /\ SoundCall(w, v)
      /\ b = NoBuf \/ /\ b \in Buf /\ w.buf[b].ref = 0
                      /\ IF att = "back" THEN BackBuffer(v, d, b)
                         ELSE FrontBuffer(v, d, b)
      /\ \A y \in Buf : w.buf[y].ref > 0 => v.buf[y] = w.buf[y]
  BY <1>0, SwapAssumption
<1>3. Spared(w, v, D)
  <2> SUFFICES ASSUME NEW e \in D, w.priv[e].back # NoBuf,
                      NEW y \in {w.priv[e].back, w.priv[e].front}, y \in Buf
               PROVE  BufKept(w, v, y)
    BY DEF Spared
  <2>1. w.buf[y].ref > 0
    BY Zenon DEF MemInv, SwapInv, WinSound
  <2> QED BY <1>2, <2>1 DEF BufKept
<1>4. MemInv(v, win, D, K)
  BY <1>2, <1>3, Call DEF SoundCall
<1>5. Quiet(w, v)
  <2>1. \A x \in Buf : v.buf[x].ref > 0 => Left(w, v, x) \/ Fresh(v, x)
    BY <1>0, SwapAssumption DEF Left
  <2>2. v \in World /\ Sound(v, win) /\ Kept(w, v)
        /\ v.mem.pbo[Root] = w.mem.pbo[Root] /\ v.hw = w.hw
    BY <1>2, Zenon DEF SoundCall, SameRest, SameSwaps
  <2> QED BY <1>1, <2>1, <2>2, QuietIf, Zenon
<1> QED BY <1>2, <1>4, <1>5 DEF v, b, SoundCall

\* A back buffer that such calls leave alone stays one.
LEMMA BackStays ==
  ASSUME NEW w \in World, NEW v \in World, WinsTyped(win),
         NEW D \in SUBSET Draw, NEW K \in SUBSET Cmd,
         MemInv(w, win, D, K), MemInv(v, win, D, K), Kept(w, v),
         NEW d, NEW b \in Buf, BackBuffer(w, d, b), v.buf[b] = w.buf[b]
  PROVE  BackBuffer(v, d, b)
<1>1. Sound(w, win) /\ Sound(v, win)
  BY DEF MemInv, SwapInv
<1> DEFINE p == w.buf[b].pix[0]
<1>2. w.buf[b].ref > 0 /\ w.buf[b].att = "back"
  BY Zenon DEF BackBuffer
<1>3. /\ p \in Pix \ {Root} /\ w.mem.pref[p] > 0
  BY <1>1, <1>2, InBuffers
<1>4. v.mem.pref[p] > 0
  BY <1>1, <1>2, InBuffers
<1>5. v.mem.pbo[p] = w.mem.pbo[p]
  BY <1>3, <1>4 DEF Kept
<1>6. /\ w.mem.pbo[p] \in Bo /\ w.mem.ref[w.mem.pbo[p]] > 0
      /\ v.mem.ref[v.mem.pbo[p]] > 0
  BY <1>1, <1>3, <1>4, InUse, Zenon
<1>7. v.mem.fb[v.mem.pbo[p]] <=> w.mem.fb[w.mem.pbo[p]]
  BY <1>5, <1>6, Zenon DEF Kept
<1> QED BY <1>7, Zenon DEF BackBuffer

\* The invariant of some windows, and of one more.
LEMMA OneMore ==
  ASSUME NEW w, NEW wn, NEW d \in Draw, SwapInv(w, wn, Draw \ {d}, Cmd),
         WinSound(w, wn, d), w.cmd \in [Cmd -> CmdRec],
         \A k \in Cmd : w.cmd[k].draw = d => CmdSound(w, wn, k)
  PROVE  SwapInv(w, wn, Draw, Cmd)
<1>1. ASSUME NEW k \in Cmd, w.cmd[k].draw \in Draw
      PROVE  CmdSound(w, wn, k)
  BY <1>1 DEF SwapInv
<1> QED BY <1>1 DEF SwapInv

LEMMA OneLess ==
  ASSUME NEW w, NEW wn, NEW D \in SUBSET Draw, NEW K \in SUBSET Cmd,
         MemInv(w, wn, Draw, Cmd)
  PROVE  MemInv(w, wn, D, K)
BY DEF MemInv, SwapInv

\* DRI2GetBuffers gives window d new buffers.
LEMMA GiveBuffers ==
  ASSUME NEW w \in World, WinsTyped(win), NEW d \in Draw, win[d] # NoPix,
         MemInv(w, win, Draw \ {d}, Cmd), NEW pr \in PrivRec,
         pr.back # NoBuf => /\ BackBuffer(w, d, pr.back)
                            /\ pr.front # NoBuf /\ FrontBuffer(w, d, pr.front),
         CanFlip(d) => win[d] = Root,
         \A g \in Draw \ {d} : win[d] = win[g] => win[g] \in {Root, NoPix},
         \A k \in Cmd : w.cmd[k].live /\ ~w.cmd[k].fail => w.cmd[k].draw # d
  PROVE  MemInv([w EXCEPT !.priv[d] = pr], win, Draw, Cmd)
<1> DEFINE f == [w.priv EXCEPT ![d] = pr]
           v == [w EXCEPT !.priv = f]
           D == Draw \ {d}
<1>1. f \in [Draw -> PrivRec] /\ f[d] = pr /\ \A e \in D : f[e] = w.priv[e]
  BY WorldFields
<1> HIDE DEF f
<1>2. /\ v \in World /\ v.priv = f /\ v.mem = w.mem /\ v.buf = w.buf
      /\ v.cmd = w.cmd /\ v.scanout = w.scanout
  BY <1>1 DEF World
<1>3. v = [w EXCEPT !.priv[d] = pr]
  BY DEF f
<1> HIDE DEF v
<1>4. Sound(v, win) /\ Kept(w, v)
  BY <1>2, SameHolders DEF MemInv, SwapInv
<1>5. SwapInv(v, win, D, Cmd)
  <2>1. HoldsKept(w, v, D)
    BY <1>1, <1>2, Zenon DEF HoldsKept, BufKept, MemInv, SwapInv, WinSound
  <2>2. CmdKept(w, v, Cmd) /\ WinsKept(w, v, win, win, D)
    BY <1>2 DEF CmdKept, WinsKept
  <2>3. D \in SUBSET Draw /\ Cmd \in SUBSET Cmd /\ SwapInv(w, win, D, Cmd)
    BY DEF MemInv
  <2> HIDE DEF D
  <2> QED BY <1>2, <1>4, <2>1, <2>2, <2>3, Frame
<1>6. WinSound(v, win, d)
  <2> SUFFICES ASSUME pr.back # NoBuf
               PROVE  /\ pr.front # NoBuf /\ win[d] # NoPix
                      /\ w.buf[pr.back].ref > 0 /\ w.buf[pr.back].att = "back"
                      /\ w.buf[pr.front].ref > 0 /\ w.buf[pr.front].att = "front"
                      /\ w.mem.fb[w.mem.pbo[w.buf[pr.back].pix[0]]] =>
                           w.buf[pr.front].pix[0] = Root
                      /\ win[d] # Root /\ w.mem.fb[w.mem.pbo[win[d]]] =>
                           w.buf[pr.front].pix[0] \in {Root, win[d]}
                      /\ \A g \in Draw \ {d} : w.buf[pr.front].pix[0] = win[g] =>
                                                 win[g] = Root
    BY <1>1, <1>2, Zenon DEF WinSound
  <2> QED BY Zenon DEF BackBuffer, FrontBuffer
<1>7. \A k \in Cmd : v.cmd[k].draw = d => CmdSound(v, win, k)
  BY <1>2, Zenon DEF CmdSound
<1>8. SwapInv(v, win, Draw, Cmd)
  BY <1>2, <1>5, <1>6, <1>7, WorldFields, OneMore
<1>9. ScreenSound(v)
  BY <1>2 DEF MemInv, ScreenSound
<1> QED BY <1>3, <1>8, <1>9 DEF MemInv

\* The core has both buffers of a window or none, and no two windows have the
\* same one.
HeldApart(pv) ==
  /\ \A e \in Draw : pv[e].back = NoBuf <=> pv[e].front = NoBuf
  /\ \A d \in Draw : \A e \in Draw \ {d} :
       \A x \in {pv[d].back, pv[d].front} \cap Buf : x # pv[e].back /\ x # pv[e].front

\* Windows share the screen pixmap only, and one that can be flipped has it.
WinApart(wn, t) ==
  /\ \A d \in Draw : \A g \in Draw \ {d} : wn[d] = wn[g] => wn[g] \in {Root, NoPix}
  /\ t # NoDraw => wn[t] = Root

\* Windows do not hold free buffers.
LEMMA FreeApart ==
  ASSUME NEW w, NEW wn, NEW D \in SUBSET Draw, NEW K, MemInv(w, wn, D, K),
         HeldApart(w.priv), NEW x \in Buf, w.buf[x].ref = 0
  PROVE  Apart(w, D, x)
<1> SUFFICES ASSUME NEW e \in D
             PROVE  w.priv[e].back # x /\ w.priv[e].front # x
  BY DEF Apart
<1>1. CASE w.priv[e].back = NoBuf
  BY <1>1, SwapAssumption DEF HeldApart
<1>2. CASE w.priv[e].back # NoBuf
  <2>1. WinSound(w, wn, e)
    BY DEF MemInv, SwapInv
  <2>2. w.buf[w.priv[e].back].ref > 0 /\ w.buf[w.priv[e].front].ref > 0
    BY <1>2, <2>1, Zenon DEF WinSound
  <2> QED BY <2>2
<1> QED BY <1>1, <1>2

\* DRI2GetBuffers, step by step: the back that the window keeps, or a new one.
BackGot(w, d, keep, ch) ==
  IF keep THEN [w |-> ReuseBufferNotify(w, d, w.priv[d].back, ch),
                b |-> w.priv[d].back]
  ELSE CreateBuffer(w, d, "back", ch)

BackMade(w, d, keep, bk) ==
  LET b0 == w.priv[d].back
      f0 == w.priv[d].front
      D  == Draw \ {d}
  IN  /\ bk.w \in World /\ SameRest(w, bk.w) /\ MemInv(bk.w, win, D, Cmd)
      /\ Quiet(w, bk.w)
      /\ bk.b = NoBuf \/ /\ bk.b \in Buf \ {f0}
                         /\ IF keep THEN bk.b = b0
                            ELSE bk.b # b0 /\ Fresh(bk.w, bk.b)
                         /\ BackBuffer(bk.w, d, bk.b) /\ Apart(w, D, bk.b)
      /\ f0 \in Buf => bk.w.buf[f0].ref > 0 /\ Apart(w, D, f0)
      /\ b0 \in Buf => Apart(w, D, b0) /\ (~keep => bk.w.buf[b0].ref > 0)
      /\ b0 \in Buf => b0 # f0
      /\ \A y \in Buf \ {b0} : w.buf[y].ref > 0 => bk.w.buf[y] = w.buf[y]

LEMMA GetBuffersBack ==
  ASSUME NumBufs = 2, "name" \notin Env, NEW w \in World, WinsTyped(win),
         MemInv(w, win, Draw, Cmd), HeldApart(w.priv), FreeBo(w) # {},
         NEW d \in Draw, win[d] # NoPix, NEW ch \in Choices,
         NEW keep \in BOOLEAN, keep => w.priv[d].back # NoBuf
  PROVE  BackMade(w, d, keep, BackGot(w, d, keep, ch))
<1> DEFINE b0 == w.priv[d].back
           f0 == w.priv[d].front
           D  == Draw \ {d}
           bk == IF keep THEN [w |-> ReuseBufferNotify(w, d, b0, ch), b |-> b0]
                 ELSE CreateBuffer(w, d, "back", ch)
<1>0. SUFFICES BackMade(w, d, keep, bk)
  BY DEF BackGot
<1>1. MemInv(w, win, D, Cmd) /\ D \in SUBSET Draw /\ Cmd \in SUBSET Cmd
  BY OneLess
<1>2. b0 \in Buf \cup {NoBuf} /\ f0 \in Buf \cup {NoBuf}
  BY WorldFields, PrivFields
<1>3. \A x \in {b0, f0} \cap Buf :
        w.buf[x].ref > 0 /\ Apart(w, D, x)
        /\ (x = b0 => w.buf[x].att = "back") /\ (x = f0 => w.buf[x].att = "front")
  <2> SUFFICES ASSUME NEW x \in {b0, f0} \cap Buf
               PROVE  /\ w.buf[x].ref > 0 /\ Apart(w, D, x)
                      /\ (x = b0 => w.buf[x].att = "back")
                      /\ (x = f0 => w.buf[x].att = "front")
    OBVIOUS
  <2>1. b0 # NoBuf
    BY SwapAssumption DEF HeldApart
  <2>2. /\ w.buf[b0].ref > 0 /\ w.buf[b0].att = "back"
        /\ w.buf[f0].ref > 0 /\ w.buf[f0].att = "front"
    BY <2>1, Zenon DEF MemInv, SwapInv, WinSound
  <2>3. Apart(w, D, x)
    BY DEF HeldApart, Apart
  <2> QED BY <2>2, <2>3
<1> HIDE DEF D
<1>4. CASE keep
  <2> DEFINE v == ReuseBufferNotify(w, d, b0, ch)
  <2>1. bk.w = v /\ bk.b = b0
    BY <1>4
  <2>2. b0 \in Buf /\ w.buf[b0].ref > 0 /\ w.buf[b0].att = "back" /\ Apart(w, D, b0)
    BY <1>2, <1>3, <1>4
  <2>3. b0 # f0
    BY <1>3, <2>2
  <2>4. Reused(w, v, d, D, Cmd, b0)
    <3>1. LoneBack(w, D, Cmd, b0)
      BY <1>1, <2>2 DEF LoneBack
    <3> QED BY ONLY NumBufs = 2, "name" \notin Env, w \in World, WinsTyped(win),
                    FreeBo(w) # {}, d \in Draw, win[d] # NoPix, ch \in Choices,
                    <1>1, <3>1, ReuseOne
  <2> HIDE DEF v, bk
  <2>5. f0 \in Buf => bk.w.buf[f0].ref > 0
    BY <1>3, <2>1, <2>3, <2>4 DEF Reused
  <2> HIDE DEF b0, f0
  <2> QED BY <1>3, <1>4, <2>1, <2>2, <2>3, <2>4, <2>5
          DEF Reused, BackMade, bk, b0, f0, D
<1>5. CASE ~keep
  <2> DEFINE v == CreateBuffer(w, d, "back", ch).w
             b == CreateBuffer(w, d, "back", ch).b
  <2>1. bk.w = v /\ bk.b = b
    BY <1>5
  <2>2. /\ v \in World /\ SameRest(w, v) /\ MemInv(v, win, D, Cmd)
        /\ \/ b = NoBuf
           \/ b \in Buf /\ w.buf[b].ref = 0 /\ BackBuffer(v, d, b)
        /\ \A y \in Buf : w.buf[y].ref > 0 => v.buf[y] = w.buf[y]
        /\ Quiet(w, v)
    BY ONLY NumBufs = 2, "name" \notin Env, w \in World, WinsTyped(win),
            d \in Draw, win[d] # NoPix, ch \in Choices, <1>1, CreateStep
  <2> HIDE DEF v, b, bk
  <2>3. b # NoBuf => /\ b \in Buf \ {f0} /\ b # b0 /\ Apart(w, D, b)
    BY <1>1, <1>3, <2>2, FreeApart
  <2>4. \A x \in {b0, f0} \cap Buf : bk.w.buf[x].ref > 0 /\ Apart(w, D, x)
    BY <1>3, <2>1, <2>2
  <2>5. b0 \in Buf => b0 # f0
    BY <1>3
  <2>6. b # NoBuf => Fresh(v, b)
    <3> SUFFICES ASSUME b # NoBuf PROVE Fresh(v, b)
      OBVIOUS
    <3>1. b \in Buf /\ w.buf[b].ref = 0 /\ BackBuffer(v, d, b) /\ Quiet(w, v)
      BY <2>2
    <3>2. ~(w.buf[b].ref > 0)
      BY <3>1
    <3> QED BY <3>1, <3>2, Zenon DEF Quiet, Stays, BackBuffer
  <2> HIDE DEF b0, f0
  <2> QED BY <1>5, <2>1, <2>2, <2>3, <2>4, <2>5, <2>6
          DEF BackMade, bk, b0, f0, D
<1> QED BY <1>4, <1>5, Zenon

\* The old front f0 is dropped, and there is a new one if the back b could be
\* had.
FrontGot(u, d, f0, b, ch) ==
  LET w1 == DestroyBuffer(u, f0)
  IN  IF b = NoBuf THEN [w |-> w1, b |-> NoBuf]
      ELSE CreateBuffer(w1, d, "front", ch)

FrontMade(u, d, f0, b, fr) ==
  /\ fr.w \in World /\ SameRest(u, fr.w)
  /\ MemInv(fr.w, win, Draw \ {d}, Cmd)
  /\ \/ fr.b = NoBuf
     \/ /\ b # NoBuf /\ fr.b \in Buf /\ Apart(u, Draw \ {d}, fr.b)
        /\ FrontBuffer(fr.w, d, fr.b) /\ Fresh(fr.w, fr.b)
  /\ Quiet(u, fr.w)
  /\ b # NoBuf => BackBuffer(fr.w, d, b)
  /\ \A y \in Buf \ {f0} : u.buf[y].ref > 0 =>
       fr.w.buf[y] = u.buf[y] /\ fr.b # y

LEMMA GetBuffersFront ==
  ASSUME NumBufs = 2, "name" \notin Env, NEW u \in World, WinsTyped(win),
         NEW d \in Draw, win[d] # NoPix, NEW ch \in Choices,
         MemInv(u, win, Draw \ {d}, Cmd), HeldApart(u.priv),
         NEW f0 \in Buf \cup {NoBuf},
         f0 \in Buf => u.buf[f0].ref > 0 /\ Apart(u, Draw \ {d}, f0),
         NEW b \in (Buf \ {f0}) \cup {NoBuf}, b # NoBuf => BackBuffer(u, d, b)
  PROVE  FrontMade(u, d, f0, b, FrontGot(u, d, f0, b, ch))
<1> DEFINE D  == Draw \ {d}
           w1 == DestroyBuffer(u, f0)
           fr == FrontGot(u, d, f0, b, ch)
<1>0. fr = IF b = NoBuf THEN [w |-> w1, b |-> NoBuf]
           ELSE CreateBuffer(w1, d, "front", ch)
  BY DEF FrontGot
<1> HIDE DEF fr
<1>1. MemInv(u, win, D, Cmd) /\ D \in SUBSET Draw /\ Cmd \in SUBSET Cmd
  OBVIOUS
<1>2. f0 \in Buf => u.buf[f0].ref > 0 /\ Apart(u, D, f0)
  OBVIOUS
<1> HIDE DEF D
<1>3. /\ w1 \in World /\ SameRest(u, w1) /\ Kept(u, w1)
      /\ MemInv(w1, win, D, Cmd) /\ Quiet(u, w1)
      /\ \A y \in Buf \ {f0} : w1.buf[y] = u.buf[y]
  <2>1. Freed(u, w1, D, f0)
    BY ONLY NumBufs = 2, u \in World, WinsTyped(win), f0 \in Buf \cup {NoBuf},
            <1>1, <1>2, Destroying
  <2> HIDE DEF w1
  <2> QED BY <2>1, Zenon DEF Freed
<1> HIDE DEF w1
<1>4. b # NoBuf => BackBuffer(w1, d, b)
  <2> SUFFICES ASSUME b # NoBuf PROVE BackBuffer(w1, d, b)
    OBVIOUS
  <2>1. b \in Buf /\ w1.buf[b] = u.buf[b] /\ BackBuffer(u, d, b)
    BY <1>3
  <2> QED BY ONLY u \in World, WinsTyped(win), <1>1, <1>3, <2>1, BackStays
<1>5. w1.priv = u.priv
  BY <1>3 DEF SameRest, SameSwaps
<1>6. CASE b = NoBuf
  <2>1. fr.w = w1 /\ fr.b = NoBuf
    BY <1>0, <1>6
  <2>2. \A y \in Buf : NoBuf # y
    BY SwapAssumption
  <2> QED BY <1>3, <1>6, <2>1, <2>2 DEF FrontMade, fr, D, w1
<1>7. CASE b # NoBuf
  <2> DEFINE v == CreateBuffer(w1, d, "front", ch).w
             f == CreateBuffer(w1, d, "front", ch).b
  <2>1. fr.w = v /\ fr.b = f
    BY <1>0, <1>7
  <2>2. /\ v \in World /\ SameRest(w1, v) /\ Kept(w1, v) /\ MemInv(v, win, D, Cmd)
        /\ \/ f = NoBuf
           \/ f \in Buf /\ w1.buf[f].ref = 0 /\ FrontBuffer(v, d, f)
        /\ \A y \in Buf : w1.buf[y].ref > 0 => v.buf[y] = w1.buf[y]
        /\ Quiet(w1, v)
    BY ONLY NumBufs = 2, "name" \notin Env, WinsTyped(win),
            d \in Draw, win[d] # NoPix, ch \in Choices, <1>1, <1>3, CreateStep
  <2> HIDE DEF v, f
  <2>3. \/ f = NoBuf
        \/ f \in Buf /\ Apart(u, D, f) /\ FrontBuffer(v, d, f)
    <3>1. \A x \in Buf : w1.buf[x].ref = 0 => Apart(w1, D, x)
      BY <1>1, <1>3, <1>5, FreeApart
    <3> QED BY <1>5, <2>2, <3>1 DEF Apart
  <2>4. BackBuffer(v, d, b)
    <3>1. /\ b \in Buf /\ BackBuffer(w1, d, b) /\ v.buf[b] = w1.buf[b]
      BY <1>4, <1>7, <2>2, Zenon DEF BackBuffer
    <3> QED BY ONLY WinsTyped(win), <1>1, <1>3,
                    <2>2, <3>1, BackStays
  <2>5. \A y \in Buf \ {f0} : u.buf[y].ref > 0 => v.buf[y] = u.buf[y] /\ f # y
    <3> SUFFICES ASSUME NEW y \in Buf \ {f0}, u.buf[y].ref > 0
                 PROVE  v.buf[y] = u.buf[y] /\ f # y
      OBVIOUS
    <3>1. w1.buf[y] = u.buf[y]
      BY <1>3
    <3> QED BY <2>2, <3>1, SwapAssumption
  <2>6. SameRest(u, v)
    BY <1>3, <2>2 DEF SameRest, SameSwaps
  <2>7. Quiet(u, v)
    BY <1>3, <2>2, QuietTrans, Zenon
  <2>8. f = NoBuf \/ Fresh(v, f)
    BY <2>2 DEF Quiet, Stays, FrontBuffer
  <2> QED BY <1>7, <2>1, <2>2, <2>3, <2>4, <2>5, <2>6, <2>7, <2>8
          DEF FrontMade, fr, D, w1
<1> QED BY <1>6, <1>7

\* The old back b0 goes, unless it is used again (b0 = NoBuf), and the new one
\* if there is no front for it.
BackGone(u, b0, b, f) ==
  LET w2 == DestroyBuffer(u, b0)
  IN  IF f # NoBuf THEN w2 ELSE DestroyBuffer(w2, b)

\* The core gives the window the two buffers, or none.
Handed(w, d, b, f) ==
  [w EXCEPT !.priv[d] = [@ EXCEPT !.fresh = TRUE,
                                  !.back  = IF f # NoBuf THEN b ELSE NoBuf,
                                  !.front = f]]

Ended(u, v, d, b0, b, f) ==
  /\ v \in World /\ v.cmd = u.cmd
  /\ MemInv(v, win, Draw, Cmd) /\ HeldApart(v.priv)
  /\ Quiet(u, v) /\ \A e \in Draw \ {d} : v.priv[e] = u.priv[e]
  /\ v.priv[d].back \in {b, NoBuf} /\ v.priv[d].front = f
  /\ f # NoBuf => FrontBuffer(v, d, f)
  /\ \A y \in Buf \ {b0, b} : v.buf[y] = u.buf[y]

LEMMA GetBuffersEnd ==
  ASSUME NumBufs = 2, NEW u \in World, WinsTyped(win), WinApart(win, top),
         NEW d \in Draw, win[d] # NoPix,
         MemInv(u, win, Draw \ {d}, Cmd), HeldApart(u.priv),
         \A k \in Cmd : u.cmd[k].live /\ ~u.cmd[k].fail => u.cmd[k].draw # d,
         NEW b0 \in Buf \cup {NoBuf},
         b0 \in Buf => u.buf[b0].ref > 0 /\ Apart(u, Draw \ {d}, b0),
         NEW b, b # NoBuf => /\ b \in Buf /\ BackBuffer(u, d, b)
                             /\ Apart(u, Draw \ {d}, b) /\ b # b0,
         NEW f, f # NoBuf => /\ f \in Buf /\ FrontBuffer(u, d, f)
                             /\ Apart(u, Draw \ {d}, f) /\ f # b0
                             /\ b # NoBuf
  PROVE  Ended(u, Handed(BackGone(u, b0, b, f), d, b, f), d, b0, b, f)
<1> DEFINE D  == Draw \ {d}
           all == f # NoBuf
           w2 == DestroyBuffer(u, b0)
           w3 == IF all THEN w2 ELSE DestroyBuffer(w2, b)
           pr == [u.priv[d] EXCEPT !.fresh = TRUE,
                                   !.back  = IF all THEN b ELSE NoBuf,
                                   !.front = f]
           v  == Handed(BackGone(u, b0, b, f), d, b, f)
<1>0. v = [w3 EXCEPT !.priv[d] = [@ EXCEPT !.fresh = TRUE,
                                           !.back  = IF all THEN b ELSE NoBuf,
                                           !.front = f]]
  BY DEF Handed, BackGone
<1> HIDE DEF v
<1>1. MemInv(u, win, D, Cmd) /\ D \in SUBSET Draw /\ Cmd \in SUBSET Cmd
  OBVIOUS
<1>2. /\ b0 \in Buf => u.buf[b0].ref > 0 /\ Apart(u, D, b0)
      /\ b # NoBuf => /\ b \in Buf /\ BackBuffer(u, d, b)
                      /\ Apart(u, D, b) /\ b # b0
      /\ f # NoBuf => /\ f \in Buf /\ FrontBuffer(u, d, f)
                      /\ Apart(u, D, f) /\ f # b0 /\ b # NoBuf
  OBVIOUS
<1> HIDE DEF D
<1>3. /\ w2 \in World /\ SameRest(u, w2) /\ MemInv(w2, win, D, Cmd)
      /\ Quiet(u, w2) /\ \A y \in Buf \ {b0} : w2.buf[y] = u.buf[y]
      /\ b # NoBuf => BackBuffer(w2, d, b)
      /\ f # NoBuf => FrontBuffer(w2, d, f)
  <2>1. /\ w2 \in World /\ SameRest(u, w2) /\ Kept(u, w2) /\ MemInv(w2, win, D, Cmd)
        /\ Quiet(u, w2)
        /\ \A y \in Buf \ {b0} : w2.buf[y] = u.buf[y]
    <3>1. Freed(u, w2, D, b0)
      BY ONLY NumBufs = 2, u \in World, WinsTyped(win), b0 \in Buf \cup {NoBuf},
              <1>1, <1>2, Destroying
    <3> HIDE DEF w2
    <3> QED BY <3>1, Zenon DEF Freed
  <2> HIDE DEF w2
  <2>2. b # NoBuf => BackBuffer(w2, d, b)
    <3> SUFFICES ASSUME b # NoBuf PROVE BackBuffer(w2, d, b)
      OBVIOUS
    <3>1. b \in Buf /\ w2.buf[b] = u.buf[b] /\ BackBuffer(u, d, b)
      BY <1>2, <2>1
    <3> QED BY ONLY u \in World, WinsTyped(win), <1>1, <2>1, <3>1, BackStays
  <2>3. f # NoBuf => FrontBuffer(w2, d, f)
    BY <1>2, <2>1 DEF FrontBuffer
  <2> QED BY <2>1, <2>2, <2>3
<1> HIDE DEF w2
<1>4. w2.priv = u.priv /\ w2.cmd = u.cmd
  BY <1>3 DEF SameRest, SameSwaps
<1>5. /\ w3 \in World /\ SameRest(w2, w3) /\ MemInv(w3, win, D, Cmd)
      /\ Quiet(w2, w3) /\ \A y \in Buf \ {b} : w3.buf[y] = w2.buf[y]
      /\ f # NoBuf => BackBuffer(w3, d, b) /\ FrontBuffer(w3, d, f)
  <2>1. CASE all
    <3>1. w3 = w2 /\ Quiet(w2, w2)
      BY <2>1, Zenon DEF Quiet, Stays
    <3> QED BY <1>2, <1>3, <2>1, <3>1 DEF SameRest, SameSwaps
  <2>2. CASE ~all
    <3> DEFINE x == DestroyBuffer(w2, b)
    <3>0. b \in Buf \cup {NoBuf} /\ (b \in Buf => w2.buf[b].ref > 0 /\ Apart(w2, D, b))
      BY <1>2, <1>3, <1>4, SwapAssumption, Zenon DEF BackBuffer, Apart
    <3>1. /\ x \in World /\ SameRest(w2, x) /\ MemInv(x, win, D, Cmd)
          /\ Quiet(w2, x) /\ \A y \in Buf \ {b} : x.buf[y] = w2.buf[y]
      <4>1. Freed(w2, x, D, b)
        BY ONLY NumBufs = 2, WinsTyped(win), <1>1, <1>3, <3>0, Destroying
      <4> HIDE DEF x
      <4> QED BY <4>1, Zenon DEF Freed
    <3>2. w3 = x
      BY <2>2
    <3> HIDE DEF x, w3
    <3> QED BY <2>2, <3>1, <3>2
  <2> QED BY <2>1, <2>2
<1> HIDE DEF w3
<1>6. w3.priv = u.priv /\ w3.cmd = u.cmd
  BY <1>4, <1>5 DEF SameRest, SameSwaps
<1>7. /\ pr \in PrivRec /\ pr.back = (IF all THEN b ELSE NoBuf) /\ pr.front = f
  <2>1. u.priv[d] \in PrivRec
    BY WorldFields
  <2>2. (IF all THEN b ELSE NoBuf) \in Buf \cup {NoBuf} /\ f \in Buf \cup {NoBuf}
    BY <1>2
  <2> QED BY <2>1, <2>2 DEF PrivRec
<1>8. v = [w3 EXCEPT !.priv[d] = pr]
  BY <1>0, <1>6
<1> HIDE DEF pr
<1>9. MemInv(v, win, Draw, Cmd)
  <2>1. pr.back # NoBuf => /\ BackBuffer(w3, d, pr.back)
                           /\ pr.front # NoBuf /\ FrontBuffer(w3, d, pr.front)
    BY <1>5, <1>7
  <2>2. CanFlip(d) => win[d] = Root
    BY SwapAssumption DEF CanFlip, WinApart
  <2>3. \A g \in Draw \ {d} : win[d] = win[g] => win[g] \in {Root, NoPix}
    BY DEF WinApart
  <2>4. \A k \in Cmd : w3.cmd[k].live /\ ~w3.cmd[k].fail => w3.cmd[k].draw # d
    BY <1>6
  <2>5. MemInv(w3, win, Draw \ {d}, Cmd)
    BY <1>5 DEF D
  <2>6. MemInv([w3 EXCEPT !.priv[d] = pr], win, Draw, Cmd)
    BY ONLY <1>5, <1>7, WinsTyped(win), d \in Draw, win[d] # NoPix,
            <2>1, <2>2, <2>3, <2>4, <2>5, GiveBuffers
  <2> QED BY <1>8, <2>6
<1>10. HeldApart(v.priv)
  <2> DEFINE pv == v.priv
  <2>1. pv[d] = pr /\ \A e \in Draw \ {d} : pv[e] = u.priv[e]
    BY <1>5, <1>6, <1>8, WorldFields
  <2> HIDE DEF pv
  <2>2. \A e \in Draw : pv[e].back = NoBuf <=> pv[e].front = NoBuf
    BY <1>2, <1>7, <2>1 DEF HeldApart
  <2>3. ASSUME NEW e \in Draw \ {d}, NEW x \in {pv[d].back, pv[d].front} \cap Buf
        PROVE  x # pv[e].back /\ x # pv[e].front
    BY <1>2, <1>7, <2>1, SwapAssumption DEF Apart, D
  <2>4. ASSUME NEW a \in Draw, NEW e \in Draw \ {a},
               NEW x \in {pv[a].back, pv[a].front} \cap Buf
        PROVE  x # pv[e].back /\ x # pv[e].front
    <3>1. CASE a = d
      BY <2>3, <3>1
    <3>2. CASE e = d
      <4>1. a \in Draw \ {d}
        BY <3>2
      <4> QED BY <2>3, <3>2, <4>1
    <3>3. CASE a # d /\ e # d
      BY <2>1, <3>3 DEF HeldApart
    <3> QED BY <3>1, <3>2, <3>3
  <2>5. HeldApart(pv)
    BY <2>2, <2>4 DEF HeldApart
  <2> QED BY <2>5 DEF pv
<1>11. v \in World /\ v.cmd = u.cmd
  BY <1>5, <1>6, <1>7, <1>8 DEF World
<1>12. /\ v.priv[d] = pr /\ \A e \in Draw \ {d} : v.priv[e] = u.priv[e]
       /\ v.mem = w3.mem /\ v.buf = w3.buf /\ v.hw = w3.hw
  <2> DEFINE g == [w3.priv EXCEPT ![d] = pr]
  <2>1. v = [w3 EXCEPT !.priv = g]
    BY <1>8
  <2>2. g[d] = pr /\ \A e \in Draw \ {d} : g[e] = u.priv[e]
    BY <1>5, <1>6, WorldFields
  <2> HIDE DEF g
  <2> QED BY <1>5, <2>1, <2>2 DEF World
<1>13. Quiet(u, v)
  <2>1. Quiet(u, w3)
    BY <1>3, <1>5, QuietTrans, Zenon
  <2>2. ASSUME NEW y \in Buf, v.buf[y].ref > 0
        PROVE  Stays(u, v, y) \/ Fresh(v, y)
    <3>1. Stays(u, w3, y) \/ Fresh(w3, y)
      BY <1>12, <2>1, <2>2, Zenon DEF Quiet
    <3>2. Stays(u, w3, y) => Stays(u, v, y)
      BY <1>12, Zenon DEF Stays, Showing
    <3>3. Fresh(w3, y) => Fresh(v, y)
      BY <1>12, Zenon DEF Fresh, Showing
    <3> QED BY <3>1, <3>2, <3>3
  <2> QED BY <1>12, <2>1, <2>2, Zenon DEF Quiet
<1>14. f # NoBuf => FrontBuffer(v, d, f)
  BY <1>5, <1>12, Zenon DEF FrontBuffer
<1>15. v.priv[d].back \in {b, NoBuf} /\ v.priv[d].front = f
  BY <1>7, <1>12
<1>16. \A y \in Buf \ {b0, b} : v.buf[y] = u.buf[y]
  BY <1>3, <1>5, <1>12
<1> QED BY <1>9, <1>10, <1>11, <1>12, <1>13, <1>14, <1>15, <1>16 DEF v, Ended

-----------------------------------------------------------------------------
(* The end of a swap *)

\* DestroyBuffer drops a use of a buffer that others keep in use.
LEMMA DropUse ==
  ASSUME NumBufs = 2, NEW w \in World, NEW wn, WinsTyped(wn),
         NEW K \in SUBSET Cmd, MemInv(w, wn, Draw, K),
         NEW x \in Buf, w.buf[x].ref > 0,
         \A e \in Draw : x \in {w.priv[e].back, w.priv[e].front} => w.buf[x].ref > 1
  PROVE  LET v == DestroyBuffer(w, x)
         IN  /\ v \in World /\ SameRest(w, v) /\ MemInv(v, wn, Draw, K)
             /\ \A y \in Buf : v.buf[y].ref = w.buf[y].ref - Is(x, y)
<1> DEFINE v == DestroyBuffer(w, x)
<1>0. w.buf[x].ref \in Int
  BY WorldFields, BufFields
<1>1. \A y \in Buf : v.buf[y].ref = w.buf[y].ref - Is(x, y)
  BY <1>0, DestroyBufferRefs
<1>2. /\ v \in World /\ SameRest(w, v)
      /\ \A y \in Buf \ {x} : v.buf[y] = w.buf[y]
      /\ Sound(v, wn) /\ Kept(w, v)
      /\ v.mem.pbo[Root] = w.mem.pbo[Root]
      /\ w.buf[x].ref > 1 => BufKept(w, v, x)
  <2>1. Sound(w, wn)
    BY DEF MemInv, SwapInv
  <2> QED BY <2>1, DestroyOne
<1> HIDE DEF v
<1>3. Spared(w, v, Draw)
  <2> SUFFICES ASSUME NEW e \in Draw, w.priv[e].back # NoBuf,
                      NEW y \in {w.priv[e].back, w.priv[e].front}, y \in Buf
               PROVE  BufKept(w, v, y)
    BY DEF Spared
  <2>1. w.buf[y].ref > 0
    BY Zenon DEF MemInv, SwapInv, WinSound
  <2> QED BY <1>2, <2>1 DEF BufKept
<1>4. MemInv(v, wn, Draw, K)
  BY <1>2, <1>3, Call
<1> QED BY <1>1, <1>2, <1>4 DEF v

\* The command k drops its bos and is freed.
Settled(w, k) ==
  [w EXCEPT !.mem = BoUnref(BoUnref(@, w.cmd[k].oldSrc), w.cmd[k].oldDst),
            !.pending = @ - 1,
            !.cmd[k] = NoCmdRec]

LEMMA Settle ==
  ASSUME NEW w \in World, NEW wn, WinsTyped(wn), NEW k \in Cmd,
         MemInv(w, wn, Draw, Cmd \ {k})
  PROVE  MemInv(Settled(w, k), wn, Draw, Cmd)
<1> DEFINE a  == w.cmd[k].oldSrc
           b  == w.cmd[k].oldDst
           m1 == BoUnref(w.mem, a)
           m2 == BoUnref(m1, b)
           f  == [w.cmd EXCEPT ![k] = NoCmdRec]
           pd == w.pending - 1
           v  == [w EXCEPT !.mem = m2, !.pending = pd, !.cmd = f]
           K  == Cmd \ {k}
<1>0. Sound(w, wn) /\ w.mem \in Mem /\ w.cmd \in [Cmd -> CmdRec]
  BY WorldFields DEF MemInv, SwapInv
<1>1. a \in Bo \cup {NoBo} /\ b \in Bo \cup {NoBo}
  BY <1>0, CmdFields
<1> HIDE DEF a, b
<1>2. m1 \in Mem /\ m2 \in Mem
  <2>1. m1 \in Mem
    BY <1>0, BoUnrefType
  <2> HIDE DEF m1
  <2> QED BY <2>1, BoUnrefType
<1>3. /\ f \in [Cmd -> CmdRec] /\ f[k] = NoCmdRec
      /\ \A j \in Cmd \ {k} : f[j] = w.cmd[j]
  BY <1>0, NoCmdRecType
<1>4. pd \in Int
  BY WorldFields
<1>5. v = Settled(w, k)
  BY DEF Settled, a, b
<1> DEFINE m == w.mem
<1>6. /\ m1.pref = m.pref /\ m1.ext = m.ext /\ m1.pbo = m.pbo
      /\ \A x \in Bo : m1.ref[x] = m.ref[x] - Is(a, x)
      /\ \A x \in Bo : m1.fb[x] => m.fb[x]
      /\ \A x \in Bo : m1.ref[x] > 0 => (m1.fb[x] <=> m.fb[x])
      /\ m.ok /\ (a \in Bo => m.ref[a] > 0) => m1.ok
  BY ONLY <1>0, <1>1, BoUnrefForm
<1> HIDE DEF m1
<1>7. /\ m2.pref = m1.pref /\ m2.ext = m1.ext /\ m2.pbo = m1.pbo
      /\ \A x \in Bo : m2.ref[x] = m1.ref[x] - Is(b, x)
      /\ \A x \in Bo : m2.ref[x] > 0 => (m2.fb[x] <=> m1.fb[x])
      /\ m1.ok /\ (b \in Bo => m1.ref[b] > 0) => m2.ok
  BY ONLY <1>1, <1>2, BoUnrefForm
<1> HIDE DEF m2
<1>8. /\ v \in World /\ v.mem = m2 /\ v.cmd = f /\ v.buf = w.buf
      /\ v.scanout = w.scanout /\ v.priv = w.priv
  BY <1>2, <1>3, <1>4 DEF World
<1> HIDE DEF f, pd, v
\* What k held is no longer counted.
<1>9. \A x \in Bo : /\ m.ref[x] \in Nat /\ m.ref[x] >= Is(a, x) + Is(b, x)
                    /\ Held(m2, w.buf, f, w.scanout, x) = m.ref[x] - Is(a, x) - Is(b, x)
  <2> SUFFICES ASSUME NEW x \in Bo
               PROVE  /\ m.ref[x] \in Nat /\ m.ref[x] >= Is(a, x) + Is(b, x)
                      /\ Held(m2, w.buf, f, w.scanout, x) = m.ref[x] - Is(a, x) - Is(b, x)
    OBVIOUS
  <2>1. m.ref[x] = Times(m.pbo, x) + Times(BufBos(w.buf), x)
                   + Times(OldSrcs(w.cmd), x) + Times(OldDsts(w.cmd), x) + Is(w.scanout, x)
    BY <1>0 DEF Sound, BosCounted, Held
  <2>2. Held(m2, w.buf, f, w.scanout, x)
          = Times(m2.pbo, x) + Times(BufBos(w.buf), x)
            + Times(OldSrcs(f), x) + Times(OldDsts(f), x) + Is(w.scanout, x)
    BY DEF Held
  <2>3. /\ Times(OldSrcs(f), x)
              = Times(OldSrcs(w.cmd), x) + Is(f[k].oldSrc, x) - Is(w.cmd[k].oldSrc, x)
        /\ Times(OldDsts(f), x)
              = Times(OldDsts(w.cmd), x) + Is(f[k].oldDst, x) - Is(w.cmd[k].oldDst, x)
    <3> DEFINE cm == w.cmd
    <3>1. \A j \in Cmd \ {k} : f[j] = cm[j]
      BY <1>3
    <3> HIDE DEF cm
    <3>2. /\ Times(OldSrcs(f), x)
                = Times(OldSrcs(cm), x) + Is(f[k].oldSrc, x) - Is(cm[k].oldSrc, x)
          /\ Times(OldDsts(f), x)
                = Times(OldDsts(cm), x) + Is(f[k].oldDst, x) - Is(cm[k].oldDst, x)
      BY ONLY k \in Cmd, <3>1, HeldByCommand
    <3> QED BY <3>2 DEF cm
  <2>4. Is(f[k].oldSrc, x) = 0 /\ Is(f[k].oldDst, x) = 0
    BY <1>3, MemAssumption DEF NoCmdRec, Is
  <2>5. /\ Times(m.pbo, x) \in Nat /\ Times(BufBos(w.buf), x) \in Nat
        /\ Times(OldSrcs(w.cmd), x) \in Nat /\ Times(OldDsts(w.cmd), x) \in Nat
        /\ Times(OldSrcs(f), x) \in Nat /\ Times(OldDsts(f), x) \in Nat
        /\ Is(w.scanout, x) \in {0, 1} /\ Is(a, x) \in {0, 1} /\ Is(b, x) \in {0, 1}
    BY <1>0, HeldTypes
  <2>6. m2.pbo = m.pbo
    BY <1>6, <1>7
  <2> QED BY <2>1, <2>2, <2>3, <2>4, <2>5, <2>6 DEF a, b
<1>10. Sound(v, wn)
  <2>1. m2.ok
    <3>1. m.ok
      BY <1>0 DEF Sound
    <3>2. a \in Bo => m.ref[a] > 0
      <4> SUFFICES ASSUME a \in Bo PROVE m.ref[a] > 0
        OBVIOUS
      <4>1. m.ref[a] \in Nat /\ m.ref[a] >= Is(a, a) + Is(b, a)
        BY <1>9
      <4>2. Is(a, a) = 1 /\ Is(b, a) \in {0, 1}
        BY DEF Is
      <4> HIDE DEF m
      <4> QED BY <4>1, <4>2
    <3>3. b \in Bo => m1.ref[b] > 0
      <4> SUFFICES ASSUME b \in Bo PROVE m1.ref[b] > 0
        OBVIOUS
      <4>1. m.ref[b] \in Nat /\ m.ref[b] >= Is(a, b) + Is(b, b)
        BY <1>9
      <4>2. Is(b, b) = 1 /\ Is(a, b) \in {0, 1} /\ m1.ref[b] = m.ref[b] - Is(a, b)
        BY <1>6 DEF Is
      <4> HIDE DEF m
      <4> QED BY <4>1, <4>2
    <3> QED BY <1>6, <1>7, <3>1, <3>2, <3>3
  <2>2. BosCounted(v)
    <3> SUFFICES ASSUME NEW x \in Bo PROVE m2.ref[x] = Held(m2, w.buf, f, w.scanout, x)
      BY <1>8 DEF BosCounted
    <3> QED BY <1>6, <1>7, <1>9
  <2>3. PixCounted(v, wn) /\ PixSound(v.mem) /\ BufSound(v)
    <3>1. m2.pref = m.pref /\ m2.ext = m.ext /\ m2.pbo = m.pbo
      BY <1>6, <1>7
    <3> QED BY <1>0, <1>8, <3>1 DEF Sound, PixCounted, PixSound, BufSound
  <2> QED BY <1>8, <2>1, <2>2, <2>3 DEF Sound
<1>11. Kept(w, v)
  <2>1. m2.pbo = m.pbo
    BY <1>6, <1>7
  <2>2. ASSUME NEW x \in Bo, m2.ref[x] > 0
        PROVE  m2.fb[x] <=> m.fb[x]
    <3>1. m2.ref[x] = m1.ref[x] - Is(b, x) /\ m1.ref[x] \in Int /\ Is(b, x) \in {0, 1}
      BY <1>2, <1>7, MemFields DEF Is
    <3>2. m1.ref[x] > 0
      BY <2>2, <3>1
    <3> QED BY <1>6, <1>7, <2>2, <3>2
  <2> QED BY <1>8, <2>1, <2>2 DEF Kept
<1>12. SwapInv(v, wn, Draw, K)
  <2>1. SwapInv(w, wn, Draw, K) /\ K \in SUBSET Cmd /\ Draw \in SUBSET Draw
    BY DEF MemInv
  <2>2. HoldsKept(w, v, Draw)
    BY <1>8, Zenon DEF HoldsKept, BufKept, MemInv, SwapInv, WinSound
  <2>3. CmdKept(w, v, K) /\ WinsKept(w, v, wn, wn, Draw)
    BY <1>3, <1>8 DEF CmdKept, WinsKept
  <2> HIDE DEF K
  <2> QED BY <1>8, <1>10, <1>11, <2>1, <2>2, <2>3, Frame
<1>13. SwapInv(v, wn, Draw, Cmd)
  <2>1. ~v.cmd[k].live
    BY <1>3, <1>8 DEF NoCmdRec
  <2>2. CmdHolds(v.cmd[k]) /\ CmdSound(v, wn, k)
    BY <2>1, Zenon DEF CmdHolds, CmdSound
  <2> QED BY <1>12, <2>2 DEF SwapInv
<1>14. ScreenSound(v)
  <2>1. SameScreen(w, v)
    BY <1>6, <1>7, <1>8 DEF SameScreen
  <2> QED BY <1>0, <1>8, <1>10, <1>11, <2>1, ScreenKept DEF MemInv
<1> QED BY <1>5, <1>13, <1>14 DEF MemInv

\* Enough uses of the buffers of command k for those that have them.
UsesOf(w, k) ==
  \A x \in Buf :
    /\ w.buf[x].ref \in Int
    /\ w.buf[x].ref >= Is(w.cmd[k].src, x) + Is(w.cmd[k].dst, x)
    /\ \A e \in Draw : w.buf[x].ref >= Is(w.priv[e].back, x) + Is(w.priv[e].front, x)
                                       + Is(w.cmd[k].src, x) + Is(w.cmd[k].dst, x)

\* Release
LEMMA ReleaseMem ==
  ASSUME NumBufs = 2, NEW w \in World, NEW wn, WinsTyped(wn), NEW k \in Cmd,
         MemInv(w, wn, Draw, Cmd \ {k}), UsesOf(w, k),
         w.cmd[k].src \in Buf, w.cmd[k].dst \in Buf
  PROVE  MemInv(Release(w, k), wn, Draw, Cmd)
<1> DEFINE s == w.cmd[k].src
           t == w.cmd[k].dst
           K == Cmd \ {k}
           u == DestroyBuffer(w, s)
           v == DestroyBuffer(u, t)
<1>0. \A a, b : Is(a, b) \in {0, 1} /\ Is(a, a) = 1
  BY DEF Is
<1>1. /\ u \in World /\ SameRest(w, u) /\ MemInv(u, wn, Draw, K)
      /\ \A y \in Buf : u.buf[y].ref = w.buf[y].ref - Is(s, y)
  <2>1. w.buf[s].ref > 0
    BY <1>0 DEF UsesOf
  <2>2. ASSUME NEW e \in Draw, s \in {w.priv[e].back, w.priv[e].front}
        PROVE  w.buf[s].ref > 1
    BY <1>0, <2>2 DEF UsesOf
  <2>3. K \in SUBSET Cmd /\ MemInv(w, wn, Draw, K)
    OBVIOUS
  <2> HIDE DEF K
  <2> QED BY <2>1, <2>2, <2>3, DropUse
<1> HIDE DEF u
<1>2. u.priv = w.priv /\ u.cmd = w.cmd
  BY <1>1 DEF SameRest, SameSwaps
<1>3. v \in World /\ SameRest(u, v) /\ MemInv(v, wn, Draw, K)
  <2>0. \A x \in Buf : w.buf[x].ref \in Int
    BY DEF UsesOf
  <2>1. u.buf[t].ref > 0
    BY <1>0, <1>1, <2>0 DEF UsesOf
  <2>2. ASSUME NEW e \in Draw, t \in {u.priv[e].back, u.priv[e].front}
        PROVE  u.buf[t].ref > 1
    <3>1. w.buf[t].ref >= Is(w.priv[e].back, t) + Is(w.priv[e].front, t) + Is(s, t) + Is(t, t)
      BY DEF UsesOf
    <3>2. /\ u.buf[t].ref = w.buf[t].ref - Is(s, t) /\ w.buf[t].ref \in Int
          /\ Is(t, t) = 1 /\ Is(s, t) \in {0, 1}
          /\ Is(w.priv[e].back, t) \in {0, 1} /\ Is(w.priv[e].front, t) \in {0, 1}
          /\ Is(w.priv[e].back, t) = 1 \/ Is(w.priv[e].front, t) = 1
      BY <1>0, <1>1, <1>2, <2>0, <2>2
    <3> HIDE DEF s, t
    <3> QED BY <3>1, <3>2
  <2>3. K \in SUBSET Cmd
    OBVIOUS
  <2> HIDE DEF K
  <2> QED BY <1>1, <2>1, <2>2, <2>3, DropUse
<1> HIDE DEF v
<1>4. v.cmd = w.cmd
  BY <1>2, <1>3 DEF SameRest, SameSwaps
<1>5. MemInv(Settled(v, k), wn, Draw, Cmd)
  BY <1>3, Settle
<1>6. Release(w, k) = Settled(v, k)
  BY <1>4 DEF Release, Settled, v, u
<1> QED BY <1>5, <1>6

-----------------------------------------------------------------------------
(* The exchange of two pixmaps *)

\* Two arguments that trade their values change no count.
LEMMA TimesTrade ==
  ASSUME NEW S, IsFiniteSet(S), NEW f, f = [x \in S |-> f[x]], NEW a \in S, NEW b \in S,
         a # b, NEW v
  PROVE  Times([f EXCEPT ![a] = f[b], ![b] = f[a]], v) = Times(f, v)
<1> DEFINE g == [f EXCEPT ![a] = f[b]]
           h == [f EXCEPT ![a] = f[b], ![b] = f[a]]
<1>1. DOMAIN f = S /\ DOMAIN g = S /\ DOMAIN h = S
  OBVIOUS
<1>2. g[a] = f[b] /\ \A x \in S \ {a} : g[x] = f[x]
  OBVIOUS
<1>3. h[b] = f[a] /\ \A x \in S \ {b} : h[x] = g[x]
  OBVIOUS
<1> HIDE DEF g, h
<1>4. Times(g, v) = Times(f, v) + Is(g[a], v) - Is(f[a], v)
  BY <1>1, <1>2, TimesUpdate
<1>5. Times(h, v) = Times(g, v) + Is(h[b], v) - Is(g[b], v)
  BY <1>1, <1>3, TimesUpdate
<1>6. /\ Times(f, v) \in Nat /\ Times(g, v) \in Nat /\ Times(h, v) \in Nat
      /\ Is(f[a], v) \in Nat /\ Is(f[b], v) \in Nat
  BY <1>1, TimesType DEF Is
<1>7. Times(h, v) = Times(f, v)
  BY <1>2, <1>3, <1>4, <1>5, <1>6
<1> QED BY <1>7 DEF h

\* What the exchange of the bos of a back buffer s and a window d changes.
Traded(w, v, p, q) ==
  /\ v.mem.pbo = [w.mem.pbo EXCEPT ![p] = w.mem.pbo[q], ![q] = w.mem.pbo[p]]
  /\ v.mem.pref = w.mem.pref /\ v.mem.ext = w.mem.ext
  /\ v.mem.ref = w.mem.ref /\ v.mem.fb = w.mem.fb /\ v.mem.ok = w.mem.ok
  /\ \A x \in Buf : /\ v.buf[x].ref = w.buf[x].ref /\ v.buf[x].att = w.buf[x].att
                    /\ v.buf[x].pix = w.buf[x].pix /\ v.buf[x].bo = w.buf[x].bo
                    /\ w.buf[x].ref > 0 \/ v.buf[x] = w.buf[x]

LEMMA ExchangeForm ==
  ASSUME NumBufs = 2, NEW w \in World, NEW d \in Draw, win[d] \in Pix,
         NEW s \in Buf, NEW t \in Buf, w.buf[s].pix[0] \in Pix,
         w.buf[s].ref > 0, w.buf[s].att = "back",
         w.buf[t].ref > 0, w.buf[t].att = "front"
  PROVE  LET v == ExchangeBufs(w, d, s, t)
         IN  v \in World /\ SameRest(w, v) /\ Traded(w, v, w.buf[s].pix[0], win[d])
<1> DEFINE p  == w.buf[s].pix[0]
           q  == win[d]
           g  == [w.mem.pbo EXCEPT ![p] = w.mem.pbo[q], ![q] = w.mem.pbo[p]]
           m  == [w.mem EXCEPT !.pbo = g]
           ra == [w.buf[s] EXCEPT !.name = w.buf[t].name]
           f1 == [w.buf EXCEPT ![s] = ra]
           rb == [f1[t] EXCEPT !.name = w.buf[s].name]
           f2 == [f1 EXCEPT ![t] = rb]
           v  == ExchangeBufs(w, d, s, t)
<1>1. v \in World /\ SameRest(w, v)
  BY ExchangeBufsType DEF SameRest
<1>2. Dri2Pix(w, d, s) = p /\ Dri2Pix(w, d, t) = q
  <2>1. w.buf[s].cur = 0
    BY WorldFields, OnePixmap
  <2> QED BY <2>1 DEF Dri2Pix
<1>3. PixmapExchange(w.mem, p, q) = m
  <2>1. {p, q} \subseteq Pix
    OBVIOUS
  <2> QED BY <2>1 DEF PixmapExchange
<1>4. v = [w EXCEPT !.mem = m, !.buf = f2]
  BY <1>2, <1>3 DEF ExchangeBufs
<1>5. /\ m.pbo = g /\ m.pref = w.mem.pref /\ m.ext = w.mem.ext
      /\ m.ref = w.mem.ref /\ m.fb = w.mem.fb /\ m.ok = w.mem.ok
  BY WorldFields DEF Mem
<1>6. /\ ra.ref = w.buf[s].ref /\ ra.att = w.buf[s].att
      /\ ra.pix = w.buf[s].pix /\ ra.bo = w.buf[s].bo
  BY WorldFields DEF BufRec
<1>7. f1[s] = ra /\ \A x \in Buf \ {s} : f1[x] = w.buf[x]
  BY WorldFields
<1>8. f2[t] = rb /\ \A x \in Buf \ {t} : f2[x] = f1[x]
  BY WorldFields
<1>9. /\ rb.ref = f1[t].ref /\ rb.att = f1[t].att
      /\ rb.pix = f1[t].pix /\ rb.bo = f1[t].bo
  <2>1. f1[t] \in BufRec
    BY <1>7, WorldFields DEF BufRec
  <2> QED BY <2>1 DEF BufRec
<1> HIDE DEF v, m, ra, rb, f1, f2, g
<1>10. v.mem = m /\ v.buf = f2
  BY <1>4 DEF World
<1>11. \A x \in Buf : /\ f2[x].ref = w.buf[x].ref /\ f2[x].att = w.buf[x].att
                      /\ f2[x].pix = w.buf[x].pix /\ f2[x].bo = w.buf[x].bo
                      /\ w.buf[x].ref > 0 \/ f2[x] = w.buf[x]
  <2> SUFFICES ASSUME NEW x \in Buf
               PROVE  /\ f2[x].ref = w.buf[x].ref /\ f2[x].att = w.buf[x].att
                      /\ f2[x].pix = w.buf[x].pix /\ f2[x].bo = w.buf[x].bo
                      /\ w.buf[x].ref > 0 \/ f2[x] = w.buf[x]
    OBVIOUS
  <2>1. CASE x = t
    BY <1>6, <1>7, <1>8, <1>9, <2>1
  <2>2. CASE x = s /\ x # t
    BY <1>6, <1>7, <1>8, <2>2
  <2>3. CASE x # s /\ x # t
    BY <1>7, <1>8, <2>3
  <2> QED BY <2>1, <2>2, <2>3
<1>12. Traded(w, v, p, q)
  BY <1>5, <1>10, <1>11 DEF Traded, g
<1> QED BY <1>1, <1>12 DEF v

\* Two pixmaps that live trade their bos: the counts stay.
LEMMA TradeSound ==
  ASSUME NEW w \in World, NEW v \in World, NEW wn, Sound(w, wn), SameRest(w, v),
         NEW p \in Pix, NEW q \in Pix, p # q, w.mem.pref[p] > 0, w.mem.pref[q] > 0,
         Traded(w, v, p, q)
  PROVE  Sound(v, wn)
<1> DEFINE f == w.mem.pbo
           g == [f EXCEPT ![p] = f[q], ![q] = f[p]]
<1>0. f = [x \in Pix |-> f[x]] /\ f[p] \in Bo /\ f[q] \in Bo
  <2>1. f \in [Pix -> Bo \cup {NoBo}]
    BY WorldFields, MemFields
  <2> QED BY <2>1 DEF Sound, PixSound
<1>1. /\ v.mem.pbo = g /\ v.mem.pref = w.mem.pref /\ v.mem.ext = w.mem.ext
      /\ v.mem.ref = w.mem.ref /\ v.mem.ok = w.mem.ok
      /\ v.cmd = w.cmd /\ v.scanout = w.scanout
  BY DEF Traded, SameRest, SameSwaps
<1>2. BufPixs(v.buf) = BufPixs(w.buf) /\ BufBos(v.buf) = BufBos(w.buf)
  BY DEF Traded, BufPixs, BufBos
<1>3. \A x : Times(v.mem.pbo, x) = Times(f, x)
  <2> SUFFICES ASSUME NEW x PROVE Times(g, x) = Times(f, x)
    BY <1>1
  <2>1. IsFiniteSet(Pix)
    BY MemAssumption
  <2> HIDE DEF f
  <2> QED BY <1>0, <2>1, TimesTrade
<1>4. BosCounted(v)
  BY <1>1, <1>2, <1>3 DEF Sound, BosCounted, Held
<1>5. PixCounted(v, wn)
  BY <1>1, <1>2 DEF Sound, PixCounted
<1>6. PixSound(v.mem)
  <2>1. g[p] = f[q] /\ g[q] = f[p] /\ \A x \in Pix \ {p, q} : g[x] = f[x]
    BY <1>0
  <2>2. \A x \in Pix : /\ IF w.mem.pref[x] > 0 THEN f[x] \in Bo ELSE f[x] = NoBo
                       /\ \A y \in Pix \ {x} : f[y] = f[x] => f[x] = NoBo
    BY DEF Sound, PixSound
  <2> HIDE DEF f, g
  <2>3. \A x \in Pix : IF w.mem.pref[x] > 0 THEN g[x] \in Bo ELSE g[x] = NoBo
    BY <1>0, <2>1, <2>2
  <2>4. ASSUME NEW x \in Pix, NEW y \in Pix \ {x}, g[y] = g[x]
        PROVE  g[x] = NoBo
    <3> DEFINE tr(z) == IF z = p THEN q ELSE IF z = q THEN p ELSE z
    <3>1. g[x] = f[tr(x)] /\ g[y] = f[tr(y)] /\ tr(x) \in Pix /\ tr(y) \in Pix \ {tr(x)}
      BY <2>1
    <3> HIDE DEF tr
    <3> QED BY <2>2, <2>4, <3>1
  <2> QED BY <1>1, <2>3, <2>4 DEF PixSound
<1>7. BufSound(v)
  BY <1>1 DEF Sound, BufSound, Traded
<1> QED BY <1>1, <1>4, <1>5, <1>6, <1>7 DEF Sound

\* Window d may trade the bo of its pixmap for that of its back buffer s: either
\* its front t is the screen, or neither bo has an fb.
Tradable(w, d, s, t) ==
  /\ s \in Buf /\ t \in Buf /\ win[d] # NoPix
  /\ w.priv[d].back = s /\ w.priv[d].front = t
  /\ \/ w.buf[t].pix[0] = Root
     \/ /\ ~w.mem.fb[w.mem.pbo[w.buf[s].pix[0]]]
        /\ ~w.mem.fb[w.mem.pbo[win[d]]]

\* Only command k, if any, is a swap of d that counts.
OnlySwap(w, d, k) ==
  \A j \in Cmd \ {k} : w.cmd[j].live /\ ~w.cmd[j].fail => w.cmd[j].draw # d

\* The exchange of such a window disturbs its own swap only.
LEMMA TradeMem ==
  ASSUME NumBufs = 2, NEW w \in World, WinsTyped(win), WinApart(win, top),
         SwapInv(w, win, Draw, Cmd), HeldApart(w.priv),
         NEW d \in Draw, NEW s, NEW t, Tradable(w, d, s, t), NEW k, OnlySwap(w, d, k)
  PROVE  LET v == ExchangeBufs(w, d, s, t)
         IN  /\ v \in World /\ SameRest(w, v) /\ SwapInv(v, win, Draw, Cmd \ {k})
             /\ Traded(w, v, w.buf[s].pix[0], win[d])
             /\ w.buf[s].pix[0] \in Pix \ {Root} /\ win[d] \in Pix
<1> DEFINE p == w.buf[s].pix[0]
           q == win[d]
           v == ExchangeBufs(w, d, s, t)
           K == Cmd \ {k}
<1>0. /\ s \in Buf /\ t \in Buf /\ q # NoPix /\ s # NoBuf
      /\ w.priv[d].back = s /\ w.priv[d].front = t
      /\ \/ w.buf[t].pix[0] = Root
         \/ ~w.mem.fb[w.mem.pbo[p]] /\ ~w.mem.fb[w.mem.pbo[q]]
  BY SwapAssumption, Zenon DEF Tradable
<1>1. /\ w.buf[s].ref > 0 /\ w.buf[s].att = "back"
      /\ w.buf[t].ref > 0 /\ w.buf[t].att = "front"
      /\ \A g \in Draw \ {d} : w.buf[t].pix[0] = win[g] => win[g] = Root
  BY <1>0, Zenon DEF SwapInv, WinSound
<1>2. Sound(w, win)
  BY DEF SwapInv
<1>3. /\ p \in Pix /\ w.mem.pref[p] > 0 /\ p # Root
      /\ \A e \in Draw : win[e] # p
      /\ \A y \in Buf \ {s} : w.buf[y].pix[0] # p
  <2>1. /\ w.buf[s].pix[0] \in Pix /\ w.mem.pref[w.buf[s].pix[0]] > 0
        /\ w.buf[s].att = "back" =>
             /\ w.buf[s].pix[0] # Root
             /\ \A e \in Draw : win[e] # w.buf[s].pix[0]
             /\ \A y \in Buf \ {s} : w.buf[y].pix[0] # w.buf[s].pix[0]
    <3>1. s \in Buf /\ w.buf[s].ref > 0
      BY <1>0, <1>1, Zenon
    <3> HIDE <1>0, <1>1 DEF p, q, v, K
    <3> QED BY <1>2, <3>1, InBuffers
  <2> QED BY <1>1, <2>1
<1>4. q \in Pix /\ w.mem.pref[q] > 0
  BY <1>0, <1>2, InUse, Zenon
<1>5. v \in World /\ SameRest(w, v) /\ Traded(w, v, p, q)
  BY ONLY NumBufs = 2, w \in World, d \in Draw, <1>0, <1>1, <1>3, <1>4, ExchangeForm, Zenon
<1> HIDE DEF v
<1>6. Sound(v, win)
  <2>1. p # q
    BY <1>3
  <2> HIDE DEF p, q
  <2> QED BY <1>2, <1>3, <1>4, <1>5, <2>1, TradeSound
<1>7. /\ v.priv = w.priv /\ v.cmd = w.cmd /\ v.mem.fb = w.mem.fb
      /\ v.mem.pbo[p] = w.mem.pbo[q] /\ v.mem.pbo[q] = w.mem.pbo[p]
      /\ \A x \in Pix \ {p, q} : v.mem.pbo[x] = w.mem.pbo[x]
      /\ \A x \in Buf : /\ v.buf[x].ref = w.buf[x].ref /\ v.buf[x].att = w.buf[x].att
                        /\ v.buf[x].pix[0] = w.buf[x].pix[0]
  <2>1. w.mem.pbo \in [Pix -> Bo \cup {NoBo}]
    BY WorldFields, MemFields
  <2> QED BY <1>3, <1>4, <1>5, <2>1, Zenon DEF Traded, SameRest, SameSwaps
<1> HIDE DEF p, q
\* The pixmap of another back buffer is neither of the two.
<1>8. ASSUME NEW x \in Buf \ {s}, w.buf[x].ref > 0, w.buf[x].att = "back"
      PROVE  w.buf[x].pix[0] \in Pix \ {p, q}
  <2>1. w.buf[x].pix[0] \in Pix /\ \A e \in Draw : win[e] # w.buf[x].pix[0]
    BY <1>2, <1>8, InBuffers
  <2> QED BY <1>3, <2>1 DEF q
<1>9. ASSUME NEW e \in Draw, w.priv[e].back # NoBuf
      PROVE  /\ w.priv[e].front # NoBuf /\ win[e] # NoPix
             /\ w.priv[e].back \in Buf /\ w.priv[e].front \in Buf
             /\ w.buf[w.priv[e].back].ref > 0 /\ w.buf[w.priv[e].back].att = "back"
             /\ w.buf[w.priv[e].front].ref > 0 /\ w.buf[w.priv[e].front].att = "front"
             /\ w.mem.fb[w.mem.pbo[w.buf[w.priv[e].back].pix[0]]] =>
                  w.buf[w.priv[e].front].pix[0] = Root
             /\ win[e] # Root /\ w.mem.fb[w.mem.pbo[win[e]]] =>
                  w.buf[w.priv[e].front].pix[0] \in {Root, win[e]}
             /\ \A g \in Draw \ {e} : w.buf[w.priv[e].front].pix[0] = win[g] => win[g] = Root
             /\ e # d => w.priv[e].back # s
  <2>1. w.priv[e].back \in Buf \cup {NoBuf} /\ w.priv[e].front \in Buf \cup {NoBuf}
    BY WorldFields, PrivFields
  <2>2. e # d => w.priv[e].back # s
    BY <1>0 DEF HeldApart
  <2>3. WinSound(w, win, e)
    BY DEF SwapInv
  <2> QED BY <1>9, <2>1, <2>2, <2>3, Zenon DEF WinSound
<1>10. ASSUME NEW e \in Draw PROVE WinSound(v, win, e)
  <2> DEFINE b == w.priv[e].back
             f == w.priv[e].front
  <2> SUFFICES ASSUME b # NoBuf
               PROVE  /\ f # NoBuf /\ win[e] # NoPix
                      /\ v.buf[b].ref > 0 /\ v.buf[b].att = "back"
                      /\ v.buf[f].ref > 0 /\ v.buf[f].att = "front"
                      /\ v.mem.fb[v.mem.pbo[v.buf[b].pix[0]]] => v.buf[f].pix[0] = Root
                      /\ win[e] # Root /\ v.mem.fb[v.mem.pbo[win[e]]] =>
                           v.buf[f].pix[0] \in {Root, win[e]}
                      /\ \A g \in Draw \ {e} : v.buf[f].pix[0] = win[g] => win[g] = Root
    BY <1>7, Zenon DEF WinSound
  <2>1. /\ f # NoBuf /\ win[e] # NoPix /\ b \in Buf /\ f \in Buf
        /\ w.buf[b].ref > 0 /\ w.buf[b].att = "back"
        /\ w.buf[f].ref > 0 /\ w.buf[f].att = "front"
        /\ w.mem.fb[w.mem.pbo[w.buf[b].pix[0]]] => w.buf[f].pix[0] = Root
        /\ win[e] # Root /\ w.mem.fb[w.mem.pbo[win[e]]] =>
             w.buf[f].pix[0] \in {Root, win[e]}
        /\ \A g \in Draw \ {e} : w.buf[f].pix[0] = win[g] => win[g] = Root
        /\ e # d => b # s
    BY <1>9, Zenon
  <2>2. /\ v.buf[b].ref > 0 /\ v.buf[b].att = "back" /\ v.buf[b].pix[0] = w.buf[b].pix[0]
        /\ v.buf[f].ref > 0 /\ v.buf[f].att = "front" /\ v.buf[f].pix[0] = w.buf[f].pix[0]
    BY <1>7, <2>1, Zenon
  <2>3. CASE e = d
    <3>1. b = s /\ f = t
      BY <1>0, <2>3
    <3> HIDE DEF b, f
    <3>2. v.mem.fb[v.mem.pbo[v.buf[b].pix[0]]] => v.buf[f].pix[0] = Root
      <4>1. v.mem.fb[v.mem.pbo[v.buf[b].pix[0]]] <=> w.mem.fb[w.mem.pbo[q]]
        BY <1>7, <2>2, <3>1, Zenon DEF p
      <4> QED BY <1>0, <2>2, <3>1, <4>1, Zenon
    <3>3. win[e] # Root /\ v.mem.fb[v.mem.pbo[win[e]]] =>
            v.buf[f].pix[0] \in {Root, win[e]}
      <4>1. v.mem.fb[v.mem.pbo[win[e]]] <=> w.mem.fb[w.mem.pbo[p]]
        BY <1>7, <2>3 DEF q
      <4> QED BY <1>0, <2>2, <3>1, <4>1
    <3> QED BY <2>1, <2>2, <3>2, <3>3, Zenon
  <2>4. CASE e # d
    <3>1. w.buf[b].pix[0] \in Pix \ {p, q}
      BY <1>8, <2>1, <2>4, Zenon
    <3>2. win[e] # Root => win[e] \in Pix \ {p, q}
      <4>1. win[e] \in Pix
        BY <2>1, Zenon DEF WinsTyped
      <4>2. win[e] = win[d] => win[e] = Root
        BY <2>1, <2>4, Zenon DEF WinApart
      <4> QED BY <1>3, <4>1, <4>2 DEF q
    <3> HIDE DEF b, f
    <3> QED BY <1>7, <2>1, <2>2, <3>1, <3>2, Zenon
  <2> QED BY <2>3, <2>4, Zenon
<1>11. ASSUME NEW j \in K
       PROVE  CmdHolds(v.cmd[j]) /\ (v.cmd[j].draw \in Draw => CmdSound(v, win, j))
  <2> DEFINE c == w.cmd[j]
             e == c.draw
  <2>1. CmdHolds(c) /\ (e \in Draw => CmdSound(w, win, j))
    BY DEF SwapInv
  <2> SUFFICES ASSUME e \in Draw, c.live, ~c.fail, win[e] # NoPix
               PROVE  /\ w.priv[e].back = c.src /\ w.priv[e].front = c.dst
                      /\ v.mem.pbo[v.buf[c.src].pix[0]] = c.oldSrc
                      /\ v.buf[c.dst].pix[0] # Root => v.mem.pbo[v.buf[c.dst].pix[0]] = c.oldDst
                      /\ c.type = "flip" => v.mem.fb[c.oldSrc]
    BY <1>7, <2>1, Zenon DEF CmdSound
  <2>2. /\ w.priv[e].back = c.src /\ w.priv[e].front = c.dst
        /\ w.mem.pbo[w.buf[c.src].pix[0]] = c.oldSrc
        /\ w.buf[c.dst].pix[0] # Root => w.mem.pbo[w.buf[c.dst].pix[0]] = c.oldDst
        /\ c.type = "flip" => w.mem.fb[c.oldSrc]
    BY <2>1, Zenon DEF CmdSound
  <2>3. c.src \in Buf /\ c.dst \in Buf
    BY <2>1 DEF CmdHolds, Whole
  <2>4. e # d
    BY DEF OnlySwap
  <2>5. /\ w.buf[c.src].ref > 0 /\ w.buf[c.src].att = "back" /\ c.src # s
        /\ w.buf[c.dst].ref > 0 /\ w.buf[c.dst].att = "front"
        /\ \A g \in Draw \ {e} : w.buf[c.dst].pix[0] = win[g] => win[g] = Root
    <3>1. c.src # NoBuf
      BY <2>3, SwapAssumption
    <3> HIDE DEF c, e
    <3>2. w.priv[e].back # NoBuf /\ e \in Draw
      BY <2>2, <3>1
    <3>3. /\ w.buf[w.priv[e].back].ref > 0 /\ w.buf[w.priv[e].back].att = "back"
          /\ w.buf[w.priv[e].front].ref > 0 /\ w.buf[w.priv[e].front].att = "front"
          /\ \A g \in Draw \ {e} : w.buf[w.priv[e].front].pix[0] = win[g] => win[g] = Root
          /\ e # d => w.priv[e].back # s
      BY ONLY <1>9, <3>2, Zenon
    <3> QED BY <2>2, <2>4, <3>3, Zenon
  <2>6. w.buf[c.src].pix[0] \in Pix \ {p, q}
    BY <1>8, <2>3, <2>5
  <2>7. w.buf[c.dst].pix[0] # Root => w.buf[c.dst].pix[0] \in Pix \ {p, q}
    <3>1. w.buf[c.dst].pix[0] \in Pix
      BY <1>2, <2>3, <2>5, InBuffers, Zenon
    <3>2. w.buf[c.dst].pix[0] # p
      BY <1>1, <1>3, <2>3, <2>5
    <3>3. w.buf[c.dst].pix[0] = q => q = Root
      BY <2>4, <2>5 DEF q
    <3> QED BY <3>1, <3>2, <3>3
  <2> HIDE DEF c, e
  <2> QED BY <1>7, <2>2, <2>3, <2>6, <2>7, Zenon
<1>12. SwapInv(v, win, Draw, K)
  BY <1>6, <1>10, <1>11 DEF SwapInv
<1> QED BY <1>3, <1>4, <1>5, <1>12 DEF v, p, q

-----------------------------------------------------------------------------
(* The scanout *)

\* set_scanout_bo of the bo that the screen pixmap has.
LEMMA SetScanoutMem ==
  ASSUME NEW w \in World, NEW wn, WinsTyped(wn), NEW K \in SUBSET Cmd,
         SwapInv(w, wn, Draw, K), w.mem.fb[w.mem.pbo[Root]]
  PROVE  LET v == SetScanoutBo(w, w.mem.pbo[Root])
         IN  /\ v \in World /\ SameSwaps(w, v) /\ v.buf = w.buf
             /\ MemInv(v, wn, Draw, K)
<1> DEFINE b  == w.mem.pbo[Root]
           sc == w.scanout
           m  == w.mem
           m0 == [m EXCEPT !.ok = @ /\ m.fb[b]]
           m1 == BoRef(m, b)
           m2 == BoUnref(m1, sc)
           v  == SetScanoutBo(w, b)
<1>0. Sound(w, wn) /\ m \in Mem /\ m.ok
  BY WorldFields DEF SwapInv, Sound
<1>1. b \in Bo /\ m.ref[b] > 0 /\ sc \in Bo /\ m.ref[sc] > 0 /\ Root \in Pix
  BY <1>0, InUse
<1>2. m.fb[b] /\ \A x \in Bo : m.ref[x] \in Nat
  BY <1>0, InUse
<1> HIDE DEF b, sc
<1>3. m0 = m
  BY <1>0, <1>2 DEF Mem
<1>4. /\ m1 \in Mem /\ m1.pref = m.pref /\ m1.ext = m.ext /\ m1.pbo = m.pbo
      /\ m1.fb = m.fb /\ m1.ok
      /\ \A x \in Bo : m1.ref[x] = m.ref[x] + Is(b, x)
  BY <1>0, <1>1, BoRefForm, BoRefType
<1> HIDE DEF m1
<1>5. /\ m2 \in Mem /\ m2.pref = m.pref /\ m2.ext = m.ext /\ m2.pbo = m.pbo
      /\ \A x \in Bo : m2.ref[x] = m1.ref[x] - Is(sc, x)
      /\ \A x \in Bo : m2.ref[x] > 0 => (m2.fb[x] <=> m.fb[x])
      /\ m1.ok /\ (sc \in Bo => m1.ref[sc] > 0) => m2.ok
  <2>1. m2 \in Mem
    BY <1>1, <1>4, BoUnrefType
  <2> HIDE DEF m2
  <2>2. /\ m2.pref = m1.pref /\ m2.ext = m1.ext /\ m2.pbo = m1.pbo
        /\ \A x \in Bo : m2.ref[x] = m1.ref[x] - Is(sc, x)
        /\ \A x \in Bo : m2.ref[x] > 0 => (m2.fb[x] <=> m1.fb[x])
        /\ m1.ok /\ (sc \in Bo => m1.ref[sc] > 0) => m2.ok
    BY <1>1, <1>4, BoUnrefForm, SMTT(40) DEF m2
  <2> QED BY <1>4, <2>1, <2>2, Zenon
<1> HIDE DEF m2
<1>6. \A x \in Bo : m2.ref[x] = m.ref[x] + Is(b, x) - Is(sc, x)
  BY <1>2, <1>4, <1>5 DEF Is
<1>7. m2.ok
  <2>1. m1.ref[sc] > 0
    BY <1>1, <1>2, <1>4 DEF Is
  <2> QED BY <1>4, <1>5, <2>1
<1>8. /\ v \in World /\ SameSwaps(w, v) /\ v.buf = w.buf
      /\ v.mem = m2 /\ v.scanout = b
  <2>1. v = [w EXCEPT !.mem = m2, !.scanout = b]
    BY <1>1, <1>3, MemAssumption DEF SetScanoutBo, m2, m1, sc
  <2> QED BY <1>1, <1>5, <2>1 DEF World, SameSwaps
<1> HIDE DEF v
<1>9. Sound(v, wn)
  <2>1. BosCounted(v)
    <3> SUFFICES ASSUME NEW x \in Bo
                 PROVE  m2.ref[x] = Held(m2, w.buf, w.cmd, b, x)
      BY <1>8 DEF BosCounted, SameSwaps
    <3>1. m.ref[x] = Times(m.pbo, x) + Times(BufBos(w.buf), x)
                     + Times(OldSrcs(w.cmd), x) + Times(OldDsts(w.cmd), x) + Is(sc, x)
      BY <1>0 DEF Sound, BosCounted, Held, sc
    <3>2. Held(m2, w.buf, w.cmd, b, x)
            = Times(m.pbo, x) + Times(BufBos(w.buf), x)
              + Times(OldSrcs(w.cmd), x) + Times(OldDsts(w.cmd), x) + Is(b, x)
      BY <1>5 DEF Held
    <3>3. /\ Times(m.pbo, x) \in Nat /\ Times(BufBos(w.buf), x) \in Nat
          /\ Times(OldSrcs(w.cmd), x) \in Nat /\ Times(OldDsts(w.cmd), x) \in Nat
          /\ Is(sc, x) \in {0, 1} /\ Is(b, x) \in {0, 1}
      BY <1>0, HeldTypes
    <3> QED BY <1>6, <3>1, <3>2, <3>3
  <2>2. PixCounted(v, wn) /\ PixSound(v.mem) /\ BufSound(v)
    BY <1>0, <1>5, <1>8 DEF Sound, PixCounted, PixSound, BufSound
  <2> QED BY <1>7, <1>8, <2>1, <2>2 DEF Sound
<1>10. Kept(w, v)
  BY <1>5, <1>8 DEF Kept
<1>11. v.priv = w.priv /\ v.cmd = w.cmd
  BY <1>8 DEF SameSwaps
<1>12. SwapInv(v, wn, Draw, K)
  <2>1. HoldsKept(w, v, Draw)
    BY <1>8, <1>11, Zenon DEF HoldsKept, BufKept, SwapInv, WinSound
  <2>2. CmdKept(w, v, K) /\ WinsKept(w, v, wn, wn, Draw)
    BY <1>11 DEF CmdKept, WinsKept
  <2>3. Draw \in SUBSET Draw
    OBVIOUS
  <2> QED BY <1>8, <1>9, <1>10, <2>1, <2>2, <2>3, Frame
<1>13. ScreenSound(v)
  <2>1. m2.ref[b] > 0
    BY <1>8, <1>9, InUse
  <2>2. m2.fb[b]
    BY <1>1, <1>2, <1>5, <2>1
  <2> QED BY <1>5, <1>8, <2>2 DEF ScreenSound, b
<1> QED BY <1>8, <1>12, <1>13 DEF MemInv, v, b

\* Steps that touch neither memory nor buffers.
LEMMA SwapsOnly ==
  ASSUME NEW w \in World, NEW v \in World, NEW wn, WinsTyped(wn),
         NEW K \in SUBSET Cmd, SwapInv(w, wn, Draw, K),
         v.mem = w.mem, v.buf = w.buf, v.scanout = w.scanout,
         SameBuffers(w, v), CmdKept(w, v, K),
         \A k \in Cmd : /\ v.cmd[k].oldSrc = w.cmd[k].oldSrc
                        /\ v.cmd[k].oldDst = w.cmd[k].oldDst
  PROVE  SwapInv(v, wn, Draw, K) /\ (ScreenSound(w) => ScreenSound(v))
<1>1. Sound(w, wn)
  BY DEF SwapInv
<1>2. Sound(v, wn) /\ Kept(w, v)
  BY <1>1, SameHolders
<1>3. HoldsKept(w, v, Draw)
  BY Zenon DEF HoldsKept, BufKept, SwapInv, WinSound, SameBuffers
<1>4. WinsKept(w, v, wn, wn, Draw) /\ Draw \in SUBSET Draw
  BY DEF WinsKept
<1>5. SwapInv(v, wn, Draw, K)
  BY <1>2, <1>3, <1>4, Frame
<1>6. ScreenSound(w) => ScreenSound(v)
  BY DEF ScreenSound
<1> QED BY <1>5, <1>6

-----------------------------------------------------------------------------
(* Swaps *)

\* UsesOf is about references, and who has the buffers.
LEMMA UsesKept ==
  ASSUME NEW w, NEW v, NEW k, UsesOf(w, k), SameBuffers(w, v),
         \A x \in Buf : v.buf[x].ref = w.buf[x].ref,
         v.cmd[k].src = w.cmd[k].src, v.cmd[k].dst = w.cmd[k].dst
  PROVE  UsesOf(v, k)
BY DEF UsesOf, SameBuffers

\* The core's count of a swap is no business of the memory.
LEMMA CountSwapMem ==
  ASSUME NEW w \in World, WinsTyped(win), NEW d \in Draw, NEW i \in Int,
         NEW k \in Cmd, NEW K \in SUBSET Cmd, SwapInv(w, win, Draw, K), UsesOf(w, k)
  PROVE  LET v == [w EXCEPT !.priv[d].swaps = @ + i]
         IN  /\ v \in World /\ v.mem = w.mem /\ v.buf = w.buf /\ v.cmd = w.cmd
             /\ v.scanout = w.scanout /\ UsesOf(v, k)
             /\ SwapInv(v, win, Draw, K) /\ (ScreenSound(w) => ScreenSound(v))
<1> DEFINE n == w.priv[d].swaps + i
           v == [w EXCEPT !.priv[d].swaps = n]
<1>1. v \in World /\ v.cmd = w.cmd /\ v.buf = w.buf /\ SameBuffers(w, v)
  BY CountSwap
<1>2. v.mem = w.mem /\ v.scanout = w.scanout
  BY DEF World
<1>3. v = [w EXCEPT !.priv[d].swaps = @ + i]
  OBVIOUS
<1> HIDE DEF v
<1>4. UsesOf(v, k)
  BY <1>1, UsesKept
<1>5. CmdKept(w, v, K)
  BY <1>1 DEF CmdKept
<1>6. SwapInv(v, win, Draw, K) /\ (ScreenSound(w) => ScreenSound(v))
  BY <1>1, <1>2, <1>5, SwapsOnly
<1> QED BY <1>1, <1>2, <1>3, <1>4, <1>6

\* ARMSOCDRI2SwapComplete of a swap that does not flip.
LEMMA EndSwap ==
  ASSUME NumBufs = 2, NEW w \in World, WinsTyped(win), NEW k \in Cmd, NEW ch \in Choices,
         MemInv(w, win, Draw, Cmd \ {k}), UsesOf(w, k),
         w.cmd[k].draw \in Draw, w.cmd[k].src \in Buf, w.cmd[k].dst \in Buf,
         w.cmd[k].count <= 1,
         ~(Succeeded(w.cmd[k]) /\ w.cmd[k].type = "flip" /\ ~w.cmd[k].fake)
  PROVE  MemInv(SwapComplete(w, k, ch), win, Draw, Cmd)
<1> DEFINE c == w.cmd[k]
           d == c.draw
           u == [w EXCEPT !.priv[d].swaps = @ - 1]
<1>1. ~(c.count > 1)
  BY WorldFields, CmdFields
<1>2. CASE Succeeded(c)
  <2>1. /\ u \in World /\ u.cmd = w.cmd /\ UsesOf(u, k)
        /\ MemInv(u, win, Draw, Cmd \ {k})
    <3> DEFINE K == Cmd \ {k}
               e == [w EXCEPT !.priv[d].swaps = @ + (-1)]
    <3>1. K \in SUBSET Cmd /\ SwapInv(w, win, Draw, K) /\ ScreenSound(w) /\ -1 \in Int
      BY DEF MemInv
    <3>2. w.priv[d].swaps \in Int
      BY WorldFields, PrivFields
    <3>3. u = e
      BY <3>2, Zenon
    <3> HIDE DEF K, u
    <3>4. /\ e \in World /\ e.cmd = w.cmd /\ UsesOf(e, k)
          /\ SwapInv(e, win, Draw, K) /\ ScreenSound(e)
      BY <3>1, CountSwapMem, Zenon
    <3> HIDE DEF e
    <3> QED BY <3>3, <3>4 DEF MemInv, K
  <2>2. SwapComplete(w, k, ch) = Release(u, k)
    BY <1>1, <1>2, Zenon DEF SwapComplete
  <2> HIDE DEF u
  <2> QED BY <2>1, <2>2, ReleaseMem
<1>3. CASE ~Succeeded(c)
  <2>1. SwapComplete(w, k, ch) = Release(w, k)
    BY <1>1, <1>3 DEF SwapComplete
  <2> QED BY <2>1, ReleaseMem
<1> QED BY <1>2, <1>3

\* With double buffering the back buffer does not move on.
LEMMA NextIsSame ==
  ASSUME NumBufs = 2, NEW w, NEW d, NEW b, NEW ch
  PROVE  NextBuffer(w, d, b, ch) = w
BY DEF NextBuffer

\* The exchange and the new scanout of a flip.
LEMMA FlipMem ==
  ASSUME NumBufs = 2, NEW w \in World, WinsTyped(win), WinApart(win, top),
         NEW k \in Cmd, NEW ch \in Choices,
         MemInv(w, win, Draw, Cmd), HeldApart(w.priv), UsesOf(w, k),
         w.cmd[k].draw \in Draw, w.cmd[k].count <= 1, w.cmd[k].live,
         OnlySwap(w, w.cmd[k].draw, k),
         Succeeded(w.cmd[k]), w.cmd[k].type = "flip", ~w.cmd[k].fake
  PROVE  MemInv(SwapComplete(w, k, ch), win, Draw, Cmd)
<1> DEFINE c == w.cmd[k]
           d == c.draw
           s == c.src
           t == c.dst
           p == w.buf[s].pix[0]
           q == win[d]
           K == Cmd \ {k}
           v == ExchangeBufs(w, d, s, t)
           u == [v EXCEPT !.priv[d].swaps = @ - 1]
           z == SetScanoutBo(u, u.mem.pbo[Root])
<1>1. /\ SwapInv(w, win, Draw, Cmd) /\ Sound(w, win)
      /\ ScreenSound(w) /\ CmdSound(w, win, k) /\ CmdHolds(c)
  BY DEF MemInv, SwapInv
<1>2. s \in Buf /\ t \in Buf /\ win[d] # NoPix /\ ~c.fail
  BY <1>1 DEF CmdHolds, Whole, Succeeded
<1>3. /\ w.priv[d].back = s /\ w.priv[d].front = t
      /\ w.mem.pbo[p] = c.oldSrc /\ w.mem.fb[c.oldSrc]
  BY <1>1, <1>2, Zenon DEF CmdSound
<1>4. w.buf[t].pix[0] = Root
  <2>1. WinSound(w, win, d) /\ s # NoBuf
    BY <1>1, <1>2, SwapAssumption DEF SwapInv
  <2> QED BY <1>3, <2>1, Zenon DEF WinSound
<1>5. Tradable(w, d, s, t)
  BY <1>2, <1>3, <1>4, Zenon DEF Tradable
<1>6. /\ v \in World /\ SameRest(w, v) /\ SwapInv(v, win, Draw, K)
      /\ Traded(w, v, p, q) /\ p \in Pix \ {Root} /\ q \in Pix
  <2> HIDE DEF c, d, s, t
  <2>1. d \in Draw /\ OnlySwap(w, d, k)
    BY DEF c, d
  <2> QED BY <1>1, <1>5, <2>1, TradeMem
<1> HIDE DEF v
<1>7. /\ v.cmd = w.cmd /\ v.priv = w.priv /\ v.scanout = w.scanout
      /\ v.mem.fb = w.mem.fb
      /\ \A x \in Buf : /\ v.buf[x].ref = w.buf[x].ref
                        /\ v.buf[x].pix = w.buf[x].pix
  BY <1>6, Zenon DEF SameRest, SameSwaps, Traded
<1>8. v.mem.fb[v.mem.pbo[Root]]
  <2>1. w.mem.pbo \in [Pix -> Bo \cup {NoBo}] /\ Root \in Pix
    BY <1>1, InUse, WorldFields, MemFields
  <2>2. v.mem.pbo = [w.mem.pbo EXCEPT ![p] = w.mem.pbo[q], ![q] = w.mem.pbo[p]]
    BY <1>6, Zenon DEF Traded
  <2>3. CASE q = Root
    <3>1. v.mem.pbo[Root] = w.mem.pbo[p]
      BY <1>6, <2>1, <2>2, <2>3, Zenon
    <3> QED BY <1>3, <1>7, <3>1, Zenon
  <2>4. CASE q # Root
    <3>1. v.mem.pbo[Root] = w.mem.pbo[Root]
      BY <1>6, <2>1, <2>2, <2>4, Zenon
    <3> QED BY <1>1, <1>7, <3>1 DEF ScreenSound
  <2> QED BY <2>3, <2>4
<1>9. UsesOf(v, k)
  <2>1. SameBuffers(w, v)
    BY <1>7 DEF SameBuffers
  <2> QED BY <1>7, <2>1, UsesKept
<1>10. /\ u \in World /\ u.mem = v.mem /\ u.buf = v.buf /\ u.cmd = v.cmd
       /\ UsesOf(u, k) /\ SwapInv(u, win, Draw, K)
  <2> DEFINE e == [v EXCEPT !.priv[d].swaps = @ + (-1)]
  <2>1. K \in SUBSET Cmd /\ -1 \in Int /\ d \in Draw
    OBVIOUS
  <2>2. v.priv[d].swaps \in Int
    BY <1>6, WorldFields, PrivFields, Zenon
  <2>3. u = e
    BY <2>2, Zenon
  <2> HIDE DEF K, u, d
  <2>4. /\ e \in World /\ e.mem = v.mem /\ e.buf = v.buf /\ e.cmd = v.cmd
        /\ UsesOf(e, k) /\ SwapInv(e, win, Draw, K)
    <3>1. UsesOf(v, k) /\ v \in World /\ SwapInv(v, win, Draw, K) /\ WinsTyped(win)
      BY <1>6, <1>9
    <3>2. LET y == [v EXCEPT !.priv[d].swaps = @ + (-1)]
          IN  /\ y \in World /\ y.mem = v.mem /\ y.buf = v.buf /\ y.cmd = v.cmd
              /\ y.scanout = v.scanout /\ UsesOf(y, k)
              /\ SwapInv(y, win, Draw, K) /\ (ScreenSound(v) => ScreenSound(y))
      BY ONLY <2>1, <3>1, k \in Cmd, CountSwapMem, Zenon
    <3> QED BY <3>2, Zenon
  <2> HIDE DEF e
  <2> QED BY <2>3, <2>4
<1> HIDE DEF u
<1>11. BoFromBuffer(u, t) = u.mem.pbo[Root]
  <2>1. u.buf[t].cur = 0
    BY <1>2, <1>10, WorldFields, OnePixmap
  <2>2. u.buf[t].pix[0] = Root
    BY <1>2, <1>4, <1>7, <1>10
  <2>3. Root \in Pix
    BY <1>1, InUse
  <2> QED BY <2>1, <2>2, <2>3 DEF BoFromBuffer, PixmapBo
<1>12. z \in World /\ SameSwaps(u, z) /\ z.buf = u.buf /\ MemInv(z, win, Draw, K)
  <2>1. K \in SUBSET Cmd /\ u.mem.fb[u.mem.pbo[Root]]
    BY <1>8, <1>10
  <2> HIDE DEF K
  <2> QED BY <1>10, <2>1, SetScanoutMem
<1> HIDE DEF z
<1>13. z.cmd = w.cmd /\ UsesOf(z, k)
  <2>1. SameBuffers(u, z) /\ z.cmd = u.cmd
    BY <1>12 DEF SameSwaps, SameBuffers
  <2> QED BY <1>7, <1>10, <1>12, <2>1, UsesKept
<1>14. MemInv(Release(z, k), win, Draw, Cmd)
  BY <1>2, <1>12, <1>13, ReleaseMem
<1>15. SwapComplete(w, k, ch) = Release(z, k)
  <2>1. ~(c.count > 1)
    BY WorldFields, CmdFields
  <2>2. NextBuffer(v, d, s, ch) = v
    BY NextIsSame
  <2> QED BY <1>11, <2>1, <2>2, Zenon DEF SwapComplete, v, u, z
<1> QED BY <1>14, <1>15

\* ARMSOCDRI2SwapComplete
LEMMA SwapCompleteMem ==
  ASSUME NumBufs = 2, NEW w \in World, WinsTyped(win), WinApart(win, top),
         NEW k \in Cmd, NEW ch \in Choices,
         MemInv(w, win, Draw, Cmd), HeldApart(w.priv), UsesOf(w, k),
         w.cmd[k].draw \in Draw, w.cmd[k].live,
         ~w.cmd[k].fail => OnlySwap(w, w.cmd[k].draw, k)
  PROVE  MemInv(SwapComplete(w, k, ch), win, Draw, Cmd)
<1> DEFINE c == w.cmd[k]
<1>1. c.src \in Buf /\ c.dst \in Buf
  BY DEF MemInv, SwapInv, CmdHolds, Whole
<1>2. c.count \in Int
  BY WorldFields, CmdFields
<1>3. CASE c.count > 1
  <2> DEFINE n == c.count - 1
             g == [w.cmd EXCEPT ![k].count = n]
             v == [w EXCEPT !.cmd = g]
  <2>1. SwapComplete(w, k, ch) = v
    BY <1>3, WorldFields, Zenon DEF SwapComplete, World
  <2>2. /\ g \in [Cmd -> CmdRec]
        /\ \A j \in Cmd : /\ g[j].live = w.cmd[j].live /\ g[j].draw = w.cmd[j].draw
                          /\ g[j].src = w.cmd[j].src /\ g[j].dst = w.cmd[j].dst
                          /\ g[j].oldSrc = w.cmd[j].oldSrc /\ g[j].oldDst = w.cmd[j].oldDst
                          /\ g[j].type = w.cmd[j].type /\ g[j].fail = w.cmd[j].fail
    <3>1. w.cmd \in [Cmd -> CmdRec] /\ n \in Int
      BY <1>2, WorldFields
    <3> HIDE DEF n
    <3> QED BY <3>1 DEF CmdRec
  <2> HIDE DEF g
  <2>3. /\ v \in World /\ v.cmd = g /\ v.mem = w.mem /\ v.buf = w.buf
        /\ v.scanout = w.scanout /\ v.priv = w.priv
    BY <2>2 DEF World
  <2> HIDE DEF v
  <2>4. CmdKept(w, v, Cmd) /\ SameBuffers(w, v)
    BY <2>2, <2>3 DEF CmdKept, SameBuffers
  <2>5. SwapInv(v, win, Draw, Cmd) /\ ScreenSound(v)
    BY <2>2, <2>3, <2>4, SwapsOnly DEF MemInv
  <2> QED BY <2>1, <2>5 DEF MemInv
<1>4. CASE c.count <= 1 /\ Succeeded(c) /\ c.type = "flip" /\ ~c.fake
  BY <1>4, FlipMem DEF Succeeded
<1>5. CASE c.count <= 1 /\ ~(Succeeded(c) /\ c.type = "flip" /\ ~c.fake)
  <2>1. MemInv(w, win, Draw, Cmd \ {k})
    BY DEF MemInv, SwapInv
  <2> QED BY <1>1, <1>5, <2>1, EndSwap
<1> QED BY <1>2, <1>3, <1>4, <1>5

\* The end of a swap that was made by a blit or an exchange.
LEMMA EndExecuted ==
  ASSUME NumBufs = 2, NEW w \in World, WinsTyped(win), NEW k \in Cmd, NEW ch \in Choices,
         MemInv(w, win, Draw, Cmd \ {k}), UsesOf(w, k),
         w.cmd[k].draw \in Draw, w.cmd[k].src \in Buf, w.cmd[k].dst \in Buf,
         w.cmd[k].count <= 1, NEW t \in {"none", "blit", "exchange"}
  PROVE  MemInv(SwapComplete([w EXCEPT !.cmd[k].type = t], k, ch), win, Draw, Cmd)
<1> DEFINE g == [w.cmd EXCEPT ![k].type = t]
           v == [w EXCEPT !.cmd = g]
           K == Cmd \ {k}
<1>1. v = [w EXCEPT !.cmd[k].type = t]
  BY DEF World
<1>2. /\ g \in [Cmd -> CmdRec] /\ g[k].type = t
      /\ \A j \in K : g[j] = w.cmd[j]
      /\ \A j \in Cmd : /\ g[j].live = w.cmd[j].live /\ g[j].draw = w.cmd[j].draw
                        /\ g[j].src = w.cmd[j].src /\ g[j].dst = w.cmd[j].dst
                        /\ g[j].oldSrc = w.cmd[j].oldSrc /\ g[j].oldDst = w.cmd[j].oldDst
                        /\ g[j].fail = w.cmd[j].fail /\ g[j].count = w.cmd[j].count
  <2>1. w.cmd \in [Cmd -> CmdRec]
    BY WorldFields
  <2> QED BY <2>1 DEF CmdRec
<1> HIDE DEF g
<1>3. /\ v \in World /\ v.cmd = g /\ v.mem = w.mem /\ v.buf = w.buf
      /\ v.scanout = w.scanout /\ v.priv = w.priv
  BY <1>2 DEF World
<1> HIDE DEF v
<1>4. SameBuffers(w, v) /\ CmdKept(w, v, K)
  BY <1>2, <1>3 DEF SameBuffers, CmdKept
<1>5. MemInv(v, win, Draw, K)
  <2>1. K \in SUBSET Cmd /\ SwapInv(w, win, Draw, K) /\ ScreenSound(w)
    BY DEF MemInv
  <2>2. \A j \in Cmd : /\ v.cmd[j].oldSrc = w.cmd[j].oldSrc
                       /\ v.cmd[j].oldDst = w.cmd[j].oldDst
    BY <1>2, <1>3
  <2> HIDE DEF K
  <2> QED BY <1>3, <1>4, <2>1, <2>2, SwapsOnly DEF MemInv
<1>6. UsesOf(v, k)
  BY <1>2, <1>3, <1>4, UsesKept
<1>7. /\ v.cmd[k].draw \in Draw /\ v.cmd[k].src \in Buf /\ v.cmd[k].dst \in Buf
      /\ v.cmd[k].count <= 1 /\ v.cmd[k].type # "flip"
  BY <1>2, <1>3
<1> QED BY <1>1, <1>3, <1>5, <1>6, <1>7, EndSwap

\* ARMSOCDRI2ExecuteSwap
LEMMA ExecuteSwapMem ==
  ASSUME NumBufs = 2, NEW w \in World, WinsTyped(win), WinApart(win, top),
         NEW k \in Cmd, NEW ch \in Choices,
         MemInv(w, win, Draw, Cmd), HeldApart(w.priv), UsesOf(w, k),
         w.cmd[k].draw \in Draw, w.cmd[k].live, w.cmd[k].count <= 1,
         w.cmd[k].type = "none", OnlySwap(w, w.cmd[k].draw, k)
  PROVE  MemInv(ExecuteSwap(w, k, ch), win, Draw, Cmd)
<1> DEFINE c == w.cmd[k]
           d == c.draw
           s == c.src
           t == c.dst
           p == w.buf[s].pix[0]
           q == win[d]
           K == Cmd \ {k}
           v == ExchangeBufs(w, d, s, t)
           x == win[d] # NoPix /\ CanExchange(w, d, c.oldSrc, c.oldDst, ch)
<1>1. /\ SwapInv(w, win, Draw, Cmd) /\ Sound(w, win)
      /\ ScreenSound(w) /\ CmdSound(w, win, k) /\ CmdHolds(c)
      /\ MemInv(w, win, Draw, K)
  BY DEF MemInv, SwapInv
<1>2. s \in Buf /\ t \in Buf /\ ~c.fail
  BY <1>1 DEF CmdHolds, Whole
<1>3. CASE x
  <2>1. /\ win[d] # NoPix /\ win[d] # Root
        /\ ~w.mem.fb[c.oldSrc] /\ ~w.mem.fb[c.oldDst]
    BY <1>3 DEF CanExchange
  <2>2. /\ w.priv[d].back = s /\ w.priv[d].front = t
        /\ w.mem.pbo[p] = c.oldSrc
        /\ w.buf[t].pix[0] # Root => w.mem.pbo[w.buf[t].pix[0]] = c.oldDst
    BY <1>1, <1>2, <2>1, Zenon DEF CmdSound
  <2>3. w.mem.fb[w.mem.pbo[q]] => w.buf[t].pix[0] \in {Root, q}
    <3>1. WinSound(w, win, d) /\ s # NoBuf
      BY <1>1, <1>2, SwapAssumption DEF SwapInv
    <3> QED BY <2>1, <2>2, <3>1, Zenon DEF WinSound
  <2>4. Tradable(w, d, s, t)
    BY <1>2, <2>1, <2>2, <2>3, Zenon DEF Tradable
  <2>5. /\ v \in World /\ SameRest(w, v) /\ SwapInv(v, win, Draw, K)
        /\ Traded(w, v, p, q) /\ p \in Pix \ {Root} /\ q \in Pix
    <3> HIDE DEF c, d, s, t
    <3>1. d \in Draw /\ OnlySwap(w, d, k)
      BY DEF c, d
    <3> QED BY <1>1, <2>4, <3>1, TradeMem
  <2>6. NextBuffer(v, d, s, ch) = v
    BY NextIsSame
  <2> HIDE DEF v
  <2>7. ScreenSound(v)
    <3>1. w.mem.pbo \in [Pix -> Bo \cup {NoBo}] /\ Root \in Pix
      BY <1>1, InUse, WorldFields, MemFields
    <3>2. v.mem.pbo = [w.mem.pbo EXCEPT ![p] = w.mem.pbo[q], ![q] = w.mem.pbo[p]]
      BY <2>5, Zenon DEF Traded
    <3>3. v.mem.pbo[Root] = w.mem.pbo[Root]
      <4>1. p # Root /\ q # Root
        BY <2>1, <2>5, Zenon
      <4> HIDE DEF p, q
      <4> QED BY <3>1, <3>2, <4>1
    <3>4. v.scanout = w.scanout /\ v.mem.fb = w.mem.fb
      BY <2>5, Zenon DEF SameRest, Traded
    <3> QED BY <1>1, <3>3, <3>4 DEF ScreenSound
  <2>8. v.cmd = w.cmd /\ UsesOf(v, k)
    <3>1. SameBuffers(w, v) /\ v.cmd = w.cmd /\ \A y \in Buf : v.buf[y].ref = w.buf[y].ref
      BY <2>5, Zenon DEF SameRest, SameSwaps, SameBuffers, Traded
    <3> QED BY <3>1, UsesKept
  <2>9. MemInv(v, win, Draw, K)
    BY <2>5, <2>7, Zenon DEF MemInv
  <2>10. MemInv(SwapComplete([v EXCEPT !.cmd[k].type = "exchange"], k, ch), win, Draw, Cmd)
    BY <1>2, <2>5, <2>8, <2>9, EndExecuted, Zenon
  <2>11. ExecuteSwap(w, k, ch) = SwapComplete([v EXCEPT !.cmd[k].type = "exchange"], k, ch)
    BY <1>3, <2>1, <2>6 DEF ExecuteSwap, v
  <2> QED BY <2>10, <2>11
<1>4. CASE ~x
  <2> DEFINE ty == IF win[d] = NoPix THEN c.type ELSE "blit"
  <2>1. ty \in {"none", "blit", "exchange"}
    OBVIOUS
  <2>2. ExecuteSwap(w, k, ch) = SwapComplete([w EXCEPT !.cmd[k].type = ty], k, ch)
    BY <1>4, Zenon DEF ExecuteSwap
  <2> HIDE DEF ty
  <2> QED BY <1>1, <1>2, <2>1, <2>2, EndExecuted, Zenon
<1> QED BY <1>3, <1>4

\* DRI2ReferenceBuffer
LEMMA ReferenceMem ==
  ASSUME NEW w \in World, NEW wn, WinsTyped(wn), NEW K \in SUBSET Cmd,
         MemInv(w, wn, Draw, K), NEW b \in Buf, w.buf[b].ref > 0
  PROVE  LET v == ReferenceBuffer(w, b)
         IN  /\ v \in World /\ SameRest(w, v) /\ v.mem = w.mem
             /\ MemInv(v, wn, Draw, K)
             /\ \A x \in Buf : /\ v.buf[x].pix = w.buf[x].pix
                               /\ v.buf[x].cur = w.buf[x].cur
                               /\ w.buf[x].ref > 0 => v.buf[x].ref > 0
<1> DEFINE n == w.buf[b].ref + 1
           r == [w.buf[b] EXCEPT !.ref = n]
           f == [w.buf EXCEPT ![b] = r]
           v == ReferenceBuffer(w, b)
<1>1. n \in Int /\ n > 0 /\ w.buf[b] \in BufRec
  BY WorldFields, BufFields
<1>2. /\ r.ref = n /\ r.pix = w.buf[b].pix /\ r.bo = w.buf[b].bo
      /\ r.att = w.buf[b].att /\ r.cur = w.buf[b].cur
  BY <1>1 DEF BufRec
<1>3. f[b] = r /\ \A x \in Buf \ {b} : f[x] = w.buf[x]
  BY WorldFields
<1>4. v \in World /\ SameSwaps(w, v)
  BY ReferenceBufferType
<1>5. v.mem = w.mem /\ v.buf = f /\ v.scanout = w.scanout
  BY DEF ReferenceBuffer, World
<1> HIDE DEF v, f, r, n
<1>6. v.cmd = w.cmd /\ v.priv = w.priv /\ SameRest(w, v)
  BY <1>4, <1>5 DEF SameSwaps, SameRest
<1>7. \A x \in Buf : \/ v.buf[x] = w.buf[x]
                     \/ /\ w.buf[x].ref > 0 /\ v.buf[x].ref > 0
                        /\ v.buf[x].pix = w.buf[x].pix /\ v.buf[x].bo = w.buf[x].bo
                        /\ v.buf[x].att = w.buf[x].att /\ v.buf[x].cur = w.buf[x].cur
  BY <1>1, <1>2, <1>3, <1>5
<1>8. Sound(w, wn)
  BY DEF MemInv, SwapInv
<1>9. Sound(v, wn) /\ Kept(w, v)
  <2>1. \A x \in Buf : \/ v.buf[x] = w.buf[x]
                      \/ /\ w.buf[x].ref > 0 /\ v.buf[x].ref > 0
                         /\ v.buf[x].pix[0] = w.buf[x].pix[0]
                         /\ v.buf[x].bo = w.buf[x].bo
                         /\ v.buf[x].att = w.buf[x].att
    BY <1>7
  <2>2. \A k \in Cmd : /\ v.cmd[k].oldSrc = w.cmd[k].oldSrc
                       /\ v.cmd[k].oldDst = w.cmd[k].oldDst
    BY <1>6
  <2>3. v.scanout = w.scanout /\ v.mem = w.mem /\ v \in World
    BY <1>4, <1>5
  <2> QED BY ONLY w \in World, <1>8, <2>1, <2>2, <2>3, SameHolders
<1>10. Spared(w, v, Draw)
  <2>1. \A x \in Buf : w.buf[x].ref > 0 => BufKept(w, v, x)
    BY <1>7 DEF BufKept
  <2> QED BY <2>1, Zenon DEF Spared, MemInv, SwapInv, WinSound
<1>11. MemInv(v, wn, Draw, K)
  <2>1. Draw \in SUBSET Draw /\ v.mem.pbo[Root] = w.mem.pbo[Root]
    BY <1>5
  <2> QED BY <1>4, <1>6, <1>9, <1>10, <2>1, Call
<1> QED BY <1>4, <1>5, <1>6, <1>7, <1>11 DEF v

\* A new command adds what it holds.
LEMMA HeldByNew ==
  ASSUME NEW cm, NEW cn, NEW k \in Cmd, cm[k] = NoCmdRec,
         \A j \in Cmd \ {k} : cn[j] = cm[j], NEW b \in Bo
  PROVE  /\ Times(OldSrcs(cn), b) = Times(OldSrcs(cm), b) + Is(cn[k].oldSrc, b)
         /\ Times(OldDsts(cn), b) = Times(OldDsts(cm), b) + Is(cn[k].oldDst, b)
<1>1. /\ Times(OldSrcs(cn), b)
            = Times(OldSrcs(cm), b) + Is(cn[k].oldSrc, b) - Is(cm[k].oldSrc, b)
      /\ Times(OldDsts(cn), b)
            = Times(OldDsts(cm), b) + Is(cn[k].oldDst, b) - Is(cm[k].oldDst, b)
  <2>1. \A j \in Cmd : /\ OldSrcs(cm)[j] = cm[j].oldSrc /\ OldSrcs(cn)[j] = cn[j].oldSrc
                       /\ OldDsts(cm)[j] = cm[j].oldDst /\ OldDsts(cn)[j] = cn[j].oldDst
    BY DEF OldSrcs, OldDsts
  <2>2. \A j \in Cmd \ {k} : /\ OldSrcs(cn)[j] = OldSrcs(cm)[j]
                             /\ OldDsts(cn)[j] = OldDsts(cm)[j]
    BY <2>1
  <2>3. Times(OldSrcs(cn), b)
          = Times(OldSrcs(cm), b) + Is(OldSrcs(cn)[k], b) - Is(OldSrcs(cm)[k], b)
    BY <2>2, HolderDomains, TimesUpdate
  <2>4. Times(OldDsts(cn), b)
          = Times(OldDsts(cm), b) + Is(OldDsts(cn)[k], b) - Is(OldDsts(cm)[k], b)
    BY <2>2, HolderDomains, TimesUpdate
  <2> QED BY <2>1, <2>3, <2>4
<1>2. Is(cm[k].oldSrc, b) = 0 /\ Is(cm[k].oldDst, b) = 0
  BY MemAssumption DEF NoCmdRec, Is
<1>3. /\ Times(OldSrcs(cm), b) \in Nat /\ Times(OldDsts(cm), b) \in Nat
      /\ Is(cn[k].oldSrc, b) \in {0, 1} /\ Is(cn[k].oldDst, b) \in {0, 1}
  BY TimesType, HolderDomains DEF Is
<1> QED BY <1>1, <1>2, <1>3

\* The part of ARMSOCDRI2ScheduleSwap before it decides how to swap.
LEMMA PrepareSwapMem ==
  ASSUME NumBufs = 2, NEW w \in World, WinsTyped(win), MemInv(w, win, Draw, Cmd),
         NEW d \in Draw, win[d] # NoPix, NEW k \in Cmd, w.cmd[k] = NoCmdRec,
         w.priv[d].back \in Buf, w.priv[d].front \in Buf
  PROVE  LET v == PrepareSwap(w, d, k)
         IN  /\ v \in World /\ SameBuffers(w, v) /\ MemInv(v, win, Draw, Cmd)
             /\ v.mem.fb = w.mem.fb
             /\ v.cmd[k].live /\ v.cmd[k].draw = d /\ v.cmd[k].type = "none"
             /\ v.cmd[k].count = 0 /\ ~v.cmd[k].fail
             /\ v.cmd[k].oldSrc = BoFromBuffer(w, w.priv[d].back)
             /\ \A j \in Cmd \ {k} : v.cmd[j] = w.cmd[j]
<1> DEFINE s == w.priv[d].back
           t == w.priv[d].front
           sbo == BoFromBuffer(w, s)
           tbo == BoFromBuffer(w, t)
           u == ReferenceBuffer(w, s)
           z == ReferenceBuffer(u, t)
           m1 == BoRef(w.mem, sbo)
           m2 == BoRef(m1, tbo)
           c == [NoCmdRec EXCEPT !.live = TRUE, !.draw = d, !.src = s, !.dst = t,
                                 !.oldSrc = sbo, !.oldDst = tbo]
           h == [w.cmd EXCEPT ![k] = c]
           v == PrepareSwap(w, d, k)
           K == Cmd \ {k}
<1>1. /\ s \in Buf /\ t \in Buf /\ w.buf[s].ref > 0 /\ w.buf[t].ref > 0
      /\ Sound(w, win)
  <2>1. WinSound(w, win, d) /\ s # NoBuf
    BY SwapAssumption DEF MemInv, SwapInv
  <2> QED BY <2>1, Zenon DEF WinSound, MemInv, SwapInv
<1>2. sbo = w.mem.pbo[w.buf[s].pix[0]] /\ tbo = w.mem.pbo[w.buf[t].pix[0]]
  <2>1. w.buf[s].cur = 0 /\ w.buf[t].cur = 0
    BY <1>1, WorldFields, OnePixmap
  <2>2. w.buf[s].pix[0] \in Pix /\ w.buf[t].pix[0] \in Pix
    BY <1>1, InBuffers
  <2> QED BY <2>1, <2>2 DEF BoFromBuffer, PixmapBo
<1>3. sbo \in Bo /\ tbo \in Bo /\ w.mem.ref[sbo] > 0 /\ w.mem.ref[tbo] > 0
  <2>1. /\ w.buf[s].pix[0] \in Pix /\ w.buf[t].pix[0] \in Pix
        /\ w.mem.pref[w.buf[s].pix[0]] > 0 /\ w.mem.pref[w.buf[t].pix[0]] > 0
    BY <1>1, InBuffers, Zenon
  <2> QED BY <1>1, <1>2, <2>1, InUse, Zenon
<1> HIDE DEF sbo, tbo, s, t
<1>4. /\ u \in World /\ SameRest(w, u) /\ u.mem = w.mem /\ MemInv(u, win, Draw, Cmd)
      /\ u.buf[t].ref > 0 /\ \A x \in Buf : u.buf[x].pix = w.buf[x].pix
  BY <1>1, ReferenceMem
<1> HIDE DEF u
<1>5. /\ z \in World /\ SameRest(u, z) /\ z.mem = u.mem /\ MemInv(z, win, Draw, Cmd)
      /\ \A x \in Buf : z.buf[x].pix = u.buf[x].pix
  BY <1>1, <1>4, ReferenceMem
<1> HIDE DEF z
<1>6. /\ z.mem = w.mem /\ z.cmd = w.cmd /\ z.priv = w.priv /\ z.scanout = w.scanout
      /\ \A x \in Buf : z.buf[x].pix = w.buf[x].pix
  BY <1>4, <1>5 DEF SameRest, SameSwaps
<1>7. /\ m1 \in Mem /\ m1.pref = w.mem.pref /\ m1.ext = w.mem.ext
      /\ m1.pbo = w.mem.pbo /\ m1.fb = w.mem.fb
      /\ \A x \in Bo : m1.ref[x] = w.mem.ref[x] + Is(sbo, x)
      /\ m1.ok
  <2>1. w.mem \in Mem /\ w.mem.ok
    BY <1>1, WorldFields DEF Sound
  <2> QED BY <1>3, <2>1, BoRefForm, BoRefType
<1> HIDE DEF m1
<1>8. /\ m2 \in Mem /\ m2.pref = m1.pref /\ m2.ext = m1.ext
      /\ m2.pbo = m1.pbo /\ m2.fb = m1.fb
      /\ \A x \in Bo : m2.ref[x] = m1.ref[x] + Is(tbo, x)
      /\ m2.ok
  <2>1. m1.ref[tbo] > 0
    <3>1. w.mem.ref[tbo] \in Int /\ m1.ref[tbo] = w.mem.ref[tbo] + Is(sbo, tbo)
      BY <1>3, <1>7, WorldFields, MemFields
    <3> QED BY <1>3, <3>1 DEF Is
  <2> QED BY <1>3, <1>7, <2>1, BoRefForm, BoRefType
<1> HIDE DEF m2
<1>9. /\ c.live /\ c.draw = d /\ c.src = s /\ c.dst = t /\ c.oldSrc = sbo
      /\ c.oldDst = tbo /\ ~c.fail /\ c.type = "none" /\ c.count = 0
  BY DEF NoCmdRec
<1> HIDE DEF c
<1>10. h[k] = c /\ \A j \in K : h[j] = w.cmd[j]
  BY WorldFields
<1> HIDE DEF h
<1>11. v \in World /\ SameBuffers(w, v)
  BY PrepareSwapType DEF s, t
<1>12. /\ v.mem = m2 /\ v.cmd = h /\ v.buf = z.buf /\ v.scanout = z.scanout
  <2> DEFINE i == z.priv[d].swaps + 1
             y == z.pending + 1
             e == [z.priv EXCEPT ![d].swaps = i]
  <2>1. v = [z EXCEPT !.pending = y, !.priv = e, !.mem = m2, !.cmd = h]
    <3>1. v = [z EXCEPT !.pending = @ + 1, !.priv[d].swaps = @ + 1,
                        !.mem = BoRef(BoRef(@, sbo), tbo), !.cmd[k] = c]
      BY DEF PrepareSwap, u, z, s, t, sbo, tbo, c
    <3>2. [z EXCEPT !.pending = @ + 1, !.priv[d].swaps = @ + 1,
                        !.mem = BoRef(BoRef(@, sbo), tbo), !.cmd[k] = c]
           = [z EXCEPT !.pending = y, !.priv = e,
                       !.mem = BoRef(BoRef(z.mem, sbo), tbo), !.cmd = [z.cmd EXCEPT ![k] = c]]
      BY <1>5 DEF World
    <3> QED BY <1>6, <3>1, <3>2 DEF m1, m2, h
  <2> HIDE DEF y, e, v
  <2> QED BY <1>5, <2>1 DEF World
<1> HIDE DEF v
<1>13. Sound(z, win) /\ SwapInv(z, win, Draw, K) /\ ScreenSound(z)
  BY <1>5 DEF MemInv, SwapInv
<1>14. Sound(v, win)
  <2>1. BosCounted(v)
    <3> SUFFICES ASSUME NEW x \in Bo
                 PROVE  m2.ref[x] = Held(m2, z.buf, h, z.scanout, x)
      BY <1>12 DEF BosCounted
    <3>1. w.mem.ref[x] = Times(w.mem.pbo, x) + Times(BufBos(z.buf), x)
                         + Times(OldSrcs(w.cmd), x) + Times(OldDsts(w.cmd), x)
                         + Is(z.scanout, x)
      BY <1>6, <1>13 DEF Sound, BosCounted, Held
    <3>2. Held(m2, z.buf, h, z.scanout, x)
            = Times(w.mem.pbo, x) + Times(BufBos(z.buf), x)
              + Times(OldSrcs(h), x) + Times(OldDsts(h), x) + Is(z.scanout, x)
      BY <1>7, <1>8 DEF Held
    <3>3. /\ Times(OldSrcs(h), x) = Times(OldSrcs(w.cmd), x) + Is(h[k].oldSrc, x)
          /\ Times(OldDsts(h), x) = Times(OldDsts(w.cmd), x) + Is(h[k].oldDst, x)
      <4> DEFINE cm == w.cmd
      <4>1. cm[k] = NoCmdRec /\ \A i \in Cmd \ {k} : h[i] = cm[i]
        BY <1>10
      <4> HIDE DEF cm
      <4>2. /\ Times(OldSrcs(h), x) = Times(OldSrcs(cm), x) + Is(h[k].oldSrc, x)
            /\ Times(OldDsts(h), x) = Times(OldDsts(cm), x) + Is(h[k].oldDst, x)
        BY ONLY k \in Cmd, x \in Bo, <4>1, HeldByNew
      <4> QED BY <4>2 DEF cm
    <3>5. /\ Times(w.mem.pbo, x) \in Nat /\ Times(BufBos(z.buf), x) \in Nat
          /\ Times(OldSrcs(w.cmd), x) \in Nat /\ Times(OldDsts(w.cmd), x) \in Nat
          /\ Times(OldSrcs(h), x) \in Nat /\ Times(OldDsts(h), x) \in Nat
          /\ Is(z.scanout, x) \in {0, 1} /\ Is(sbo, x) \in {0, 1} /\ Is(tbo, x) \in {0, 1}
      BY WorldFields, HeldTypes
    <3>6. /\ m2.ref[x] = w.mem.ref[x] + Is(sbo, x) + Is(tbo, x)
          /\ h[k].oldSrc = sbo /\ h[k].oldDst = tbo
      BY <1>7, <1>8, <1>9, <1>10
    <3> QED BY <3>1, <3>2, <3>3, <3>5, <3>6
  <2>2. PixCounted(v, win) /\ PixSound(v.mem) /\ BufSound(v)
    BY <1>6, <1>7, <1>8, <1>12, <1>13 DEF Sound, PixCounted, PixSound, BufSound
  <2> QED BY <1>8, <1>12, <2>1, <2>2 DEF Sound
<1>15. Kept(z, v)
  BY <1>6, <1>7, <1>8, <1>12 DEF Kept
<1>16. SwapInv(v, win, Draw, K)
  <2>1. HoldsKept(z, v, Draw)
    BY <1>6, <1>11, <1>12, <1>13, Zenon DEF HoldsKept, BufKept, SwapInv, WinSound, SameBuffers
  <2>2. CmdKept(z, v, K) /\ WinsKept(z, v, win, win, Draw)
    BY <1>6, <1>10, <1>12 DEF CmdKept, WinsKept
  <2>3. Draw \in SUBSET Draw /\ K \in SUBSET Cmd
    OBVIOUS
  <2> HIDE DEF K
  <2> QED BY <1>5, <1>11, <1>13, <1>14, <1>15, <2>1, <2>2, <2>3, Frame
<1>17. CmdHolds(v.cmd[k])
  BY <1>1, <1>3, <1>9, <1>10, <1>12 DEF CmdHolds, Whole
<1>18. CmdSound(v, win, k)
  <2>1. v.cmd[k] = c /\ v.mem.pbo = w.mem.pbo
    BY <1>7, <1>8, <1>10, <1>12
  <2>2. v.priv[d].back = s /\ v.priv[d].front = t
    BY <1>11 DEF SameBuffers, s, t
  <2>3. v.buf[s].pix[0] = w.buf[s].pix[0] /\ v.buf[t].pix[0] = w.buf[t].pix[0]
    BY <1>1, <1>6, <1>12
  <2> QED BY <1>2, <1>9, <2>1, <2>2, <2>3 DEF CmdSound
<1>19. SwapInv(v, win, Draw, Cmd)
  BY <1>16, <1>17, <1>18 DEF SwapInv
<1>20. ScreenSound(v)
  BY <1>6, <1>7, <1>8, <1>12, <1>13 DEF ScreenSound
<1>21. v.mem.fb = w.mem.fb /\ v.cmd[k] = c /\ \A j \in K : v.cmd[j] = w.cmd[j]
  BY <1>7, <1>8, <1>10, <1>12
<1> QED BY <1>9, <1>11, <1>19, <1>20, <1>21 DEF MemInv, v, sbo, s

\* The command of a flip that starts is the one that was prepared.
FlipStarted(w, v, k, S) ==
  /\ v.cmd[k].live = w.cmd[k].live /\ v.cmd[k].draw = w.cmd[k].draw
  /\ v.cmd[k].src = w.cmd[k].src /\ v.cmd[k].dst = w.cmd[k].dst
  /\ v.cmd[k].count = Cardinality(S)

LEMMA StartFlipCmd ==
  ASSUME NEW w \in World, NEW k \in Cmd, NEW S \in SUBSET Crtc
  PROVE  FlipStarted(w, StartFlip(w, k, S), k, S)
<1> DEFINE v == StartFlip(w, k, S)
<1>1. /\ v.cmd[k].live = w.cmd[k].live /\ v.cmd[k].draw = w.cmd[k].draw
      /\ v.cmd[k].src = w.cmd[k].src /\ v.cmd[k].dst = w.cmd[k].dst
      /\ v.cmd[k].count = Cardinality(S)
  BY StartFlipType
<1> QED BY <1>1, Zenon DEF FlipStarted

\* drmmode_page_flip
LEMMA StartFlipMem ==
  ASSUME NEW w \in World, WinsTyped(win), MemInv(w, win, Draw, Cmd),
         NEW k \in Cmd, w.cmd[k].live, ~w.cmd[k].fail, w.mem.fb[w.cmd[k].oldSrc],
         NEW S \in SUBSET Crtc
  PROVE  LET v == StartFlip(w, k, S)
         IN  /\ v \in World /\ MemInv(v, win, Draw, Cmd)
             /\ SameBuffers(w, v) /\ v.buf = w.buf
             /\ \A j \in Cmd \ {k} : v.cmd[j] = w.cmd[j]
             /\ v.cmd[k].fail <=> S # crtcOn
<1> DEFINE c == [w.cmd[k] EXCEPT !.type = "flip", !.fail = S # crtcOn,
                                 !.fake = crtcOn = {}, !.count = Cardinality(S)]
           h == [x \in Crtc |-> IF x \in S THEN w.cmd[k].oldSrc ELSE w.hw[x]]
           v == StartFlip(w, k, S)
           K == Cmd \ {k}
<1>1. /\ v \in World /\ SameBuffers(w, v) /\ v.cmd = [w.cmd EXCEPT ![k] = v.cmd[k]]
  BY StartFlipType
<1>2. \A j \in K : v.cmd[j] = w.cmd[j]
  BY <1>1, WorldFields
<1>3. /\ v.cmd[k] = c /\ v.mem = w.mem /\ v.buf = w.buf /\ v.scanout = w.scanout
  BY WorldFields DEF StartFlip, World
<1>4. /\ c.live = w.cmd[k].live /\ c.draw = w.cmd[k].draw /\ c.src = w.cmd[k].src
      /\ c.dst = w.cmd[k].dst /\ c.oldSrc = w.cmd[k].oldSrc /\ c.oldDst = w.cmd[k].oldDst
      /\ c.type = "flip" /\ (c.fail <=> S # crtcOn)
  <2>1. w.cmd[k] \in CmdRec
    BY WorldFields
  <2>2. /\ c.live = w.cmd[k].live /\ c.draw = w.cmd[k].draw /\ c.src = w.cmd[k].src
        /\ c.dst = w.cmd[k].dst /\ c.oldSrc = w.cmd[k].oldSrc
        /\ c.oldDst = w.cmd[k].oldDst /\ c.type = "flip"
    BY <2>1 DEF CmdRec
  <2>3. c.fail = (S # crtcOn)
    BY <2>1 DEF CmdRec
  <2> HIDE DEF c
  <2> QED BY <2>2, <2>3
<1> HIDE DEF v, c
<1>5. SwapInv(w, win, Draw, K) /\ ScreenSound(w) /\ K \in SUBSET Cmd
      /\ CmdHolds(w.cmd[k]) /\ CmdSound(w, win, k)
  <2>1. SwapInv(w, win, Draw, K) /\ ScreenSound(w)
    BY DEF MemInv, SwapInv
  <2>2. CmdHolds(w.cmd[k]) /\ w.cmd[k].draw \in Draw
    BY DEF MemInv, SwapInv, CmdHolds, Whole
  <2> QED BY <2>1, <2>2 DEF MemInv, SwapInv
<1>6. CmdKept(w, v, K)
  BY <1>2 DEF CmdKept
<1>7. \A j \in Cmd : v.cmd[j].oldSrc = w.cmd[j].oldSrc /\ v.cmd[j].oldDst = w.cmd[j].oldDst
  BY <1>2, <1>3, <1>4
<1>8. SwapInv(v, win, Draw, K) /\ ScreenSound(v)
  <2> HIDE DEF K
  <2> QED BY <1>1, <1>3, <1>5, <1>6, <1>7, SwapsOnly
<1>9. CmdHolds(v.cmd[k])
  BY <1>3, <1>4, <1>5 DEF CmdHolds, Whole
<1>10. CmdSound(v, win, k)
  <2>1. win[w.cmd[k].draw] # NoPix =>
          /\ w.priv[c.draw].back = c.src /\ w.priv[c.draw].front = c.dst
          /\ w.mem.pbo[w.buf[c.src].pix[0]] = c.oldSrc
          /\ w.buf[c.dst].pix[0] # Root => w.mem.pbo[w.buf[c.dst].pix[0]] = c.oldDst
    BY <1>4, <1>5, Zenon DEF CmdSound
  <2>2. c.draw \in Draw
    BY <1>4, <1>5 DEF CmdHolds, Whole
  <2>3. /\ v.priv[c.draw].back = w.priv[c.draw].back
        /\ v.priv[c.draw].front = w.priv[c.draw].front
    BY <1>1, <2>2 DEF SameBuffers
  <2>4. w.mem.fb[c.oldSrc]
    BY <1>4
  <2>5. v.cmd[k].draw = c.draw /\ v.cmd[k].src = c.src /\ v.cmd[k].dst = c.dst
        /\ v.cmd[k].oldSrc = c.oldSrc /\ v.cmd[k].oldDst = c.oldDst
        /\ c.draw = w.cmd[k].draw /\ v.mem = w.mem /\ v.buf = w.buf
    BY <1>3, <1>4
  <2> HIDE DEF c, v
  <2> QED BY ONLY <2>1, <2>3, <2>4, <2>5, ZenonT(40) DEF CmdSound
<1>11. SwapInv(v, win, Draw, Cmd)
  BY <1>8, <1>9, <1>10 DEF SwapInv
<1> QED BY <1>1, <1>2, <1>3, <1>4, <1>8, <1>11 DEF MemInv, v

-----------------------------------------------------------------------------
(* The screen *)

\* What the CRTCs show is no business of the memory.
LEMMA SameMem ==
  ASSUME NEW w \in World, NEW v \in World, NEW wn, WinsTyped(wn),
         MemInv(w, wn, Draw, Cmd),
         v.mem = w.mem, v.buf = w.buf, v.scanout = w.scanout, v.cmd = w.cmd,
         SameBuffers(w, v)
  PROVE  MemInv(v, wn, Draw, Cmd)
<1>1. SwapInv(w, wn, Draw, Cmd) /\ ScreenSound(w) /\ Cmd \in SUBSET Cmd
  BY DEF MemInv
<1>2. CmdKept(w, v, Cmd)
  BY DEF CmdKept
<1>3. \A k \in Cmd : v.cmd[k].oldSrc = w.cmd[k].oldSrc /\ v.cmd[k].oldDst = w.cmd[k].oldDst
  OBVIOUS
<1> QED BY <1>1, <1>2, <1>3, SwapsOnly DEF MemInv

\* drmmode_set_mode_major: the scanout has its fb already.
LEMMA SetModeMem ==
  ASSUME NEW w \in World, NEW wn, WinsTyped(wn), MemInv(w, wn, Draw, Cmd),
         NEW S, NEW ch \in Choices
  PROVE  LET v == SetMode(w, S, ch)
         IN  v \in World /\ SameBuffers(w, v) /\ v.cmd = w.cmd /\ MemInv(v, wn, Draw, Cmd)
<1> DEFINE v == SetMode(w, S, ch)
<1>1. v \in World /\ v.cmd = w.cmd /\ v.priv = w.priv
  BY SetModeType
<1>2. w.mem.fb[w.scanout]
  BY DEF MemInv, ScreenSound
<1>3. v.mem = w.mem /\ v.buf = w.buf /\ v.scanout = w.scanout
  BY <1>2 DEF SetMode, World
<1> HIDE DEF v
<1>4. SameBuffers(w, v)
  BY <1>1 DEF SameBuffers
<1> QED BY <1>1, <1>3, <1>4, SameMem DEF v

\* Other dimensions of a pixmap, and older serials, disturb nothing.
LEMMA Redrawn ==
  ASSUME NEW w \in World, NEW v \in World, NEW wn, WinsTyped(wn),
         MemInv(w, wn, Draw, Cmd),
         v.mem.pref = w.mem.pref, v.mem.pbo = w.mem.pbo, v.mem.ext = w.mem.ext,
         v.mem.ref = w.mem.ref, v.mem.fb = w.mem.fb, v.mem.ok = w.mem.ok,
         v.buf = w.buf, v.scanout = w.scanout, v.cmd = w.cmd, SameBuffers(w, v)
  PROVE  MemInv(v, wn, Draw, Cmd)
<1>1. Sound(w, wn) /\ SwapInv(w, wn, Draw, Cmd) /\ ScreenSound(w)
  BY DEF MemInv, SwapInv
<1>2. Sound(v, wn)
  <2>1. BosCounted(v)
    BY <1>1 DEF Sound, BosCounted, Held
  <2>2. PixCounted(v, wn) /\ PixSound(v.mem) /\ BufSound(v)
    BY <1>1 DEF Sound, PixCounted, PixSound, BufSound
  <2> QED BY <1>1, <2>1, <2>2 DEF Sound
<1>3. Kept(w, v)
  BY DEF Kept
<1>4. HoldsKept(w, v, Draw)
  BY <1>1, Zenon DEF HoldsKept, BufKept, SwapInv, WinSound, SameBuffers
<1>5. CmdKept(w, v, Cmd) /\ WinsKept(w, v, wn, wn, Draw)
  BY DEF CmdKept, WinsKept
<1>6. Draw \in SUBSET Draw /\ Cmd \in SUBSET Cmd
  OBVIOUS
<1>7. SwapInv(v, wn, Draw, Cmd)
  BY <1>1, <1>2, <1>3, <1>4, <1>5, <1>6, Frame
<1> QED BY <1>1, <1>7 DEF MemInv, ScreenSound

\* resize_scanout_bo allocates a bo for a screen of size s ...
NewScanoutMem(m, b, old, s) ==
  LET m1 == AddFb(NewBo(m, b, s), b)
  IN  BoUnref(BoUnref(BoRef(m1, b), old), b)

\* ... and drmmode_xf86crtc_resize gives it to the screen pixmap.
LEMMA NewScanoutForm ==
  ASSUME NEW m \in Mem, NEW b \in Bo, NEW old \in Bo, b # old, NEW s \in Size,
         Root \in Pix, m.pbo[Root] = old, m.ref[old] >= 2, m.ok
  PROVE  LET m1 == AddFb(NewBo(m, b, s), b)
             n  == WrapScanout(NewScanoutMem(m, b, old, s), Root, b)
         IN  /\ m1 \in Mem /\ m1.ok /\ m1.fb[b] /\ n \in Mem
             /\ n.pref = m.pref /\ n.ext = m.ext
             /\ n.pbo = [m.pbo EXCEPT ![Root] = b]
             /\ \A x \in Bo \ {b} : /\ n.ref[x] = m.ref[x] - Is(old, x) - Is(old, x)
                                    /\ n.ref[x] > 0 => (n.fb[x] <=> m.fb[x])
             /\ n.ref[b] = 2 /\ n.fb[b] /\ n.ok
<1> DEFINE m0 == NewBo(m, b, s)
           m1 == AddFb(m0, b)
           m2 == BoRef(m1, b)
           m3 == BoUnref(m2, old)
           m4 == BoUnref(m3, b)
           m5 == BoRef(m4, b)
           g  == [m5.pbo EXCEPT ![Root] = b]
           m6 == [m5 EXCEPT !.pbo = g]
           m7 == BoUnref(m6, old)
           n  == WrapScanout(m4, Root, b)
<1>a. \A x, y : Is(x, y) \in {0, 1} /\ Is(x, x) = 1 /\ (x # y => Is(x, y) = 0)
  BY DEF Is
<1>b. \A x \in Bo : m.ref[x] \in Int /\ m.fb[x] \in BOOLEAN
  BY MemFields
<1>0. /\ m0 \in Mem /\ m0.pref = m.pref /\ m0.ext = m.ext /\ m0.pbo = m.pbo
      /\ m0.ok = m.ok /\ m0.ref[b] = 1 /\ ~m0.fb[b]
      /\ \A x \in Bo \ {b} : m0.ref[x] = m.ref[x] /\ m0.fb[x] = m.fb[x]
  <2>1. m0 \in Mem
    BY NewBoType
  <2>2. /\ m0.pref = m.pref /\ m0.ext = m.ext /\ m0.pbo = m.pbo /\ m0.ok = m.ok
        /\ m0.ref = [m.ref EXCEPT ![b] = 1] /\ m0.fb = [m.fb EXCEPT ![b] = FALSE]
    BY DEF NewBo, Mem
  <2> QED BY <2>1, <2>2, MemFields
<1> HIDE DEF m0
<1>1. /\ m1 \in Mem /\ m1.pref = m.pref /\ m1.ext = m.ext /\ m1.pbo = m.pbo
      /\ m1.ok /\ m1.ref[b] = 1 /\ m1.fb[b]
      /\ \A x \in Bo \ {b} : m1.ref[x] = m.ref[x] /\ (m1.fb[x] <=> m.fb[x])
  <2>1. m1 \in Mem
    BY <1>0, AddFbType
  <2>2. /\ m1.pref = m0.pref /\ m1.ext = m0.ext /\ m1.pbo = m0.pbo /\ m1.ref = m0.ref
        /\ \A x \in Bo : m1.fb[x] <=> (x = b \/ m0.fb[x])
        /\ m0.ok /\ m0.ref[b] > 0 /\ ~m0.fb[b] => m1.ok
    BY ONLY <1>0, b \in Bo, AddFbForm, SMTT(40) DEF m1
  <2> QED BY <1>0, <2>1, <2>2
<1> HIDE DEF m1
<1>2. /\ m2 \in Mem /\ m2.pref = m.pref /\ m2.ext = m.ext /\ m2.pbo = m.pbo
      /\ m2.fb = m1.fb /\ m2.ok
      /\ \A x \in Bo : m2.ref[x] = m1.ref[x] + Is(b, x)
  BY <1>1, BoRefForm, BoRefType
<1> HIDE DEF m2
<1>3. /\ m3 \in Mem /\ m3.pref = m.pref /\ m3.ext = m.ext /\ m3.pbo = m.pbo
      /\ \A x \in Bo : m3.ref[x] = m2.ref[x] - Is(old, x)
      /\ \A x \in Bo : m3.ref[x] > 0 => (m3.fb[x] <=> m2.fb[x])
      /\ m3.ok
  <2>1. m2.ref[old] > 0
    BY <1>1, <1>2, <1>a, <1>b
  <2>2. old \in Bo \cup {NoBo}
    OBVIOUS
  <2> QED BY ONLY <1>2, <2>1, <2>2, BoUnrefForm, BoUnrefType
<1> HIDE DEF m3
<1>4. /\ m4 \in Mem /\ m4.pref = m.pref /\ m4.ext = m.ext /\ m4.pbo = m.pbo
      /\ \A x \in Bo : m4.ref[x] = m3.ref[x] - Is(b, x)
      /\ \A x \in Bo : m4.ref[x] > 0 => (m4.fb[x] <=> m3.fb[x])
      /\ m4.ok
  <2>1. m3.ref[b] > 0
    BY <1>1, <1>2, <1>3, <1>a
  <2> QED BY <1>3, <2>1, BoUnrefForm, BoUnrefType
<1> HIDE DEF m4
<1>5. /\ m5 \in Mem /\ m5.pref = m.pref /\ m5.ext = m.ext /\ m5.pbo = m.pbo
      /\ m5.fb = m4.fb /\ m5.ok
      /\ \A x \in Bo : m5.ref[x] = m4.ref[x] + Is(b, x)
  <2>1. m4.ref[b] > 0
    BY <1>1, <1>2, <1>3, <1>4, <1>a
  <2> QED BY <1>4, <2>1, BoRefForm, BoRefType
<1> HIDE DEF m5
<1>6. /\ m6 \in Mem /\ m6.pref = m.pref /\ m6.ext = m.ext /\ m6.pbo = g
      /\ m6.fb = m5.fb /\ m6.ref = m5.ref /\ m6.ok
  <2>1. g \in [Pix -> Bo \cup {NoBo}]
    BY <1>5, MemFields
  <2> HIDE DEF g
  <2> QED BY <1>5, <2>1 DEF Mem
<1>7. g = [m.pbo EXCEPT ![Root] = b]
  BY <1>5
<1> HIDE DEF m6, g
<1>8. \A x \in Bo \ {b} : /\ m6.ref[x] = m.ref[x] - Is(old, x)
                          /\ m6.ref[x] > 0 => (m6.fb[x] <=> m.fb[x])
  <2> SUFFICES ASSUME NEW x \in Bo \ {b}
               PROVE  /\ m6.ref[x] = m.ref[x] - Is(old, x)
                      /\ m6.ref[x] > 0 => (m6.fb[x] <=> m.fb[x])
    OBVIOUS
  <2>1. Is(b, x) = 0 /\ Is(old, x) \in {0, 1} /\ m.ref[x] \in Int
    BY <1>a, <1>b
  <2>2. /\ m6.ref[x] = m4.ref[x] + Is(b, x) /\ m4.ref[x] = m3.ref[x] - Is(b, x)
        /\ m3.ref[x] = m2.ref[x] - Is(old, x) /\ m2.ref[x] = m1.ref[x] + Is(b, x)
        /\ m1.ref[x] = m.ref[x]
    BY <1>1, <1>2, <1>3, <1>4, <1>5, <1>6
  <2>3. /\ m6.ref[x] = m.ref[x] - Is(old, x)
        /\ m6.ref[x] = m4.ref[x] /\ m4.ref[x] = m3.ref[x]
    BY <2>1, <2>2
  <2> QED BY <1>1, <1>2, <1>3, <1>4, <1>5, <1>6, <2>3
<1>9. m6.ref[b] = 2 /\ m6.fb[b]
  <2>1. Is(b, b) = 1 /\ Is(old, b) = 0
    BY <1>a
  <2>2. m2.ref[b] = 2 /\ m3.ref[b] = 2 /\ m4.ref[b] = 1 /\ m5.ref[b] = 2
    BY <1>1, <1>2, <1>3, <1>4, <1>5, <2>1
  <2> QED BY <1>1, <1>2, <1>3, <1>4, <1>5, <1>6, <2>2
<1>10. /\ m7 \in Mem /\ m7.pref = m.pref /\ m7.ext = m.ext /\ m7.pbo = g
       /\ \A x \in Bo : m7.ref[x] = m6.ref[x] - Is(old, x)
       /\ \A x \in Bo : m7.ref[x] > 0 => (m7.fb[x] <=> m6.fb[x])
       /\ m7.ok
  <2>1. m6.ref[old] > 0
    BY <1>8, <1>a, <1>b
  <2>2. old \in Bo \cup {NoBo}
    OBVIOUS
  <2> QED BY ONLY <1>6, <2>1, <2>2, BoUnrefForm, BoUnrefType
<1> HIDE DEF m7
<1>11. /\ n \in Mem /\ n.pref = m.pref /\ n.ext = m.ext /\ n.pbo = g
       /\ n.ref = m7.ref /\ n.fb = m7.fb /\ n.ok
  <2> DEFINE z == [m7.pdim EXCEPT ![Root] = m7.size[b]]
  <2>1. n = [m7 EXCEPT !.pdim = z]
    <3>1. m4.pbo[Root] = old
      BY <1>4
    <3>2. m6 = [BoRef(m4, b) EXCEPT !.pbo[Root] = b]
      BY <1>5 DEF m6, m5, g, Mem
    <3>3. n = [m7 EXCEPT !.pdim[Root] = m7.size[b]]
      BY <3>1, <3>2 DEF WrapScanout, m7
    <3> QED BY <1>10, <3>3 DEF Mem
  <2>2. z \in [Pix -> Size]
    BY <1>10, MemFields
  <2> HIDE DEF z, n
  <2> QED BY <1>10, <2>1, <2>2 DEF Mem
<1>12. /\ \A x \in Bo \ {b} : /\ n.ref[x] = m.ref[x] - Is(old, x) - Is(old, x)
                              /\ n.ref[x] > 0 => (n.fb[x] <=> m.fb[x])
       /\ n.ref[b] = 2 /\ n.fb[b]
  <2> HIDE DEF n
  <2>1. ASSUME NEW x \in Bo \ {b}
        PROVE  /\ n.ref[x] = m.ref[x] - Is(old, x) - Is(old, x)
               /\ n.ref[x] > 0 => (n.fb[x] <=> m.fb[x])
    <3>1. Is(old, x) \in {0, 1} /\ m.ref[x] \in Int
      BY <1>a, <1>b
    <3>2. m6.ref[x] = m.ref[x] - Is(old, x) /\ n.ref[x] = m6.ref[x] - Is(old, x)
      BY <1>8, <1>10, <1>11
    <3>3. n.ref[x] > 0 => m6.ref[x] > 0
      BY <3>1, <3>2
    <3> QED BY <1>8, <1>10, <1>11, <3>1, <3>2, <3>3
  <2>2. n.ref[b] = 2
    BY <1>9, <1>10, <1>11, <1>a
  <2> QED BY <1>9, <1>10, <1>11, <2>1, <2>2
<1>13. m4 = NewScanoutMem(m, b, old, s)
  BY DEF NewScanoutMem, m4, m3, m2, m1, m0
<1> HIDE DEF n
<1> QED BY <1>1, <1>7, <1>11, <1>12, <1>13 DEF n, m1, m0

\* The screen pixmap moves from the old scanout to a new one.
LEMMA NewScreen ==
  ASSUME NEW w \in World, NEW v \in World, NEW wn, WinsTyped(wn),
         MemInv(w, wn, Draw, Cmd),
         NEW b \in Bo, w.mem.ref[b] = 0,
         v.mem.pref = w.mem.pref, v.mem.ext = w.mem.ext, v.mem.ok,
         v.mem.pbo = [w.mem.pbo EXCEPT ![Root] = b],
         \A x \in Bo \ {b} :
           /\ v.mem.ref[x] = w.mem.ref[x] - Is(w.scanout, x) - Is(w.scanout, x)
           /\ v.mem.ref[x] > 0 => (v.mem.fb[x] <=> w.mem.fb[x]),
         v.mem.ref[b] = 2, v.mem.fb[b],
         v.buf = w.buf, v.scanout = b, v.cmd = w.cmd, SameBuffers(w, v)
  PROVE  MemInv(v, wn, Draw, Cmd)
<1>1. Sound(w, wn) /\ SwapInv(w, wn, Draw, Cmd) /\ w.mem.pbo[Root] = w.scanout
  BY DEF MemInv, SwapInv, ScreenSound
<1>2. w.mem.pbo \in [Pix -> Bo \cup {NoBo}] /\ Root \in Pix
  BY <1>1, WorldFields, MemFields, InUse
<1>3. v.mem.pbo[Root] = b /\ \A p \in Pix \ {Root} : v.mem.pbo[p] = w.mem.pbo[p]
  BY <1>2
<1>4. \A p \in Pix : w.mem.pbo[p] # b
  <2> SUFFICES ASSUME NEW p \in Pix PROVE w.mem.pbo[p] # b
    OBVIOUS
  <2>1. CASE w.mem.pref[p] > 0
    BY <1>1, <2>1, InUse
  <2>2. CASE ~(w.mem.pref[p] > 0)
    BY <1>1, <2>2, MemAssumption DEF Sound, PixSound
  <2> QED BY <2>1, <2>2
<1>5. BosCounted(v)
  <2> SUFFICES ASSUME NEW x \in Bo
               PROVE  v.mem.ref[x] = Held(v.mem, w.buf, w.cmd, b, x)
    BY DEF BosCounted
  <2> DEFINE mm == w.mem
             nn == v.mem
             sc == w.scanout
             A  == Times(BufBos(w.buf), x)
             B  == Times(OldSrcs(w.cmd), x)
             C  == Times(OldDsts(w.cmd), x)
  <2>1. mm.ref[x] = Times(mm.pbo, x) + A + B + C + Is(sc, x)
    BY <1>1 DEF Sound, BosCounted, Held
  <2>2. Held(nn, w.buf, w.cmd, b, x) = Times(nn.pbo, x) + A + B + C + Is(b, x)
    BY DEF Held
  <2>3. Times(nn.pbo, x) = Times(mm.pbo, x) + Is(b, x) - Is(sc, x)
    <3>1. DOMAIN mm.pbo = Pix /\ DOMAIN nn.pbo = Pix /\ IsFiniteSet(Pix)
      BY <1>2, MemAssumption
    <3>2. /\ nn.pbo[Root] = b /\ mm.pbo[Root] = sc
          /\ \A p \in Pix \ {Root} : nn.pbo[p] = mm.pbo[p]
      BY <1>1, <1>3
    <3> DEFINE f == mm.pbo
               g == nn.pbo
    <3>3. /\ DOMAIN f = Pix /\ DOMAIN g = Pix /\ f[Root] = sc /\ g[Root] = b
          /\ \A p \in Pix \ {Root} : g[p] = f[p]
      BY <3>1, <3>2
    <3> HIDE DEF f, g
    <3>4. Times(g, x) = Times(f, x) + Is(g[Root], x) - Is(f[Root], x)
      BY <1>2, <3>1, <3>3, TimesUpdate
    <3> QED BY <3>3, <3>4 DEF f, g
  <2>4. /\ Times(mm.pbo, x) \in Nat /\ Times(nn.pbo, x) \in Nat
        /\ A \in Nat /\ B \in Nat /\ C \in Nat
        /\ Is(sc, x) \in {0, 1} /\ Is(b, x) \in {0, 1}
    <3>1. mm \in Mem /\ nn \in Mem
      BY WorldFields
    <3> QED BY <3>1, HeldTypes
  <2>5. CASE x = b
    <3>1. /\ Times(mm.pbo, x) + A + B + C + Is(sc, x) = 0 /\ Is(b, x) = 1
      BY <2>1, <2>5 DEF Is
    <3> HIDE DEF mm, nn, sc, A, B, C
    <3>2. Times(mm.pbo, x) = 0 /\ A = 0 /\ B = 0 /\ C = 0 /\ Is(sc, x) = 0
      BY <2>4, <3>1
    <3>3. Times(nn.pbo, x) = 1
      BY <2>3, <3>1, <3>2
    <3>4. Times(nn.pbo, x) + A + B + C + Is(b, x) = 2
      BY <3>1, <3>2, <3>3
    <3> QED BY <2>2, <2>5, <3>4 DEF nn
  <2>6. CASE x # b
    <3>1. nn.ref[x] = mm.ref[x] - Is(sc, x) - Is(sc, x) /\ Is(b, x) = 0
      BY <2>6 DEF Is
    <3> HIDE DEF mm, nn, sc, A, B, C
    <3>2. nn.ref[x] = Times(nn.pbo, x) + A + B + C + Is(b, x)
      BY <2>1, <2>3, <2>4, <3>1
    <3> QED BY <2>2, <3>2 DEF nn
  <2> QED BY <2>5, <2>6
<1>6. Sound(v, wn)
  <2>1. PixCounted(v, wn) /\ BufSound(v)
    BY <1>1 DEF Sound, PixCounted, BufSound
  <2>2. PixSound(v.mem)
    <3>1. w.mem.pref[Root] > 0
      BY <1>1, InUse
    <3>2. \A p \in Pix : /\ IF w.mem.pref[p] > 0 THEN w.mem.pbo[p] \in Bo
                            ELSE w.mem.pbo[p] = NoBo
                         /\ \A q \in Pix \ {p} : w.mem.pbo[q] = w.mem.pbo[p] =>
                                                   w.mem.pbo[p] = NoBo
      BY <1>1 DEF Sound, PixSound
    <3> QED BY <1>3, <1>4, <3>1, <3>2 DEF PixSound
  <2> QED BY <1>5, <2>1, <2>2 DEF Sound
<1>7. Kept(w, v)
  BY <1>3 DEF Kept
<1>8. HoldsKept(w, v, Draw)
  BY <1>1, Zenon DEF HoldsKept, BufKept, SwapInv, WinSound, SameBuffers
<1>9. CmdKept(w, v, Cmd) /\ WinsKept(w, v, wn, wn, Draw)
  BY DEF CmdKept, WinsKept
<1>10. Draw \in SUBSET Draw /\ Cmd \in SUBSET Cmd
  OBVIOUS
<1>11. SwapInv(v, wn, Draw, Cmd)
  BY ONLY w \in World, v \in World, WinsTyped(wn),
          <1>1, <1>6, <1>7, <1>8, <1>9, <1>10, Frame
<1> QED BY <1>3, <1>11 DEF MemInv, ScreenSound

\* drmmode_xf86crtc_resize, when there is memory for a new scanout.
LEMMA ResizeScreenMem ==
  ASSUME NEW w \in World, WinsTyped(win), MemInv(w, win, Draw, Cmd),
         FreeBo(w) # {}, NEW s \in Size, NEW ch \in Choices
  PROVE  LET v == ResizeScreen(w, s, ch)
         IN  v \in World /\ SameBuffers(w, v) /\ v.cmd = w.cmd /\ MemInv(v, win, Draw, Cmd)
<1> DEFINE old == w.scanout
           b   == Pick(FreeBo(w))
           m1  == AddFb(NewBo(w.mem, b, s), b)
           n   == NewScanoutMem(w.mem, b, old, s)
           f   == [d \in Draw |-> [w.priv[d] EXCEPT !.fresh = @ /\ win[d] # Root]]
           res == ResizeScanout(w, s, ch)
           v   == ResizeScreen(w, s, ch)
<1>1. /\ Sound(w, win) /\ w.mem.pbo[Root] = old /\ w.mem \in Mem /\ w.mem.ok
      /\ old \in Bo /\ Root \in Pix /\ w.mem.ref[old] > 0
  <2>1. Sound(w, win) /\ w.mem.pbo[Root] = old
    BY DEF MemInv, SwapInv, ScreenSound
  <2> QED BY <2>1, WorldFields, InUse DEF Sound
<1>2. b \in Bo /\ w.mem.ref[b] = 0 /\ b # old
  BY <1>1, PickIn DEF FreeBo
<1>3. w.mem.ref[old] >= 2
  <2> DEFINE A == Times(w.mem.pbo, old)
             B == Times(BufBos(w.buf), old)
             C == Times(OldSrcs(w.cmd), old)
             D == Times(OldDsts(w.cmd), old)
             e == w.mem.ref[old]
  <2>1. e = A + B + C + D + Is(w.scanout, old)
    BY <1>1 DEF Sound, BosCounted, Held
  <2>2. Is(w.scanout, old) = 1
    BY DEF Is
  <2>3. A \in Nat /\ B \in Nat /\ C \in Nat /\ D \in Nat
    BY <1>1, HeldTypes
  <2>4. A >= 1
    <3> DEFINE g == w.mem.pbo
    <3>1. DOMAIN g = Pix /\ IsFiniteSet(Pix) /\ Root \in Pix /\ g[Root] = old
      BY <1>1, MemFields, MemAssumption
    <3> HIDE DEF g, old
    <3>2. Times(g, g[Root]) >= 1
      BY <3>1, TimesType
    <3> QED BY <3>1, <3>2 DEF g
  <2> HIDE DEF A, B, C, D, e
  <2>5. e >= 2
    BY <2>1, <2>2, <2>3, <2>4
  <2> QED BY <2>5 DEF e
<1> HIDE DEF b
<1>4. /\ f \in [Draw -> PrivRec]
      /\ \A d \in Draw : f[d].back = w.priv[d].back /\ f[d].front = w.priv[d].front
  <2> SUFFICES ASSUME NEW d \in Draw
               PROVE  LET q == [w.priv[d] EXCEPT !.fresh = @ /\ win[d] # Root]
                      IN  /\ q \in PrivRec /\ q.back = w.priv[d].back
                          /\ q.front = w.priv[d].front
    OBVIOUS
  <2>1. w.priv[d] \in PrivRec
    BY WorldFields
  <2> QED BY <2>1 DEF PrivRec
<1> HIDE DEF f
\* The screen has this size already.
<1>5. CASE s = w.mem.size[old]
  <2> DEFINE z == [w.mem.pdim EXCEPT ![Root] = w.mem.size[old]]
             m == [w.mem EXCEPT !.pdim = z]
             u == [w EXCEPT !.mem = m, !.priv = f]
  <2>1. m = WrapScanout(w.mem, Root, old)
    BY <1>1 DEF WrapScanout, Mem
  <2>2. z \in [Pix -> Size]
    BY <1>1, MemFields
  <2> HIDE DEF z
  <2>3. /\ m \in Mem /\ m.pref = w.mem.pref /\ m.pbo = w.mem.pbo /\ m.ext = w.mem.ext
        /\ m.ref = w.mem.ref /\ m.fb = w.mem.fb /\ m.ok = w.mem.ok
    BY <1>1, <2>2 DEF Mem
  <2> HIDE DEF m
  <2>4. /\ u \in World /\ u.mem = m /\ u.priv = f /\ u.buf = w.buf
        /\ u.scanout = w.scanout /\ u.cmd = w.cmd
    BY <1>4, <2>3 DEF World
  <2>5. v = SetMode(u, crtcOn, ch)
    <3>1. res.ok /\ res.w = w
      BY <1>5 DEF ResizeScanout
    <3>2. [w EXCEPT !.mem = WrapScanout(@, Root, w.scanout), !.priv = f] = u
      BY <2>1
    <3> HIDE DEF res
    <3>3. v = SetMode([w EXCEPT !.mem = WrapScanout(@, Root, w.scanout), !.priv = f],
                      crtcOn, ch)
      BY <3>1 DEF ResizeScreen, res, f
    <3> QED BY <3>2, <3>3
  <2> HIDE DEF u, v
  <2>6. SameBuffers(w, u)
    BY <1>4, <2>4 DEF SameBuffers
  <2>7. MemInv(u, win, Draw, Cmd)
    BY <2>3, <2>4, <2>6, Redrawn
  <2>8. v \in World /\ SameBuffers(u, v) /\ v.cmd = u.cmd /\ MemInv(v, win, Draw, Cmd)
    BY <2>4, <2>5, <2>7, SetModeMem
  <2> QED BY <2>4, <2>6, <2>8 DEF SameBuffers, v
\* The new bo gets its fb.
<1>6. CASE s # w.mem.size[old] /\ ch.fb
  <2> DEFINE y == WrapScanout(n, Root, b)
             u == [w EXCEPT !.mem = y, !.scanout = b, !.priv = f]
  <2>1. /\ m1 \in Mem /\ m1.ok /\ m1.fb[b] /\ y \in Mem
        /\ y.pref = w.mem.pref /\ y.ext = w.mem.ext
        /\ y.pbo = [w.mem.pbo EXCEPT ![Root] = b]
        /\ \A x \in Bo \ {b} : /\ y.ref[x] = w.mem.ref[x] - Is(old, x) - Is(old, x)
                               /\ y.ref[x] > 0 => (y.fb[x] <=> w.mem.fb[x])
        /\ y.ref[b] = 2 /\ y.fb[b] /\ y.ok
    BY <1>1, <1>2, <1>3, NewScanoutForm
  <2>2. v = SetMode(u, crtcOn, ch)
    <3> DEFINE wb == [w EXCEPT !.mem = m1]
               wc == SetScanoutBo(wb, b)
               wd == [wc EXCEPT !.mem = BoUnref(@, b)]
               we == [w EXCEPT !.mem = n, !.scanout = b]
    <3>1. res.ok /\ res.w = wd
      BY <1>6 DEF ResizeScanout, b
    <3>2. wd = we
      <4>1. [m1 EXCEPT !.ok = @ /\ m1.fb[b]] = m1
        <5> HIDE DEF m1
        <5> QED BY <2>1 DEF Mem
      <4>2. wb.mem = m1 /\ wb.scanout = old
        BY DEF World
      <4>3. wc = [wb EXCEPT !.mem = BoUnref(BoRef(m1, b), old), !.scanout = b]
        <5> HIDE DEF m1, wb
        <5> QED BY <1>2, <4>1, <4>2, MemAssumption DEF SetScanoutBo
      <4> DEFINE m3 == BoUnref(BoRef(m1, b), old)
      <4>4. n = BoUnref(m3, b)
        BY DEF NewScanoutMem
      <4> HIDE DEF m1, m3
      <4>5. wc = [w EXCEPT !.mem = m3, !.scanout = b]
        BY <4>3 DEF World, m3
      <4> HIDE DEF wc
      <4>6. wd = [w EXCEPT !.mem = BoUnref(m3, b), !.scanout = b]
        BY <4>5 DEF World
      <4> QED BY <4>4, <4>6
    <3> HIDE DEF wd, res, n
    <3>3. v = SetMode([we EXCEPT !.mem = WrapScanout(@, Root, we.scanout), !.priv = f],
                      crtcOn, ch)
      BY <3>1, <3>2 DEF ResizeScreen, res, f
    <3>4. [we EXCEPT !.mem = WrapScanout(@, Root, we.scanout), !.priv = f] = u
      BY DEF World
    <3> QED BY <3>3, <3>4
  <2> HIDE DEF v, y
  <2>3. /\ u \in World /\ u.mem = y /\ u.priv = f /\ u.buf = w.buf
        /\ u.scanout = b /\ u.cmd = w.cmd
    BY <1>2, <1>4, <2>1 DEF World
  <2> HIDE DEF u
  <2>4. SameBuffers(w, u)
    BY <1>4, <2>3 DEF SameBuffers
  <2>5. MemInv(u, win, Draw, Cmd)
    BY <1>2, <2>1, <2>3, <2>4, NewScreen
  <2>6. v \in World /\ SameBuffers(u, v) /\ v.cmd = u.cmd /\ MemInv(v, win, Draw, Cmd)
    BY <2>2, <2>3, <2>5, SetModeMem
  <2> QED BY <2>3, <2>4, <2>6 DEF SameBuffers, v
\* It does not: the screen stays as it was.
<1>7. CASE s # w.mem.size[old] /\ ~ch.fb
  <2>1. v = w
    BY <1>7 DEF ResizeScreen, ResizeScanout
  <2> QED BY <2>1 DEF SameBuffers
<1> QED BY <1>5, <1>6, <1>7

-----------------------------------------------------------------------------
(* Windows *)

\* A window of the screen gets a pixmap of its own.
LEMMA RedirectMem ==
  ASSUME NEW w \in World, WinsTyped(win), MemInv(w, win, Draw, Cmd),
         NEW d \in Draw, win[d] = Root, CanCreatePix(w),
         NEW v \in World, v.mem = CreatePix(w, d),
         v.buf = w.buf, v.cmd = w.cmd, v.scanout = w.scanout, SameBuffers(w, v),
         NEW vn, vn = [win EXCEPT ![d] = Pick(FreePix(w))]
  PROVE  WinsTyped(vn) /\ vn[d] \notin {Root, NoPix} /\ MemInv(v, vn, Draw, Cmd)
         /\ \A e \in Draw : win[e] # vn[d]
<1> DEFINE p == Pick(FreePix(w))
           b == Pick(FreeBo(w))
           m == w.mem
           n == v.mem
<1>0. m \in Mem /\ n \in Mem /\ Sound(w, win)
  BY WorldFields DEF MemInv, SwapInv
<1>1. p \in Pix /\ m.pref[p] = 0 /\ b \in Bo /\ m.ref[b] = 0
  <2>1. p \in FreePix(w) /\ b \in FreeBo(w)
    BY PickIn DEF CanCreatePix
  <2> QED BY <2>1 DEF FreePix, FreeBo
<1>2. /\ \A q \in Pix : /\ n.pref[q] = IF q = p THEN 1 ELSE m.pref[q]
                        /\ n.pbo[q]  = IF q = p THEN b ELSE m.pbo[q]
                        /\ n.ext[q]  = IF q = p THEN 0 ELSE m.ext[q]
      /\ \A x \in Bo : /\ n.ref[x] = IF x = b THEN 1 ELSE m.ref[x]
                       /\ n.fb[x] <=> (x # b /\ m.fb[x])
      /\ n.ok = m.ok
  <2>1. m.pdim[win[d]] \in Size
    BY <1>0, MemFields, SwapAssumption
  <2>2. n = NewPixmap(m, p, b, m.pdim[win[d]])
    BY DEF CreatePix
  <2> QED BY ONLY <1>0, <1>1, <2>1, <2>2, NewPixmapForm
<1>3. /\ \A x \in Bo : m.ref[x] \in Nat
      /\ \A q \in Pix : /\ m.ext[q] \in Nat /\ m.pref[q] \in Nat
                        /\ m.pref[q] >= m.ext[q]
      /\ \A q \in Pix : m.pref[q] > 0 => m.pbo[q] \in Bo /\ m.ref[m.pbo[q]] > 0
      /\ Root \in Pix /\ m.pref[Root] > 0
      /\ \A e \in Draw : win[e] # NoPix => win[e] \in Pix /\ m.pref[win[e]] > 0
  BY <1>0, InUse
<1>4. p # Root /\ \A e \in Draw : win[e] # p
  BY <1>1, <1>3, MemAssumption
<1>5. WinsTyped(vn) /\ vn[d] = p
  BY <1>1 DEF WinsTyped
<1> HIDE DEF p, b
<1>6. ASSUME NEW x \in Bo
      PROVE  n.ref[x] = Held(n, v.buf, v.cmd, v.scanout, x)
  <2>1. Held(n, v.buf, v.cmd, v.scanout, x)
          = Held(m, w.buf, w.cmd, w.scanout, x) + Is(n.pbo[p], x) - Is(m.pbo[p], x)
    BY <1>0, <1>1, <1>2, HeldByPixmap
  <2>2. m.pbo[p] = NoBo /\ n.pbo[p] = b
    BY <1>0, <1>1, <1>2 DEF Sound, PixSound
  <2>3. m.ref[x] = Held(m, w.buf, w.cmd, w.scanout, x)
    BY <1>0 DEF Sound, BosCounted
  <2> QED BY <1>1, <1>2, <1>3, <2>1, <2>2, <2>3, MemAssumption DEF Is
<1>7. ASSUME NEW q \in Pix
      PROVE  /\ n.ext[q] = Times(BufPixs(v.buf), q)
             /\ n.pref[q] = n.ext[q] + Windows(vn, q)
  <2>1. m.ext[q] = Times(BufPixs(w.buf), q) /\ m.pref[q] = m.ext[q] + Windows(win, q)
    BY <1>0 DEF Sound, PixCounted
  <2>2. Windows(win, q) \in Nat /\ Times(win, q) \in Nat
    <3>1. IsFiniteSet(Draw) /\ DOMAIN win = Draw
      BY SwapAssumption DEF WinsTyped
    <3> QED BY <3>1, TimesType, WindowsAtLeast
  <2>3. Times(vn, q) = Times(win, q) + Is(vn[d], q) - Is(win[d], q)
    <3>1. /\ IsFiniteSet(Draw) /\ DOMAIN win = Draw /\ DOMAIN vn = Draw
          /\ \A e \in Draw \ {d} : vn[e] = win[e]
      BY SwapAssumption DEF WinsTyped
    <3> QED BY ONLY <3>1, d \in Draw, TimesUpdate
  <2>4. CASE q = p
    BY <1>1, <1>2, <1>3, <1>4, <1>5, <2>1, <2>2, <2>3, <2>4 DEF Windows, Is
  <2>5. CASE q # p
    BY <1>2, <1>5, <2>1, <2>2, <2>3, <2>5 DEF Windows, Is
  <2> QED BY <2>4, <2>5
<1>8. PixSound(n)
  BY <1>0, <1>1, <1>2, <1>3, MemAssumption DEF Sound, PixSound
<1>9. BufSound(v)
  <2>1. \A x \in Buf : w.buf[x].ref > 0 =>
          w.buf[x].pix[0] \in Pix /\ m.pref[w.buf[x].pix[0]] > 0
    BY <1>0, InBuffers
  <2> QED BY <1>0, <1>1, <1>2, <2>1 DEF Sound, BufSound
<1>10. Sound(v, vn)
  BY <1>0, <1>2, <1>6, <1>7, <1>8, <1>9 DEF Sound, BosCounted, PixCounted
<1>11. Kept(w, v)
  BY <1>1, <1>2 DEF Kept
<1>12. WinsKept(w, v, win, vn, Draw)
  BY <1>1, <1>2, <1>3, <1>5, MemAssumption DEF WinsKept, WinsTyped
<1>13. HoldsKept(w, v, Draw)
  BY Zenon DEF HoldsKept, SameBuffers, BufKept, MemInv, SwapInv, WinSound
<1>14. CmdKept(w, v, Cmd)
  BY DEF CmdKept
<1>15. SwapInv(v, vn, Draw, Cmd)
  BY <1>5, <1>10, <1>11, <1>12, <1>13, <1>14, Frame DEF MemInv
<1>16. ScreenSound(v)
  BY <1>1, <1>2, <1>3, <1>4, MemAssumption DEF MemInv, ScreenSound
<1> QED BY <1>1, <1>4, <1>5, <1>15, <1>16, MemAssumption DEF MemInv, p

\* A window gives its own pixmap back; its buffers may still hold that.
LEMMA DropWindow ==
  ASSUME NEW w \in World, WinsTyped(win), NEW D \in SUBSET Draw,
         MemInv(w, win, D, Cmd),
         NEW d \in Draw, win[d] \notin {Root, NoPix}, NEW r \in {Root, NoPix},
         r = NoPix => d \notin D,
         NEW v \in World, v.mem = DropPixmaps(w.mem, {win[d]}),
         v.buf = w.buf, v.cmd = w.cmd, v.scanout = w.scanout,
         \A e \in D : /\ v.priv[e].back = w.priv[e].back
                      /\ v.priv[e].front = w.priv[e].front,
         NEW vn, vn = [win EXCEPT ![d] = r]
  PROVE  WinsTyped(vn) /\ MemInv(v, vn, D, Cmd)
<1> DEFINE p == win[d]
           m == w.mem
           n == v.mem
           i == IF m.pref[p] = 1 THEN m.pbo[p] ELSE NoBo
<1>0. m \in Mem /\ n \in Mem /\ Sound(w, win)
  BY WorldFields DEF MemInv, SwapInv
<1>1. p \in Pix /\ p # Root /\ p # NoPix
  BY DEF WinsTyped
<1>2. /\ n.ext = m.ext
      /\ \A q \in Pix : /\ n.pref[q] = m.pref[q] - Is(p, q)
                        /\ n.pbo[q] = IF q = p /\ m.pref[p] = 1 THEN NoBo
                                      ELSE m.pbo[q]
      /\ \A b \in Bo : /\ n.ref[b] = m.ref[b] - Is(i, b)
                       /\ n.ref[b] > 0 => (n.fb[b] <=> m.fb[b])
      /\ /\ m.ok /\ m.pref[p] > 0 /\ (m.pref[p] = 1 => m.ext[p] = 0)
         /\ \A b \in Bo : n.ref[b] >= 0
         => n.ok
  BY <1>0, <1>1, DropForm
<1>3. /\ \A x \in Bo : m.ref[x] \in Nat
      /\ \A q \in Pix : /\ m.ext[q] \in Nat /\ m.pref[q] \in Nat
                        /\ m.pref[q] >= m.ext[q]
      /\ \A q \in Pix : m.pref[q] > 0 => m.pbo[q] \in Bo /\ m.ref[m.pbo[q]] > 0
      /\ Root \in Pix /\ m.pref[Root] > 0 /\ m.pref[p] > 0
  BY <1>0, <1>1, InUse
<1>4. WinsTyped(vn) /\ vn[d] = r
  BY SwapAssumption DEF WinsTyped
<1>2a. /\ \A q \in Pix \ {p} : n.pref[q] = m.pref[q] /\ n.pbo[q] = m.pbo[q]
       /\ n.pref[p] = m.pref[p] - 1
       /\ n.pbo[p] = IF m.pref[p] = 1 THEN NoBo ELSE m.pbo[p]
  <2> HIDE DEF m, n, p
  <2> QED BY <1>1, <1>2, <1>3 DEF Is
<1>2b. \A b \in Bo : n.ref[b] = m.ref[b] - Is(i, b)
  BY <1>2
<1>5. ASSUME NEW q \in Pix
      PROVE  /\ n.ext[q] = Times(BufPixs(v.buf), q)
             /\ n.pref[q] = n.ext[q] + Windows(vn, q)
  <2>1. m.ext[q] = Times(BufPixs(w.buf), q) /\ m.pref[q] = m.ext[q] + Windows(win, q)
    BY <1>0 DEF Sound, PixCounted
  <2>2. Windows(win, q) \in Nat /\ Times(win, q) \in Nat
    <3>1. IsFiniteSet(Draw) /\ DOMAIN win = Draw
      BY SwapAssumption DEF WinsTyped
    <3> QED BY <3>1, TimesType, WindowsAtLeast
  <2>3. Times(vn, q) = Times(win, q) + Is(vn[d], q) - Is(win[d], q)
    <3>1. /\ IsFiniteSet(Draw) /\ DOMAIN win = Draw /\ DOMAIN vn = Draw
          /\ \A e \in Draw \ {d} : vn[e] = win[e]
      BY SwapAssumption DEF WinsTyped
    <3> QED BY ONLY <3>1, d \in Draw, TimesUpdate
  <2>4. Windows(vn, q) = Windows(win, q) - Is(p, q)
    BY <1>1, <1>4, <2>2, <2>3, MemAssumption DEF Windows, Is
  <2>5. n.ext[q] = m.ext[q] /\ n.pref[q] = m.pref[q] - Is(p, q)
    BY <1>2
  <2>6. Is(p, q) \in Int /\ m.ext[q] \in Nat /\ m.pref[q] \in Nat
    BY <1>3 DEF Is
  <2>7. v.buf = w.buf
    OBVIOUS
  <2> HIDE DEF m, n, p
  <2> QED BY <2>1, <2>2, <2>4, <2>5, <2>6, <2>7
<1>6. m.pref[p] = 1 => m.ext[p] = 0
  <2>1. m.pref[p] = m.ext[p] + Windows(win, p)
    BY <1>0, <1>1 DEF Sound, PixCounted
  <2>2. Windows(win, p) \in Nat /\ Windows(win, p) >= 1
    BY WindowsAtLeast DEF Is
  <2> QED BY <1>1, <1>3, <2>1, <2>2
<1>7. ASSUME NEW b \in Bo
      PROVE  n.ref[b] = Held(n, v.buf, v.cmd, v.scanout, b)
  <2>1. Held(n, v.buf, v.cmd, v.scanout, b)
          = Held(m, w.buf, w.cmd, w.scanout, b) + Is(n.pbo[p], b) - Is(m.pbo[p], b)
    <3>1. \A q \in Pix \ {p} : n.pbo[q] = m.pbo[q]
      BY <1>2a
    <3>2. v.buf = w.buf /\ v.cmd = w.cmd /\ v.scanout = w.scanout
      OBVIOUS
    <3> HIDE DEF m, n, p
    <3> QED BY ONLY <1>0, <1>1, <3>1, <3>2, HeldByPixmap
  <2>2. n.pbo[p] = IF m.pref[p] = 1 THEN NoBo ELSE m.pbo[p]
    BY <1>2a
  <2>3. m.ref[b] = Held(m, w.buf, w.cmd, w.scanout, b)
    BY <1>0 DEF Sound, BosCounted
  <2>4. n.ref[b] = m.ref[b] - Is(i, b) /\ m.ref[b] \in Nat
    BY <1>2b, <1>3
  <2> HIDE DEF m, n, p
  <2> QED BY <2>1, <2>2, <2>3, <2>4, MemAssumption DEF Is
<1>8. n.ok
  <2>1. \A b \in Bo : n.ref[b] >= 0
    <3>1. \A b \in Bo : i = b => m.ref[b] > 0
      BY <1>1, <1>3, MemAssumption
    <3> HIDE DEF m, n, p, i
    <3> QED BY <1>2b, <1>3, <3>1 DEF Is
  <2> QED BY <1>0, <1>2, <1>3, <1>6, <2>1 DEF Sound
<1>9. PixSound(n)
  <2>1. PixSound(m)
    BY <1>0 DEF Sound
  <2> HIDE DEF m, n, p
  <2> QED BY <1>1, <1>2a, <1>3, <2>1, MemAssumption DEF PixSound
<1>10. BufSound(v)
  <2>1. \A x \in Buf : w.buf[x].ref > 0 /\ w.buf[x].att = "back" =>
          w.buf[x].pix[0] \in Pix /\ p # w.buf[x].pix[0]
    BY <1>0, InBuffers
  <2>2. BufSound(w) /\ v.buf = w.buf
    BY <1>0 DEF Sound
  <2>3. \A q \in Pix \ {p} : v.mem.pref[q] = w.mem.pref[q]
    BY <1>2a
  <2> HIDE DEF m, n, p
  <2> QED BY <2>1, <2>2, <2>3, Zenon DEF BufSound
<1>11. Sound(v, vn)
  BY <1>5, <1>7, <1>8, <1>9, <1>10 DEF Sound, BosCounted, PixCounted
<1>12. Kept(w, v)
  <2>1. /\ \A q \in Pix \ {p} : v.mem.pbo[q] = w.mem.pbo[q]
        /\ v.mem.pref[p] > 0 => v.mem.pbo[p] = w.mem.pbo[p]
    <3>1. m.pref[p] \in Nat /\ n.pref[p] > 0 => m.pref[p] # 1
      BY <1>2a
    <3> QED BY <1>1, <1>2a, <1>3, <3>1
  <2>2. \A b \in Bo : v.mem.ref[b] > 0 => (v.mem.fb[b] <=> w.mem.fb[b])
    BY <1>2
  <2> HIDE DEF m, n, p
  <2> QED BY <2>1, <2>2 DEF Kept
<1>13. WinsKept(w, v, win, vn, D)
  BY <1>1, <1>4, MemAssumption, SwapAssumption DEF WinsKept, WinsTyped
<1>14. HoldsKept(w, v, D)
  BY Zenon DEF HoldsKept, BufKept, MemInv, SwapInv, WinSound
<1>15. CmdKept(w, v, Cmd)
  BY DEF CmdKept
<1>16. SwapInv(v, vn, D, Cmd)
  BY <1>4, <1>11, <1>12, <1>13, <1>14, <1>15, Frame DEF MemInv
<1>17. n.pbo[Root] = m.pbo[Root] /\ SameScreen(w, v)
  BY <1>1, <1>2a, <1>3 DEF SameScreen
<1>18. ScreenSound(v)
  BY <1>0, <1>4, <1>11, <1>12, <1>17, ScreenKept DEF MemInv
<1> QED BY <1>4, <1>16, <1>18 DEF MemInv

\* A window appears on the screen, or vanishes from it.
LEMMA MoveWindow ==
  ASSUME NEW w \in World, WinsTyped(win), NEW D \in SUBSET Draw,
         MemInv(w, win, D, Cmd),
         NEW d \in Draw \ D, win[d] \in {Root, NoPix}, NEW r \in {Root, NoPix},
         NEW v \in World, v.mem = w.mem,
         v.buf = w.buf, v.cmd = w.cmd, v.scanout = w.scanout,
         \A e \in D : /\ v.priv[e].back = w.priv[e].back
                      /\ v.priv[e].front = w.priv[e].front,
         NEW vn, vn = [win EXCEPT ![d] = r]
  PROVE  WinsTyped(vn) /\ MemInv(v, vn, D, Cmd)
<1>0. Sound(w, win) /\ Root \in Pix /\ NoPix \notin Pix /\ w.mem = v.mem
  BY MemAssumption, SwapAssumption DEF MemInv, SwapInv
<1>1. WinsTyped(vn) /\ vn[d] = r
  BY <1>0 DEF WinsTyped
<1>2. \A q \in Pix : Windows(vn, q) = Windows(win, q)
  <2> SUFFICES ASSUME NEW q \in Pix, q # Root
               PROVE  Times(vn, q) = Times(win, q)
    BY DEF Windows
  <2>1. IsFiniteSet(Draw) /\ DOMAIN win = Draw
    BY SwapAssumption DEF WinsTyped
  <2>2. Times(win, q) \in Nat
    BY <2>1, TimesType
  <2>3. /\ DOMAIN vn = Draw
        /\ \A e \in Draw \ {d} : vn[e] = win[e]
    BY DEF WinsTyped
  <2>4. Times(vn, q) = Times(win, q) + Is(vn[d], q) - Is(win[d], q)
    BY ONLY <2>1, <2>3, d \in Draw, TimesUpdate
  <2> QED BY <1>0, <1>1, <2>2, <2>4 DEF Is
<1>3. Sound(v, vn)
  <2>a. v.mem = w.mem /\ v.buf = w.buf /\ v.cmd = w.cmd /\ v.scanout = w.scanout
    OBVIOUS
  <2>b. /\ w.mem.ok /\ BosCounted(w) /\ PixCounted(w, win)
        /\ PixSound(w.mem) /\ BufSound(w)
    BY <1>0, Zenon DEF Sound
  <2>1. BosCounted(v)
    BY ONLY <2>a, <2>b, Zenon DEF BosCounted
  <2>2. PixCounted(v, vn)
    BY ONLY <1>2, <2>a, <2>b, Zenon DEF PixCounted
  <2>3. BufSound(v)
    BY ONLY <2>a, <2>b, Zenon DEF BufSound
  <2> QED BY <2>a, <2>b, <2>1, <2>2, <2>3, Zenon DEF Sound
<1>4. Kept(w, v)
  BY DEF Kept
<1>5. WinsKept(w, v, win, vn, D)
  BY <1>1 DEF WinsKept, WinsTyped
<1>6. HoldsKept(w, v, D)
  BY Zenon DEF HoldsKept, BufKept, MemInv, SwapInv, WinSound
<1>7. CmdKept(w, v, Cmd)
  BY DEF CmdKept
<1>8. SwapInv(v, vn, D, Cmd)
  BY <1>1, <1>3, <1>4, <1>5, <1>6, <1>7, Frame DEF MemInv
<1> QED BY <1>1, <1>8 DEF MemInv, ScreenSound

\* A window is destroyed: its buffers and its own pixmap go.
Destroyed(w, d) ==
  LET u == DestroyBuffer(DestroyBuffer(w, w.priv[d].back), w.priv[d].front)
  IN  [u EXCEPT !.priv[d] = NoPriv,
                !.mem = IF win[d] = Root THEN @ ELSE DropPixmaps(@, {win[d]})]

LEMMA DestroyMem ==
  ASSUME NumBufs = 2, NEW w \in World, WinsTyped(win),
         MemInv(w, win, Draw, Cmd), HeldApart(w.priv),
         NEW d \in Draw, win[d] # NoPix,
         NEW vn, vn = [win EXCEPT ![d] = NoPix]
  PROVE  LET v == Destroyed(w, d)
         IN  /\ v \in World /\ WinsTyped(vn) /\ MemInv(v, vn, Draw, Cmd)
             /\ v.cmd = w.cmd /\ v.priv = [w.priv EXCEPT ![d] = NoPriv]
             /\ HeldApart(v.priv)
<1> DEFINE b == w.priv[d].back
           f == w.priv[d].front
           D == Draw \ {d}
           w1 == DestroyBuffer(w, b)
           w2 == DestroyBuffer(w1, f)
           v == Destroyed(w, d)
<1>0. D \in SUBSET Draw /\ Cmd \in SUBSET Cmd
  OBVIOUS
<1>1. MemInv(w, win, D, Cmd)
  BY <1>0, OneLess
<1>2. /\ b \in Buf \cup {NoBuf} /\ f \in Buf \cup {NoBuf}
      /\ b = NoBuf <=> f = NoBuf
      /\ b \in Buf => w.buf[b].ref > 0 /\ w.buf[b].att = "back"
      /\ f \in Buf => w.buf[f].ref > 0 /\ w.buf[f].att = "front"
  <2>1. b \in Buf \cup {NoBuf} /\ f \in Buf \cup {NoBuf}
    BY WorldFields, PrivFields
  <2>2. b = NoBuf <=> f = NoBuf
    BY DEF HeldApart
  <2>3. WinSound(w, win, d)
    BY DEF MemInv, SwapInv
  <2> QED BY <2>1, <2>2, <2>3, SwapAssumption, Zenon DEF WinSound
<1>3. /\ b \in Buf => Apart(w, D, b)
      /\ f \in Buf => Apart(w, D, f)
  BY DEF HeldApart, Apart
<1>4. /\ w1 \in World /\ SameRest(w, w1) /\ MemInv(w1, win, D, Cmd)
      /\ \A y \in Buf \ {b} : w1.buf[y] = w.buf[y]
  <2>1. b \in Buf => w.buf[b].ref > 0 /\ Apart(w, D, b)
    BY <1>2, <1>3
  <2> HIDE DEF b, D
  <2>2. w \in World /\ b \in Buf \cup {NoBuf} /\ D \in SUBSET Draw
    BY <1>0, <1>2
  <2> HIDE DEF b, D
  <2>3. MemInv(w, win, D, Cmd)
    BY <1>1
  <2>4. Freed(w, w1, D, b)
    BY ONLY NumBufs = 2, WinsTyped(win), <2>1, <2>2, <2>3, Destroying
  <2> HIDE DEF w1
  <2> QED BY <2>4, Zenon DEF Freed
<1>5. f \in Buf => w1.buf[f].ref > 0 /\ Apart(w1, D, f)
  <2>1. w1.priv = w.priv
    BY <1>4 DEF SameRest, SameSwaps
  <2> HIDE DEF w1
  <2> QED BY <1>2, <1>3, <1>4, <2>1 DEF Apart
<1>6. /\ w2 \in World /\ SameRest(w1, w2) /\ MemInv(w2, win, D, Cmd)
  <2> HIDE DEF w1
  <2>1. /\ w1 \in World /\ MemInv(w1, win, D, Cmd) /\ D \in SUBSET Draw
        /\ f \in Buf \cup {NoBuf}
    BY <1>0, <1>2, <1>4
  <2> HIDE DEF D, f
  <2>2. Freed(w1, w2, D, f)
    BY ONLY NumBufs = 2, WinsTyped(win), <1>5, <2>1, Destroying
  <2> HIDE DEF w2
  <2> QED BY <2>2, Zenon DEF Freed
<1>7. w2.priv = w.priv /\ w2.cmd = w.cmd
  BY <1>4, <1>6 DEF SameRest, SameSwaps
<1> DEFINE n == IF win[d] = Root THEN w2.mem ELSE DropPixmaps(w2.mem, {win[d]})
           u == [w2 EXCEPT !.priv[d] = NoPriv, !.mem = n]
<1>8. v = u
  BY DEF Destroyed
<1> HIDE DEF w2, v
<1>9. n \in Mem
  <2>1. w2.mem \in Mem
    BY <1>6, WorldFields
  <2>2. win[d] \in Pix
    BY DEF WinsTyped
  <2>3. DropPixmaps(w2.mem, {win[d]}) \in Mem
    BY <2>1, <2>2, DropPixmapsType
  <2> QED BY <2>1, <2>3
<1>10. /\ u \in World /\ u.mem = n /\ u.buf = w2.buf /\ u.cmd = w2.cmd
       /\ u.scanout = w2.scanout
       /\ u.priv = [w2.priv EXCEPT ![d] = NoPriv]
  <2>1. NoPriv \in PrivRec
    BY DEF NoPriv, PrivRec
  <2> HIDE DEF n
  <2> QED BY <1>6, <1>9, <2>1 DEF World
<1>11. WinsTyped(vn) /\ MemInv(u, vn, D, Cmd)
  <2>1. \A e \in D : /\ u.priv[e].back = w2.priv[e].back
                     /\ u.priv[e].front = w2.priv[e].front
    BY <1>10
  <2>2. d \in Draw \ D /\ NoPix \in {Root, NoPix} /\ d \notin D
    OBVIOUS
  <2> HIDE DEF D, u
  <2>3. CASE win[d] = Root
    <3>1. u.mem = w2.mem /\ win[d] \in {Root, NoPix}
      BY <1>10, <2>3
    <3> QED BY <1>0, <1>6, <1>10, <2>1, <2>2, <3>1, MoveWindow
  <2>4. CASE win[d] # Root
    <3>1. u.mem = DropPixmaps(w2.mem, {win[d]}) /\ win[d] \notin {Root, NoPix}
      BY <1>10, <2>4
    <3>2. MemInv(w2, win, D, Cmd) /\ w2 \in World
      BY <1>6
    <3>3. /\ d \in Draw /\ NoPix \in {Root, NoPix} /\ (NoPix = NoPix => d \notin D)
          /\ vn = [win EXCEPT ![d] = NoPix] /\ D \in SUBSET Draw
      BY <1>0, <2>2
    <3>4. /\ u \in World /\ u.buf = w2.buf /\ u.cmd = w2.cmd
          /\ u.scanout = w2.scanout
      BY <1>10
    <3> QED BY ONLY WinsTyped(win), <2>1, <3>1, <3>2, <3>3, <3>4, DropWindow
  <2> QED BY <2>3, <2>4
<1> HIDE DEF u
<1>12. u.priv = [w.priv EXCEPT ![d] = NoPriv] /\ w.priv \in [Draw -> PrivRec]
  BY <1>7, <1>10, WorldFields
<1>13. vn[d] = NoPix /\ u.priv[d].back = NoBuf
  BY <1>12 DEF NoPriv, WinsTyped
<1>14. SwapInv(u, vn, Draw, Cmd)
  <2>1. WinSound(u, vn, d)
    BY <1>13, Zenon DEF WinSound
  <2>2. u.cmd \in [Cmd -> CmdRec]
    BY <1>10, WorldFields
  <2>3. \A k \in Cmd : u.cmd[k].draw = d => CmdSound(u, vn, k)
    BY <1>13, Zenon DEF CmdSound
  <2> QED BY <1>11, <2>1, <2>2, <2>3, OneMore DEF MemInv
<1>15. HeldApart(u.priv)
  <2>1. u.priv[d].back = NoBuf /\ u.priv[d].front = NoBuf
    BY <1>12 DEF NoPriv
  <2>2. \A e \in Draw \ {d} : u.priv[e] = w.priv[e]
    BY <1>12
  <2> QED BY <2>1, <2>2, SwapAssumption DEF HeldApart
<1> QED BY <1>7, <1>8, <1>10, <1>11, <1>12, <1>14, <1>15 DEF MemInv, v

\* A new window is on the screen, and no command names it.
LEMMA CreateMem ==
  ASSUME NEW w \in World, WinsTyped(win), MemInv(w, win, Draw, Cmd),
         NEW d \in Draw, win[d] = NoPix, \A k \in Cmd : w.cmd[k].draw # d,
         NEW vn, vn = [win EXCEPT ![d] = Root]
  PROVE  WinsTyped(vn) /\ MemInv(w, vn, Draw, Cmd)
<1> DEFINE D == Draw \ {d}
<1>1. MemInv(w, win, D, Cmd) /\ D \in SUBSET Draw
  <2>1. D \in SUBSET Draw /\ Cmd \in SUBSET Cmd
    OBVIOUS
  <2> QED BY <2>1, OneLess
<1>2. WinsTyped(vn) /\ MemInv(w, vn, D, Cmd)
  <2>1. d \in Draw \ D /\ win[d] \in {Root, NoPix} /\ Root \in {Root, NoPix}
    OBVIOUS
  <2> HIDE DEF D
  <2> QED BY <1>1, <2>1, MoveWindow, Zenon
<1>3. WinSound(w, vn, d)
  BY Zenon DEF MemInv, SwapInv, WinSound
<1>4. w.cmd \in [Cmd -> CmdRec]
  BY WorldFields
<1>5. SwapInv(w, vn, Draw, Cmd)
  BY <1>2, <1>3, <1>4, OneMore DEF MemInv
<1> QED BY <1>2, <1>5 DEF MemInv

-----------------------------------------------------------------------------
(* The inductive invariant *)

\* A window has one swap at most that counts.
OneEach(cm) ==
  \A k \in Cmd : Counted(cm[k]) # NoDraw =>
    \A j \in Cmd \ {k} : Counted(cm[j]) # Counted(cm[k])

\* Once the screen is closed it has no bo; until then the memory is as the
\* handlers need it.
MemSafe == /\ Sound(W, win)
           /\ phase # "closed" => MemInv(W, win, Draw, Cmd)
           /\ HeldApart(priv)
           /\ WinApart(win, top)
           /\ OneEach(cmd)

\* A bo is left for the next pixmap or scanout.
BoLeft == FreeBo(W) # {}

\* What the CRTCs show after a handler is no business of the memory.
LEMMA AppliedMem ==
  ASSUME NEW v \in World, Apply(v), NEW wn, WinsTyped(wn), MemInv(v, wn, Draw, Cmd)
  PROVE  MemInv(W', wn, Draw, Cmd)
<1>1. Shown(v) \in [Crtc -> Bo \cup {NoBo}]
  BY DEF Shown, World
<1>2. /\ W'.mem = v.mem /\ W'.buf = v.buf /\ W'.cmd = v.cmd
      /\ W'.scanout = v.scanout /\ W'.priv = v.priv
  BY DEF W, Apply
<1>3. W' \in World
  BY <1>1, WorldFields DEF W, Apply, World
<1>4. SameBuffers(v, W')
  BY <1>2 DEF SameBuffers
<1> QED BY <1>2, <1>3, <1>4, SameMem

\* What is left to show of a step that ends in world v.
LEMMA Remains ==
  ASSUME NEW v \in World, Apply(v), WinsTyped(win'), MemInv(v, win', Draw, Cmd),
         HeldApart(v.priv), WinApart(win', top'), OneEach(v.cmd)
  PROVE  MemSafe'
<1>1. MemInv(W', win', Draw, Cmd)
  BY AppliedMem
<1>2. Sound(W', win')
  BY <1>1 DEF MemInv, SwapInv
<1>3. priv' = v.priv /\ cmd' = v.cmd
  BY DEF Apply
<1> QED BY <1>1, <1>2, <1>3 DEF MemSafe

\* The windows keep their buffers apart if they keep them.
LEMMA SameApart ==
  ASSUME NEW w, NEW v, HeldApart(w.priv), SameBuffers(w, v)
  PROVE  HeldApart(v.priv)
BY DEF HeldApart, SameBuffers

\* Commands that end or fail leave one swap at most that counts.
LEMMA FewerEach ==
  ASSUME NEW cm, NEW cn, OneEach(cm),
         \A k \in Cmd : Counted(cn[k]) \in {Counted(cm[k]), NoDraw}
  PROVE  OneEach(cn)
BY DEF OneEach

\* What holds while the screen exists.
LEMMA Given ==
  ASSUME TypeInv, MemSafe, phase # "closed"
  PROVE  /\ W \in World /\ WinsTyped(win) /\ MemInv(W, win, Draw, Cmd)
         /\ HeldApart(W.priv) /\ WinApart(win, top)
         /\ W.mem = mem /\ W.buf = buf /\ W.cmd = cmd /\ W.scanout = scanout
         /\ W.priv = priv /\ W.hw = hw
<1>1. /\ W \in World
      /\ W.mem = mem /\ W.buf = buf /\ W.cmd = cmd /\ W.scanout = scanout
      /\ W.priv = priv /\ W.hw = hw
  BY WType
<1>2. WinsTyped(win)
  BY DEF WinsTyped, TypeInv, TypeOK
<1> QED BY <1>1, <1>2 DEF MemSafe

-----------------------------------------------------------------------------
(* One lemma per action: what the server does to windows and screen *)

\* The next state is a world while the screen exists.
LEMMA NextWorld ==
  ASSUME TypeInv', phase' # "closed"
  PROVE  /\ W' \in World
         /\ W'.mem = mem' /\ W'.buf = buf' /\ W'.cmd = cmd'
         /\ W'.scanout = scanout' /\ W'.priv = priv' /\ W'.hw = hw'
BY DEF W, World, TypeInv, TypeOK, ScreenHasBo

\* Restacking concerns the window on top only.
LEMMA RestackSafe ==
  ASSUME TypeInv, MemSafe, NEW d \in Draw \cup {NoDraw}, Restack(d)
  PROVE  MemSafe'
<1>1. W' = W
  BY DEF Restack, W
<1>2. /\ win' = win /\ priv' = priv /\ cmd' = cmd /\ phase' = phase
      /\ top' = d /\ (d # NoDraw => win[d] = Root)
  BY DEF Restack
<1>3. WinApart(win', top')
  BY <1>2 DEF MemSafe, WinApart
<1> QED BY <1>1, <1>2, <1>3 DEF MemSafe

\* A redirected window gets a pixmap that nobody else has.
LEMMA RedirectSafe ==
  ASSUME TypeInv, MemSafe, NEW d \in Draw, Redirect(d)
  PROVE  MemSafe'
<1>1. phase = "up" /\ phase' = "up" /\ win[d] = Root /\ CanCreatePix(W)
  BY DEF Redirect, Running
<1>2. /\ W \in World /\ WinsTyped(win) /\ MemInv(W, win, Draw, Cmd)
      /\ WinApart(win, top) /\ W.priv = priv
      /\ W.buf = buf /\ W.cmd = cmd /\ W.scanout = scanout
  BY <1>1, Given
<1>3. /\ W' \in World
      /\ W'.mem = mem' /\ W'.buf = buf' /\ W'.cmd = cmd'
      /\ W'.scanout = scanout' /\ W'.priv = priv'
  <2>1. TypeInv'
    BY RedirectStep
  <2> QED BY <1>1, <2>1, NextWorld
<1>4. W'.mem = CreatePix(W, d) /\ W'.buf = W.buf /\ W'.cmd = W.cmd
      /\ W'.scanout = W.scanout
  BY <1>2, <1>3 DEF Redirect
<1>5. \A e \in Draw : priv'[e].back = priv[e].back /\ priv'[e].front = priv[e].front
  BY DEF Redirect, TypeInv, TypeOK, PrivRec
<1>6. SameBuffers(W, W')
  BY <1>2, <1>3, <1>5 DEF SameBuffers
<1>7. win' = [win EXCEPT ![d] = Pick(FreePix(W))]
  BY DEF Redirect
<1>8. /\ WinsTyped(win') /\ win'[d] \notin {Root, NoPix} /\ MemInv(W', win', Draw, Cmd)
      /\ \A e \in Draw : win[e] # win'[d]
  <2> DEFINE v  == W'
             vn == win'
  <2>1. /\ v \in World /\ v.mem = CreatePix(W, d) /\ v.buf = W.buf /\ v.cmd = W.cmd
        /\ v.scanout = W.scanout /\ SameBuffers(W, v)
        /\ vn = [win EXCEPT ![d] = Pick(FreePix(W))]
    BY <1>3, <1>4, <1>6, <1>7
  <2> HIDE DEF v, vn
  <2>2. WinsTyped(vn) /\ vn[d] \notin {Root, NoPix} /\ MemInv(v, vn, Draw, Cmd)
        /\ \A e \in Draw : win[e] # vn[d]
    BY <1>1, <1>2, <2>1, RedirectMem
  <2> QED BY <2>2 DEF v, vn
<1>9. WinApart(win', top')
  <2>1. \A e \in Draw \ {d} : win'[e] = win[e]
    BY <1>2, <1>7 DEF WinsTyped
  <2>2. top' # NoDraw => top' = top /\ top # d
    BY DEF Redirect
  <2>3. top \in Draw \cup {NoDraw}
    BY DEF TypeInv, TypeOK
  <2> QED BY <1>2, <1>8, <2>1, <2>2, <2>3 DEF WinApart
<1>10. HeldApart(priv') /\ OneEach(cmd')
  <2>1. cmd' = cmd
    BY DEF Redirect
  <2> QED BY <1>5, <2>1 DEF MemSafe, HeldApart
<1> QED BY <1>8, <1>9, <1>10 DEF MemSafe, MemInv, SwapInv

\* A window that is no longer redirected is on the screen again.
LEMMA UnredirectSafe ==
  ASSUME TypeInv, MemSafe, NEW d \in Draw, Unredirect(d)
  PROVE  MemSafe'
<1>1. phase = "up" /\ phase' = "up" /\ win[d] \notin {Root, NoPix}
  BY DEF Unredirect, Running
<1>2. /\ W \in World /\ WinsTyped(win) /\ MemInv(W, win, Draw, Cmd)
      /\ WinApart(win, top) /\ W.priv = priv
      /\ W.buf = buf /\ W.cmd = cmd /\ W.scanout = scanout /\ W.mem = mem
  BY <1>1, Given
<1>3. /\ W' \in World
      /\ W'.mem = mem' /\ W'.buf = buf' /\ W'.cmd = cmd'
      /\ W'.scanout = scanout' /\ W'.priv = priv'
  <2>1. TypeInv'
    BY UnredirectStep
  <2> QED BY <1>1, <2>1, NextWorld
<1>4. W'.mem = DropPixmaps(W.mem, {win[d]}) /\ W'.buf = W.buf /\ W'.cmd = W.cmd
      /\ W'.scanout = W.scanout
  BY <1>2, <1>3 DEF Unredirect
<1>5. \A e \in Draw : priv'[e].back = priv[e].back /\ priv'[e].front = priv[e].front
  BY DEF Unredirect, TypeInv, TypeOK, PrivRec
<1>7. win' = [win EXCEPT ![d] = Root]
  BY DEF Unredirect
<1>8. WinsTyped(win') /\ MemInv(W', win', Draw, Cmd)
  <2> DEFINE v  == W'
             vn == win'
  <2>1. /\ v \in World /\ v.mem = DropPixmaps(W.mem, {win[d]})
        /\ v.buf = W.buf /\ v.cmd = W.cmd /\ v.scanout = W.scanout
        /\ vn = [win EXCEPT ![d] = Root]
        /\ \A e \in Draw : /\ v.priv[e].back = W.priv[e].back
                           /\ v.priv[e].front = W.priv[e].front
    BY <1>2, <1>3, <1>4, <1>5, <1>7
  <2>2. /\ Root \in {Root, NoPix} /\ Draw \in SUBSET Draw
        /\ Root = NoPix => d \notin Draw
    BY MemAssumption, SwapAssumption
  <2> HIDE DEF v, vn
  <2>3. WinsTyped(vn) /\ MemInv(v, vn, Draw, Cmd)
    BY ONLY d \in Draw, <1>1, <1>2, <2>1, <2>2, DropWindow
  <2> QED BY <2>3 DEF v, vn
<1>9. WinApart(win', top')
  <2>1. \A e \in Draw \ {d} : win'[e] = win[e]
    BY <1>2, <1>7 DEF WinsTyped
  <2>2. win'[d] = Root
    BY <1>2, <1>7 DEF WinsTyped
  <2>3. top' = top
    BY DEF Unredirect
  <2>4. top \in Draw \cup {NoDraw}
    BY DEF TypeInv, TypeOK
  <2> QED BY <1>2, <2>1, <2>2, <2>3, <2>4 DEF WinApart
<1>10. HeldApart(priv') /\ OneEach(cmd')
  <2>1. cmd' = cmd
    BY DEF Unredirect
  <2> QED BY <1>5, <2>1 DEF MemSafe, HeldApart
<1> QED BY <1>8, <1>9, <1>10 DEF MemSafe, MemInv, SwapInv

\* A destroyed window has no pixmap and no buffers.
LEMMA DestroySafe ==
  ASSUME NumBufs = 2, TypeInv, MemSafe, NEW d \in Draw, DestroyDrawable(d)
  PROVE  MemSafe'
<1>1. phase = "up" /\ win[d] # NoPix
  BY DEF DestroyDrawable, Running
<1>2. /\ W \in World /\ WinsTyped(win) /\ MemInv(W, win, Draw, Cmd)
      /\ HeldApart(W.priv) /\ WinApart(win, top)
      /\ W.priv = priv /\ W.cmd = cmd
  BY <1>1, Given
<1> DEFINE v == Destroyed(W, d)
<1>3. Apply(v)
  BY <1>2 DEF DestroyDrawable, Destroyed
<1>4. win' = [win EXCEPT ![d] = NoPix]
  BY DEF DestroyDrawable
<1>5. /\ v \in World /\ WinsTyped(win') /\ MemInv(v, win', Draw, Cmd)
      /\ v.cmd = W.cmd /\ HeldApart(v.priv)
  <2> DEFINE vn == win'
  <2>1. vn = [win EXCEPT ![d] = NoPix]
    BY <1>4
  <2> HIDE DEF v, vn
  <2>2. /\ v \in World /\ WinsTyped(vn) /\ MemInv(v, vn, Draw, Cmd)
        /\ v.cmd = W.cmd /\ HeldApart(v.priv)
    BY ONLY NumBufs = 2, d \in Draw, <1>1, <1>2, <2>1, DestroyMem DEF v
  <2> QED BY <2>2 DEF vn
<1>6. WinApart(win', top')
  <2>1. \A e \in Draw \ {d} : win'[e] = win[e]
    BY <1>2, <1>4 DEF WinsTyped
  <2>2. win'[d] = NoPix
    BY <1>2, <1>4 DEF WinsTyped
  <2>3. top' # NoDraw => top' = top /\ top # d
    BY DEF DestroyDrawable
  <2>4. top \in Draw \cup {NoDraw}
    BY DEF TypeInv, TypeOK
  <2> QED BY <1>2, <2>1, <2>2, <2>3, <2>4 DEF WinApart
<1>7. OneEach(v.cmd)
  BY <1>2, <1>5 DEF MemSafe
<1> HIDE DEF v
<1> QED BY <1>3, <1>5, <1>6, <1>7, Remains

\* A new window has no buffers yet.
LEMMA CreateWindowSafe ==
  ASSUME TypeInv, MemSafe, NEW d \in Draw, CreateWindow(d)
  PROVE  MemSafe'
<1>1. phase = "up" /\ win[d] = NoPix /\ \A k \in Cmd : cmd[k].draw # d
  BY DEF CreateWindow, Running
<1>2. /\ W \in World /\ WinsTyped(win) /\ MemInv(W, win, Draw, Cmd)
      /\ WinApart(win, top) /\ W.cmd = cmd
  BY <1>1, Given
<1>3. W' = W
  BY DEF CreateWindow, W
<1>4. win' = [win EXCEPT ![d] = Root]
  BY DEF CreateWindow
<1>5. WinsTyped(win') /\ MemInv(W, win', Draw, Cmd)
  BY <1>1, <1>2, <1>4, CreateMem
<1>6. WinApart(win', top')
  <2>1. \A e \in Draw \ {d} : win'[e] = win[e]
    BY <1>2, <1>4 DEF WinsTyped
  <2>2. win'[d] = Root
    BY <1>2, <1>4 DEF WinsTyped
  <2>3. top' = top
    BY DEF CreateWindow
  <2>4. top \in Draw \cup {NoDraw}
    BY DEF TypeInv, TypeOK
  <2> QED BY <1>2, <2>1, <2>2, <2>3, <2>4 DEF WinApart
<1>7. HeldApart(priv') /\ OneEach(cmd')
  BY DEF CreateWindow, MemSafe
<1> QED BY <1>3, <1>5, <1>6, <1>7 DEF MemSafe, MemInv, SwapInv

\* Switching a CRTC leaves the memory alone: the scanout has its fb.
LEMMA SwitchCrtcSafe ==
  ASSUME TypeInv, MemSafe, NEW c \in Crtc, SwitchCrtc(c)
  PROVE  MemSafe'
<1>1. phase = "up" /\ win' = win /\ top' = top
  BY DEF SwitchCrtc, Running
<1>2. /\ W \in World /\ WinsTyped(win) /\ MemInv(W, win, Draw, Cmd)
      /\ HeldApart(W.priv) /\ WinApart(win, top)
      /\ W.priv = priv /\ W.cmd = cmd /\ W.hw = hw
  BY <1>1, Given
<1>3. PICK ch \in Choices :
        Apply(IF c \in crtcOn THEN [W EXCEPT !.hw[c] = NoBo] ELSE SetMode(W, {c}, ch))
  BY DEF SwitchCrtc
<1> DEFINE v == IF c \in crtcOn THEN [W EXCEPT !.hw[c] = NoBo] ELSE SetMode(W, {c}, ch)
<1>4. /\ v \in World /\ SameBuffers(W, v) /\ v.cmd = W.cmd
      /\ MemInv(v, win, Draw, Cmd)
  <2>1. CASE c \in crtcOn
    <3> DEFINE u == [W EXCEPT !.hw[c] = NoBo]
    <3>1. /\ u \in World /\ u.mem = W.mem /\ u.buf = W.buf /\ u.scanout = W.scanout
          /\ u.cmd = W.cmd /\ u.priv = W.priv
      BY <1>2 DEF World
    <3>2. SameBuffers(W, u)
      BY <3>1 DEF SameBuffers
    <3>3. v = u
      BY <2>1
    <3> HIDE DEF u, v
    <3>4. MemInv(u, win, Draw, Cmd)
      BY <1>2, <3>1, <3>2, SameMem
    <3> QED BY <3>1, <3>2, <3>3, <3>4
  <2>2. CASE c \notin crtcOn
    BY <1>2, <2>2, SetModeMem
  <2> QED BY <2>1, <2>2
<1>5. Apply(v)
  BY <1>3
<1> HIDE DEF v
<1>6. HeldApart(v.priv) /\ OneEach(v.cmd)
  BY <1>2, <1>4, SameApart DEF MemSafe
<1> QED BY <1>1, <1>2, <1>4, <1>5, <1>6, Remains

\* Resizing the screen finds memory for its new bo.
LEMMA ResizeSafe ==
  ASSUME TypeInv, MemSafe, BoLeft, NEW s \in Size, Resize(s)
  PROVE  MemSafe'
<1>1. phase = "up" /\ win' = win /\ top' = NoDraw
  BY DEF Resize, Running
<1>2. /\ W \in World /\ WinsTyped(win) /\ MemInv(W, win, Draw, Cmd)
      /\ HeldApart(W.priv) /\ WinApart(win, top)
      /\ W.priv = priv /\ W.cmd = cmd
  BY <1>1, Given
<1>3. PICK ch \in Choices : Apply(ResizeScreen(W, s, ch))
  BY DEF Resize
<1> DEFINE v == ResizeScreen(W, s, ch)
<1>4. /\ v \in World /\ SameBuffers(W, v) /\ v.cmd = W.cmd
      /\ MemInv(v, win, Draw, Cmd)
  BY <1>2, ResizeScreenMem DEF BoLeft
<1>5. Apply(v)
  BY <1>3
<1> HIDE DEF v
<1>6. HeldApart(v.priv) /\ OneEach(v.cmd)
  BY <1>2, <1>4, SameApart DEF MemSafe
<1>7. WinApart(win', top')
  BY <1>1, <1>2 DEF WinApart
<1> QED BY <1>1, <1>2, <1>4, <1>5, <1>6, <1>7, Remains

\* ARMSOCCloseScreen begins.
LEMMA CloseScreenSafe ==
  ASSUME TypeInv, MemSafe, CloseScreen
  PROVE  MemSafe'
<1>1. W' = W
  BY DEF CloseScreen, W
<1>2. /\ win' = win /\ priv' = priv /\ cmd' = cmd /\ top' = top
      /\ phase = "up"
  BY DEF CloseScreen, Running
<1> QED BY <1>1, <1>2 DEF MemSafe

\* The screen gives up its bo.
LEMMA FinishCloseSafe ==
  ASSUME TypeInv, MemSafe, FinishClose
  PROVE  MemSafe'
<1>1. phase = "closing" /\ phase' = "closed"
  BY DEF FinishClose, LeaveEventLoop
<1>2. /\ W \in World /\ WinsTyped(win) /\ MemInv(W, win, Draw, Cmd)
      /\ W.mem = mem /\ W.buf = buf /\ W.cmd = cmd /\ W.scanout = scanout
      /\ W.priv = priv
  BY <1>1, Given
<1>3. Sound(W, win) /\ mem \in Mem
  BY <1>2, WorldFields DEF MemInv, SwapInv
<1> DEFINE n == BoUnref(mem, scanout)
<1>4. /\ mem' = n /\ scanout' = NoBo /\ buf' = buf /\ cmd' = cmd
      /\ priv' = priv /\ win' = win /\ top' = top
  <2> DEFINE v == [W EXCEPT !.mem = BoUnref(@, scanout), !.scanout = NoBo]
  <2>1. Apply(v) /\ win' = win /\ top' = top
    BY DEF FinishClose
  <2>2. /\ v.mem = n /\ v.scanout = NoBo /\ v.buf = buf /\ v.cmd = cmd /\ v.priv = priv
    BY DEF W
  <2> HIDE DEF v, n
  <2> QED BY <2>1, <2>2 DEF Apply
<1>5. scanout \in Bo /\ mem.ref[scanout] > 0 /\ \A x \in Bo : mem.ref[x] \in Nat
  BY <1>2, <1>3, InUse
<1>6. /\ n.pref = mem.pref /\ n.ext = mem.ext /\ n.pbo = mem.pbo
      /\ \A x \in Bo : n.ref[x] = mem.ref[x] - Is(scanout, x)
      /\ n.ok
  BY <1>3, <1>5, BoUnrefForm, <1>2 DEF Sound
<1> HIDE DEF n
<1>7. ASSUME NEW x \in Bo
      PROVE  n.ref[x] = Held(n, buf, cmd, NoBo, x)
  <2>1. mem.ref[x] = Held(mem, buf, cmd, scanout, x)
    BY <1>2, <1>3 DEF Sound, BosCounted
  <2>2. /\ Times(mem.pbo, x) \in Nat /\ Times(BufBos(buf), x) \in Nat
        /\ Times(OldSrcs(cmd), x) \in Nat /\ Times(OldDsts(cmd), x) \in Nat
        /\ Is(scanout, x) \in {0, 1}
    BY <1>3, HeldTypes
  <2>3. Is(NoBo, x) = 0
    BY MemAssumption DEF Is
  <2> QED BY <1>6, <2>1, <2>2, <2>3 DEF Held
<1>8. /\ W'.mem = n /\ W'.buf = buf /\ W'.cmd = cmd /\ W'.scanout = NoBo
  BY <1>4 DEF W
<1>9. Sound(W', win')
  <2>1. BosCounted(W')
    BY <1>7, <1>8 DEF BosCounted
  <2>2. PixCounted(W', win')
    BY <1>2, <1>3, <1>4, <1>6, <1>8 DEF Sound, PixCounted
  <2>3. PixSound(W'.mem)
    BY <1>2, <1>3, <1>6, <1>8 DEF Sound, PixSound
  <2>4. BufSound(W')
    BY <1>2, <1>3, <1>6, <1>8 DEF Sound, BufSound
  <2> QED BY <1>6, <1>8, <2>1, <2>2, <2>3, <2>4 DEF Sound
<1> QED BY <1>1, <1>4, <1>9 DEF MemSafe

-----------------------------------------------------------------------------
(* One lemma per action: requests of clients, and events *)

\* DRI2GetBuffers on window d, of which the core knows pv.
GotBuffers(w, pv, d, ch) ==
  LET keep == pv.fresh /\ pv.back # NoBuf
      bk   == IF keep THEN [w |-> ReuseBufferNotify(w, d, pv.back, ch), b |-> pv.back]
              ELSE CreateBuffer(w, d, "back", ch)
      fr   == FrontGot(bk.w, d, pv.front, bk.b, ch)
      w2   == IF keep THEN fr.w ELSE DestroyBuffer(fr.w, pv.back)
      w3   == IF fr.b # NoBuf THEN w2 ELSE DestroyBuffer(w2, bk.b)
  IN  Handed(w3, d, bk.b, fr.b)

\* The other windows keep their buffers, and their fronts are as they were.
\* Window d has the back that it had or one that no CRTC scans out, and its
\* front has the name of the screen's bo.
Served(w, v, d) ==
  /\ Quiet(w, v)
  /\ \A e \in Draw \ {d} :
       /\ v.priv[e] = w.priv[e]
       /\ w.priv[e].front \in Buf => v.buf[w.priv[e].front] = w.buf[w.priv[e].front]
  /\ v.priv[d].back \in {NoBuf, w.priv[d].back} \/
       \A c \in Crtc : v.hw[c] # v.buf[v.priv[d].back].name
  /\ v.priv[d].front # NoBuf /\ win[d] = Root =>
       v.buf[v.priv[d].front].name = v.mem.pbo[Root]

LEMMA GetBuffersMem ==
  ASSUME NumBufs = 2, "name" \notin Env, NEW w \in World, WinsTyped(win),
         WinApart(win, top), MemInv(w, win, Draw, Cmd), HeldApart(w.priv),
         FreeBo(w) # {}, NEW d \in Draw, win[d] # NoPix, NEW ch \in Choices,
         \A k \in Cmd : w.cmd[k].live /\ ~w.cmd[k].fail => w.cmd[k].draw # d
  PROVE  LET v == GotBuffers(w, w.priv[d], d, ch)
         IN  /\ v \in World /\ v.cmd = w.cmd
             /\ MemInv(v, win, Draw, Cmd) /\ HeldApart(v.priv) /\ Served(w, v, d)
<1> DEFINE b0 == w.priv[d].back
           f0 == w.priv[d].front
           D  == Draw \ {d}
           keep == w.priv[d].fresh /\ b0 # NoBuf
           bk == BackGot(w, d, keep, ch)
           u  == bk.w
           b  == bk.b
           fr == FrontGot(u, d, f0, b, ch)
           x  == fr.w
           f  == fr.b
           o  == IF keep THEN NoBuf ELSE b0
           v  == Handed(BackGone(x, o, b, f), d, b, f)
<1>0. v = GotBuffers(w, w.priv[d], d, ch)
  <2> DEFINE w2 == IF keep THEN x ELSE DestroyBuffer(x, b0)
             w3 == IF f # NoBuf THEN w2 ELSE DestroyBuffer(w2, b)
  <2>1. GotBuffers(w, w.priv[d], d, ch) = Handed(w3, d, b, f)
    BY Zenon DEF GotBuffers, BackGot
  <2> HIDE DEF x, f, b, keep, b0
  <2>2. DestroyBuffer(x, NoBuf) = x
    BY DEF DestroyBuffer
  <2>3. w2 = DestroyBuffer(x, o)
    BY <2>2
  <2>4. w3 = BackGone(x, o, b, f)
    BY <2>3 DEF BackGone
  <2> HIDE DEF w3, w2
  <2> QED BY <2>1, <2>4
<1>a. /\ NumBufs = 2 /\ "name" \notin Env /\ WinsTyped(win) /\ WinApart(win, top)
      /\ d \in Draw /\ win[d] # NoPix /\ ch \in Choices
  OBVIOUS
<1>1. keep \in BOOLEAN /\ (keep => w.priv[d].back # NoBuf)
  BY WorldFields, PrivFields
<1>2. /\ b0 \in Buf \cup {NoBuf} /\ f0 \in Buf \cup {NoBuf} /\ w.priv[d] \in PrivRec
      /\ NoBuf \notin Buf
  BY WorldFields, PrivFields, SwapAssumption
<1>3. /\ u \in World /\ SameRest(w, u) /\ MemInv(u, win, D, Cmd)
      /\ Quiet(w, u)
      /\ b = NoBuf \/ /\ b \in Buf \ {f0}
                      /\ IF keep THEN b = b0 ELSE b # b0 /\ Fresh(u, b)
                      /\ BackBuffer(u, d, b) /\ Apart(w, D, b)
      /\ f0 \in Buf => u.buf[f0].ref > 0 /\ Apart(w, D, f0)
      /\ b0 \in Buf => Apart(w, D, b0) /\ (~keep => u.buf[b0].ref > 0)
      /\ b0 \in Buf => b0 # f0
      /\ \A y \in Buf \ {b0} : w.buf[y].ref > 0 => u.buf[y] = w.buf[y]
  <2> HIDE DEF keep
  <2>1. BackMade(w, d, keep, bk)
    BY <1>1, GetBuffersBack, Zenon
  <2> HIDE DEF bk
  <2> QED BY <2>1, Zenon DEF BackMade
<1> HIDE DEF bk, keep
<1>4. u.priv = w.priv /\ u.cmd = w.cmd
  BY <1>3 DEF SameRest, SameSwaps
<1>5. HeldApart(u.priv) /\ \A y : Apart(w, D, y) => Apart(u, D, y)
  BY <1>4 DEF Apart
<1>6. /\ x \in World /\ SameRest(u, x) /\ MemInv(x, win, D, Cmd)
      /\ \/ f = NoBuf
         \/ /\ b # NoBuf /\ f \in Buf /\ Apart(u, D, f) /\ FrontBuffer(x, d, f)
            /\ Fresh(x, f)
      /\ Quiet(u, x)
      /\ b # NoBuf => BackBuffer(x, d, b)
      /\ \A y \in Buf \ {f0} : u.buf[y].ref > 0 => x.buf[y] = u.buf[y] /\ f # y
  <2>1. f0 \in Buf => u.buf[f0].ref > 0 /\ Apart(u, D, f0)
    BY <1>3, <1>5
  <2>2. /\ u \in World /\ MemInv(u, win, D, Cmd)
        /\ b \in (Buf \ {f0}) \cup {NoBuf}
        /\ b # NoBuf => BackBuffer(u, d, b)
    BY <1>3
  <2>3. f0 \in Buf \cup {NoBuf} /\ HeldApart(u.priv)
    BY <1>2, <1>5
  <2> HIDE DEF u, b, f0
  <2>4. FrontMade(u, d, f0, b, fr)
    BY ONLY <1>a, <2>1, <2>2, <2>3, GetBuffersFront
  <2> HIDE DEF fr
  <2> QED BY <2>4 DEF FrontMade
<1> HIDE DEF fr
<1>7. x.priv = w.priv /\ x.cmd = w.cmd
  BY <1>4, <1>6 DEF SameRest, SameSwaps
<1>8. HeldApart(x.priv) /\ \A y : Apart(w, D, y) => Apart(x, D, y)
  BY <1>7 DEF Apart
<1>9. b0 \in Buf /\ ~keep => x.buf[b0].ref > 0 /\ Apart(x, D, b0) /\ f # b0
  BY <1>3, <1>6, <1>8
<1>b. Ended(x, v, d, o, b, f)
  <2>0. o \in Buf \cup {NoBuf} /\ (o \in Buf => o = b0 /\ ~keep)
    BY <1>2
  <2>1. b # NoBuf => /\ b \in Buf /\ BackBuffer(x, d, b)
                     /\ Apart(x, D, b) /\ b # o
    BY <1>2, <1>3, <1>6, <1>8
  <2>2. f # NoBuf => /\ f \in Buf /\ FrontBuffer(x, d, f) /\ b # NoBuf
                     /\ Apart(x, D, f) /\ f # o
    <3>1. Apart(u, D, f) => Apart(x, D, f)
      BY <1>4, <1>7 DEF Apart
    <3>2. f # o \/ f = NoBuf
      BY <1>2, <1>6, <1>9
    <3> QED BY <1>6, <3>1, <3>2
  <2>3. x \in World /\ MemInv(x, win, D, Cmd)
    BY <1>6
  <2>4. \A k \in Cmd : x.cmd[k].live /\ ~x.cmd[k].fail => x.cmd[k].draw # d
    BY <1>7
  <2>5. HeldApart(x.priv) /\ (o \in Buf => x.buf[o].ref > 0 /\ Apart(x, D, o))
    BY <1>8, <1>9, <2>0
  <2> HIDE DEF x, f, b, o
  <2> QED BY ONLY <1>a, <2>0, <2>1, <2>2, <2>3, <2>4, <2>5, GetBuffersEnd
<1> HIDE DEF v
<1>10. /\ v \in World /\ v.cmd = x.cmd
       /\ MemInv(v, win, Draw, Cmd) /\ HeldApart(v.priv)
       /\ Quiet(x, v) /\ \A e \in Draw \ {d} : v.priv[e] = x.priv[e]
       /\ v.priv[d].back \in {b, NoBuf} /\ v.priv[d].front = f
       /\ f # NoBuf => FrontBuffer(v, d, f)
       /\ \A y \in Buf \ {o, b} : v.buf[y] = x.buf[y]
  BY <1>b, Zenon DEF Ended
<1>11. Served(w, v, d)
  <2>0. o \in {b0, NoBuf}
    OBVIOUS
  <2> HIDE DEF x, f, u, b, b0, f0, o
  <2>1. v.priv[d].back # NoBuf =>
          /\ v.priv[d].back \in Buf
          /\ v.buf[v.priv[d].back].ref > 0 /\ v.buf[v.priv[d].back].att = "back"
    <3>1. WinSound(v, win, d)
      BY <1>10 DEF MemInv, SwapInv
    <3>2. v.priv[d].back \in Buf \cup {NoBuf}
      BY <1>10, WorldFields, PrivFields
    <3> QED BY <3>1, <3>2, Zenon DEF WinSound
  <2>2. ASSUME v.priv[d].back # NoBuf, v.priv[d].back # b0
        PROVE  \A c \in Crtc : v.hw[c] # v.buf[v.priv[d].back].name
    <3>1. v.priv[d].back = b
      BY <1>10, <2>2
    <3>2. b # NoBuf /\ Fresh(u, b)
      BY <1>3, <2>2, <3>1
    <3>3. Quiet(u, v)
      BY <1>6, <1>10, QuietTrans, Zenon
    <3>4. Stays(u, v, b) \/ Fresh(v, b)
      BY <2>1, <2>2, <3>1, <3>3, Zenon DEF Quiet
    <3>5. Stays(u, v, b) => Fresh(v, b)
      BY <3>2, <3>3, Zenon DEF Stays, Fresh, Quiet
    <3> QED BY <2>1, <2>2, <3>1, <3>4, <3>5, Zenon DEF Fresh
  <2>3. ASSUME f # NoBuf, win[d] = Root
        PROVE  v.buf[f].name = v.mem.pbo[Root]
    <3>1. Fresh(x, f) /\ FrontBuffer(x, d, f) /\ FrontBuffer(v, d, f) /\ f \in Buf
      BY <1>6, <1>10, <2>3
    <3>2. Stays(x, v, f) \/ Fresh(v, f)
      BY <1>10, <3>1, Zenon DEF Quiet, FrontBuffer
    <3>3. v.mem.pbo[Root] = x.mem.pbo[Root]
      BY <1>10, Zenon DEF Quiet
    <3> QED BY <2>3, <3>1, <3>2, <3>3, Zenon DEF Fresh, Stays, Showing, FrontBuffer
  <2>4. Quiet(w, v)
    BY <1>3, <1>6, <1>10, QuietTrans, Zenon
  <2>5. \A e \in Draw \ {d} : v.priv[e] = w.priv[e]
    BY <1>7, <1>10
  <2>6. ASSUME NEW e \in Draw \ {d}, w.priv[e].front \in Buf
        PROVE  v.buf[w.priv[e].front] = w.buf[w.priv[e].front]
    <3> DEFINE y == w.priv[e].front
    <3>1. y # b0 /\ y # f0 /\ y # b /\ y # o
      <4>1. y # b0 /\ y # f0
        BY <2>6 DEF HeldApart, b0, f0
      <4>2. y # b
        BY <1>3, <2>6, SwapAssumption DEF Apart, D
      <4> QED BY <2>0, <2>6, <4>1, <4>2, SwapAssumption
    <3>2. w.buf[y].ref > 0
      <4>1. w.priv[e].back # NoBuf
        BY <2>6, SwapAssumption DEF HeldApart
      <4> QED BY <4>1, Zenon DEF MemInv, SwapInv, WinSound
    <3> HIDE DEF y
    <3>3. y \in Buf
      BY <2>6 DEF y
    <3>4. u.buf[y] = w.buf[y]
      BY <1>3, <3>1, <3>2, <3>3
    <3>5. x.buf[y] = u.buf[y]
      BY <1>6, <3>1, <3>2, <3>3, <3>4
    <3> QED BY <1>10, <3>1, <3>3, <3>4, <3>5 DEF y
  <2> QED BY <1>10, <2>2, <2>3, <2>4, <2>5, <2>6 DEF Served, b0
<1> QED BY <1>0, <1>7, <1>10, <1>11

\* A window without swaps in flight has no command that counts.
LEMMA NoSwapOf ==
  ASSUME TypeInv, UsersInv, NEW d \in Draw, Unthrottled(d)
  PROVE  \A k \in Cmd : cmd[k].live /\ ~cmd[k].fail => cmd[k].draw # d
<1>1. priv[d].swaps = Times(Counts(cmd), d) /\ priv[d].swaps < 1
  BY DEF UsersInv, SwapsCounted, Unthrottled
<1>2. IsFiniteSet(Cmd) /\ DOMAIN Counts(cmd) = Cmd
  BY CountDomains
<1>3. Times(Counts(cmd), d) \in Nat
  BY <1>2, TimesType
<1>4. \A k \in Cmd : Counts(cmd)[k] # d
  BY <1>1, <1>2, <1>3, TimesType
<1> QED BY <1>4 DEF Counts, Counted

\* A command that counts is the only one of its window.
LEMMA OnlyOne ==
  ASSUME TypeInv, MemSafe, NEW k \in Cmd, cmd[k].live, ~cmd[k].fail
  PROVE  OnlySwap(W, cmd[k].draw, k)
<1>1. W.cmd = cmd
  BY DEF W
<1>2. Counted(cmd[k]) = cmd[k].draw /\ cmd[k].draw # NoDraw
  BY SwapAssumption DEF Counted, TypeInv, CommandsWhole, Whole
<1>3. \A j \in Cmd \ {k} : Counted(cmd[j]) # cmd[k].draw
  BY <1>2 DEF MemSafe, OneEach
<1> QED BY <1>1, <1>3 DEF OnlySwap, Counted

\* The buffers of a command, and those of a window, are in use that often.
LEMMA UsesHold ==
  ASSUME TypeInv, UsersInv, NEW k \in Cmd
  PROVE  UsesOf(W, k)
<1>1. W.cmd = cmd /\ W.buf = buf /\ W.priv = priv
  BY DEF W
<1> SUFFICES ASSUME NEW x \in Buf
             PROVE  /\ buf[x].ref \in Int
                    /\ buf[x].ref >= Is(cmd[k].src, x) + Is(cmd[k].dst, x)
                    /\ \A e \in Draw :
                         buf[x].ref >= Is(priv[e].back, x) + Is(priv[e].front, x)
                                       + Is(cmd[k].src, x) + Is(cmd[k].dst, x)
  BY <1>1 DEF UsesOf
<1>2. buf[x].ref = Times(Backs(priv), x) + Times(Fronts(priv), x)
                   + Times(Srcs(cmd), x) + Times(Dsts(cmd), x)
  BY DEF UsersInv, BuffersUsed, Users
<1>3. /\ Times(Backs(priv), x) \in Nat /\ Times(Fronts(priv), x) \in Nat
      /\ Times(Srcs(cmd), x) \in Nat /\ Times(Dsts(cmd), x) \in Nat
  BY CountsTypes
<1>4. /\ Times(Srcs(cmd), x) >= Is(cmd[k].src, x)
      /\ Times(Dsts(cmd), x) >= Is(cmd[k].dst, x)
      /\ \A e \in Draw : /\ Times(Backs(priv), x) >= Is(priv[e].back, x)
                         /\ Times(Fronts(priv), x) >= Is(priv[e].front, x)
  BY UsersAtLeast
<1>5. \A a : Is(a, x) \in {0, 1}
  BY DEF Is
<1> QED BY <1>2, <1>3, <1>4, <1>5

\* DRI2GetBuffers
LEMMA GetBuffersSafe ==
  ASSUME NumBufs = 2, "name" \notin Env, TypeInv, UsersInv, MemSafe, BoLeft,
         NEW d \in Draw, GetBuffers(d)
  PROVE  MemSafe'
<1>1. phase = "up" /\ win' = win /\ top' = top /\ Unthrottled(d) /\ win[d] # NoPix
  BY Zenon DEF GetBuffers, Running, Unthrottled
<1>2. /\ W \in World /\ WinsTyped(win) /\ MemInv(W, win, Draw, Cmd)
      /\ HeldApart(W.priv) /\ WinApart(win, top)
      /\ W.priv = priv /\ W.cmd = cmd
  BY <1>1, Given
<1>3. PICK ch \in Choices : Apply(GotBuffers(W, priv[d], d, ch))
  <2>1. \E ch \in Choices : Apply(GotBuffers(W, priv[d], d, ch))
    BY ONLY GetBuffers(d), Zenon DEF GetBuffers, GotBuffers, FrontGot, Handed
  <2> QED BY <2>1
<1> DEFINE v == GotBuffers(W, W.priv[d], d, ch)
<1>4. \A k \in Cmd : W.cmd[k].live /\ ~W.cmd[k].fail => W.cmd[k].draw # d
  BY <1>1, <1>2, NoSwapOf
<1>5. v \in World /\ v.cmd = W.cmd /\ MemInv(v, win, Draw, Cmd) /\ HeldApart(v.priv)
  <2>1. FreeBo(W) # {}
    BY DEF BoLeft
  <2> QED BY ONLY NumBufs = 2, "name" \notin Env, d \in Draw, ch \in Choices,
                  <1>1, <1>2, <1>4, <2>1, GetBuffersMem
<1>6. Apply(v)
  <2>1. W.priv[d] = priv[d]
    BY <1>2
  <2> QED BY <1>3, <2>1
<1> HIDE DEF v
<1>7. OneEach(v.cmd)
  BY <1>2, <1>5 DEF MemSafe
<1> QED BY <1>1, <1>2, <1>5, <1>6, <1>7, Remains

\* ARMSOCDRI2ScheduleSwap finds the buffers of the window, and a free command.
LEMMA Scheduled ==
  ASSUME NumBufs = 2, TypeInv, UsersInv, MemSafe, NEW d \in Draw, CanSwap(d)
  PROVE  LET k == Pick(FreeCmd)
             v == PrepareSwap(W, d, k)
         IN  /\ k \in Cmd /\ v \in World /\ SameBuffers(W, v)
             /\ MemInv(v, win, Draw, Cmd) /\ HeldApart(v.priv)
             /\ v.mem.fb = mem.fb
             /\ v.cmd[k].live /\ v.cmd[k].draw = d /\ v.cmd[k].type = "none"
             /\ v.cmd[k].count = 0 /\ ~v.cmd[k].fail
             /\ v.cmd[k].oldSrc = BoFromBuffer(W, priv[d].back)
             /\ \A j \in Cmd \ {k} : v.cmd[j] = cmd[j]
             /\ OnlySwap(v, d, k) /\ OneEach(v.cmd) /\ UsesOf(v, k)
<1> DEFINE k == Pick(FreeCmd)
           v == PrepareSwap(W, d, k)
<1>1. phase # "closed" /\ Unthrottled(d) /\ win[d] # NoPix /\ priv[d].back # NoBuf
  BY DEF CanSwap, Running, Unthrottled
<1>2. /\ W \in World /\ WinsTyped(win) /\ MemInv(W, win, Draw, Cmd)
      /\ HeldApart(W.priv) /\ W.priv = priv /\ W.cmd = cmd /\ W.mem = mem
      /\ W.buf = buf
  BY <1>1, Given
<1>3. k \in Cmd /\ cmd[k] = NoCmdRec /\ ~cmd[k].live
  <2>1. k \in FreeCmd
    BY PickIn DEF CanSwap
  <2> QED BY <2>1 DEF FreeCmd, UsersInv, DeadClear
<1>4. priv[d].back \in Buf /\ priv[d].front \in Buf
  <2>1. priv[d] \in PrivRec
    BY DEF TypeInv, TypeOK
  <2> QED BY <1>1, <2>1, PrivFields DEF TypeInv, BuffersPaired
<1>5. /\ v \in World /\ SameBuffers(W, v) /\ MemInv(v, win, Draw, Cmd)
      /\ v.mem.fb = W.mem.fb
      /\ v.cmd[k].live /\ v.cmd[k].draw = d /\ v.cmd[k].type = "none"
      /\ v.cmd[k].count = 0 /\ ~v.cmd[k].fail
      /\ v.cmd[k].oldSrc = BoFromBuffer(W, W.priv[d].back)
      /\ \A j \in Cmd \ {k} : v.cmd[j] = W.cmd[j]
  <2>1. /\ k \in Cmd /\ W.cmd[k] = NoCmdRec
        /\ W.priv[d].back \in Buf /\ W.priv[d].front \in Buf
    BY <1>2, <1>3, <1>4
  <2> HIDE DEF k
  <2> QED BY ONLY NumBufs = 2, d \in Draw, <1>1, <1>2, <2>1, PrepareSwapMem
<1>6. HeldApart(v.priv)
  BY <1>2, <1>5, SameApart
<1>7. \A j \in Cmd : cmd[j].live /\ ~cmd[j].fail => cmd[j].draw # d
  BY <1>1, NoSwapOf
<1>8. \A x \in Buf : v.buf[x].ref = buf[x].ref + Is(v.cmd[k].src, x)
                                                + Is(v.cmd[k].dst, x)
  BY CanSwapRefs
<1> HIDE DEF v, k
<1>9. OnlySwap(v, d, k)
  BY <1>2, <1>5, <1>7 DEF OnlySwap
<1>10. OneEach(v.cmd)
  <2>1. /\ Counted(v.cmd[k]) = d
        /\ \A j \in Cmd \ {k} : Counted(v.cmd[j]) = Counted(cmd[j])
        /\ \A j \in Cmd : Counted(cmd[j]) # d
    BY <1>2, <1>5, <1>7, SwapAssumption DEF Counted
  <2>2. OneEach(cmd)
    BY DEF MemSafe
  <2> QED BY <1>3, <2>1, <2>2 DEF OneEach
<1>11. UsesOf(v, k)
  <2> SUFFICES ASSUME NEW x \in Buf
               PROVE  /\ v.buf[x].ref \in Int
                      /\ v.buf[x].ref >= Is(v.cmd[k].src, x) + Is(v.cmd[k].dst, x)
                      /\ \A e \in Draw :
                           v.buf[x].ref >= Is(v.priv[e].back, x) + Is(v.priv[e].front, x)
                                           + Is(v.cmd[k].src, x) + Is(v.cmd[k].dst, x)
    BY DEF UsesOf
  <2>1. \A e \in Draw :
          /\ buf[x].ref \in Int
          /\ buf[x].ref >= Is(priv[e].back, x) + Is(priv[e].front, x)
    BY HeldRefs
  <2>2. \A e \in Draw : /\ v.priv[e].back = priv[e].back
                        /\ v.priv[e].front = priv[e].front
    BY <1>2, <1>5 DEF SameBuffers
  <2>3. \A a : Is(a, x) \in {0, 1}
    BY DEF Is
  <2> QED BY <1>8, <2>1, <2>2, <2>3
<1> QED BY <1>2, <1>3, <1>5, <1>6, <1>9, <1>10, <1>11 DEF v, k

\* ARMSOCDRI2ScheduleSwap at the next vblank.
LEMMA SwapAtVblankSafe ==
  ASSUME NumBufs = 2, TypeInv, UsersInv, MemSafe, NEW d \in Draw, SwapAtVblank(d)
  PROVE  MemSafe'
<1> DEFINE k == Pick(FreeCmd)
           v == PrepareSwap(W, d, k)
<1>1. CanSwap(d) /\ win' = win /\ top' = top /\ Apply(v) /\ phase # "closed"
  BY DEF SwapAtVblank, CanSwap, Running
<1>2. WinsTyped(win) /\ WinApart(win, top)
  BY <1>1, Given
<1>3. v \in World /\ MemInv(v, win, Draw, Cmd) /\ HeldApart(v.priv) /\ OneEach(v.cmd)
  BY <1>1, Scheduled
<1> HIDE DEF v
<1> QED BY <1>1, <1>2, <1>3, Remains

\* ARMSOCDRI2ScheduleSwap that swaps at once.
LEMMA SwapNowSafe ==
  ASSUME NumBufs = 2, TypeInv, UsersInv, MemSafe, NEW d \in Draw, SwapNow(d)
  PROVE  MemSafe'
<1>1. CanSwap(d) /\ win' = win /\ top' = top /\ phase # "closed"
  BY DEF SwapNow, CanSwap, Running
<1>2. PICK ch \in Choices :
        Apply(ExecuteSwap(PrepareSwap(W, d, Pick(FreeCmd)), Pick(FreeCmd), ch))
  BY DEF SwapNow
<1> DEFINE k == Pick(FreeCmd)
           v == PrepareSwap(W, d, k)
           x == ExecuteSwap(v, k, ch)
<1>3. WinsTyped(win) /\ WinApart(win, top)
  BY <1>1, Given
<1>4. /\ k \in Cmd /\ v \in World /\ MemInv(v, win, Draw, Cmd) /\ HeldApart(v.priv)
      /\ v.cmd[k].live /\ v.cmd[k].draw = d /\ v.cmd[k].type = "none"
      /\ v.cmd[k].count = 0 /\ OnlySwap(v, d, k) /\ OneEach(v.cmd) /\ UsesOf(v, k)
  BY <1>1, Scheduled
<1>5. Apply(x)
  BY <1>2
<1> HIDE DEF v, k
<1>6. MemInv(x, win, Draw, Cmd)
  <2>1. /\ v.cmd[k].draw \in Draw /\ v.cmd[k].count <= 1
        /\ OnlySwap(v, v.cmd[k].draw, k)
    BY <1>4
  <2> QED BY <1>3, <1>4, <2>1, ExecuteSwapMem
<1>7. /\ x \in World /\ SameBuffers(v, x)
      /\ x.cmd = [v.cmd EXCEPT ![k] = NoCmdRec]
  <2>1. CmdHolds(v.cmd[k])
    BY <1>4 DEF MemInv, SwapInv
  <2>2. /\ v.cmd[k].draw \in Draw /\ v.cmd[k].src \in Buf /\ v.cmd[k].dst \in Buf
        /\ v.cmd[k].count <= 1
    BY <1>4, <2>1 DEF CmdHolds, Whole
  <2> QED BY <1>3, <1>4, <2>2, ExecuteSwapType DEF WinsTyped
<1> HIDE DEF x
<1>8. OneEach(x.cmd)
  <2>1. v.cmd \in [Cmd -> CmdRec]
    BY <1>4, WorldFields
  <2>2. ~NoCmdRec.live
    BY DEF NoCmdRec
  <2>3. \A j \in Cmd : Counted(x.cmd[j]) \in {Counted(v.cmd[j]), NoDraw}
    BY <1>7, <2>1, <2>2 DEF Counted
  <2> QED BY <1>4, <2>3, FewerEach
<1>9. HeldApart(x.priv)
  BY <1>4, <1>7, SameApart
<1> QED BY <1>1, <1>3, <1>5, <1>6, <1>7, <1>8, <1>9, Remains

\* vblank_handler
LEMMA VBlankEventSafe ==
  ASSUME NumBufs = 2, TypeInv, EventsBelong, NoneLost, UsersInv, MemSafe,
         NEW k \in Cmd, VBlankEvent(k)
  PROVE  MemSafe'
<1>1. k \in vblEv /\ win' = win /\ top' = top /\ phase # "closed" /\ phase' = phase
  BY DEF VBlankEvent, ReadVBlankEvent
<1>2. CASE Handlers # "dri2"
  <2>1. UNCHANGED <<mem, buf, cmd, scanout, pending, priv, hw>>
    BY <1>2 DEF VBlankEvent
  <2>2. W' = W
    BY <2>1 DEF W
  <2> QED BY <1>1, <2>1, <2>2 DEF MemSafe
<1>3. CASE Handlers = "dri2"
  <2>1. PICK ch \in Choices : Apply(ExecuteSwap(W, k, ch))
    BY <1>3 DEF VBlankEvent
  <2> DEFINE x == ExecuteSwap(W, k, ch)
  <2>2. /\ W \in World /\ WinsTyped(win) /\ MemInv(W, win, Draw, Cmd)
        /\ HeldApart(W.priv) /\ WinApart(win, top) /\ W.cmd = cmd
    BY <1>1, Given
  <2>3. /\ cmd[k].live /\ cmd[k].count = 0 /\ cmd[k].type = "none"
    <3>1. cmd[k].live /\ Flipping(k) = {} /\ cmd[k].count = 0
      BY <1>1 DEF EventsBelong
    <3> QED BY <1>3, <3>1 DEF NoneLost, Live
  <2>4. CmdHolds(cmd[k])
    BY <2>2 DEF MemInv, SwapInv
  <2>5. /\ cmd[k].draw \in Draw /\ cmd[k].src \in Buf /\ cmd[k].dst \in Buf
        /\ ~cmd[k].fail
    BY <2>3, <2>4 DEF CmdHolds, Whole
  <2>6. OnlySwap(W, cmd[k].draw, k) /\ UsesOf(W, k)
    BY <2>3, <2>5, OnlyOne, UsesHold
  <2>7. /\ W.cmd[k].draw \in Draw /\ W.cmd[k].src \in Buf /\ W.cmd[k].dst \in Buf
        /\ W.cmd[k].live /\ W.cmd[k].count <= 1 /\ W.cmd[k].type = "none"
        /\ OnlySwap(W, W.cmd[k].draw, k)
    BY <2>2, <2>3, <2>5, <2>6
  <2>8. MemInv(x, win, Draw, Cmd)
    BY <2>2, <2>6, <2>7, ExecuteSwapMem
  <2>9. /\ x \in World /\ SameBuffers(W, x)
        /\ x.cmd = [W.cmd EXCEPT ![k] = NoCmdRec]
    BY <2>2, <2>7, ExecuteSwapType DEF WinsTyped
  <2>10. Apply(x)
    BY <2>1
  <2> HIDE DEF x
  <2>11. OneEach(x.cmd)
    <3>1. cmd \in [Cmd -> CmdRec] /\ OneEach(cmd)
      BY DEF TypeInv, TypeOK, MemSafe
    <3>2. ~NoCmdRec.live
      BY DEF NoCmdRec
    <3>3. \A j \in Cmd : Counted(x.cmd[j]) \in {Counted(cmd[j]), NoDraw}
      BY <2>2, <2>9, <3>1, <3>2 DEF Counted
    <3> QED BY <3>1, <3>3, FewerEach
  <2>12. HeldApart(x.priv)
    BY <2>2, <2>9, SameApart
  <2> QED BY <1>1, <2>2, <2>8, <2>9, <2>10, <2>11, <2>12, Remains
<1> QED BY <1>2, <1>3

\* page_flip_handler
LEMMA FlipEventSafe ==
  ASSUME NumBufs = 2, TypeInv, EventsBelong, UsersInv, MemSafe,
         NEW c \in Crtc, FlipEvent(c)
  PROVE  MemSafe'
<1>1. flipEv[c] # NoCmd /\ win' = win /\ top' = top /\ phase # "closed" /\ phase' = phase
  BY DEF FlipEvent, ReadFlipEvent
<1>2. CASE Handlers # "dri2"
  <2>1. UNCHANGED <<mem, buf, cmd, scanout, pending, priv, hw>>
    BY <1>2 DEF FlipEvent
  <2>2. W' = W
    BY <2>1 DEF W
  <2> QED BY <1>1, <2>1, <2>2 DEF MemSafe
<1>3. CASE Handlers = "dri2"
  <2> DEFINE k == flipEv[c]
  <2>1. PICK ch \in Choices : Apply(SwapComplete(W, k, ch))
    BY <1>3 DEF FlipEvent
  <2> DEFINE x == SwapComplete(W, k, ch)
  <2>2. /\ W \in World /\ WinsTyped(win) /\ MemInv(W, win, Draw, Cmd)
        /\ HeldApart(W.priv) /\ WinApart(win, top) /\ W.cmd = cmd
    BY <1>1, Given
  <2>3. k \in Cmd /\ cmd[k].live
    <3>1. k \in Cmd /\ c \in Flipping(k)
      BY <1>1 DEF TypeInv, TypeOK, Flipping
    <3> QED BY <3>1 DEF EventsBelong
  <2>a. Apply(x)
    BY <2>1
  <2> HIDE DEF k
  <2>4. CmdHolds(cmd[k])
    BY <2>2, <2>3 DEF MemInv, SwapInv
  <2>5. cmd[k].draw \in Draw /\ cmd[k].src \in Buf /\ cmd[k].dst \in Buf
    BY <2>3, <2>4 DEF CmdHolds, Whole
  <2>6. (~cmd[k].fail => OnlySwap(W, cmd[k].draw, k)) /\ UsesOf(W, k)
    BY <2>3, OnlyOne, UsesHold
  <2>7. /\ W.cmd[k].draw \in Draw /\ W.cmd[k].src \in Buf /\ W.cmd[k].dst \in Buf
        /\ W.cmd[k].live
        /\ ~W.cmd[k].fail => OnlySwap(W, W.cmd[k].draw, k)
    BY <2>2, <2>3, <2>5, <2>6
  <2>8. MemInv(x, win, Draw, Cmd)
    BY <2>2, <2>3, <2>6, <2>7, SwapCompleteMem
  <2>9. /\ x \in World /\ SameBuffers(W, x)
        /\ IF W.cmd[k].count > 1
           THEN x.cmd = [W.cmd EXCEPT ![k].count = @ - 1]
           ELSE x.cmd = [W.cmd EXCEPT ![k] = NoCmdRec]
    BY <2>2, <2>3, <2>7, SwapCompleteType DEF WinsTyped
  <2> HIDE DEF x
  <2>11. OneEach(x.cmd)
    <3>1. cmd \in [Cmd -> CmdRec] /\ OneEach(cmd)
      BY DEF TypeInv, TypeOK, MemSafe
    <3>2. ~NoCmdRec.live
      BY DEF NoCmdRec
    <3>3. \A j \in Cmd \ {k} : x.cmd[j] = cmd[j]
      BY <2>2, <2>9, <3>1
    <3>4. Counted(x.cmd[k]) \in {Counted(cmd[k]), NoDraw}
      <4>1. CASE W.cmd[k].count > 1
        <5>1. x.cmd[k] = [cmd[k] EXCEPT !.count = @ - 1]
          BY <2>2, <2>3, <2>9, <3>1, <4>1
        <5>2. cmd[k] \in CmdRec
          BY <2>3, <3>1
        <5> HIDE DEF k
        <5>3. /\ x.cmd[k].live = cmd[k].live /\ x.cmd[k].fail = cmd[k].fail
              /\ x.cmd[k].draw = cmd[k].draw
          BY <5>1, <5>2 DEF CmdRec
        <5> QED BY <5>3 DEF Counted
      <4>2. CASE ~(W.cmd[k].count > 1)
        <5>1. x.cmd[k] = NoCmdRec
          BY <2>2, <2>3, <2>9, <3>1, <4>2
        <5> QED BY <3>2, <5>1 DEF Counted
      <4> QED BY <4>1, <4>2
    <3>5. \A j \in Cmd : Counted(x.cmd[j]) \in {Counted(cmd[j]), NoDraw}
      BY <3>3, <3>4
    <3> QED BY <3>1, <3>5, FewerEach
  <2>12. HeldApart(x.priv)
    BY <2>2, <2>9, SameApart
  <2> QED BY <1>1, <2>2, <2>8, <2>9, <2>a, <2>11, <2>12, Remains
<1> QED BY <1>2, <1>3

\* ARMSOCDRI2ScheduleSwap by page flip.
LEMMA SwapByFlipSafe ==
  ASSUME NumBufs = 2, TypeInv, UsersInv, MemSafe, NEW d \in Draw, SwapByFlip(d)
  PROVE  MemSafe'
<1>1. /\ CanSwap(d) /\ DoFlip(W, d) /\ win' = win /\ top' = top
      /\ phase # "closed"
  BY DEF SwapByFlip, CanSwap, Running
<1>2. PICK ch \in Choices,
              bad \in SUBSET (IF "flipfail" \in Env THEN crtcOn ELSE {}) :
         LET k  == Pick(FreeCmd)
             S  == {c \in crtcOn \ bad : flipEv[c] = NoCmd}
             w1 == StartFlip(PrepareSwap(W, d, k), k, S)
             w2 == IF S = {} THEN SwapComplete(w1, k, ch) ELSE w1
         IN  Apply(IF S = crtcOn THEN w2
                   ELSE [w2 EXCEPT !.priv[d].swaps = @ - 1])
  BY Zenon DEF SwapByFlip
<1> DEFINE k  == Pick(FreeCmd)
           S  == {c \in crtcOn \ bad : flipEv[c] = NoCmd}
           w0 == PrepareSwap(W, d, k)
           w1 == StartFlip(w0, k, S)
           wc == SwapComplete(w1, k, ch)
           w2 == IF S = {} THEN wc ELSE w1
           i  == w2.priv[d].swaps - 1
           w3 == [w2 EXCEPT !.priv[d].swaps = i]
           v  == IF S = crtcOn THEN w2 ELSE w3
<1>3. Apply(v)
  BY <1>2
<1>4. S \in SUBSET Crtc
  BY DEF TypeInv, TypeOK
<1> HIDE DEF S
<1>5. WinsTyped(win) /\ WinApart(win, top) /\ W.mem = mem /\ W.priv = priv
  BY <1>1, Given
<1>6. /\ k \in Cmd /\ w0 \in World /\ MemInv(w0, win, Draw, Cmd)
      /\ HeldApart(w0.priv)
      /\ w0.cmd[k].live /\ w0.cmd[k].draw = d /\ ~w0.cmd[k].fail
      /\ OnlySwap(w0, d, k) /\ OneEach(w0.cmd) /\ UsesOf(w0, k)
      /\ w0.mem.fb = mem.fb
      /\ w0.cmd[k].oldSrc = BoFromBuffer(W, priv[d].back)
  BY <1>1, Scheduled
<1>7. w0.mem.fb[w0.cmd[k].oldSrc]
  BY <1>1, <1>5, <1>6 DEF DoFlip
<1> HIDE DEF k, w0
<1>8. /\ w1 \in World /\ MemInv(w1, win, Draw, Cmd)
      /\ SameBuffers(w0, w1) /\ w1.buf = w0.buf
      /\ \A j \in Cmd \ {k} : w1.cmd[j] = w0.cmd[j]
      /\ w1.cmd[k].fail <=> S # crtcOn
  BY <1>4, <1>5, <1>6, <1>7, StartFlipMem
<1>9. /\ w1.cmd[k].live /\ w1.cmd[k].draw = d
      /\ w1.cmd[k].src = w0.cmd[k].src /\ w1.cmd[k].dst = w0.cmd[k].dst
      /\ w1.cmd[k].count = Cardinality(S)
  <2>1. FlipStarted(w0, w1, k, S)
    BY ONLY <1>4, <1>6, StartFlipCmd
  <2> HIDE DEF w1
  <2> QED BY <1>6, <2>1 DEF FlipStarted
<1> HIDE DEF w1
<1>10. OnlySwap(w1, d, k)
  BY <1>6, <1>8 DEF OnlySwap
<1>11. UsesOf(w1, k)
  BY <1>6, <1>8, <1>9, UsesKept
<1>12. OneEach(w1.cmd)
  <2>1. \A j \in Cmd : Counted(w1.cmd[j]) \in {Counted(w0.cmd[j]), NoDraw}
    BY <1>6, <1>8, <1>9 DEF Counted
  <2> QED BY <1>6, <2>1, FewerEach
<1>13. HeldApart(w1.priv)
  BY <1>6, <1>8, SameApart
<1>14. ASSUME S = {}
       PROVE  /\ wc \in World /\ MemInv(wc, win, Draw, Cmd) /\ SameBuffers(w1, wc)
              /\ OneEach(wc.cmd)
  <2>1. CmdHolds(w1.cmd[k])
    BY <1>6, <1>8 DEF MemInv, SwapInv
  <2>2. /\ w1.cmd[k].draw \in Draw /\ w1.cmd[k].src \in Buf /\ w1.cmd[k].dst \in Buf
        /\ OnlySwap(w1, w1.cmd[k].draw, k)
    BY <1>9, <1>10, <2>1 DEF CmdHolds, Whole
  <2>3. MemInv(wc, win, Draw, Cmd)
    BY <1>5, <1>6, <1>8, <1>9, <1>11, <1>13, <2>2, SwapCompleteMem
  <2>4. ~(w1.cmd[k].count > 1)
    <3>1. w1.cmd[k].count = 0
      BY <1>9, <1>14, FS_EmptySet
    <3> QED BY <3>1
  <2>5. /\ wc \in World /\ SameBuffers(w1, wc)
        /\ wc.cmd = [w1.cmd EXCEPT ![k] = NoCmdRec]
    <3>1. /\ wc \in World /\ SameBuffers(w1, wc)
          /\ IF w1.cmd[k].count > 1
             THEN wc.cmd = [w1.cmd EXCEPT ![k].count = @ - 1]
             ELSE wc.cmd = [w1.cmd EXCEPT ![k] = NoCmdRec]
      BY <1>5, <1>6, <1>8, <2>2, SwapCompleteType DEF WinsTyped
    <3> HIDE DEF wc
    <3> QED BY <2>4, <3>1
  <2> HIDE DEF wc
  <2>6. OneEach(wc.cmd)
    <3>1. w1.cmd \in [Cmd -> CmdRec]
      BY <1>8, WorldFields
    <3>2. ~NoCmdRec.live
      BY DEF NoCmdRec
    <3>3. \A j \in Cmd : Counted(wc.cmd[j]) \in {Counted(w1.cmd[j]), NoDraw}
      BY <2>5, <3>1, <3>2 DEF Counted
    <3> QED BY <1>12, <3>3, FewerEach
  <2> QED BY <2>3, <2>5, <2>6
<1> HIDE DEF wc
<1>15. /\ w2 \in World /\ MemInv(w2, win, Draw, Cmd)
       /\ OneEach(w2.cmd) /\ HeldApart(w2.priv)
  <2>1. CASE S = {}
    <3>1. HeldApart(wc.priv)
      BY <1>13, <1>14, <2>1, SameApart
    <3> QED BY <1>14, <2>1, <3>1
  <2>2. CASE S # {}
    BY <1>8, <1>12, <1>13, <2>2
  <2> QED BY <2>1, <2>2
<1> HIDE DEF w2
<1>16. /\ w3 \in World /\ w3.cmd = w2.cmd /\ MemInv(w3, win, Draw, Cmd)
       /\ HeldApart(w3.priv)
  <2>1. i \in Int
    <3>1. w2.priv[d] \in PrivRec
      BY <1>15, WorldFields
    <3>2. w2.priv[d].swaps \in Int
      BY <3>1, PrivFields
    <3> QED BY <3>2
  <2> HIDE DEF i
  <2>2. /\ w3 \in World /\ w3.cmd = w2.cmd /\ w3.buf = w2.buf /\ w3.mem = w2.mem
        /\ w3.scanout = w2.scanout /\ SameBuffers(w2, w3)
    BY <1>15, <2>1, CountType
  <2> HIDE DEF w3
  <2>3. MemInv(w3, win, Draw, Cmd)
    BY <1>5, <1>15, <2>2, SameMem
  <2>4. HeldApart(w3.priv)
    BY <1>15, <2>2, SameApart
  <2> QED BY <2>2, <2>3, <2>4
<1> HIDE DEF w3
<1>17. /\ v \in World /\ MemInv(v, win, Draw, Cmd)
       /\ OneEach(v.cmd) /\ HeldApart(v.priv)
  BY <1>15, <1>16
<1> HIDE DEF v
<1> QED BY <1>1, <1>3, <1>5, <1>17, Remains

-----------------------------------------------------------------------------
(* The theorems *)

\* A step keeps the memory safe, if memory for one more bo is left before it.
LEMMA MemStep ==
  ASSUME NumBufs = 2, "name" \notin Env,
         TypeInv, EventsBelong, NoneLost, UsersInv, MemSafe, BoLeft, [Next]_vars
  PROVE  MemSafe'
<1>1. CASE ClientStep
  BY <1>1, GetBuffersSafe, SwapByFlipSafe, SwapAtVblankSafe, SwapNowSafe DEF ClientStep
<1>2. CASE KernelStep
  BY <1>2, FlipEventSafe, VBlankEventSafe DEF KernelStep
<1>3. CASE ServerStep
  BY <1>3, RestackSafe, RedirectSafe, UnredirectSafe, DestroySafe, CreateWindowSafe,
     SwitchCrtcSafe, ResizeSafe, CloseScreenSafe DEF ServerStep
<1>4. CASE FinishClose
  BY <1>4, FinishCloseSafe
<1>5. CASE UNCHANGED vars
  <2>1. W' = W /\ phase' = phase /\ win' = win /\ top' = top
        /\ priv' = priv /\ cmd' = cmd
    BY <1>5 DEF vars, W
  <2> QED BY <2>1 DEF MemSafe
<1> QED BY <1>1, <1>2, <1>3, <1>4, <1>5 DEF Next

\* ARMSOCScreenInit allocates the scanout, wraps the screen pixmap around it and
\* adds its fb.
LEMMA InitMem == Init => MemSafe
<1> SUFFICES ASSUME Init
             PROVE  MemSafe
  OBVIOUS
<1> DEFINE b == CHOOSE x \in Bo : TRUE
           m == [ref  |-> [x \in Bo |-> 0], fb |-> [x \in Bo |-> FALSE],
                 size |-> [x \in Bo |-> InitSize], cap |-> [x \in Bo |-> InitSize],
                 pref |-> [p \in Pix |-> 0], pbo |-> [p \in Pix |-> NoBo],
                 ext  |-> [p \in Pix |-> 0], pdim |-> [p \in Pix |-> InitSize],
                 ok   |-> TRUE]
           m1 == NewPixmap(m, Root, b, InitSize)
           m2 == BoRef(m1, b)
           m3 == AddFb(m2, b)
           bf == buf
           cm == cmd
           pr == priv
<1>1. /\ mem = m3 /\ scanout = b /\ bf = [x \in Buf |-> NoBufRec]
      /\ cm = [k \in Cmd |-> NoCmdRec] /\ win = [d \in Draw |-> Root]
      /\ pr = [d \in Draw |-> NoPriv] /\ top = NoDraw /\ phase = "up"
  BY DEF Init
<1>2. b \in Bo /\ Root \in Pix /\ NoBo \notin Bo /\ NoPix \notin Pix /\ Root # NoPix
      /\ NoBuf \notin Buf /\ NoDraw \notin Draw
  BY SwapAssumption, MemAssumption
<1> HIDE DEF b, bf, cm, pr
<1>3. /\ m3.ok
      /\ \A x \in Bo : m3.ref[x] = IF x = b THEN 2 ELSE 0
      /\ m3.fb[b]
      /\ \A p \in Pix : m3.pref[p] = IF p = Root THEN 1 ELSE 0
      /\ \A p \in Pix : m3.pbo[p] = IF p = Root THEN b ELSE NoBo
      /\ DOMAIN m3.pbo = Pix
      /\ \A p \in Pix : m3.ext[p] = 0
  <2>1. /\ m \in Mem
        /\ \A x \in Bo : m.ref[x] = 0
        /\ m.ok
        /\ \A p \in Pix : m.pref[p] = 0 /\ m.pbo[p] = NoBo /\ m.ext[p] = 0
    BY SwapAssumption DEF Mem
  <2> HIDE DEF m
  <2>2. /\ m1 \in Mem
        /\ \A x \in Bo : m1.ref[x] = IF x = b THEN 1 ELSE 0
        /\ ~m1.fb[b] /\ m1.ok
        /\ \A p \in Pix : /\ m1.pref[p] = IF p = Root THEN 1 ELSE 0
                          /\ m1.pbo[p] = IF p = Root THEN b ELSE NoBo
                          /\ m1.ext[p] = 0
    <3>1. m1 \in Mem
      BY <1>2, <2>1, NewPixmapType, SwapAssumption
    <3>2. /\ \A q \in Pix : /\ m1.pref[q] = IF q = Root THEN 1 ELSE m.pref[q]
                            /\ m1.pbo[q]  = IF q = Root THEN b ELSE m.pbo[q]
                            /\ m1.ext[q]  = IF q = Root THEN 0 ELSE m.ext[q]
          /\ \A x \in Bo : /\ m1.ref[x] = IF x = b THEN 1 ELSE m.ref[x]
                           /\ m1.fb[x] <=> (x # b /\ m.fb[x])
          /\ m1.ok = m.ok
      BY <1>2, <2>1, NewPixmapForm, SwapAssumption
    <3> HIDE DEF m1
    <3> QED BY <1>2, <2>1, <3>1, <3>2
  <2> HIDE DEF m1
  <2>3. /\ m2 \in Mem
        /\ \A x \in Bo : m2.ref[x] = IF x = b THEN 2 ELSE 0
        /\ ~m2.fb[b] /\ m2.ok
        /\ m2.pref = m1.pref /\ m2.pbo = m1.pbo /\ m2.ext = m1.ext
    <3>1. m2 \in Mem
      BY <1>2, <2>2, BoRefType
    <3>2. /\ m2.pref = m1.pref /\ m2.ext = m1.ext /\ m2.pbo = m1.pbo
          /\ m2.fb = m1.fb
          /\ \A x \in Bo : m2.ref[x] = m1.ref[x] + Is(b, x)
          /\ m1.ok /\ m1.ref[b] > 0 => m2.ok
      BY <1>2, <2>2, BoRefForm
    <3> HIDE DEF m2
    <3>3. m1.ref[b] = 1
      BY <1>2, <2>2
    <3>4. \A x \in Bo : m2.ref[x] = IF x = b THEN 2 ELSE 0
      BY <2>2, <3>2 DEF Is
    <3>5. m2.ok /\ ~m2.fb[b]
      BY <2>2, <3>2, <3>3
    <3> QED BY <3>1, <3>2, <3>4, <3>5
  <2> HIDE DEF m2
  <2>4. /\ m3 \in Mem
        /\ m3.ref = m2.ref /\ m3.fb[b] /\ m3.ok
        /\ m3.pref = m2.pref /\ m3.pbo = m2.pbo /\ m3.ext = m2.ext
    <3>1. m3 \in Mem
      BY <1>2, <2>3, AddFbType
    <3>2. /\ m3.pref = m2.pref /\ m3.pbo = m2.pbo /\ m3.ref = m2.ref /\ m3.ext = m2.ext
          /\ \A x \in Bo : m3.fb[x] <=> (x = b \/ m2.fb[x])
          /\ m2.ok /\ m2.ref[b] > 0 /\ ~m2.fb[b] => m3.ok
      BY <1>2, <2>3, AddFbForm
    <3> HIDE DEF m3
    <3> QED BY <1>2, <2>3, <3>1, <3>2
  <2> HIDE DEF m3
  <2>5. DOMAIN m3.pbo = Pix
    BY <2>4 DEF Mem
  <2>6. /\ m3.ok /\ m3.fb[b] /\ DOMAIN m3.pbo = Pix
        /\ \A x \in Bo : m3.ref[x] = IF x = b THEN 2 ELSE 0
    BY <2>3, <2>4, <2>5
  <2>7. \A p \in Pix : /\ m3.pref[p] = IF p = Root THEN 1 ELSE 0
                       /\ m3.pbo[p] = IF p = Root THEN b ELSE NoBo
                       /\ m3.ext[p] = 0
    BY <2>2, <2>3, <2>4
  <2> QED BY <2>6, <2>7
<1>4. /\ W.mem = mem /\ W.buf = bf /\ W.cmd = cm /\ W.scanout = scanout /\ W.priv = pr
  BY DEF W, bf, cm, pr
<1> DEFINE n == m3
<1>5. n = mem
  BY <1>1
<1> HIDE DEF n
<1>6. /\ \A x \in Buf : BufPixs(bf)[x] = NoPix /\ BufBos(bf)[x] = NoBo
      /\ \A k \in Cmd : OldSrcs(cm)[k] = NoBo /\ OldDsts(cm)[k] = NoBo
  <2>1. 0 \in Slots
    BY SwapAssumption DEF Slots
  <2> QED BY <1>1, <2>1 DEF BufPixs, BufBos, OldSrcs, OldDsts, NoBufRec, NoCmdRec
<1>7. BosCounted(W)
  <2> SUFFICES ASSUME NEW x \in Bo
               PROVE  mem.ref[x] = Held(mem, bf, cm, scanout, x)
    BY <1>4 DEF BosCounted
  <2>1. x # NoBo
    BY <1>2
  <2>2. Times(BufBos(bf), x) = 0 /\ Times(OldSrcs(cm), x) = 0 /\ Times(OldDsts(cm), x) = 0
    BY <1>6, <2>1, HolderDomains, TimesType
  <2>3. Times(mem.pbo, x) = Is(b, x)
    <3> DEFINE f == [p \in Pix |-> NoBo]
               g == mem.pbo
    <3>1. DOMAIN f = Pix /\ (\A p \in Pix : f[p] = NoBo) /\ IsFiniteSet(Pix)
      BY HolderDomains
    <3>2. DOMAIN g = Pix /\ g[Root] = b /\ \A p \in Pix \ {Root} : g[p] = NoBo
      BY <1>2, <1>3, <1>5 DEF n
    <3> HIDE DEF f, g
    <3>3. Times(f, x) = 0
      BY <2>1, <3>1, TimesType
    <3>4. \A p \in Pix \ {Root} : g[p] = f[p]
      BY <3>1, <3>2
    <3>5. Times(g, x) = Times(f, x) + Is(g[Root], x) - Is(f[Root], x)
      BY <1>2, <3>1, <3>2, <3>4, TimesUpdate
    <3>6. Is(NoBo, x) = 0 /\ Is(b, x) \in Int
      BY <2>1 DEF Is
    <3>7. Times(g, x) = Is(b, x)
      BY <1>2, <3>1, <3>2, <3>3, <3>5, <3>6
    <3> QED BY <3>7 DEF g
  <2>4. mem.ref[x] = Is(b, x) + Is(b, x)
    <3>1. n.ref[x] = IF x = b THEN 2 ELSE 0
      BY <1>3 DEF n
    <3> QED BY <1>5, <3>1 DEF Is
  <2>5. Is(b, x) \in {0, 1}
    BY DEF Is
  <2> QED BY <1>1, <2>2, <2>3, <2>4, <2>5 DEF Held
<1>8. PixCounted(W, win)
  <2> SUFFICES ASSUME NEW p \in Pix
               PROVE  /\ mem.ext[p] = Times(BufPixs(bf), p)
                      /\ mem.pref[p] = mem.ext[p] + Windows(win, p)
    BY <1>4 DEF PixCounted
  <2>1. Times(BufPixs(bf), p) = 0
    BY <1>2, <1>6, HolderDomains, TimesType
  <2>2. p # Root => Times(win, p) = 0
    <3> DEFINE f == win
    <3>1. DOMAIN f = Draw /\ \A d \in Draw : f[d] = Root
      BY <1>1
    <3> HIDE DEF f
    <3>2. p # Root => Times(f, p) = 0
      BY <3>1, HolderDomains, TimesType
    <3> QED BY <3>2 DEF f
  <2>3. mem.ext[p] = 0 /\ mem.pref[p] = IF p = Root THEN 1 ELSE 0
    BY <1>3, <1>5 DEF n
  <2> QED BY <2>1, <2>2, <2>3 DEF Windows
<1>9. PixSound(W.mem)
  <2>1. \A p \in Pix : /\ n.pref[p] = IF p = Root THEN 1 ELSE 0
                       /\ n.pbo[p] = IF p = Root THEN b ELSE NoBo
    BY <1>3 DEF n
  <2> QED BY <1>2, <1>4, <1>5, <2>1 DEF PixSound
<1>10. BufSound(W)
  <2>1. \A x \in Buf : bf[x] = NoBufRec
    BY <1>1
  <2>2. NoBufRec.ref = 0
    BY DEF NoBufRec
  <2> QED BY <1>4, <2>1, <2>2 DEF BufSound
<1>11. Sound(W, win)
  <2>1. mem.ok
    BY <1>3, <1>5 DEF n
  <2> QED BY <1>4, <1>7, <1>8, <1>9, <1>10, <2>1 DEF Sound
<1>12. MemInv(W, win, Draw, Cmd)
  <2>1. ScreenSound(W)
    <3>1. n.pbo[Root] = b /\ n.fb[b]
      BY <1>2, <1>3 DEF n
    <3> QED BY <1>1, <1>4, <1>5, <3>1 DEF ScreenSound
  <2>2. \A e \in Draw : WinSound(W, win, e)
    BY <1>1, <1>4 DEF WinSound, NoPriv
  <2>3. \A k \in Cmd : ~W.cmd[k].live
    BY <1>1, <1>4 DEF NoCmdRec
  <2>4. \A k \in Cmd : CmdHolds(W.cmd[k]) /\ CmdSound(W, win, k)
    BY <2>3, Zenon DEF CmdHolds, CmdSound
  <2> QED BY <1>11, <2>1, <2>2, <2>4 DEF MemInv, SwapInv
<1>13. HeldApart(pr)
  <2>1. \A d \in Draw : pr[d].back = NoBuf /\ pr[d].front = NoBuf
    BY <1>1 DEF NoPriv
  <2> QED BY <1>2, <2>1 DEF HeldApart
<1>14. WinApart(win, top)
  BY <1>1 DEF WinApart
<1>15. OneEach(cm)
  <2>1. \A k \in Cmd : Counted(cm[k]) = NoDraw
    BY <1>1 DEF Counted, NoCmdRec
  <2> QED BY <2>1 DEF OneEach
<1> QED BY <1>11, <1>12, <1>13, <1>14, <1>15 DEF MemSafe, cm, pr

\* With memory left in every state, the memory is safe in every state.
THEOREM MemorySafety ==
  ASSUME NumBufs = 2, "name" \notin Env
  PROVE  Spec /\ []BoLeft => []MemSafe
<1> DEFINE UI == IInv /\ UsersInv
<1>1. Init => MemSafe
  BY InitMem
<1>2. UI /\ BoLeft /\ MemSafe /\ [Next]_vars => MemSafe'
  BY MemStep DEF IInv
<1>3. Spec => []UI
  BY UsersInvariance
<1> HIDE DEF UI
<1> QED BY <1>1, <1>2, <1>3, PTL DEF Spec

\* The values of a function are no more than its arguments.
LEMMA ImageSmall ==
  ASSUME NEW S, IsFiniteSet(S), NEW f, DOMAIN f = S, f = [x \in S |-> f[x]]
  PROVE  LET T == {f[x] : x \in S}
         IN  /\ IsFiniteSet(T) /\ Cardinality(T) \in Nat
             /\ Cardinality(T) <= Cardinality(S) /\ Cardinality(S) \in Nat
<1> DEFINE T == {f[x] : x \in S}
<1>1. f \in Surjection(S, T)
  BY DEF Surjection
<1> HIDE DEF T
<1>2. IsFiniteSet(T) /\ Cardinality(T) <= Cardinality(S)
  BY <1>1, FS_Surjection
<1> QED BY <1>2, FS_CardinalityType DEF T

\* Two sets together have no more elements than each of them.
LEMMA UnionSmall ==
  ASSUME NEW S, IsFiniteSet(S), NEW m \in Nat, Cardinality(S) <= m,
         NEW T, IsFiniteSet(T), NEW n \in Nat, Cardinality(T) <= n
  PROVE  IsFiniteSet(S \cup T) /\ Cardinality(S \cup T) <= m + n
<1>1. Cardinality(S \cup T) = Cardinality(S) + Cardinality(T) - Cardinality(S \cap T)
      /\ IsFiniteSet(S \cup T)
  BY FS_Union
<1>2. IsFiniteSet(S \cap T)
  BY FS_Intersection
<1>3. /\ Cardinality(S) \in Nat /\ Cardinality(T) \in Nat
      /\ Cardinality(S \cap T) \in Nat /\ Cardinality(S \cup T) \in Nat
  BY <1>1, <1>2, FS_CardinalityType
<1> QED BY <1>1, <1>3

\* More bos than there can be holders of one.
PlentyOfBos ==
  Cardinality(Bo) > Cardinality(Pix) + Cardinality(Buf) + 2 * Cardinality(Cmd)
                    + Cardinality(Crtc) + 1

\* Then one is always left.
LEMMA OneLeft ==
  ASSUME PlentyOfBos, TypeInv, MemSafe
  PROVE  BoLeft
<1> SUFFICES ASSUME FreeBo(W) = {}
             PROVE  FALSE
  BY DEF BoLeft
<1>1. /\ mem \in Mem /\ W.mem = mem /\ W.buf = buf /\ W.cmd = cmd
      /\ W.scanout = scanout /\ W.hw = hw
      /\ hw \in [Crtc -> Bo \cup {NoBo}]
  BY DEF W, TypeInv, TypeOK
<1> DEFINE A == {mem.pbo[x] : x \in Pix}
           f == BufBos(buf)
           B == {f[x] : x \in Buf}
           g == OldSrcs(cmd)
           C == {g[x] : x \in Cmd}
           h == OldDsts(cmd)
           D == {h[x] : x \in Cmd}
           E == {hw[x] : x \in Crtc}
           U == (((((A \cup B) \cup C) \cup D) \cup E) \cup {scanout})
           np == Cardinality(Pix)
           nb == Cardinality(Buf)
           nk == Cardinality(Cmd)
           nc == Cardinality(Crtc)
<1>2. Bo \subseteq U
  <2> SUFFICES ASSUME NEW b \in Bo, b \notin U
               PROVE  FALSE
    OBVIOUS
  <2>1. /\ \A x \in Pix : mem.pbo[x] # b
        /\ \A x \in Buf : f[x] # b
        /\ \A x \in Cmd : g[x] # b /\ h[x] # b
        /\ \A x \in Crtc : hw[x] # b
        /\ scanout # b
    OBVIOUS
  <2> HIDE DEF A, B, C, D, E, U
  <2>2. mem.ref[b] = Held(mem, buf, cmd, scanout, b)
    BY <1>1 DEF MemSafe, Sound, BosCounted
  <2>3. Times(mem.pbo, b) = 0
    <3> DEFINE q == mem.pbo
    <3>1. DOMAIN q = Pix
      BY <1>1, MemFields
    <3>2. \A x \in Pix : q[x] # b
      BY <2>1
    <3> HIDE DEF q
    <3>3. Times(q, b) = 0
      BY <3>1, <3>2, HolderDomains, TimesType
    <3> QED BY <3>3 DEF q
  <2>4. Times(f, b) = 0 /\ Times(g, b) = 0 /\ Times(h, b) = 0
    <3>1. DOMAIN f = Buf /\ DOMAIN g = Cmd /\ DOMAIN h = Cmd
      BY HolderDomains
    <3> HIDE DEF f, g, h
    <3> QED BY <2>1, <3>1, HolderDomains, TimesType
  <2>5. mem.ref[b] = 0
    BY <2>1, <2>2, <2>3, <2>4 DEF Held, Is
  <2> QED BY <1>1, <2>1, <2>5 DEF FreeBo
<1>3. IsFiniteSet(A) /\ Cardinality(A) <= np /\ np \in Nat
  <2> DEFINE q == mem.pbo
             Q == {q[x] : x \in Pix}
  <2>1. DOMAIN q = Pix /\ q = [x \in Pix |-> q[x]] /\ IsFiniteSet(Pix)
    BY <1>1, MemFields, HolderDomains
  <2> HIDE DEF q
  <2>2. IsFiniteSet(Q) /\ Cardinality(Q) <= np /\ np \in Nat
    BY <2>1, ImageSmall
  <2> QED BY <2>2 DEF q
<1>4. /\ IsFiniteSet(B) /\ Cardinality(B) <= nb /\ nb \in Nat
      /\ IsFiniteSet(C) /\ Cardinality(C) <= nk /\ nk \in Nat
      /\ IsFiniteSet(D) /\ Cardinality(D) <= nk
  <2>1. /\ DOMAIN f = Buf /\ f = [x \in Buf |-> f[x]]
        /\ DOMAIN g = Cmd /\ g = [x \in Cmd |-> g[x]]
        /\ DOMAIN h = Cmd /\ h = [x \in Cmd |-> h[x]]
        /\ IsFiniteSet(Buf) /\ IsFiniteSet(Cmd)
    BY SwapAssumption DEF BufBos, OldSrcs, OldDsts
  <2> HIDE DEF f, g, h
  <2>2. IsFiniteSet(B) /\ Cardinality(B) <= nb /\ nb \in Nat
    BY <2>1, ImageSmall
  <2>3. IsFiniteSet(C) /\ Cardinality(C) <= nk /\ nk \in Nat
    BY <2>1, ImageSmall
  <2>4. IsFiniteSet(D) /\ Cardinality(D) <= nk
    BY <2>1, ImageSmall
  <2> QED BY <2>2, <2>3, <2>4
<1>5. IsFiniteSet(E) /\ Cardinality(E) <= nc /\ nc \in Nat
  <2>1. DOMAIN hw = Crtc /\ hw = [x \in Crtc |-> hw[x]] /\ IsFiniteSet(Crtc)
    BY <1>1, SwapAssumption
  <2> QED BY <2>1, ImageSmall
<1>6. IsFiniteSet({scanout}) /\ Cardinality({scanout}) <= 1
  <2>1. IsFiniteSet({scanout}) /\ Cardinality({scanout}) = 1
    BY FS_Singleton
  <2> QED BY <2>1
<1> HIDE DEF A, B, C, D, E, np, nb, nk, nc
<1>7. IsFiniteSet(U) /\ Cardinality(U) <= np + nb + nk + nk + nc + 1
  <2>1. IsFiniteSet(A \cup B) /\ Cardinality(A \cup B) <= np + nb
    BY <1>3, <1>4, UnionSmall
  <2>2. IsFiniteSet((A \cup B) \cup C) /\ Cardinality((A \cup B) \cup C) <= np + nb + nk
    <3>1. np + nb \in Nat
      BY <1>3, <1>4
    <3> QED BY <1>4, <2>1, <3>1, UnionSmall
  <2>3. /\ IsFiniteSet(((A \cup B) \cup C) \cup D)
        /\ Cardinality(((A \cup B) \cup C) \cup D) <= np + nb + nk + nk
    <3>1. np + nb + nk \in Nat
      BY <1>3, <1>4
    <3> QED BY <1>4, <2>2, <3>1, UnionSmall
  <2>4. /\ IsFiniteSet((((A \cup B) \cup C) \cup D) \cup E)
        /\ Cardinality((((A \cup B) \cup C) \cup D) \cup E) <= np + nb + nk + nk + nc
    <3>1. np + nb + nk + nk \in Nat
      BY <1>3, <1>4
    <3> QED BY <1>5, <2>3, <3>1, UnionSmall
  <2>5. np + nb + nk + nk + nc \in Nat
    BY <1>3, <1>4, <1>5
  <2> QED BY <1>6, <2>4, <2>5, UnionSmall
<1> HIDE DEF U
<1>8. Cardinality(Bo) <= Cardinality(U) /\ Cardinality(U) \in Nat /\ Cardinality(Bo) \in Nat
  BY <1>2, <1>7, MemAssumption, FS_Subset, FS_CardinalityType
<1>9. Cardinality(Bo) > np + nb + 2 * nk + nc + 1
  BY DEF PlentyOfBos, np, nb, nk, nc
<1> QED BY <1>3, <1>4, <1>5, <1>7, <1>8, <1>9

\* So with that many bos the memory is safe in every state.
THEOREM MemorySafetyOfPlenty ==
  ASSUME NumBufs = 2, "name" \notin Env, PlentyOfBos
  PROVE  Spec => [](BoLeft /\ MemSafe)
<1> DEFINE UI == IInv /\ UsersInv
<1>1. Init => MemSafe
  BY InitMem
<1>2. UI /\ MemSafe => BoLeft
  BY OneLeft DEF IInv
<1>3. UI /\ BoLeft /\ MemSafe /\ [Next]_vars => MemSafe'
  BY MemStep DEF IInv
<1>4. Spec => []UI
  BY UsersInvariance
<1> HIDE DEF UI
<1> QED BY <1>1, <1>2, <1>3, <1>4, PTL DEF Spec

-----------------------------------------------------------------------------
(* What the properties say follows from the invariant. *)

\* The bo of the screen pixmap, while the screen is there.
LEMMA RootSafe == MemSafe => RootIsScanout
BY DEF MemSafe, MemInv, ScreenSound, RootIsScanout, W

\* The pointers to a pixmap, one for each buffer around it.
LEMMA SlotsCounted ==
  ASSUME NumBufs = 2, MemSafe, NEW p \in Pix
  PROVE  Cardinality(SlotsOf(p)) = Times(BufPixs(buf), p)
<1> DEFINE f == BufPixs(buf)
           A == {x \in Buf : f[x] = p}
           g == [x \in A |-> <<x, 0>>]
<1>1. Slots = {0}
  BY DEF Slots
<1>2. \A x \in Buf : buf[x].pix[0] = p => buf[x].ref > 0
  <2>1. p # NoPix
    BY MemAssumption
  <2>2. NoBufRec.pix[0] = NoPix
    BY <1>1 DEF NoBufRec
  <2>3. \A x \in Buf : buf[x].ref > 0 \/ buf[x] = NoBufRec
    BY DEF MemSafe, Sound, BufSound, W
  <2> QED BY <2>1, <2>2, <2>3
<1>3. SlotsOf(p) = {s \in Buf \X {0} : buf[s[1]].pix[0] = p}
  BY <1>1, <1>2 DEF SlotsOf
<1>4. g \in Bijection(A, SlotsOf(p))
  <2>1. \A x \in Buf : f[x] = buf[x].pix[0]
    BY DEF BufPixs
  <2>2. \A x \in A : g[x] \in SlotsOf(p)
    BY <1>3, <2>1
  <2>3. \A s \in SlotsOf(p) : s[1] \in A /\ g[s[1]] = s
    BY <1>3, <2>1
  <2>4. \A x, y \in A : g[x] = g[y] => x = y
    OBVIOUS
  <2> HIDE DEF A
  <2>5. g \in [A -> SlotsOf(p)]
    BY <2>2
  <2>6. IsInjective(g)
    BY <2>4 DEF IsInjective
  <2>7. \A s \in SlotsOf(p) : \E x \in A : g[x] = s
    BY <2>3
  <2> HIDE DEF g
  <2> QED BY <2>5, <2>6, <2>7 DEF Bijection, Injection, Surjection
<1>5. IsFiniteSet(A)
  BY HolderDomains, FS_Subset
<1> HIDE DEF g
<1>6. Cardinality(SlotsOf(p)) = Cardinality(A)
  BY <1>4, <1>5, FS_Bijection DEF ExistsBijection
<1>7. DOMAIN f = Buf
  BY HolderDomains
<1> QED BY <1>6, <1>7 DEF Times

\* The two counts of a pixmap.
LEMMA PixmapsSafe ==
  ASSUME NumBufs = 2, TypeInv, MemSafe
  PROVE  PixmapsCountBuffers
<1> SUFFICES ASSUME NEW p \in Pix
             PROVE  /\ mem.ext[p] = Cardinality(SlotsOf(p))
                    /\ mem.pref[p] = mem.ext[p]
                         + (IF p = Root THEN 1
                            ELSE Cardinality({d \in Draw : win[d] = p}))
  BY DEF PixmapsCountBuffers
<1>1. /\ mem.ext[p] = Times(BufPixs(buf), p)
      /\ mem.pref[p] = mem.ext[p] + Windows(win, p)
  BY DEF MemSafe, Sound, PixCounted, W
<1>2. Times(win, p) = Cardinality({d \in Draw : win[d] = p})
  <2>1. DOMAIN win = Draw
    BY DEF TypeInv, TypeOK
  <2> QED BY <2>1 DEF Times
<1> QED BY <1>1, <1>2, SlotsCounted DEF Windows

\* The holders of a bo.
LEMMA RefsSafe ==
  ASSUME TypeInv, UsersInv, MemSafe
  PROVE  RefsCountHolders
<1> SUFFICES ASSUME NEW b \in Bo
             PROVE  mem.ref[b] = Holders(b)
  BY DEF RefsCountHolders
<1>1. mem.ref[b] = Held(mem, buf, cmd, scanout, b)
  BY DEF MemSafe, Sound, BosCounted, W
<1>2. b # NoBo
  BY MemAssumption
<1>3. Times(mem.pbo, b) = Cardinality({p \in Pix : mem.pref[p] > 0 /\ mem.pbo[p] = b})
  <2>1. DOMAIN mem.pbo = Pix
    BY MemFields DEF TypeInv, TypeOK
  <2>2. \A p \in Pix : mem.pref[p] > 0 \/ mem.pbo[p] = NoBo
    BY DEF MemSafe, Sound, PixSound, W
  <2>3. {p \in DOMAIN mem.pbo : mem.pbo[p] = b}
          = {p \in Pix : mem.pref[p] > 0 /\ mem.pbo[p] = b}
    BY <1>2, <2>1, <2>2
  <2> QED BY <2>3 DEF Times
<1>4. Times(BufBos(buf), b) = Cardinality({x \in Buf : buf[x].ref > 0 /\ buf[x].bo = b})
  <2>1. \A x \in Buf : buf[x].ref > 0 \/ buf[x].bo = NoBo
    BY DEF MemSafe, Sound, BufSound, NoBufRec, W
  <2>2. {x \in DOMAIN BufBos(buf) : BufBos(buf)[x] = b}
          = {x \in Buf : buf[x].ref > 0 /\ buf[x].bo = b}
    BY <1>2, <2>1 DEF BufBos
  <2> QED BY <2>2 DEF Times
<1>5. /\ Times(OldSrcs(cmd), b) = Cardinality({k \in Live : cmd[k].oldSrc = b})
      /\ Times(OldDsts(cmd), b) = Cardinality({k \in Live : cmd[k].oldDst = b})
  <2>1. \A k \in Cmd \ Live : cmd[k].oldSrc = NoBo /\ cmd[k].oldDst = NoBo
    BY DEF UsersInv, DeadClear, Live, NoCmdRec
  <2>2. /\ {k \in DOMAIN OldSrcs(cmd) : OldSrcs(cmd)[k] = b}
             = {k \in Live : cmd[k].oldSrc = b}
        /\ {k \in DOMAIN OldDsts(cmd) : OldDsts(cmd)[k] = b}
             = {k \in Live : cmd[k].oldDst = b}
    BY <1>2, <2>1 DEF OldSrcs, OldDsts, Live
  <2> QED BY <2>2 DEF Times
<1>6. Is(scanout, b) = IF scanout = b THEN 1 ELSE 0
  BY DEF Is
<1> QED BY <1>1, <1>3, <1>4, <1>5, <1>6 DEF Held, Holders

-----------------------------------------------------------------------------
(* The properties *)

\* No assert() of armsoc_dumb.c, armsoc_dri2.c and drmmode_display.c fails: no
\* bo is touched that is gone, no fb is added twice or removed when there is
\* none, no pixmap loses an external access it does not have.
THEOREM NoAssertionFails ==
  ASSUME NumBufs = 2, "name" \notin Env
  PROVE  Spec /\ []BoLeft => []AssertionsHold
<1>1. MemSafe => AssertionsHold
  BY DEF MemSafe, Sound, AssertionsHold, W
<1> QED BY <1>1, MemorySafety, PTL

\* The reference count of a bo is the number of its holders, so no bo is freed
\* while a pixmap, a DRI2 buffer, a swap in flight or the screen still has it,
\* and none is leaked.
THEOREM BoRefsCorrect ==
  ASSUME NumBufs = 2, "name" \notin Env
  PROVE  Spec /\ []BoLeft => []RefsCountHolders
<1> DEFINE UI == IInv /\ UsersInv
<1>1. UI /\ MemSafe => RefsCountHolders
  BY RefsSafe DEF IInv
<1>2. Spec => []UI
  BY UsersInvariance
<1> HIDE DEF UI
<1> QED BY <1>1, <1>2, MemorySafety, PTL

\* A DRI2 buffer keeps its pixmap alive, and counts as one external access to
\* it; windows and buffers are all that keep a pixmap.
THEOREM PixmapRefsCorrect ==
  ASSUME NumBufs = 2, "name" \notin Env
  PROVE  Spec /\ []BoLeft => []PixmapsCountBuffers
<1>1. IInv /\ MemSafe => PixmapsCountBuffers
  BY PixmapsSafe DEF IInv
<1> QED BY <1>1, Invariance, MemorySafety, PTL

\* The screen pixmap is wrapped around the bo that the driver scans out.
THEOREM RootShown ==
  ASSUME NumBufs = 2, "name" \notin Env
  PROVE  Spec /\ []BoLeft => []RootIsScanout
<1>1. MemSafe => RootIsScanout
  BY RootSafe
<1> QED BY <1>1, MemorySafety, PTL

\* All this for constants alone: the bos suffice if there are more than there
\* can be holders and CRTCs to show them.
THEOREM SafeWithPlenty ==
  ASSUME NumBufs = 2, "name" \notin Env, PlentyOfBos
  PROVE  Spec => [](/\ AssertionsHold /\ RefsCountHolders
                    /\ PixmapsCountBuffers /\ RootIsScanout)
<1>1. Spec => []BoLeft
  BY MemorySafetyOfPlenty, PTL
<1> QED BY <1>1, NoAssertionFails, BoRefsCorrect, PixmapRefsCorrect, RootShown, PTL
=============================================================================
