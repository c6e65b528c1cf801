--------------------------- MODULE Dri2UsersProofs ---------------------------
(***************************************************************************)
(* Theorems about the counts of Dri2Swap that every instance keeps: the    *)
(* reference count of a DRI2 buffer and the core's count of swaps in       *)
(* flight.                                                                 *)
(*                                                                         *)
(* A count is compared with how often an address occurs as a value of a    *)
(* function (Times): the backs and fronts of the windows, the sources and  *)
(* targets of the commands. An operation changes such a function at one    *)
(* argument, so what it does to a count is arithmetic (TimesUpdate).       *)
(***************************************************************************)
EXTENDS Dri2SwapProofs

Is(x, y) == IF x = y THEN 1 ELSE 0

\* How often v is a value of f.
Times(f, v) == Cardinality({x \in DOMAIN f : f[x] = v})

\* A value of a function on a finite set occurs finitely often, and at least
\* once if it occurs.
LEMMA TimesType ==
  ASSUME NEW S, IsFiniteSet(S), NEW f, DOMAIN f = S, NEW v
  PROVE  /\ Times(f, v) \in Nat
         /\ Times(f, v) = 0 <=> \A x \in S : f[x] # v
<1> DEFINE F == {x \in S : f[x] = v}
<1>1. Times(f, v) = Cardinality(F) /\ IsFiniteSet(F)
  BY FS_Subset DEF Times
<1>2. F = {} <=> \A x \in S : f[x] # v
  OBVIOUS
<1> HIDE DEF F
<1> QED BY <1>1, <1>2, FS_CardinalityType, FS_EmptySet

\* Changing a function at one argument moves one occurrence.
LEMMA TimesUpdate ==
  ASSUME NEW S, IsFiniteSet(S), NEW f, DOMAIN f = S, NEW g, DOMAIN g = S,
         NEW a \in S, \A x \in S \ {a} : g[x] = f[x], NEW v
  PROVE  Times(g, v) = Times(f, v) + Is(g[a], v) - Is(f[a], v)
<1> DEFINE F == {x \in S : f[x] = v}
           G == {x \in S : g[x] = v}
<1>1. /\ Times(f, v) = Cardinality(F) /\ Times(g, v) = Cardinality(G)
      /\ IsFiniteSet(F) /\ IsFiniteSet(G)
      /\ Cardinality(F) \in Nat /\ Cardinality(G) \in Nat
  BY FS_Subset, FS_CardinalityType DEF Times
<1>2. CASE g[a] = v <=> f[a] = v
  <2>1. F = G
    BY <1>2
  <2> HIDE DEF F, G
  <2> QED BY <1>1, <1>2, <2>1 DEF Is
<1>3. CASE g[a] = v /\ f[a] # v
  <2>1. G = F \cup {a} /\ a \notin F
    BY <1>3
  <2> HIDE DEF F, G
  <2> QED BY <1>1, <1>3, <2>1, FS_AddElement DEF Is
<1>4. CASE g[a] # v /\ f[a] = v
  <2>1. G = F \ {a} /\ a \in F
    BY <1>4
  <2> HIDE DEF F, G
  <2> QED BY <1>1, <1>4, <2>1, FS_RemoveElement DEF Is
<1> QED BY <1>2, <1>3, <1>4

\* What occurs at two arguments occurs twice.
LEMMA TimesTwo ==
  ASSUME NEW S, IsFiniteSet(S), NEW f, DOMAIN f = S, NEW a \in S, NEW b \in S, a # b, f[a] = f[b]
  PROVE  Times(f, f[a]) >= 2
<1> DEFINE F == {x \in S : f[x] = f[a]}
<1>1. /\ Times(f, f[a]) = Cardinality(F) /\ IsFiniteSet(F)
      /\ a \in F /\ b \in F \ {a}
  BY FS_Subset DEF Times
<1> HIDE DEF F
<1>2. /\ IsFiniteSet(F \ {a}) /\ Cardinality(F \ {a}) = Cardinality(F) - 1
      /\ Cardinality(F) \in Nat
  BY <1>1, FS_RemoveElement, FS_CardinalityType
<1>3. Cardinality(F \ {a}) \in Nat /\ Cardinality(F \ {a}) # 0
  BY <1>1, <1>2, FS_CardinalityType, FS_EmptySet
<1> QED BY <1>1, <1>2, <1>3

-----------------------------------------------------------------------------
(* What the operations do to the references and the pixmaps of buffers. *)

\* No buffer gains or loses a reference.
SameRefs(w, v) == \A x \in Buf : v.buf[x].ref = w.buf[x].ref

\* CreateBufferResources fills the first slot and leaves the references alone.
LEMMA ResourcesForm ==
  ASSUME NEW w \in World, NEW d \in Draw, NEW r \in BufRec, NEW ch \in Choices
  PROVE  LET q == CreateBufferResources(w, d, r, ch).r
         IN  /\ q.ref = r.ref /\ q.att = r.att
             /\ \A i \in Slots \ {0} : q.pix[i] = r.pix[i]
<1> DEFINE res == CreateBufferResources(w, d, r, ch)
           p   == IF r.att = "front" THEN win[d] ELSE Pick(FreePix(w))
           r1  == [r EXCEPT !.pix[0] = p]
<1>1. /\ r1.ref = r.ref /\ r1.att = r.att
      /\ \A i \in Slots \ {0} : r1.pix[i] = r.pix[i]
  <2> DEFINE f == [r.pix EXCEPT ![0] = p]
  <2>1. \A i \in Slots \ {0} : f[i] = r.pix[i]
    BY BufFields
  <2>2. r1 = [r EXCEPT !.pix = f]
    OBVIOUS
  <2> HIDE DEF f, r1
  <2> QED BY <2>1, <2>2 DEF BufRec
<1>2. \/ res.r = r
      \/ res.r = r1
      \/ \E bo, t : res.r = [r1 EXCEPT !.name = bo, !.bo = bo, !.tried = t]
  BY DEF CreateBufferResources
<1>3. r1 \in [ref : {r.ref}, att : {r.att}, pix : {r1.pix}, cur : {r.cur},
              num : {r.num}, bo : {r.bo}, name : {r.name}, tried : {r.tried}]
  <2> HIDE DEF p
  <2> QED BY DEF BufRec
<1> HIDE DEF r1, res
<1> QED BY <1>1, <1>2, <1>3 DEF res

\* ARMSOCDRI2CreateBuffer gives a free buffer its first reference, or none.
LEMMA CreateBufferRefs ==
  ASSUME NEW w \in World, NEW d \in Draw, win[d] \in Pix,
         NEW att \in {"front", "back"}, NEW ch \in Choices
  PROVE  LET res == CreateBuffer(w, d, att, ch)
         IN  /\ \A x \in Buf : res.w.buf[x].ref = w.buf[x].ref + Is(res.b, x)
             /\ res.b \in Buf => w.buf[res.b].ref = 0
<1> DEFINE b   == Pick(FreeBuf(w))
           r   == [NoBufRec EXCEPT !.ref = 1, !.att = att, !.num = NumPixmaps(att)]
           q   == CreateBufferResources(w, d, r, ch).r
           res == CreateBuffer(w, d, att, ch)
<1>1. \/ res.b = NoBuf /\ res.w.buf = w.buf
      \/ /\ FreeBuf(w) # {} /\ res.b = b
         /\ res.w.buf = [w.buf EXCEPT ![b] = q]
  BY DEF CreateBuffer
<1>2. r \in BufRec /\ r.ref = 1 /\ \A i \in Slots : r.pix[i] = NoPix
  <2>1. NumPixmaps(att) \in 1 .. NumBufs - 1
    BY SwapAssumption DEF NumPixmaps
  <2>2. \A i \in Slots : NoBufRec.pix[i] = NoPix
    BY DEF NoBufRec
  <2> DEFINE r1 == [NoBufRec EXCEPT !.ref = 1]
             r2 == [r1 EXCEPT !.att = att]
  <2>3. r1 \in BufRec /\ r1.ref = 1 /\ r1.pix = NoBufRec.pix
    BY NoBufRecType DEF BufRec
  <2>4. r = [r2 EXCEPT !.num = NumPixmaps(att)]
    OBVIOUS
  <2> HIDE DEF r1
  <2>5. r2 \in BufRec /\ r2.ref = 1 /\ r2.pix = NoBufRec.pix
    BY <2>3 DEF BufRec
  <2> HIDE DEF r2, r
  <2>6. r \in BufRec /\ r.ref = 1 /\ r.pix = NoBufRec.pix
    BY <2>1, <2>4, <2>5 DEF BufRec
  <2> QED BY <2>2, <2>6
<1> HIDE DEF r
<1>3. q.ref = 1 /\ \A i \in Slots \ {0} : q.pix[i] = NoPix
  BY <1>2, ResourcesForm
<1> HIDE DEF q, res
<1>4. w.buf \in [Buf -> BufRec] /\ \A x \in Buf : w.buf[x].ref \in Int
  BY WorldFields, BufFields
<1>5. CASE res.b = NoBuf /\ res.w.buf = w.buf
  <2>1. \A x \in Buf : Is(res.b, x) = 0
    BY <1>5, SwapAssumption DEF Is
  <2> QED BY <1>4, <1>5, <2>1, SwapAssumption DEF res
<1>6. CASE /\ FreeBuf(w) # {} /\ res.b = b
           /\ res.w.buf = [w.buf EXCEPT ![b] = q]
  <2>1. b \in Buf /\ w.buf[b].ref = 0
    BY <1>6, PickIn DEF FreeBuf
  <2> HIDE DEF b
  <2>2. \A x \in Buf : res.w.buf[x] = IF x = b THEN q ELSE w.buf[x]
    BY <1>4, <1>6
  <2> QED BY <1>3, <1>4, <1>6, <2>1, <2>2 DEF Is, res
<1> QED BY <1>1, <1>5, <1>6

\* ARMSOCDRI2DestroyBuffer takes one reference from a buffer that has some.
LEMMA DestroyBufferRefs ==
  ASSUME NEW w \in World, NEW b \in Buf \cup {NoBuf},
         b \in Buf => w.buf[b].ref >= 1
  PROVE  LET v == DestroyBuffer(w, b)
         IN  \A x \in Buf : v.buf[x].ref = w.buf[x].ref - Is(b, x)
<1> DEFINE r == [w.buf[b] EXCEPT !.ref = @ - 1]
           q == IF w.buf[b].ref > 1 THEN r ELSE NoBufRec
           v == DestroyBuffer(w, b)
<1>1. w.buf \in [Buf -> BufRec] /\ \A x \in Buf : w.buf[x].ref \in Int
  BY WorldFields, BufFields
<1>2. CASE b = NoBuf
  <2>1. v = w /\ \A x \in Buf : Is(b, x) = 0
    BY <1>2, SwapAssumption DEF Is, DestroyBuffer
  <2> QED BY <1>1, <2>1
<1>3. CASE b \in Buf
  <2>1. v.buf = [w.buf EXCEPT ![b] = q]
    BY <1>3, SwapAssumption DEF DestroyBuffer
  <2>2. /\ q.ref = w.buf[b].ref - 1
        /\ \A i \in Slots : q.pix[i] \in {w.buf[b].pix[i], NoPix}
    <3>1. w.buf[b] \in BufRec
      BY <1>1, <1>3
    <3>2. r.ref = w.buf[b].ref - 1 /\ r.pix = w.buf[b].pix
      BY <3>1 DEF BufRec
    <3>3. NoBufRec.ref = 0 /\ \A i \in Slots : NoBufRec.pix[i] = NoPix
      BY DEF NoBufRec
    <3>4. w.buf[b].ref > 1 \/ w.buf[b].ref = 1
      BY <1>1, <1>3
    <3> HIDE DEF r
    <3> QED BY <1>1, <1>3, <3>2, <3>3, <3>4
  <2> HIDE DEF q, v
  <2>3. \A x \in Buf : v.buf[x] = IF x = b THEN q ELSE w.buf[x]
    BY <1>1, <2>1
  <2> QED BY <1>1, <1>3, <2>2, <2>3 DEF Is, v
<1> QED BY <1>2, <1>3

\* ARMSOCDRI2ReuseBufferNotify makes a buffer anew in its place.
LEMMA ReuseBufferRefs ==
  ASSUME NEW w \in World, NEW d \in Draw, win[d] \in Pix, NEW b \in Buf,
         NEW ch \in Choices
  PROVE  LET v == ReuseBufferNotify(w, d, b, ch)
         IN  SameRefs(w, v)
<1> DEFINE r   == w.buf[b]
           bo  == PixmapBo(w.mem, r.pix[0])
           up  == CanFlip(d) /\ ~r.tried /\ ~w.mem.fb[bo]
           down == ~CanFlip(d) /\ w.mem.fb[bo]
           m0  == IF down THEN RmFb(w.mem, bo) ELSE w.mem
           m1  == DestroyBufferResources(m0, r)
           r1  == [r EXCEPT !.tried = @ /\ ~down]
           w1  == [w EXCEPT !.mem = m1]
           q   == CreateBufferResources(w1, d, r1, ch).r
           v   == ReuseBufferNotify(w, d, b, ch)
           m   == CreateBufferResources(w1, d, r1, ch).mem
           f   == [w.buf EXCEPT ![b] = q]
<1>1. v = w \/ v.buf = f
  <2>1. v = w \/ v = [w EXCEPT !.mem = m, !.buf = f]
    BY DEF ReuseBufferNotify
  <2> HIDE DEF v, m, f
  <2> QED BY <2>1 DEF World
<1>2. w.buf \in [Buf -> BufRec] /\ r \in BufRec
  BY WorldFields
<1>3. /\ r1 \in BufRec /\ r1.ref = r.ref /\ r1.pix = r.pix
  <2> HIDE DEF down
  <2> QED BY <1>2 DEF BufRec
<1>4. w1 \in World
  <2>1. m0 \in Mem
    BY WorldFields, RmFbType
  <2> HIDE DEF m0
  <2>2. m1 \in Mem
    BY <1>2, <2>1, DestroyBufferResourcesType
  <2> HIDE DEF m1
  <2> QED BY <2>2, SetMem
<1> HIDE DEF w1, r1
<1>5. q.ref = r.ref /\ \A i \in Slots \ {0} : q.pix[i] = r.pix[i]
  BY <1>3, <1>4, ResourcesForm
<1> HIDE DEF q, v
<1> QED BY <1>1, <1>2, <1>5 DEF SameRefs, v

\* exchangebufs leaves references and pixmaps of the buffers alone.
LEMMA ExchangeBufsRefs ==
  ASSUME NEW w \in World, NEW d \in Draw, NEW a \in Buf, NEW b \in Buf
  PROVE  LET v == ExchangeBufs(w, d, a, b)
         IN  SameRefs(w, v)
<1> DEFINE ra == [w.buf[a] EXCEPT !.name = w.buf[b].name]
           f == [w.buf EXCEPT ![a] = ra]
           rb == [f[b] EXCEPT !.name = w.buf[a].name]
           g == [f EXCEPT ![b] = rb]
           v == ExchangeBufs(w, d, a, b)
<1>1. v.buf = g
  BY DEF ExchangeBufs
<1>2. w.buf \in [Buf -> BufRec]
  BY WorldFields
<1>3. ra \in BufRec /\ ra.ref = w.buf[a].ref /\ ra.pix = w.buf[a].pix
  BY <1>2, BufFields DEF BufRec
<1> HIDE DEF ra
<1>4. /\ f \in [Buf -> BufRec]
      /\ \A x \in Buf : f[x].ref = w.buf[x].ref /\ f[x].pix = w.buf[x].pix
  BY <1>2, <1>3
<1> HIDE DEF f
<1>5. rb \in BufRec /\ rb.ref = f[b].ref /\ rb.pix = f[b].pix
  BY <1>2, <1>4, BufFields DEF BufRec
<1> HIDE DEF rb
<1>6. \A x \in Buf : g[x].ref = w.buf[x].ref /\ g[x].pix = w.buf[x].pix
  BY <1>4, <1>5
<1> HIDE DEF g, v
<1> QED BY <1>1, <1>6 DEF SameRefs, v

\* nextBuffer leaves the references of the buffers alone.
LEMMA NextBufferRefs ==
  ASSUME NEW w \in World, NEW d \in Draw, NEW b \in Buf, NEW ch \in Choices
  PROVE  LET v == NextBuffer(w, d, b, ch)
         IN  SameRefs(w, v)
<1> DEFINE r == w.buf[b]
           n == (r.cur + 1) % r.num
           p == Pick(FreePix(w))
           bo == Pick(FreeBo(w))
           old == PixmapBo(w.mem, r.pix[n])
           r1 == [r EXCEPT !.cur = n, !.name = old]
           r2 == [r EXCEPT !.cur = n, !.pix[n] = p, !.name = bo]
           r3 == [r EXCEPT !.cur = IF n > 0 THEN n - 1 ELSE 0,
                           !.num = IF n > 0 THEN n ELSE 1]
           v == NextBuffer(w, d, b, ch)
<1>1. v.buf = w.buf \/ \E q \in {r1, r2, r3} : v.buf = [w.buf EXCEPT ![b] = q]
  <2> DEFINE ok1 == w.mem.ok /\ old # NoBo
             ok3 == w.mem.ok /\ n > 0
             m2  == AddFb(Register(CreatePix(w, d), p), bo)
             w1  == [w EXCEPT !.buf[b] = r1, !.mem.ok = ok1]
             w2  == [w EXCEPT !.buf[b] = r2, !.mem = m2]
             w3  == [w EXCEPT !.buf[b] = r3, !.mem.ok = ok3]
  <2>1. v \in {w, w1, w2, w3}
    BY DEF NextBuffer
  <2> HIDE DEF r1, r2, r3, ok1, ok3, m2, v
  <2>2. /\ w1.buf = [w.buf EXCEPT ![b] = r1]
        /\ w2.buf = [w.buf EXCEPT ![b] = r2]
        /\ w3.buf = [w.buf EXCEPT ![b] = r3]
    BY DEF World
  <2> HIDE DEF w1, w2, w3
  <2> QED BY <2>1, <2>2
<1>2. w.buf \in [Buf -> BufRec] /\ r \in BufRec
  BY WorldFields
<1>3. r1.ref = r.ref /\ r2.ref = r.ref /\ r3.ref = r.ref
  <2> HIDE DEF r, n, p, bo, old
  <2> QED BY <1>2 DEF BufRec
<1> HIDE DEF r1, r2, r3, v
<1>4. CASE v.buf = w.buf
  BY <1>4 DEF SameRefs, v
<1>5. ASSUME NEW q \in {r1, r2, r3}, v.buf = [w.buf EXCEPT ![b] = q]
      PROVE  SameRefs(w, v)
  <2>1. q.ref = w.buf[b].ref
    BY <1>3
  <2>2. \A x \in Buf : v.buf[x] = IF x = b THEN q ELSE w.buf[x]
    BY <1>2, <1>5
  <2> QED BY <2>1, <2>2 DEF SameRefs
<1> QED BY <1>1, <1>4, <1>5 DEF v

\* drmmode_set_scanout_bo leaves the buffers alone.
LEMMA SetScanoutBufs ==
  ASSUME NEW w \in World, NEW b
  PROVE  SetScanoutBo(w, b).buf = w.buf
BY DEF SetScanoutBo, World

\* The end of ARMSOCDRI2SwapComplete takes the references of the command from
\* its two buffers.
LEMMA ReleaseRefs ==
  ASSUME NEW w \in World, NEW k \in Cmd,
         w.cmd[k].src \in Buf, w.cmd[k].dst \in Buf,
         \A x \in Buf :
           w.buf[x].ref >= Is(w.cmd[k].src, x) + Is(w.cmd[k].dst, x)
  PROVE  LET v == Release(w, k)
         IN  \A x \in Buf :
                  v.buf[x].ref = w.buf[x].ref - Is(w.cmd[k].src, x)
                                              - Is(w.cmd[k].dst, x)
<1> DEFINE s  == w.cmd[k].src
           t  == w.cmd[k].dst
           w0 == DestroyBuffer(w, s)
           w1 == DestroyBuffer(w0, t)
           v  == Release(w, k)
<1>1. v.buf = w1.buf
  <2>1. w1 \in World
    <3>1. w0 \in World
      BY DestroyBufferType
    <3> HIDE DEF w0
    <3> QED BY <3>1, DestroyBufferType
  <2> HIDE DEF w1
  <2> QED BY <2>1 DEF Release, World, w1
<1>2. /\ \A x \in Buf : w.buf[x].ref \in Int
      /\ \A x \in Buf : w0.buf[x].ref \in Int
      /\ w0 \in World
  <2>1. w0 \in World
    BY DestroyBufferType
  <2> HIDE DEF w0
  <2> QED BY <2>1, WorldFields, BufFields
<1>3. w.buf[s].ref >= 1
  BY <1>2 DEF Is
<1>4. \A x \in Buf : w0.buf[x].ref = w.buf[x].ref - Is(s, x)
  BY <1>3, DestroyBufferRefs
<1> HIDE DEF w0
<1>5. w0.buf[t].ref >= 1
  BY <1>2, <1>4 DEF Is
<1>6. \A x \in Buf : w1.buf[x].ref = w0.buf[x].ref - Is(t, x)
  BY <1>2, <1>5, DestroyBufferRefs
<1> HIDE DEF w1, v
<1>8. \A x \in Buf : v.buf[x].ref = w.buf[x].ref - Is(s, x) - Is(t, x)
  BY <1>1, <1>4, <1>6
<1> QED BY <1>8 DEF v

\* The count of a window's swaps moves by i, those of the others stay.
CountMoves(w, v, d, i) ==
  \A e \in Draw : v.priv[e].swaps = w.priv[e].swaps + (IF e = d THEN i ELSE 0)

\* The core counts a swap in or out, and nothing else of the world changes.
LEMMA CountSwap ==
  ASSUME NEW w \in World, NEW d \in Draw, NEW i \in Int, NEW n,
         n = w.priv[d].swaps + i
  PROVE  LET v == [w EXCEPT !.priv[d].swaps = n]
         IN  /\ v \in World
             /\ v.cmd = w.cmd /\ v.buf = w.buf
             /\ SameBuffers(w, v)
             /\ CountMoves(w, v, d, i)
<1> DEFINE q == [w.priv[d] EXCEPT !.swaps = n]
           f == [w.priv EXCEPT ![d] = q]
           v == [w EXCEPT !.priv[d].swaps = n]
<1>1. w.priv \in [Draw -> PrivRec] /\ \A e \in Draw : w.priv[e].swaps \in Int
  BY WorldFields, PrivFields
<1>2. v.priv = f
  BY DEF World
<1>3. n \in Int
  BY <1>1
<1>4. /\ v \in World /\ v.cmd = w.cmd /\ v.buf = w.buf
      /\ SameBuffers(w, v)
  BY <1>3, CountType
<1>5. q.swaps = n
  <2>1. w.priv[d] \in PrivRec
    BY <1>1
  <2> QED BY <2>1, <1>3 DEF PrivRec
<1> HIDE DEF q, v
<1>6. \A e \in Draw : v.priv[e] = IF e = d THEN q ELSE w.priv[e]
  BY <1>1, <1>2
<1>7. CountMoves(w, v, d, i)
  BY <1>1, <1>5, <1>6 DEF CountMoves
<1> QED BY <1>4, <1>7 DEF v

\* ARMSOCDRI2SwapComplete: a command that waits for no further flip gives up
\* its references, and the core counts the swap out if it succeeded.
LEMMA SwapCompleteRefs ==
  ASSUME NEW w \in World, NEW k \in Cmd, NEW ch \in Choices,
         win \in [Draw -> Pix \cup {NoPix}],
         w.cmd[k].draw \in Draw, w.cmd[k].src \in Buf, w.cmd[k].dst \in Buf,
         \A x \in Buf :
           w.buf[x].ref >= Is(w.cmd[k].src, x) + Is(w.cmd[k].dst, x)
  PROVE  LET v == SwapComplete(w, k, ch)
             c == w.cmd[k]
         IN  /\ IF c.count > 1
                THEN v.buf = w.buf /\ v.priv = w.priv
                ELSE /\ \A x \in Buf :
                          v.buf[x].ref = w.buf[x].ref - Is(c.src, x) - Is(c.dst, x)
                     /\ CountMoves(w, v, c.draw, IF Succeeded(c) THEN -1 ELSE 0)
<1> DEFINE c     == w.cmd[k]
           d     == c.draw
           found == Succeeded(c)
           flip  == found /\ c.type = "flip" /\ ~c.fake
           x1 == ExchangeBufs(w, d, c.src, c.dst)
           x2 == NextBuffer(x1, d, c.src, ch)
           w1 == IF flip THEN x2 ELSE w
           y1 == [w1 EXCEPT !.priv[d].swaps = @ - 1]
           w2 == IF found THEN y1 ELSE w1
           w3 == IF flip THEN SetScanoutBo(w2, BoFromBuffer(w2, c.dst)) ELSE w2
           v  == SwapComplete(w, k, ch)
<1>1. CASE c.count > 1
  <2>1. v = [w EXCEPT !.cmd[k].count = @ - 1]
    BY <1>1 DEF SwapComplete
  <2>2. v.buf = w.buf /\ v.priv = w.priv
    BY <2>1 DEF World
  <2> HIDE DEF v
  <2> QED BY <1>1, <2>2 DEF v
<1>2. CASE ~(c.count > 1)
  <2>1. found => win[d] \in Pix
    BY DEF Succeeded
  <2> HIDE DEF found
  <2>2. /\ x1 \in World /\ SameSwaps(w, x1)
        /\ SameRefs(w, x1)
    BY ExchangeBufsType, ExchangeBufsRefs
  <2>3. found => /\ x2 \in World /\ SameSwaps(x1, x2)
                 /\ SameRefs(x1, x2)
    <3> HIDE DEF x1
    <3> QED BY <2>1, <2>2, NextBufferType, NextBufferRefs
  <2>4. /\ w1 \in World /\ SameSwaps(w, w1) /\ SameRefs(w, w1)
    <3> HIDE DEF x1, x2
    <3>1. CASE flip
      BY <2>2, <2>3, <3>1 DEF SameSwaps, SameRefs
    <3>2. CASE ~flip
      BY <3>2 DEF SameSwaps, SameRefs
    <3> QED BY <3>1, <3>2
  <2> HIDE DEF w1
  <2>5. /\ y1 \in World /\ y1.cmd = w1.cmd /\ y1.buf = w1.buf
        /\ CountMoves(w1, y1, d, -1)
    <3>1. w1.priv[d].swaps - 1 = w1.priv[d].swaps + (-1)
      BY <2>4, WorldFields, PrivFields
    <3> QED BY <2>4, <3>1, CountSwap
  <2> HIDE DEF y1
  <2>6. /\ w2 \in World /\ w2.cmd = w.cmd /\ w2.buf = w1.buf
        /\ CountMoves(w, w2, d, IF found THEN -1 ELSE 0)
    <3>1. \A e \in Draw : w.priv[e].swaps \in Int
      BY WorldFields, PrivFields
    <3>2. w1.priv = w.priv /\ w1.cmd = w.cmd
      BY <2>4 DEF SameSwaps
    <3> QED BY <2>4, <2>5, <3>1, <3>2 DEF CountMoves
  <2> HIDE DEF w2
  <2>7. w3 \in World /\ w3.cmd = w2.cmd /\ w3.buf = w2.buf /\ w3.priv = w2.priv
    BY <2>6, BoFromBufferType, SetScanoutBoType, SetScanoutBufs DEF SameSwaps
  <2>8. v = Release(w3, k)
    BY <1>2 DEF SwapComplete, w1, y1, w2, found
  <2> HIDE DEF w3
  <2>9. w3.cmd = w.cmd /\ SameRefs(w, w3)
    BY <2>4, <2>6, <2>7 DEF SameRefs
  <2>10. \A x \in Buf : w3.buf[x].ref >= Is(w3.cmd[k].src, x) + Is(w3.cmd[k].dst, x)
    BY <2>9 DEF SameRefs
  <2>11. /\ \A x \in Buf : Release(w3, k).buf[x].ref
                = w3.buf[x].ref - Is(c.src, x) - Is(c.dst, x)
    BY <2>7, <2>9, <2>10, ReleaseRefs
  <2>12. Release(w3, k).priv = w3.priv
    BY <2>7, ReleaseType
  <2> HIDE DEF v
  <2>13. \A x \in Buf : v.buf[x].ref = w.buf[x].ref - Is(c.src, x) - Is(c.dst, x)
    BY <2>8, <2>9, <2>11 DEF SameRefs
  <2>14. CountMoves(w, v, d, IF found THEN -1 ELSE 0)
    BY <2>6, <2>7, <2>8, <2>12 DEF CountMoves
  <2> QED BY <1>2, <2>13, <2>14 DEF found, v
<1> QED BY <1>1, <1>2

\* ARMSOCDRI2ExecuteSwap gives up the references and counts the swap out in the
\* same way.
LEMMA ExecuteSwapRefs ==
  ASSUME NEW w \in World, NEW k \in Cmd, NEW ch \in Choices,
         win \in [Draw -> Pix \cup {NoPix}],
         w.cmd[k].draw \in Draw, w.cmd[k].src \in Buf, w.cmd[k].dst \in Buf,
         w.cmd[k].count <= 1, w.cmd[k].type = "none",
         \A x \in Buf :
           w.buf[x].ref >= Is(w.cmd[k].src, x) + Is(w.cmd[k].dst, x)
  PROVE  LET v == ExecuteSwap(w, k, ch)
             c == w.cmd[k]
         IN  /\ \A x \in Buf :
                  v.buf[x].ref = w.buf[x].ref - Is(c.src, x) - Is(c.dst, x)
             /\ CountMoves(w, v, c.draw, IF Succeeded(c) THEN -1 ELSE 0)
<1> DEFINE c == w.cmd[k]
           d == c.draw
           x == win[d] # NoPix /\ CanExchange(w, d, c.oldSrc, c.oldDst, ch)
           x1 == ExchangeBufs(w, d, c.src, c.dst)
           x2 == NextBuffer(x1, d, c.src, ch)
           w1 == IF x THEN x2 ELSE w
           t == IF win[d] = NoPix THEN c.type ELSE IF x THEN "exchange" ELSE "blit"
           q == [w1.cmd[k] EXCEPT !.type = t]
           f == [w1.cmd EXCEPT ![k] = q]
           w2 == [w1 EXCEPT !.cmd = f]
           v  == SwapComplete(w2, k, ch)
<1>1. ExecuteSwap(w, k, ch) = v
  BY DEF ExecuteSwap
<1>2. c \in CmdRec /\ t \in {"none", "blit", "exchange"}
  BY WorldFields, CmdFields
<1>3. x => win[d] \in Pix
  BY DEF CanExchange
<1> HIDE DEF x, t
<1>4. x1 \in World /\ SameSwaps(w, x1) /\ SameRefs(w, x1)
  BY ExchangeBufsType, ExchangeBufsRefs
<1>5. x => x2 \in World /\ SameSwaps(x1, x2) /\ SameRefs(x1, x2)
  <2> HIDE DEF x1
  <2> QED BY <1>3, <1>4, NextBufferType, NextBufferRefs
<1>6. w1 \in World /\ SameSwaps(w, w1) /\ SameRefs(w, w1)
  <2> HIDE DEF x1, x2
  <2> QED BY <1>4, <1>5 DEF SameSwaps, SameRefs
<1> HIDE DEF w1
<1>7. w1.cmd = w.cmd /\ w1.priv = w.priv
  BY <1>6 DEF SameSwaps
<1>8. /\ q \in CmdRec /\ q.draw = c.draw /\ q.src = c.src /\ q.dst = c.dst
      /\ q.count = c.count /\ q.fail = c.fail /\ q.type = t
  BY <1>2, <1>7 DEF CmdRec
<1> HIDE DEF q
<1>9. f \in [Cmd -> CmdRec] /\ f[k] = q
  BY <1>6, <1>8, WorldFields
<1> HIDE DEF f
<1>10. w2 \in World /\ w2.cmd[k] = q /\ w2.buf = w1.buf /\ w2.priv = w1.priv
  BY <1>6, <1>9 DEF World
<1> HIDE DEF w2
<1>11. Succeeded(q) <=> Succeeded(c)
  BY <1>8 DEF Succeeded
<1>12. ~(q.count > 1) /\ q.type # "flip"
  BY <1>2, <1>8, CmdFields
<1>13. \A y \in Buf : w2.buf[y].ref >= Is(w2.cmd[k].src, y) + Is(w2.cmd[k].dst, y)
  BY <1>6, <1>8, <1>10 DEF SameRefs
<1>14. /\ \A y \in Buf : v.buf[y].ref = w2.buf[y].ref - Is(c.src, y) - Is(c.dst, y)
       /\ CountMoves(w2, v, d, IF Succeeded(c) THEN -1 ELSE 0)
  <2>1. w2.cmd[k].draw \in Draw /\ w2.cmd[k].src \in Buf /\ w2.cmd[k].dst \in Buf
    BY <1>8, <1>10
  <2> HIDE DEF v, c
  <2>2. /\ \A y \in Buf : v.buf[y].ref = w2.buf[y].ref - Is(q.src, y) - Is(q.dst, y)
        /\ CountMoves(w2, v, q.draw, IF Succeeded(q) THEN -1 ELSE 0)
    BY <1>10, <1>12, <1>13, <2>1, SwapCompleteRefs DEF v
  <2> QED BY <1>8, <1>11, <2>2 DEF c
<1> HIDE DEF v
<1>15. \A y \in Buf : v.buf[y].ref = w.buf[y].ref - Is(c.src, y) - Is(c.dst, y)
  BY <1>6, <1>10, <1>14 DEF SameRefs
<1>16. CountMoves(w, v, d, IF Succeeded(c) THEN -1 ELSE 0)
  BY <1>7, <1>10, <1>14 DEF CountMoves
<1> QED BY <1>1, <1>15, <1>16

\* ARMSOCDRI2ReferenceBuffer adds a reference and nothing else.
LEMMA ReferenceBufferRefs ==
  ASSUME NEW w \in World, NEW b \in Buf
  PROVE  LET v == ReferenceBuffer(w, b)
         IN  \A x \in Buf : /\ v.buf[x].ref = w.buf[x].ref + Is(b, x)
                            /\ v.buf[x].pix = w.buf[x].pix
                            /\ v.buf[x].cur = w.buf[x].cur
<1> DEFINE r == [w.buf[b] EXCEPT !.ref = @ + 1]
           f == [w.buf EXCEPT ![b] = r]
           v == ReferenceBuffer(w, b)
<1>1. v.buf = f
  BY DEF ReferenceBuffer, World
<1>2. w.buf \in [Buf -> BufRec] /\ \A x \in Buf : w.buf[x].ref \in Int
  BY WorldFields, BufFields
<1>3. r.ref = w.buf[b].ref + 1 /\ r.pix = w.buf[b].pix /\ r.cur = w.buf[b].cur
  <2>1. w.buf[b] \in BufRec
    BY <1>2
  <2> QED BY <2>1 DEF BufRec
<1> HIDE DEF r, v
<1> QED BY <1>1, <1>2, <1>3 DEF Is, v

\* ARMSOCDRI2ScheduleSwap takes a reference to both buffers for the command,
\* which has not failed yet, and the core counts the swap.
LEMMA PrepareSwapRefs ==
  ASSUME NEW w \in World, NEW d \in Draw, NEW k \in Cmd,
         w.priv[d].back \in Buf, w.priv[d].front \in Buf
  PROVE  LET v == PrepareSwap(w, d, k)
             s == w.priv[d].back
             t == w.priv[d].front
         IN  /\ \A x \in Buf :
                  v.buf[x].ref = w.buf[x].ref + Is(s, x) + Is(t, x)
             /\ CountMoves(w, v, d, 1)
             /\ v.cmd[k].src = s /\ v.cmd[k].dst = t /\ v.cmd[k].draw = d
             /\ ~v.cmd[k].fail
<1> DEFINE s == w.priv[d].back
           t == w.priv[d].front
           sbo == BoFromBuffer(w, s)
           tbo == BoFromBuffer(w, t)
           ws == ReferenceBuffer(w, s)
           wt == ReferenceBuffer(ws, t)
           c == [NoCmdRec EXCEPT !.live = TRUE, !.draw = d, !.src = s, !.dst = t,
                                 !.oldSrc = sbo, !.oldDst = tbo]
           h == [wt.cmd EXCEPT ![k] = c]
           n == wt.priv[d].swaps + 1
           w1 == [wt EXCEPT !.priv[d].swaps = n]
           m == BoRef(BoRef(wt.mem, sbo), tbo)
           v == PrepareSwap(w, d, k)
<1>1. ws \in World /\ SameSwaps(w, ws)
  BY ReferenceBufferType
<1>2. \A x \in Buf : /\ ws.buf[x].ref = w.buf[x].ref + Is(s, x)
                     /\ ws.buf[x].pix = w.buf[x].pix
  BY ReferenceBufferRefs
<1>3. wt \in World /\ SameSwaps(ws, wt)
  <2> HIDE DEF ws
  <2> QED BY <1>1, ReferenceBufferType
<1>4. \A x \in Buf : /\ wt.buf[x].ref = ws.buf[x].ref + Is(t, x)
                     /\ wt.buf[x].pix = ws.buf[x].pix
  <2> HIDE DEF ws
  <2> QED BY <1>1, ReferenceBufferRefs
<1>5. v = [w1 EXCEPT !.pending = wt.pending + 1, !.mem = m, !.cmd = h]
  BY DEF PrepareSwap
<1> HIDE DEF ws, wt, s, t, sbo, tbo, v
<1>6. c.src = s /\ c.dst = t /\ c.draw = d /\ ~c.fail
  BY DEF NoCmdRec
<1> HIDE DEF m, c
<1>7. h[k] = c
  BY <1>3, WorldFields
<1> HIDE DEF h
<1>8. w1 \in World /\ w1.buf = wt.buf /\ CountMoves(wt, w1, d, 1)
  BY <1>3, CountSwap
<1> HIDE DEF w1
<1>9. v.cmd = h /\ v.priv = w1.priv /\ v.buf = w1.buf
  BY <1>5, <1>8 DEF World
<1>10. CountMoves(w, v, d, 1)
  BY <1>1, <1>3, <1>8, <1>9 DEF CountMoves, SameSwaps
<1>12. \A x \in Buf : v.buf[x].ref = w.buf[x].ref + Is(s, x) + Is(t, x)
  BY <1>2, <1>4, <1>8, <1>9
<1> QED BY <1>6, <1>7, <1>9, <1>10, <1>12 DEF s, t, v

\* drmmode_page_flip leaves buffers and counts alone; the command has failed if
\* a CRTC refused, and is fake if none is on.
LEMMA StartFlipRefs ==
  ASSUME NEW w \in World, NEW k \in Cmd, NEW S
  PROVE  LET v == StartFlip(w, k, S)
         IN  /\ v.buf = w.buf /\ v.priv = w.priv
             /\ v.cmd[k].fail = (S # crtcOn) /\ v.cmd[k].fake = (crtcOn = {})
             /\ v.cmd[k].type = "flip"
<1> DEFINE c == [w.cmd[k] EXCEPT !.type = "flip", !.fail = S # crtcOn,
                                 !.fake = crtcOn = {}, !.count = Cardinality(S)]
           f == [w.cmd EXCEPT ![k] = c]
           h == [x \in Crtc |-> IF x \in S THEN w.cmd[k].oldSrc ELSE w.hw[x]]
           v == StartFlip(w, k, S)
<1>1. v = [w EXCEPT !.cmd = f, !.hw = h]
  BY DEF StartFlip
<1>2. w.cmd[k] \in CmdRec
  BY WorldFields
<1>3. c.fail = (S # crtcOn) /\ c.fake = (crtcOn = {}) /\ c.type = "flip"
  BY <1>2 DEF CmdRec
<1> HIDE DEF c, h
<1>4. f[k] = c
  BY WorldFields
<1> HIDE DEF f, v
<1>5. v.buf = w.buf /\ v.priv = w.priv /\ v.cmd = f
  BY <1>1 DEF World
<1> QED BY <1>3, <1>4, <1>5 DEF v

\* drmmode_set_mode_major and drmmode_xf86crtc_resize leave the buffers and the
\* counts of the core alone.
LEMMA ResizeScreenRefs ==
  ASSUME NEW w \in World, NEW s \in Size, NEW ch \in Choices
  PROVE  LET v == ResizeScreen(w, s, ch)
         IN  /\ v.buf = w.buf
             /\ \A d \in Draw : v.priv[d].swaps = w.priv[d].swaps
<1> DEFINE res == ResizeScanout(w, s, ch)
           x == res.w
           m == WrapScanout(x.mem, Root, x.scanout)
           f == [d \in Draw |-> [w.priv[d] EXCEPT !.fresh = @ /\ win[d] # Root]]
           w1 == [x EXCEPT !.mem = m, !.priv = f]
           v == ResizeScreen(w, s, ch)
<1>1. x \in World /\ SameSwaps(w, x)
  BY ResizeScanoutType
<1>2. x.buf = w.buf
  <2> DEFINE w0 == [w EXCEPT !.mem = AddFb(NewBo(w.mem, Pick(FreeBo(w)), s),
                                           Pick(FreeBo(w)))]
             y == SetScanoutBo(w0, Pick(FreeBo(w)))
  <2>1. \/ x = w
        \/ \E n : x = [y EXCEPT !.mem = n]
        \/ \E n : x = [w EXCEPT !.mem = n]
    BY DEF ResizeScanout
  <2>2. y.buf = w.buf
    BY DEF SetScanoutBo, World
  <2>3. \A n : [y EXCEPT !.mem = n].buf = y.buf
    BY DEF SetScanoutBo, World
  <2> HIDE DEF x, y
  <2> QED BY <2>1, <2>2, <2>3 DEF World
<1>3. v = IF res.ok THEN SetMode(w1, crtcOn, ch) ELSE x
  BY DEF ResizeScreen
<1> HIDE DEF x
<1>4. \A d \in Draw : f[d].swaps = w.priv[d].swaps
  BY WorldFields DEF PrivRec
<1> HIDE DEF f, m
<1>5. w1.buf = x.buf /\ w1.priv = f
  BY <1>1 DEF World
<1>6. SetMode(w1, crtcOn, ch).buf = w1.buf /\ SetMode(w1, crtcOn, ch).priv = w1.priv
  BY <1>1 DEF SetMode, World
<1> HIDE DEF v, w1
<1> QED BY <1>1, <1>2, <1>3, <1>4, <1>5, <1>6 DEF SameSwaps, v

-----------------------------------------------------------------------------
(* The users of a buffer and the swaps of a window, counted. *)

Backs(pr)  == [d \in Draw |-> pr[d].back]
Fronts(pr) == [d \in Draw |-> pr[d].front]
Srcs(cm)   == [k \in Cmd |-> cm[k].src]
Dsts(cm)   == [k \in Cmd |-> cm[k].dst]

\* The window whose count a command is in: no window's once it has failed.
Counted(c) == IF c.live /\ ~c.fail THEN c.draw ELSE NoDraw
Counts(cm) == [k \in Cmd |-> Counted(cm[k])]

Users(pr, cm, x) == Times(Backs(pr), x) + Times(Fronts(pr), x)
                    + Times(Srcs(cm), x) + Times(Dsts(cm), x)

\* The domains of these functions are finite.
LEMMA CountDomains ==
  ASSUME NEW pr, NEW cm
  PROVE  /\ DOMAIN Backs(pr) = Draw /\ DOMAIN Fronts(pr) = Draw
         /\ DOMAIN Srcs(cm) = Cmd /\ DOMAIN Dsts(cm) = Cmd
         /\ DOMAIN Counts(cm) = Cmd
         /\ IsFiniteSet(Draw) /\ IsFiniteSet(Cmd)
BY SwapAssumption DEF Backs, Fronts, Srcs, Dsts, Counts

\* All these counts are numbers.
LEMMA CountsTypes ==
  ASSUME NEW pr, NEW cm, NEW x
  PROVE  /\ Times(Backs(pr), x) \in Nat /\ Times(Fronts(pr), x) \in Nat
         /\ Times(Srcs(cm), x) \in Nat /\ Times(Dsts(cm), x) \in Nat
         /\ Times(Counts(cm), x) \in Nat
BY CountDomains, TimesType

\* What changing one command does to the counts.
LEMMA CommandMoves ==
  ASSUME NEW cm, NEW cn, NEW k \in Cmd, \A j \in Cmd \ {k} : cn[j] = cm[j], NEW x
  PROVE  /\ Times(Srcs(cn), x)
              = Times(Srcs(cm), x) + Is(cn[k].src, x) - Is(cm[k].src, x)
         /\ Times(Dsts(cn), x)
              = Times(Dsts(cm), x) + Is(cn[k].dst, x) - Is(cm[k].dst, x)
         /\ Times(Counts(cn), x)
              = Times(Counts(cm), x) + Is(Counts(cn)[k], x) - Is(Counts(cm)[k], x)
<1>1. \A j \in Cmd : /\ Srcs(cm)[j] = cm[j].src /\ Srcs(cn)[j] = cn[j].src
                     /\ Dsts(cm)[j] = cm[j].dst /\ Dsts(cn)[j] = cn[j].dst
                     /\ Counts(cm)[j] = Counted(cm[j])
                     /\ Counts(cn)[j] = Counted(cn[j])
  BY DEF Srcs, Dsts, Counts
<1>2. \A j \in Cmd \ {k} : /\ Srcs(cn)[j] = Srcs(cm)[j]
                           /\ Dsts(cn)[j] = Dsts(cm)[j]
                           /\ Counts(cn)[j] = Counts(cm)[j]
  BY <1>1
<1>3. Times(Srcs(cn), x)
        = Times(Srcs(cm), x) + Is(Srcs(cn)[k], x) - Is(Srcs(cm)[k], x)
  BY <1>2, CountDomains, TimesUpdate
<1>4. Times(Dsts(cn), x)
        = Times(Dsts(cm), x) + Is(Dsts(cn)[k], x) - Is(Dsts(cm)[k], x)
  BY <1>2, CountDomains, TimesUpdate
<1>5. Times(Counts(cn), x)
        = Times(Counts(cm), x) + Is(Counts(cn)[k], x) - Is(Counts(cm)[k], x)
  BY <1>2, CountDomains, TimesUpdate
<1> QED BY <1>1, <1>3, <1>4, <1>5

\* What giving one window other buffers does to the counts.
LEMMA WindowMoves ==
  ASSUME NEW pr, NEW ps, NEW d \in Draw,
         \A e \in Draw \ {d} : ps[e].back = pr[e].back /\ ps[e].front = pr[e].front,
         NEW x
  PROVE  /\ Times(Backs(ps), x)
              = Times(Backs(pr), x) + Is(ps[d].back, x) - Is(pr[d].back, x)
         /\ Times(Fronts(ps), x)
              = Times(Fronts(pr), x) + Is(ps[d].front, x) - Is(pr[d].front, x)
<1>1. \A e \in Draw : /\ Backs(pr)[e] = pr[e].back /\ Backs(ps)[e] = ps[e].back
                      /\ Fronts(pr)[e] = pr[e].front /\ Fronts(ps)[e] = ps[e].front
  BY DEF Backs, Fronts
<1>2. \A e \in Draw \ {d} : /\ Backs(ps)[e] = Backs(pr)[e]
                            /\ Fronts(ps)[e] = Fronts(pr)[e]
  BY <1>1
<1>3. Times(Backs(ps), x)
        = Times(Backs(pr), x) + Is(Backs(ps)[d], x) - Is(Backs(pr)[d], x)
  BY <1>2, CountDomains, TimesUpdate
<1>4. Times(Fronts(ps), x)
        = Times(Fronts(pr), x) + Is(Fronts(ps)[d], x) - Is(Fronts(pr)[d], x)
  BY <1>2, CountDomains, TimesUpdate
<1> QED BY <1>1, <1>3, <1>4

\* What one window and one command use is part of what is used.
LEMMA UsersAtLeast ==
  ASSUME NEW pr, NEW cm, NEW x
  PROVE  /\ \A d \in Draw : /\ Times(Backs(pr), x) >= Is(pr[d].back, x)
                            /\ Times(Fronts(pr), x) >= Is(pr[d].front, x)
         /\ \A k \in Cmd : /\ Times(Srcs(cm), x) >= Is(cm[k].src, x)
                           /\ Times(Dsts(cm), x) >= Is(cm[k].dst, x)
<1>1. ASSUME NEW S, IsFiniteSet(S), NEW f, DOMAIN f = S, NEW a \in S
      PROVE  Times(f, x) >= Is(f[a], x)
  BY <1>1, TimesType DEF Is
<1>2. ASSUME NEW d \in Draw
      PROVE  /\ Times(Backs(pr), x) >= Is(pr[d].back, x)
             /\ Times(Fronts(pr), x) >= Is(pr[d].front, x)
  <2>1. Backs(pr)[d] = pr[d].back /\ Fronts(pr)[d] = pr[d].front
    BY DEF Backs, Fronts
  <2> QED BY <1>1, <2>1, CountDomains
<1>3. ASSUME NEW k \in Cmd
      PROVE  /\ Times(Srcs(cm), x) >= Is(cm[k].src, x)
             /\ Times(Dsts(cm), x) >= Is(cm[k].dst, x)
  <2>1. Srcs(cm)[k] = cm[k].src /\ Dsts(cm)[k] = cm[k].dst
    BY DEF Srcs, Dsts
  <2> QED BY <1>1, <2>1, CountDomains
<1> QED BY <1>2, <1>3

-----------------------------------------------------------------------------
(* The inductive invariant *)

\* An address that is free holds no part of a command.
DeadClear == \A k \in Cmd : cmd[k].live \/ cmd[k] = NoCmdRec

BuffersUsed(bf, pr, cm) == \A x \in Buf : bf[x].ref = Users(pr, cm, x)

\* A window that is gone has no swaps; those in flight do not count for the
\* next window of that XID.
SwapsCounted(wn, pr, cm) ==
  \A d \in Draw :
    pr[d].swaps = IF wn[d] = NoPix THEN 0 ELSE Times(Counts(cm), d)

UsersInv == /\ DeadClear
            /\ BuffersUsed(buf, priv, cmd)
            /\ SwapsCounted(win, priv, cmd)

\* No window has a pixmap of its own.
Unredirected == \A d \in Draw : win[d] \in {Root, NoPix}

\* A step of the swap in command k keeps the counts if it moves references and
\* swaps as it changes the command.
LEMMA SwapMoves ==
  ASSUME TypeInv, UsersInv, NEW k \in Cmd, NEW v \in World, SameBuffers(W, v),
         v.cmd = [cmd EXCEPT ![k] = v.cmd[k]],
         v.cmd[k].live \/ v.cmd[k] = NoCmdRec,
         \A x \in Buf :
           v.buf[x].ref = buf[x].ref + Is(v.cmd[k].src, x) + Is(v.cmd[k].dst, x)
                                     - Is(cmd[k].src, x) - Is(cmd[k].dst, x),
         \A e \in Draw :
           v.priv[e].swaps =
             IF win[e] = NoPix THEN priv[e].swaps
             ELSE priv[e].swaps + Is(Counted(v.cmd[k]), e) - Is(Counted(cmd[k]), e),
         Apply(v), win' = win
  PROVE  UsersInv'
<1>1. cmd' = v.cmd /\ buf' = v.buf /\ priv' = v.priv /\ W.priv = priv
  BY DEF Apply, W
<1>m. \A j \in Cmd \ {k} : v.cmd[j] = cmd[j]
  BY DEF TypeInv, TypeOK
<1>2. DeadClear'
  BY <1>1, <1>m DEF UsersInv, DeadClear
<1> DEFINE cm == cmd
           cn == v.cmd
<1>n. \A j \in Cmd \ {k} : cn[j] = cm[j]
  BY <1>m
<1>o. ASSUME NEW x
      PROVE  /\ Times(Srcs(cn), x)
                  = Times(Srcs(cm), x) + Is(cn[k].src, x) - Is(cm[k].src, x)
             /\ Times(Dsts(cn), x)
                  = Times(Dsts(cm), x) + Is(cn[k].dst, x) - Is(cm[k].dst, x)
             /\ Times(Counts(cn), x)
                  = Times(Counts(cm), x) + Is(Counted(cn[k]), x) - Is(Counted(cm[k]), x)
  <2> HIDE DEF cm, cn
  <2>1. Counts(cn)[k] = Counted(cn[k]) /\ Counts(cm)[k] = Counted(cm[k])
    BY DEF Counts
  <2> QED BY <1>n, <2>1, CommandMoves
<1>3. Backs(v.priv) = Backs(priv) /\ Fronts(v.priv) = Fronts(priv)
  BY <1>1 DEF SameBuffers, Backs, Fronts
<1>4. BuffersUsed(v.buf, v.priv, v.cmd)
  <2> SUFFICES ASSUME NEW x \in Buf
               PROVE  v.buf[x].ref = Users(v.priv, v.cmd, x)
    BY DEF BuffersUsed
  <2>1. buf[x].ref = Users(priv, cmd, x)
    BY DEF UsersInv, BuffersUsed
  <2>3. /\ Times(Backs(priv), x) \in Nat /\ Times(Fronts(priv), x) \in Nat
        /\ Times(Srcs(cmd), x) \in Nat /\ Times(Dsts(cmd), x) \in Nat
    BY CountsTypes
  <2> QED BY <1>o, <1>3, <2>1, <2>3 DEF Users, Is
<1>5. SwapsCounted(win, v.priv, v.cmd)
  <2> SUFFICES ASSUME NEW e \in Draw
               PROVE  v.priv[e].swaps = IF win[e] = NoPix THEN 0
                                        ELSE Times(Counts(v.cmd), e)
    BY DEF SwapsCounted
  <2>1. priv[e].swaps = IF win[e] = NoPix THEN 0 ELSE Times(Counts(cmd), e)
    BY DEF UsersInv, SwapsCounted
  <2> QED BY <1>o, <2>1
<1> QED BY <1>1, <1>2, <1>4, <1>5 DEF UsersInv

\* A swap is scheduled: the new command accounts for what it moved.
LEMMA CanSwapRefs ==
  ASSUME TypeInv, UsersInv, NEW d \in Draw, CanSwap(d)
  PROVE  LET k == Pick(FreeCmd)
             v == PrepareSwap(W, d, k)
         IN  /\ \A x \in Buf : v.buf[x].ref = buf[x].ref + Is(v.cmd[k].src, x)
                                                         + Is(v.cmd[k].dst, x)
             /\ CountMoves(W, v, d, 1)
             /\ v.cmd[k].draw = d /\ ~v.cmd[k].fail
             /\ cmd[k] = NoCmdRec
             /\ win[d] # NoPix
<1> DEFINE k == Pick(FreeCmd)
           v == PrepareSwap(W, d, k)
<1>1. k \in Cmd /\ cmd[k] = NoCmdRec
  BY CanSwapStep DEF UsersInv, DeadClear
<1>2. phase # "closed" /\ win[d] # NoPix
  BY DEF CanSwap, Running, Unthrottled
<1>3. W \in World /\ W.priv = priv /\ W.buf = buf
  BY <1>2, WType DEF W
<1>4. W.priv[d].back \in Buf /\ W.priv[d].front \in Buf
  <2>1. priv[d] \in PrivRec /\ priv[d].back # NoBuf /\ priv[d].front # NoBuf
    BY DEF CanSwap, TypeInv, TypeOK, BuffersPaired
  <2> QED BY <1>3, <2>1, PrivFields
<1> HIDE DEF k
<1>5. /\ \A x \in Buf : v.buf[x].ref
             = W.buf[x].ref + Is(W.priv[d].back, x) + Is(W.priv[d].front, x)
      /\ CountMoves(W, v, d, 1)
      /\ v.cmd[k].src = W.priv[d].back /\ v.cmd[k].dst = W.priv[d].front
      /\ v.cmd[k].draw = d /\ ~v.cmd[k].fail
  BY <1>1, <1>3, <1>4, PrepareSwapRefs
<1> HIDE DEF v
<1>6. \A x \in Buf : v.buf[x].ref = buf[x].ref + Is(v.cmd[k].src, x)
                                               + Is(v.cmd[k].dst, x)
  BY <1>3, <1>5
<1> QED BY <1>1, <1>2, <1>5, <1>6 DEF v, k

-----------------------------------------------------------------------------
(* One lemma per action *)

\* A swap at the next vblank.
LEMMA SwapAtVblankUsers ==
  ASSUME TypeInv, UsersInv, NEW d \in Draw, SwapAtVblank(d)
  PROVE  UsersInv'
<1> DEFINE k == Pick(FreeCmd)
           v == PrepareSwap(W, d, k)
<1>1. Apply(v) /\ win' = win
  BY DEF SwapAtVblank
<1>2. /\ k \in Cmd /\ v \in World /\ SameBuffers(W, v)
      /\ v.cmd = [cmd EXCEPT ![k] = v.cmd[k]] /\ v.cmd[k].live
  BY CanSwapStep DEF SwapAtVblank
<1>3. /\ \A x \in Buf : v.buf[x].ref = buf[x].ref + Is(v.cmd[k].src, x)
                                                  + Is(v.cmd[k].dst, x)
      /\ CountMoves(W, v, d, 1)
      /\ v.cmd[k].draw = d /\ ~v.cmd[k].fail
      /\ cmd[k] = NoCmdRec
      /\ win[d] # NoPix
  BY CanSwapRefs DEF SwapAtVblank
<1> HIDE DEF k, v
<1>4. /\ \A x : Is(Counted(v.cmd[k]), x) = IF x = d THEN 1 ELSE 0
      /\ \A x \in Buf : Is(cmd[k].src, x) = 0 /\ Is(cmd[k].dst, x) = 0
      /\ \A x \in Draw : Is(Counted(cmd[k]), x) = 0
  BY <1>2, <1>3, SwapAssumption DEF Is, Counted, NoCmdRec
<1>5. \A x \in Buf : buf[x].ref \in Int
  BY BufFields DEF TypeInv, TypeOK
<1>6. \A e \in Draw : priv[e].swaps \in Int /\ W.priv[e].swaps = priv[e].swaps
  BY PrivFields DEF TypeInv, TypeOK, W
<1>7. \A x \in Buf :
        /\ Is(v.cmd[k].src, x) \in Int /\ Is(v.cmd[k].dst, x) \in Int
  BY DEF Is
<1>8. \A x \in Buf :
        v.buf[x].ref = buf[x].ref + Is(v.cmd[k].src, x) + Is(v.cmd[k].dst, x)
                                  - Is(cmd[k].src, x) - Is(cmd[k].dst, x)
  BY <1>3, <1>4, <1>5, <1>7
<1>9. \A e \in Draw :
        v.priv[e].swaps =
          IF win[e] = NoPix THEN priv[e].swaps
          ELSE priv[e].swaps + Is(Counted(v.cmd[k]), e) - Is(Counted(cmd[k]), e)
  BY <1>3, <1>4, <1>6 DEF CountMoves
<1> QED BY <1>1, <1>2, <1>8, <1>9, SwapMoves

\* What a command in flight gives up is what it holds.
LEMMA LiveRefs ==
  ASSUME TypeInv, UsersInv, NEW k \in Cmd
  PROVE  \A x \in Buf : buf[x].ref >= Is(cmd[k].src, x) + Is(cmd[k].dst, x)
<1> SUFFICES ASSUME NEW x \in Buf
             PROVE  buf[x].ref >= Is(cmd[k].src, x) + Is(cmd[k].dst, x)
  OBVIOUS
<1>1. buf[x].ref = Users(priv, cmd, x)
  BY DEF UsersInv, BuffersUsed
<1>2. Times(Srcs(cmd), x) >= Is(cmd[k].src, x) /\ Times(Dsts(cmd), x) >= Is(cmd[k].dst, x)
  BY UsersAtLeast
<1>3. /\ Times(Backs(priv), x) \in Nat /\ Times(Fronts(priv), x) \in Nat
      /\ Times(Srcs(cmd), x) \in Nat /\ Times(Dsts(cmd), x) \in Nat
  BY CountsTypes
<1> QED BY <1>1, <1>2, <1>3 DEF Users, Is

\* A swap that is executed at once.
LEMMA SwapNowUsers ==
  ASSUME TypeInv, UsersInv, NEW d \in Draw, SwapNow(d)
  PROVE  UsersInv'
<1> DEFINE k == Pick(FreeCmd)
           w == PrepareSwap(W, d, k)
<1>1. PICK ch \in Choices : Apply(ExecuteSwap(w, k, ch))
  BY DEF SwapNow
<1> DEFINE v == ExecuteSwap(w, k, ch)
<1>2. /\ k \in Cmd
      /\ win \in [Draw -> Pix \cup {NoPix}]
      /\ w \in World /\ SameBuffers(W, w)
      /\ w.cmd = [cmd EXCEPT ![k] = w.cmd[k]]
      /\ w.cmd[k].live /\ Whole(w.cmd[k])
      /\ w.cmd[k].count = 0 /\ w.cmd[k].type = "none"
  BY CanSwapStep DEF SwapNow
<1>3. /\ \A x \in Buf : w.buf[x].ref = buf[x].ref + Is(w.cmd[k].src, x)
                                                  + Is(w.cmd[k].dst, x)
      /\ CountMoves(W, w, d, 1)
      /\ w.cmd[k].draw = d /\ ~w.cmd[k].fail
      /\ cmd[k] = NoCmdRec
      /\ win[d] # NoPix
  BY CanSwapRefs DEF SwapNow
<1> HIDE DEF k, w
<1>4. \A x \in Buf : buf[x].ref \in Int /\ buf[x].ref >= 0
  <2>1. \A x \in Buf : buf[x].ref \in Int
    BY BufFields DEF TypeInv, TypeOK
  <2>2. \A x \in Buf : buf[x].ref >= 0
    BY <1>2, <2>1, LiveRefs DEF Is
  <2> QED BY <2>1, <2>2
<1>5. \A x \in Buf : w.buf[x].ref >= Is(w.cmd[k].src, x) + Is(w.cmd[k].dst, x)
  BY <1>3, <1>4 DEF Is
<1>6. /\ v \in World /\ SameBuffers(w, v)
      /\ v.cmd = [w.cmd EXCEPT ![k] = NoCmdRec]
  BY <1>2, ExecuteSwapType DEF Whole
<1>7. /\ \A x \in Buf : v.buf[x].ref = w.buf[x].ref - Is(w.cmd[k].src, x)
                                                    - Is(w.cmd[k].dst, x)
      /\ CountMoves(w, v, w.cmd[k].draw, IF Succeeded(w.cmd[k]) THEN -1 ELSE 0)
  BY <1>2, <1>5, ExecuteSwapRefs DEF Whole
<1>8. Apply(v) /\ win' = win
  BY <1>1 DEF SwapNow
<1> HIDE DEF v
<1>9. Succeeded(w.cmd[k])
  BY <1>3 DEF Succeeded
<1>10. SameBuffers(W, v) /\ v.cmd = [cmd EXCEPT ![k] = v.cmd[k]] /\ v.cmd[k] = NoCmdRec
  <2>1. cmd \in [Cmd -> CmdRec]
    BY DEF TypeInv, TypeOK
  <2>2. SameBuffers(W, v)
    BY <1>2, <1>6 DEF SameBuffers
  <2>3. v.cmd = [cmd EXCEPT ![k] = NoCmdRec]
    BY <1>2, <1>6, <2>1
  <2> QED BY <1>2, <2>1, <2>2, <2>3
<1>11. \A x \in Buf :
        v.buf[x].ref = buf[x].ref + Is(v.cmd[k].src, x) + Is(v.cmd[k].dst, x)
                                  - Is(cmd[k].src, x) - Is(cmd[k].dst, x)
  BY <1>3, <1>4, <1>7, <1>10 DEF Is
<1>12. \A e \in Draw : priv[e].swaps \in Int /\ W.priv[e].swaps = priv[e].swaps
  BY PrivFields DEF TypeInv, TypeOK, W
<1>13. \A e \in Draw :
        v.priv[e].swaps =
          IF win[e] = NoPix THEN priv[e].swaps
          ELSE priv[e].swaps + Is(Counted(v.cmd[k]), e) - Is(Counted(cmd[k]), e)
  BY <1>3, <1>7, <1>9, <1>10, <1>12 DEF CountMoves, Is
<1> QED BY <1>2, <1>6, <1>8, <1>10, <1>11, <1>13, SwapMoves

\* The handlers of Present leave the counts alone.
LEMMA SameUsers ==
  ASSUME UsersInv, buf' = buf, cmd' = cmd, priv' = priv, win' = win
  PROVE  UsersInv'
BY DEF UsersInv, DeadClear

\* A command ends: what it held and what it counted for is given up.
LEMMA EndMoves ==
  ASSUME TypeInv, UsersInv, NEW k \in Cmd, NEW v \in World, SameBuffers(W, v),
         cmd[k].live, cmd[k].draw \in Draw,
         v.cmd = [cmd EXCEPT ![k] = NoCmdRec],
         \A x \in Buf : v.buf[x].ref = buf[x].ref - Is(cmd[k].src, x)
                                                  - Is(cmd[k].dst, x),
         CountMoves(W, v, cmd[k].draw, IF Succeeded(cmd[k]) THEN -1 ELSE 0),
         Apply(v), win' = win
  PROVE  UsersInv'
<1>1. cmd \in [Cmd -> CmdRec] /\ \A e \in Draw : priv[e].swaps \in Int
  BY PrivFields DEF TypeInv, TypeOK
<1>2. v.cmd = [cmd EXCEPT ![k] = v.cmd[k]] /\ v.cmd[k] = NoCmdRec
  BY <1>1
<1>3. /\ \A x \in Buf : Is(v.cmd[k].src, x) = 0 /\ Is(v.cmd[k].dst, x) = 0
      /\ \A e \in Draw : Is(Counted(v.cmd[k]), e) = 0
  BY <1>2, SwapAssumption DEF Is, Counted, NoCmdRec
<1>4. \A x \in Buf : buf[x].ref \in Int
  BY BufFields DEF TypeInv, TypeOK
<1>5. \A x \in Buf :
        v.buf[x].ref = buf[x].ref + Is(v.cmd[k].src, x) + Is(v.cmd[k].dst, x)
                                  - Is(cmd[k].src, x) - Is(cmd[k].dst, x)
  BY <1>2, <1>3, <1>4 DEF Is
<1>6. \A e \in Draw : win[e] # NoPix =>
        Is(Counted(cmd[k]), e) = IF e = cmd[k].draw /\ Succeeded(cmd[k]) THEN 1 ELSE 0
  BY SwapAssumption DEF Is, Counted, Succeeded
<1>7. ASSUME NEW e \in Draw
      PROVE  v.priv[e].swaps =
               IF win[e] = NoPix THEN priv[e].swaps
               ELSE priv[e].swaps + Is(Counted(v.cmd[k]), e) - Is(Counted(cmd[k]), e)
  <2>1. v.priv[e].swaps = priv[e].swaps
          + IF e = cmd[k].draw THEN IF Succeeded(cmd[k]) THEN -1 ELSE 0 ELSE 0
    BY DEF CountMoves, W
  <2>2. win[e] = NoPix /\ e = cmd[k].draw => ~Succeeded(cmd[k])
    BY DEF Succeeded
  <2> QED BY <1>1, <1>3, <1>6, <2>1, <2>2
<1> HIDE DEF W
<1> QED BY <1>2, <1>5, <1>7, SwapMoves

\* A vblank event executes its swap.
LEMMA VBlankEventUsers ==
  ASSUME TypeInv, EventsBelong, NoneLost, UsersInv, NEW k \in Cmd, VBlankEvent(k)
  PROVE  UsersInv'
<1>1. k \in vblEv /\ phase # "closed" /\ win' = win
  BY DEF VBlankEvent, ReadVBlankEvent
<1>2. CASE Handlers # "dri2"
  BY <1>1, <1>2, SameUsers DEF VBlankEvent
<1>3. CASE Handlers = "dri2"
  <2>1. PICK ch \in Choices : Apply(ExecuteSwap(W, k, ch))
    BY <1>3 DEF VBlankEvent
  <2> DEFINE v == ExecuteSwap(W, k, ch)
  <2>2. /\ W \in World /\ W.cmd = cmd /\ W.buf = buf
        /\ win \in [Draw -> Pix \cup {NoPix}]
    BY <1>1, WType DEF TypeInv, TypeOK
  <2>3. cmd[k].live /\ Whole(cmd[k]) /\ cmd[k].count = 0 /\ Flipping(k) = {}
    BY <1>1 DEF EventsBelong, TypeInv, CommandsWhole
  <2>4. cmd[k].type = "none"
    BY <1>3, <2>3 DEF NoneLost, Live
  <2>5. \A x \in Buf : W.buf[x].ref >= Is(W.cmd[k].src, x) + Is(W.cmd[k].dst, x)
    BY <2>2, LiveRefs
  <2>6. /\ W.cmd[k].draw \in Draw /\ W.cmd[k].src \in Buf /\ W.cmd[k].dst \in Buf
        /\ W.cmd[k].count <= 1 /\ W.cmd[k].type = "none"
    BY <2>2, <2>3, <2>4 DEF Whole
  <2>7. v \in World /\ SameBuffers(W, v) /\ v.cmd = [cmd EXCEPT ![k] = NoCmdRec]
    BY <2>2, <2>6, ExecuteSwapType
  <2>8. /\ \A x \in Buf : v.buf[x].ref = buf[x].ref - Is(cmd[k].src, x)
                                                    - Is(cmd[k].dst, x)
        /\ CountMoves(W, v, cmd[k].draw, IF Succeeded(cmd[k]) THEN -1 ELSE 0)
    BY <2>2, <2>5, <2>6, ExecuteSwapRefs
  <2>9. Apply(v) /\ cmd[k].draw \in Draw
    BY <2>1, <2>3 DEF Whole
  <2> HIDE DEF v
  <2> QED BY <1>1, <2>3, <2>7, <2>8, <2>9, EndMoves
<1> QED BY <1>2, <1>3

\* A flip event counts its command down or completes it.
LEMMA FlipEventUsers ==
  ASSUME TypeInv, EventsBelong, UsersInv, NEW c \in Crtc, FlipEvent(c)
  PROVE  UsersInv'
<1> DEFINE k == flipEv[c]
<1>1. k \in Cmd /\ phase # "closed" /\ win' = win
  BY DEF FlipEvent, ReadFlipEvent, TypeInv, TypeOK
<1>2. CASE Handlers # "dri2"
  BY <1>1, <1>2, SameUsers DEF FlipEvent
<1>3. CASE Handlers = "dri2"
  <2>1. PICK ch \in Choices : Apply(SwapComplete(W, k, ch))
    BY <1>3 DEF FlipEvent
  <2> DEFINE v == SwapComplete(W, k, ch)
  <2>2. /\ W \in World /\ W.cmd = cmd /\ W.buf = buf /\ W.priv = priv
        /\ win \in [Draw -> Pix \cup {NoPix}] /\ cmd \in [Cmd -> CmdRec]
    BY <1>1, WType DEF TypeInv, TypeOK
  <2>3. cmd[k].live /\ Whole(cmd[k])
    BY <1>1 DEF EventsBelong, Flipping, TypeInv, CommandsWhole
  <2>4. W.cmd[k].draw \in Draw /\ W.cmd[k].src \in Buf /\ W.cmd[k].dst \in Buf
    BY <2>2, <2>3 DEF Whole
  <2>5. \A x \in Buf : W.buf[x].ref >= Is(W.cmd[k].src, x) + Is(W.cmd[k].dst, x)
    BY <1>1, <2>2, LiveRefs
  <2> HIDE DEF k
  <2>6. /\ v \in World /\ SameBuffers(W, v)
        /\ IF cmd[k].count > 1
           THEN v.cmd = [cmd EXCEPT ![k].count = @ - 1]
           ELSE v.cmd = [cmd EXCEPT ![k] = NoCmdRec]
    BY <1>1, <2>2, <2>4, SwapCompleteType
  <2>7. /\ IF cmd[k].count > 1
           THEN v.buf = buf /\ v.priv = priv
           ELSE /\ \A x \in Buf : v.buf[x].ref = buf[x].ref - Is(cmd[k].src, x)
                                                            - Is(cmd[k].dst, x)
                /\ CountMoves(W, v, cmd[k].draw, IF Succeeded(cmd[k]) THEN -1 ELSE 0)
    BY <1>1, <2>2, <2>4, <2>5, SwapCompleteRefs
  <2>8. Apply(v)
    BY <2>1 DEF k
  <2> HIDE DEF v
  <2>10. UsersInv'
    <3>1. CASE cmd[k].count > 1
      <4> DEFINE q == [cmd[k] EXCEPT !.count = @ - 1]
      <4>1. v.cmd = [cmd EXCEPT ![k] = q]
        BY <2>6, <3>1
      <4>2. /\ q.live = cmd[k].live /\ q.fail = cmd[k].fail
            /\ q.draw = cmd[k].draw /\ q.src = cmd[k].src /\ q.dst = cmd[k].dst
        BY <1>1, <2>2 DEF CmdRec
      <4> HIDE DEF q
      <4>3. \A j \in Cmd : /\ v.cmd[j].live = cmd[j].live
                           /\ v.cmd[j].src = cmd[j].src
                           /\ v.cmd[j].dst = cmd[j].dst
                           /\ Counted(v.cmd[j]) = Counted(cmd[j])
                           /\ v.cmd[j] = cmd[j] \/ cmd[j].live
        BY <2>2, <2>3, <4>1, <4>2 DEF Counted
      <4>4. /\ Srcs(v.cmd) = Srcs(cmd) /\ Dsts(v.cmd) = Dsts(cmd)
            /\ Counts(v.cmd) = Counts(cmd)
        BY <4>3 DEF Srcs, Dsts, Counts
      <4>5. cmd' = v.cmd /\ buf' = buf /\ priv' = priv
        BY <2>7, <2>8, <3>1 DEF Apply
      <4>6. DeadClear'
        BY <4>3, <4>5 DEF UsersInv, DeadClear
      <4>7. BuffersUsed(buf, priv, v.cmd) /\ SwapsCounted(win, priv, v.cmd)
        BY <4>4 DEF UsersInv, BuffersUsed, SwapsCounted, Users
      <4> QED BY <1>1, <4>5, <4>6, <4>7 DEF UsersInv
    <3>2. CASE ~(cmd[k].count > 1)
      <4>1. cmd[k].draw \in Draw
        BY <2>3 DEF Whole
      <4> QED BY <1>1, <2>3, <2>6, <2>7, <2>8, <3>2, <4>1, EndMoves
    <3> QED BY <3>1, <3>2
  <2> QED BY <2>10
<1> QED BY <1>2, <1>3

\* A swap by page flip is in flight if a CRTC accepted it, and counts unless one
\* refused.
LEMMA SwapByFlipUsers ==
  ASSUME TypeInv, UsersInv, NEW d \in Draw, SwapByFlip(d)
  PROVE  UsersInv'
<1>1. PICK ch \in Choices,
              bad \in SUBSET (IF "flipfail" \in Env THEN crtcOn ELSE {}) :
         LET k  == Pick(FreeCmd)
             S  == {c \in crtcOn \ bad : flipEv[c] = NoCmd}
             w1 == StartFlip(PrepareSwap(W, d, k), k, S)
             w2 == IF S = {} THEN SwapComplete(w1, k, ch) ELSE w1
         IN  Apply(IF S = crtcOn THEN w2
                   ELSE [w2 EXCEPT !.priv[d].swaps = @ - 1])
  BY DEF SwapByFlip
<1> DEFINE k  == Pick(FreeCmd)
           S  == {c \in crtcOn \ bad : flipEv[c] = NoCmd}
           w0 == PrepareSwap(W, d, k)
           w1 == StartFlip(w0, k, S)
           wc == SwapComplete(w1, k, ch)
           w2 == IF S = {} THEN wc ELSE w1
           i  == w2.priv[d].swaps - 1
           w3 == [w2 EXCEPT !.priv[d].swaps = i]
           v  == IF S = crtcOn THEN w2 ELSE w3
<1>2. Apply(v) /\ win' = win
  BY <1>1 DEF SwapByFlip
<1>3. S \in SUBSET Crtc
  BY DEF TypeInv, TypeOK
<1> HIDE DEF S
<1>4. /\ k \in Cmd
      /\ win \in [Draw -> Pix \cup {NoPix}]
      /\ w0 \in World /\ SameBuffers(W, w0)
      /\ w0.cmd = [cmd EXCEPT ![k] = w0.cmd[k]]
      /\ w0.cmd[k].live /\ Whole(w0.cmd[k])
  BY CanSwapStep DEF SwapByFlip
<1>5. /\ \A x \in Buf : w0.buf[x].ref = buf[x].ref + Is(w0.cmd[k].src, x)
                                                   + Is(w0.cmd[k].dst, x)
      /\ CountMoves(W, w0, d, 1)
      /\ w0.cmd[k].draw = d
      /\ cmd[k] = NoCmdRec
      /\ win[d] # NoPix
  BY CanSwapRefs DEF SwapByFlip
<1> HIDE DEF k, w0
<1>6. /\ w1 \in World
      /\ SameBuffers(w0, w1)
      /\ w1.cmd = [w0.cmd EXCEPT ![k] = w1.cmd[k]]
      /\ w1.cmd[k].live /\ w1.cmd[k].draw = d
      /\ w1.cmd[k].src = w0.cmd[k].src /\ w1.cmd[k].dst = w0.cmd[k].dst
      /\ w1.cmd[k].count = Cardinality(S)
      /\ w1.buf = w0.buf /\ w1.priv = w0.priv
      /\ w1.cmd[k].fail = (S # crtcOn) /\ w1.cmd[k].fake = (crtcOn = {})
  <2>1. w0 \in World /\ k \in Cmd /\ S \in SUBSET Crtc
    BY <1>3, <1>4
  <2>2. /\ w1 \in World
        /\ SameBuffers(w0, w1)
        /\ w1.cmd = [w0.cmd EXCEPT ![k] = w1.cmd[k]]
        /\ w1.cmd[k].live = w0.cmd[k].live /\ w1.cmd[k].draw = w0.cmd[k].draw
        /\ w1.cmd[k].src = w0.cmd[k].src /\ w1.cmd[k].dst = w0.cmd[k].dst
        /\ w1.cmd[k].count = Cardinality(S)
    BY <2>1, StartFlipType
  <2>3. /\ w1.buf = w0.buf /\ w1.priv = w0.priv
        /\ w1.cmd[k].fail = (S # crtcOn) /\ w1.cmd[k].fake = (crtcOn = {})
    BY <2>1, StartFlipRefs
  <2> HIDE DEF w1
  <2> QED BY <1>4, <1>5, <2>2, <2>3
<1> HIDE DEF w1
<1>7. /\ cmd \in [Cmd -> CmdRec]
      /\ \A e \in Draw : priv[e].swaps \in Int /\ W.priv[e].swaps = priv[e].swaps
      /\ \A x \in Buf : buf[x].ref \in Int /\ buf[x].ref >= 0
  <2>1. /\ cmd \in [Cmd -> CmdRec]
        /\ \A e \in Draw : priv[e].swaps \in Int /\ W.priv[e].swaps = priv[e].swaps
        /\ \A x \in Buf : buf[x].ref \in Int
    BY BufFields, PrivFields DEF TypeInv, TypeOK, W
  <2>2. \A x \in Buf : buf[x].ref >= 0
    BY <1>4, <2>1, LiveRefs DEF Is
  <2> QED BY <2>1, <2>2
<1>8. w1.cmd = [cmd EXCEPT ![k] = w1.cmd[k]] /\ SameBuffers(W, w1)
  <2>1. w1.cmd = [cmd EXCEPT ![k] = w1.cmd[k]]
    BY <1>4, <1>6, <1>7
  <2>2. SameBuffers(W, w1)
    BY <1>4, <1>6 DEF SameBuffers
  <2> QED BY <2>1, <2>2
<1> DEFINE c == w1.cmd[k]
<1>9. ASSUME S = {}
      PROVE  /\ wc \in World /\ SameBuffers(w1, wc)
             /\ wc.cmd = [w1.cmd EXCEPT ![k] = NoCmdRec]
             /\ \A x \in Buf :
                  wc.buf[x].ref = w1.buf[x].ref - Is(c.src, x) - Is(c.dst, x)
             /\ CountMoves(w1, wc, d, IF crtcOn = {} THEN -1 ELSE 0)
  <2>1. ~(w1.cmd[k].count > 1)
    <3>1. w1.cmd[k].count = 0
      BY <1>6, <1>9, FS_EmptySet
    <3> QED BY <3>1
  <2>2. c.draw \in Draw /\ c.src \in Buf /\ c.dst \in Buf
    BY <1>4, <1>6 DEF Whole
  <2>3. \A x \in Buf : w1.buf[x].ref >= Is(c.src, x) + Is(c.dst, x)
    BY <1>5, <1>6, <1>7 DEF Is
  <2>4. /\ wc \in World /\ SameBuffers(w1, wc)
        /\ IF w1.cmd[k].count > 1
           THEN wc.cmd = [w1.cmd EXCEPT ![k].count = @ - 1]
           ELSE wc.cmd = [w1.cmd EXCEPT ![k] = NoCmdRec]
    BY <1>4, <1>6, <2>2, SwapCompleteType
  <2>5. /\ IF c.count > 1
           THEN TRUE
           ELSE /\ \A x \in Buf :
                     wc.buf[x].ref = w1.buf[x].ref - Is(c.src, x) - Is(c.dst, x)
                /\ CountMoves(w1, wc, c.draw, IF Succeeded(c) THEN -1 ELSE 0)
    BY <1>4, <1>6, <2>2, <2>3, SwapCompleteRefs
  <2> HIDE DEF wc
  <2>6. Succeeded(c) <=> crtcOn = {}
    BY <1>5, <1>6, <1>9 DEF Succeeded
  <2>8. wc.cmd = [w1.cmd EXCEPT ![k] = NoCmdRec]
    BY <2>1, <2>4
  <2>9. \A x \in Buf : wc.buf[x].ref = w1.buf[x].ref - Is(c.src, x) - Is(c.dst, x)
    BY <2>1, <2>5
  <2>10. c.draw = d
    BY <1>6
  <2>11. CountMoves(w1, wc, c.draw, IF Succeeded(c) THEN -1 ELSE 0)
    BY <2>1, <2>5
  <2> HIDE DEF c
  <2>12. CountMoves(w1, wc, d, IF crtcOn = {} THEN -1 ELSE 0)
    BY <2>6, <2>10, <2>11
  <2> QED BY <2>4, <2>8, <2>9, <2>12
<1> HIDE DEF wc
<1>10. /\ w2 \in World /\ SameBuffers(W, w2)
       /\ w2.cmd = [cmd EXCEPT ![k] = w2.cmd[k]]
       /\ w2.cmd[k] = IF S = {} THEN NoCmdRec ELSE c
       /\ \A x \in Buf : w2.buf[x].ref = buf[x].ref + Is(w2.cmd[k].src, x)
                                                    + Is(w2.cmd[k].dst, x)
       /\ CountMoves(W, w2, d, IF S = {} /\ crtcOn = {} THEN 0 ELSE 1)
  <2>1. CASE S = {}
    <3>1. w2 = wc
      BY <2>1
    <3>2. wc.cmd = [cmd EXCEPT ![k] = NoCmdRec]
      BY <1>7, <1>8, <1>9, <2>1
    <3>3. wc.cmd[k] = NoCmdRec
      BY <1>4, <1>7, <3>2
    <3>4. SameBuffers(W, wc)
      BY <1>8, <1>9, <2>1 DEF SameBuffers
    <3>5. \A x \in Buf : Is(NoCmdRec.src, x) = 0 /\ Is(NoCmdRec.dst, x) = 0
      BY SwapAssumption DEF Is, NoCmdRec
    <3>6. \A x \in Buf : wc.buf[x].ref = buf[x].ref + Is(NoCmdRec.src, x)
                                                    + Is(NoCmdRec.dst, x)
      BY <1>5, <1>6, <1>7, <1>9, <2>1, <3>5 DEF Is
    <3>7. CountMoves(W, wc, d, IF crtcOn = {} THEN 0 ELSE 1)
      BY <1>5, <1>6, <1>7, <1>9, <2>1 DEF CountMoves
    <3> HIDE DEF w2
    <3> QED BY <1>9, <2>1, <3>1, <3>2, <3>3, <3>4, <3>6, <3>7
  <2>2. CASE S # {}
    <3>1. w2 = w1
      BY <2>2
    <3>2. CountMoves(W, w1, d, 1)
      BY <1>5, <1>6 DEF CountMoves
    <3> HIDE DEF w2
    <3> QED BY <1>5, <1>6, <1>8, <2>2, <3>1, <3>2
  <2> QED BY <2>1, <2>2
<1> HIDE DEF w2
<1>11. /\ w3 \in World /\ w3.cmd = w2.cmd /\ w3.buf = w2.buf
       /\ SameBuffers(w2, w3) /\ CountMoves(w2, w3, d, -1)
  <2>1. i = w2.priv[d].swaps + (-1)
    BY <1>10, WorldFields, PrivFields
  <2> HIDE DEF i
  <2> QED BY <1>10, <2>1, CountSwap
<1> HIDE DEF w3
<1>12. /\ v \in World /\ v.cmd = w2.cmd /\ v.buf = w2.buf /\ SameBuffers(W, v)
       /\ CountMoves(W, v, d, IF S = crtcOn /\ S # {} THEN 1 ELSE 0)
  <2>1. CASE S = crtcOn
    BY <1>10, <2>1 DEF CountMoves
  <2>2. CASE S # crtcOn
    <3>1. crtcOn = {} => S = {}
      BY DEF S
    <3>2. \A e \in Draw : w2.priv[e].swaps \in Int
      BY <1>10, WorldFields, PrivFields
    <3>3. CountMoves(W, w2, d, 1)
      BY <1>10, <2>2, <3>1
    <3>4. CountMoves(W, w3, d, 0)
      BY <1>7, <1>11, <3>2, <3>3 DEF CountMoves
    <3> QED BY <1>10, <1>11, <2>2, <3>4 DEF SameBuffers
  <2> QED BY <2>1, <2>2
<1> HIDE DEF v
<1>13. /\ Is(Counted(v.cmd[k]), d) = IF S = crtcOn /\ S # {} THEN 1 ELSE 0
       /\ \A e \in Draw \ {d} : Is(Counted(v.cmd[k]), e) = 0
       /\ \A e \in Draw : Is(Counted(cmd[k]), e) = 0
       /\ \A x \in Buf : Is(cmd[k].src, x) = 0 /\ Is(cmd[k].dst, x) = 0
  <2>1. Counted(v.cmd[k]) = IF S = crtcOn /\ S # {} THEN d ELSE NoDraw
    <3>1. v.cmd[k] = IF S = {} THEN NoCmdRec ELSE c
      BY <1>10, <1>12
    <3>2. c.live /\ c.draw = d /\ (c.fail <=> S # crtcOn)
      BY <1>6
    <3>3. ~NoCmdRec.live
      BY DEF NoCmdRec
    <3> HIDE DEF c
    <3> QED BY <3>1, <3>2, <3>3 DEF Counted
  <2>2. Counted(cmd[k]) = NoDraw /\ cmd[k].src = NoBuf /\ cmd[k].dst = NoBuf
    BY <1>5 DEF Counted, NoCmdRec
  <2> QED BY <2>1, <2>2, SwapAssumption DEF Is
<1>14. \A x \in Buf :
        v.buf[x].ref = buf[x].ref + Is(v.cmd[k].src, x) + Is(v.cmd[k].dst, x)
                                  - Is(cmd[k].src, x) - Is(cmd[k].dst, x)
  BY <1>7, <1>10, <1>12, <1>13 DEF Is
<1>15. \A e \in Draw :
        v.priv[e].swaps =
          IF win[e] = NoPix THEN priv[e].swaps
          ELSE priv[e].swaps + Is(Counted(v.cmd[k]), e) - Is(Counted(cmd[k]), e)
  BY <1>5, <1>7, <1>12, <1>13 DEF CountMoves
<1>16. v.cmd[k].live \/ v.cmd[k] = NoCmdRec
  BY <1>6, <1>10, <1>12
<1>17. v.cmd = [cmd EXCEPT ![k] = v.cmd[k]]
  BY <1>10, <1>12
<1> QED BY <1>2, <1>4, <1>12, <1>14, <1>15, <1>16, <1>17, SwapMoves

\* What a window holds is part of what is used.
LEMMA HeldRefs ==
  ASSUME TypeInv, UsersInv, NEW d \in Draw
  PROVE  \A x \in Buf : /\ buf[x].ref \in Int
                        /\ buf[x].ref >= Is(priv[d].back, x) + Is(priv[d].front, x)
<1> SUFFICES ASSUME NEW x \in Buf
             PROVE  /\ buf[x].ref \in Int
                    /\ buf[x].ref >= Is(priv[d].back, x) + Is(priv[d].front, x)
  OBVIOUS
<1>1. buf[x].ref = Users(priv, cmd, x)
  BY DEF UsersInv, BuffersUsed
<1>2. /\ Times(Backs(priv), x) >= Is(priv[d].back, x)
      /\ Times(Fronts(priv), x) >= Is(priv[d].front, x)
  BY UsersAtLeast
<1>3. /\ Times(Backs(priv), x) \in Nat /\ Times(Fronts(priv), x) \in Nat
      /\ Times(Srcs(cmd), x) \in Nat /\ Times(Dsts(cmd), x) \in Nat
  BY CountsTypes
<1> QED BY <1>1, <1>2, <1>3 DEF Users, Is

\* Moving the references with the buffers that one window holds keeps them
\* counted.
LEMMA HoldMoves ==
  ASSUME NEW bf, NEW bg, NEW pr, NEW ps, NEW cm, NEW d \in Draw,
         BuffersUsed(bf, pr, cm),
         \A e \in Draw \ {d} : ps[e].back = pr[e].back /\ ps[e].front = pr[e].front,
         \A x \in Buf :
           bg[x].ref = bf[x].ref + Is(ps[d].back, x) - Is(pr[d].back, x)
                                 + Is(ps[d].front, x) - Is(pr[d].front, x)
  PROVE  BuffersUsed(bg, ps, cm)
<1> SUFFICES ASSUME NEW x \in Buf
             PROVE  bg[x].ref = Users(ps, cm, x)
  BY DEF BuffersUsed
<1>1. /\ Times(Backs(ps), x)
           = Times(Backs(pr), x) + Is(ps[d].back, x) - Is(pr[d].back, x)
      /\ Times(Fronts(ps), x)
           = Times(Fronts(pr), x) + Is(ps[d].front, x) - Is(pr[d].front, x)
  BY WindowMoves
<1>2. /\ Times(Backs(pr), x) \in Nat /\ Times(Fronts(pr), x) \in Nat
      /\ Times(Srcs(cm), x) \in Nat /\ Times(Dsts(cm), x) \in Nat
  BY CountsTypes
<1>3. /\ Is(ps[d].back, x) \in Int /\ Is(pr[d].back, x) \in Int
      /\ Is(ps[d].front, x) \in Int /\ Is(pr[d].front, x) \in Int
  BY DEF Is
<1>4. /\ Users(pr, cm, x) = Times(Backs(pr), x) + Times(Fronts(pr), x)
                              + Times(Srcs(cm), x) + Times(Dsts(cm), x)
      /\ Users(ps, cm, x) = Times(Backs(ps), x) + Times(Fronts(ps), x)
                              + Times(Srcs(cm), x) + Times(Dsts(cm), x)
  BY DEF Users
<1>5. bf[x].ref = Users(pr, cm, x)
  BY DEF BuffersUsed
<1>6. bg[x].ref = bf[x].ref + Is(ps[d].back, x) - Is(pr[d].back, x)
                            + Is(ps[d].front, x) - Is(pr[d].front, x)
  OBVIOUS
<1> QED BY <1>1, <1>2, <1>3, <1>4, <1>5, <1>6

\* DRI2GetBuffers moves the references as it gives the window its buffers.
LEMMA GetBuffersUsers ==
  ASSUME TypeInv, UsersInv, NEW d \in Draw, GetBuffers(d)
  PROVE  UsersInv'
<1>1. PICK ch \in Choices :
       LET pv   == priv[d]
           keep == pv.fresh /\ pv.back # NoBuf
           bk   == IF keep THEN [w |-> ReuseBufferNotify(W, d, pv.back, ch),
                                 b |-> pv.back]
                   ELSE CreateBuffer(W, d, "back", ch)
           w1   == DestroyBuffer(bk.w, pv.front)
           fr   == IF bk.b = NoBuf THEN [w |-> w1, b |-> NoBuf]
                   ELSE CreateBuffer(w1, d, "front", ch)
           all  == fr.b # NoBuf
           w2   == IF keep THEN fr.w ELSE DestroyBuffer(fr.w, pv.back)
           w3   == IF all THEN w2 ELSE DestroyBuffer(w2, bk.b)
       IN  Apply([w3 EXCEPT !.priv[d] =
                    [@ EXCEPT !.fresh = TRUE,
                              !.back  = IF all THEN bk.b ELSE NoBuf,
                              !.front = fr.b]])
  BY DEF GetBuffers
<1> DEFINE pv   == priv[d]
           keep == pv.fresh /\ pv.back # NoBuf
           ru   == ReuseBufferNotify(W, d, pv.back, ch)
           cb   == CreateBuffer(W, d, "back", ch)
           bkw  == IF keep THEN ru ELSE cb.w
           bkb  == IF keep THEN pv.back ELSE cb.b
           w1   == DestroyBuffer(bkw, pv.front)
           cf   == CreateBuffer(w1, d, "front", ch)
           frw  == IF bkb = NoBuf THEN w1 ELSE cf.w
           frb  == IF bkb = NoBuf THEN NoBuf ELSE cf.b
           all  == frb # NoBuf
           db   == DestroyBuffer(frw, pv.back)
           w2   == IF keep THEN frw ELSE db
           dk   == DestroyBuffer(w2, bkb)
           w3   == IF all THEN w2 ELSE dk
           q    == [w3.priv[d] EXCEPT !.fresh = TRUE,
                              !.back  = IF all THEN bkb ELSE NoBuf,
                              !.front = frb]
           f    == [w3.priv EXCEPT ![d] = q]
           v    == [w3 EXCEPT !.priv = f]
<1>2. Apply(v) /\ win' = win
  BY <1>1 DEF GetBuffers
<1>3. phase # "closed" /\ win[d] \in Pix
  BY DEF GetBuffers, Running, Unthrottled, TypeInv, TypeOK
<1>4. W \in World /\ W.priv = priv /\ W.cmd = cmd /\ W.buf = buf
  BY <1>3, WType
<1>5. pv \in PrivRec /\ pv.back \in Buf \cup {NoBuf} /\ pv.front \in Buf \cup {NoBuf}
  BY PrivFields DEF TypeInv, TypeOK
<1>6. /\ \A x \in Buf : /\ buf[x].ref \in Int
                        /\ buf[x].ref >= Is(pv.back, x) + Is(pv.front, x)
      /\ \A x \in Buf : Is(NoBuf, x) = 0
  BY HeldRefs, SwapAssumption DEF Is
<1> HIDE DEF pv
<1>7. /\ bkw \in World /\ SameSwaps(W, bkw) /\ bkb \in Buf \cup {NoBuf}
      /\ \A x \in Buf : bkw.buf[x].ref = buf[x].ref + IF keep THEN 0 ELSE Is(bkb, x)
      /\ keep => bkb = pv.back
      /\ ~keep /\ bkb \in Buf => buf[bkb].ref = 0
  <2>1. CASE keep
    <3>1. pv.back \in Buf
      BY <1>5, <2>1
    <3>2. /\ ru \in World /\ SameSwaps(W, ru) /\ SameRefs(W, ru)
      BY <1>3, <1>4, <3>1, ReuseBufferNotifyType, ReuseBufferRefs
    <3> HIDE DEF ru
    <3> QED BY <1>4, <1>6, <2>1, <3>1, <3>2 DEF SameRefs
  <2>2. CASE ~keep
    <3>1. cb.w \in World /\ SameSwaps(W, cb.w) /\ cb.b \in Buf \cup {NoBuf}
      BY <1>3, <1>4, CreateBufferType
    <3>2. /\ \A x \in Buf : cb.w.buf[x].ref = buf[x].ref + Is(cb.b, x)
          /\ cb.b \in Buf => buf[cb.b].ref = 0
      BY <1>3, <1>4, CreateBufferRefs
    <3>3. bkw = cb.w /\ bkb = cb.b
      BY <2>2
    <3> HIDE DEF cb, bkw, bkb, keep
    <3> QED BY <2>2, <3>1, <3>2, <3>3
  <2> QED BY <2>1, <2>2
<1> HIDE DEF bkw, bkb, keep
<1> DEFINE made == [x \in Buf |-> IF keep THEN 0 ELSE Is(bkb, x)]
           left == [x \in Buf |-> IF keep THEN 0 ELSE Is(pv.back, x)]
<1>n. /\ \A x, y : Is(x, y) \in Int
      /\ \A x \in Buf : made[x] \in Int /\ left[x] \in Int
      /\ keep => \A x \in Buf : made[x] = 0 /\ left[x] = 0
      /\ ~keep => \A x \in Buf : made[x] = Is(bkb, x) /\ left[x] = Is(pv.back, x)
  BY DEF Is
<1> HIDE DEF made, left
<1>8. /\ w1 \in World /\ SameSwaps(bkw, w1)
      /\ \A x \in Buf : w1.buf[x].ref = buf[x].ref + made[x] - Is(pv.front, x)
  <2>1. pv.front \in Buf => bkw.buf[pv.front].ref >= 1
    BY <1>6, <1>7, <1>n DEF Is
  <2>2. w1 \in World /\ SameSwaps(bkw, w1)
    BY <1>5, <1>7, DestroyBufferType
  <2>3. \A x \in Buf : w1.buf[x].ref = bkw.buf[x].ref - Is(pv.front, x)
    BY <1>5, <1>7, <2>1, DestroyBufferRefs
  <2> HIDE DEF w1
  <2>4. \A x \in Buf : bkw.buf[x].ref = buf[x].ref + made[x]
    BY <1>7 DEF made
  <2>5. \A x \in Buf : w1.buf[x].ref = buf[x].ref + made[x] - Is(pv.front, x)
    BY <1>6, <1>n, <2>3, <2>4
  <2> QED BY <2>2, <2>3, <2>5
<1> HIDE DEF w1
<1>9. /\ frw \in World /\ SameSwaps(w1, frw) /\ frb \in Buf \cup {NoBuf}
      /\ \A x \in Buf : frw.buf[x].ref = buf[x].ref + made[x] - Is(pv.front, x) + Is(frb, x)
      /\ bkb = NoBuf => frb = NoBuf
  <2>1. CASE bkb = NoBuf
    <3>1. \A x \in Buf : w1.buf[x].ref \in Int
      BY <1>8, WorldFields, BufFields
    <3>2. frw = w1 /\ frb = NoBuf
      BY <2>1
    <3> HIDE DEF frw, frb
    <3>3. SameSwaps(w1, frw)
      BY <3>2 DEF SameSwaps
    <3>4. \A x \in Buf : frw.buf[x].ref = buf[x].ref + made[x] - Is(pv.front, x) + Is(frb, x)
      BY <1>6, <1>8, <3>1, <3>2
    <3> QED BY <1>8, <2>1, <3>2, <3>3, <3>4
  <2>2. CASE bkb # NoBuf
    <3>1. cf.w \in World /\ SameSwaps(w1, cf.w) /\ cf.b \in Buf \cup {NoBuf}
      BY <1>3, <1>8, CreateBufferType
    <3>2. \A x \in Buf : cf.w.buf[x].ref = w1.buf[x].ref + Is(cf.b, x)
      BY <1>3, <1>8, CreateBufferRefs
    <3>3. frw = cf.w /\ frb = cf.b
      BY <2>2
    <3> HIDE DEF cf, frw, frb
    <3> QED BY <1>8, <2>2, <3>1, <3>2, <3>3
  <2> QED BY <2>1, <2>2
<1> HIDE DEF frw, frb
<1>10. /\ w2 \in World /\ SameSwaps(frw, w2)
       /\ \A x \in Buf : w2.buf[x].ref = buf[x].ref + made[x] - Is(pv.front, x) + Is(frb, x)
                                       - left[x]
  <2>1. CASE keep
    <3>1. w2 = frw
      BY <2>1
    <3> HIDE DEF w2
    <3>2. SameSwaps(frw, w2)
      BY <3>1 DEF SameSwaps
    <3>3. \A x \in Buf : frw.buf[x].ref \in Int
      BY <1>9, WorldFields, BufFields
    <3>4. \A x \in Buf : Is(frb, x) \in Int
      BY DEF Is
    <3>5. \A x \in Buf : w2.buf[x].ref = buf[x].ref + made[x] - Is(pv.front, x) + Is(frb, x)
                                       - left[x]
      BY <1>6, <1>n, <1>9, <2>1, <3>1, <3>4
    <3> QED BY <1>9, <3>1, <3>2, <3>5
  <2>2. CASE ~keep
    <3>1. pv.back \in Buf => frw.buf[pv.back].ref >= 1
      BY <1>6, <1>9, <1>n, <2>2 DEF Is
    <3>2. db \in World /\ SameSwaps(frw, db)
      BY <1>5, <1>9, DestroyBufferType
    <3>3. \A x \in Buf : db.buf[x].ref = frw.buf[x].ref - Is(pv.back, x)
      BY <1>5, <1>9, <3>1, DestroyBufferRefs
    <3>4. w2 = db
      BY <2>2
    <3> HIDE DEF w2, db
    <3>5. \A x \in Buf : w2.buf[x].ref = buf[x].ref + made[x] - Is(pv.front, x) + Is(frb, x)
                                       - left[x]
      BY <1>6, <1>n, <1>9, <2>2, <3>3, <3>4
    <3> QED BY <3>2, <3>3, <3>4, <3>5
  <2> QED BY <2>1, <2>2
<1> HIDE DEF w2
<1>11. /\ w3 \in World /\ SameSwaps(w2, w3)
       /\ \A x \in Buf : w3.buf[x].ref = buf[x].ref + made[x] - Is(pv.front, x) + Is(frb, x)
                                       - left[x]
                                       - (IF all THEN 0 ELSE Is(bkb, x))
  <2>1. CASE all
    <3>1. w3 = w2
      BY <2>1
    <3> HIDE DEF w3
    <3>2. SameSwaps(w2, w3)
      BY <3>1 DEF SameSwaps
    <3>3. \A x \in Buf : w2.buf[x].ref \in Int
      BY <1>10, WorldFields, BufFields
    <3> HIDE DEF all
    <3>4. \A x \in Buf : Is(frb, x) \in Int
      BY DEF Is
    <3>5. \A x \in Buf :
            w3.buf[x].ref = buf[x].ref + made[x] - Is(pv.front, x) + Is(frb, x)
                                       - left[x]
                                       - (IF all THEN 0 ELSE Is(bkb, x))
      BY <1>6, <1>n, <1>10, <2>1, <3>1, <3>4
    <3> QED BY <1>10, <3>1, <3>2, <3>5
  <2>2. CASE ~all
    <3>1. bkb \in Buf => w2.buf[bkb].ref >= 1
      <4> SUFFICES ASSUME bkb \in Buf PROVE w2.buf[bkb].ref >= 1
        OBVIOUS
      <4>1. w2.buf[bkb].ref = buf[bkb].ref + made[bkb] - Is(pv.front, bkb) - left[bkb]
        BY <1>6, <1>n, <1>10, <2>2
      <4>2. CASE keep
        BY <1>6, <1>7, <1>n, <4>1, <4>2 DEF Is
      <4>3. CASE ~keep
        BY <1>6, <1>7, <1>n, <4>1, <4>3 DEF Is
      <4> QED BY <4>2, <4>3
    <3>2. dk \in World /\ SameSwaps(w2, dk)
      BY <1>7, <1>10, DestroyBufferType
    <3>3. \A x \in Buf : dk.buf[x].ref = w2.buf[x].ref - Is(bkb, x)
      BY <1>7, <1>10, <3>1, DestroyBufferRefs
    <3>4. w3 = dk
      BY <2>2
    <3> HIDE DEF w3, dk, all
    <3>5. \A x \in Buf :
            w3.buf[x].ref = buf[x].ref + made[x] - Is(pv.front, x) + Is(frb, x)
                                       - left[x]
                                       - (IF all THEN 0 ELSE Is(bkb, x))
      BY <1>6, <1>n, <1>10, <2>2, <3>3, <3>4
    <3> QED BY <3>2, <3>3, <3>4, <3>5
  <2> QED BY <2>1, <2>2
<1> HIDE DEF w3
<1>12. SameSwaps(W, w3)
  BY <1>7, <1>8, <1>9, <1>10, <1>11 DEF SameSwaps
<1>13. /\ q.back = (IF all THEN bkb ELSE NoBuf) /\ q.front = frb
       /\ q.swaps = priv[d].swaps
  <2>1. w3.priv[d] \in PrivRec /\ w3.priv[d] = priv[d]
    BY <1>4, <1>11, <1>12, WorldFields DEF SameSwaps
  <2> HIDE DEF all
  <2> QED BY <2>1 DEF PrivRec
<1> HIDE DEF q
<1>14. /\ f \in [Draw -> {f[e] : e \in Draw}]
       /\ f[d] = q /\ \A e \in Draw \ {d} : f[e] = priv[e]
  BY <1>4, <1>11, <1>12, WorldFields DEF SameSwaps
<1> HIDE DEF f
<1>15. v.buf = w3.buf /\ v.cmd = cmd /\ v.priv = f
  BY <1>4, <1>11, <1>12 DEF World, SameSwaps
<1> HIDE DEF v
<1>16. buf' = w3.buf /\ cmd' = cmd /\ priv' = f
  BY <1>2, <1>15 DEF Apply
<1>17. \A x \in Buf : Is(f[d].back, x) = IF all THEN Is(bkb, x) ELSE 0
  BY <1>6, <1>13, <1>14 DEF Is
<1>18. ASSUME NEW x \in Buf
       PROVE  w3.buf[x].ref = buf[x].ref + Is(f[d].back, x) - Is(pv.back, x)
                                         + Is(f[d].front, x) - Is(pv.front, x)
  <2>1. f[d].front = frb
    BY <1>13, <1>14
  <2>2. keep => bkb = pv.back
    BY <1>7
  <2>3. buf[x].ref \in Int
    BY <1>6
  <2> HIDE DEF all
  <2>4. w3.buf[x].ref = buf[x].ref + made[x] - Is(pv.front, x) + Is(frb, x)
                                       - left[x]
                                       - (IF all THEN 0 ELSE Is(bkb, x))
    BY <1>11
  <2>5. Is(f[d].back, x) = IF all THEN Is(bkb, x) ELSE 0
    BY <1>17
  <2>6. /\ Is(bkb, x) \in Int /\ Is(frb, x) \in Int
        /\ Is(pv.back, x) \in Int /\ Is(pv.front, x) \in Int
    BY DEF Is
  <2>7. /\ made[x] = IF keep THEN 0 ELSE Is(bkb, x)
        /\ left[x] = IF keep THEN 0 ELSE Is(pv.back, x)
    BY <1>n
  <2> QED BY <2>1, <2>2, <2>3, <2>4, <2>5, <2>6, <2>7
<1>19. BuffersUsed(w3.buf, f, cmd)
  <2> DEFINE bf == buf
             bg == w3.buf
             pr == priv
             ps == f
             cm == cmd
  <2>1. /\ BuffersUsed(bf, pr, cm)
        /\ \A e \in Draw \ {d} : ps[e].back = pr[e].back /\ ps[e].front = pr[e].front
        /\ \A x \in Buf :
             bg[x].ref = bf[x].ref + Is(ps[d].back, x) - Is(pr[d].back, x)
                                   + Is(ps[d].front, x) - Is(pr[d].front, x)
    BY <1>14, <1>18 DEF pv, UsersInv
  <2> HIDE DEF bf, bg, pr, ps, cm
  <2>2. BuffersUsed(bg, ps, cm)
    BY <2>1, HoldMoves
  <2> QED BY <2>2 DEF bg, ps, cm
<1>20. SwapsCounted(win, f, cmd)
  BY <1>13, <1>14 DEF UsersInv, SwapsCounted
<1> QED BY <1>2, <1>16, <1>19, <1>20 DEF UsersInv, DeadClear

\* A step that leaves buffers, commands and counts alone keeps what is counted.
LEMMA KeepUsers ==
  ASSUME UsersInv, buf' = buf, cmd' = cmd, NEW pr, priv' = pr,
         \A e \in Draw : /\ pr[e].back = priv[e].back /\ pr[e].front = priv[e].front
                         /\ pr[e].swaps = priv[e].swaps
                         /\ win'[e] = NoPix <=> win[e] = NoPix
  PROVE  UsersInv'
<1>1. Backs(pr) = Backs(priv) /\ Fronts(pr) = Fronts(priv)
  BY DEF Backs, Fronts
<1>2. BuffersUsed(buf, pr, cmd)
  BY <1>1 DEF UsersInv, BuffersUsed, Users
<1>3. SwapsCounted(win', pr, cmd)
  BY DEF UsersInv, SwapsCounted
<1> QED BY <1>2, <1>3 DEF UsersInv, DeadClear

\* What a window's record loses with its serial number is not counted.
LEMMA SerialUsers ==
  ASSUME TypeInv, UsersInv, NEW d \in Draw, buf' = buf, cmd' = cmd,
         priv' = [priv EXCEPT ![d].fresh = FALSE],
         \A e \in Draw : win'[e] = NoPix <=> win[e] = NoPix
  PROVE  UsersInv'
<1> DEFINE q == [priv[d] EXCEPT !.fresh = FALSE]
           f == [priv EXCEPT ![d] = q]
<1>1. priv' = f /\ priv \in [Draw -> PrivRec] /\ priv[d] \in PrivRec
  BY DEF TypeInv, TypeOK
<1>2. /\ q.back = priv[d].back /\ q.front = priv[d].front
      /\ q.swaps = priv[d].swaps
  BY <1>1 DEF PrivRec
<1> HIDE DEF q
<1>3. \A e \in Draw : /\ f[e].back = priv[e].back /\ f[e].front = priv[e].front
                      /\ f[e].swaps = priv[e].swaps
  BY <1>1, <1>2
<1> HIDE DEF f
<1> DEFINE pr == priv'
<1>4. \A e \in Draw : /\ pr[e].back = priv[e].back /\ pr[e].front = priv[e].front
                      /\ pr[e].swaps = priv[e].swaps
                      /\ win'[e] = NoPix <=> win[e] = NoPix
  BY <1>1, <1>3
<1>5. priv' = pr
  OBVIOUS
<1> HIDE DEF pr
<1> QED BY <1>4, <1>5, KeepUsers

\* Redirecting a window, and taking that back, keeps what is counted.
LEMMA RedirectUsers ==
  ASSUME TypeInv, UsersInv, NEW d \in Draw, Redirect(d)
  PROVE  UsersInv'
<1>1. W.mem = mem /\ Pick(FreePix(W)) \in Pix
  <2>1. FreePix(W) # {}
    BY DEF Redirect, CanCreatePix
  <2> QED BY <2>1, PickIn DEF FreePix, W
<1>2. win'[d] # NoPix /\ win[d] # NoPix
  BY <1>1, SwapAssumption, MemAssumption DEF Redirect, TypeInv, TypeOK
<1>3. \A e \in Draw : win'[e] = NoPix <=> win[e] = NoPix
  BY <1>2 DEF Redirect, TypeInv, TypeOK
<1> QED BY <1>3, SerialUsers DEF Redirect

LEMMA UnredirectUsers ==
  ASSUME TypeInv, UsersInv, NEW d \in Draw, Unredirect(d)
  PROVE  UsersInv'
<1>1. \A e \in Draw : win'[e] = NoPix <=> win[e] = NoPix
  BY SwapAssumption, MemAssumption DEF Unredirect, TypeInv, TypeOK
<1> QED BY <1>1, SerialUsers DEF Unredirect

\* A new window starts without swaps, and no command names it.
LEMMA CreateWindowUsers ==
  ASSUME TypeInv, UsersInv, NEW d \in Draw, CreateWindow(d)
  PROVE  UsersInv'
<1>1. /\ buf' = buf /\ cmd' = cmd /\ priv' = priv
      /\ \A e \in Draw \ {d} : win'[e] = win[e]
      /\ win[d] = NoPix /\ \A k \in Cmd : cmd[k].draw # d
  BY DEF CreateWindow, TypeInv, TypeOK
<1>2. Times(Counts(cmd), d) = 0
  <2> DEFINE cm == cmd
  <2>1. \A k \in Cmd : Counts(cm)[k] # d
    BY <1>1, SwapAssumption DEF Counts, Counted
  <2> HIDE DEF cm
  <2>2. Times(Counts(cm), d) = 0
    BY <2>1, CountDomains, TimesType
  <2> QED BY <2>2 DEF cm
<1>3. SwapsCounted(win', priv, cmd)
  BY <1>1, <1>2 DEF UsersInv, SwapsCounted
<1> QED BY <1>1, <1>3 DEF UsersInv, DeadClear

\* A window that goes away gives up its buffers.
LEMMA DestroyDrawableUsers ==
  ASSUME TypeInv, UsersInv, NEW d \in Draw, DestroyDrawable(d)
  PROVE  UsersInv'
<1> DEFINE s  == priv[d].back
           t  == priv[d].front
           x1 == DestroyBuffer(W, s)
           x2 == DestroyBuffer(x1, t)
           f  == [x2.priv EXCEPT ![d] = NoPriv]
           m  == IF win[d] = Root THEN x2.mem ELSE DropPixmaps(x2.mem, {win[d]})
           v  == [x2 EXCEPT !.priv = f, !.mem = m]
<1>1. Apply(v) /\ win' = [win EXCEPT ![d] = NoPix]
  BY DEF DestroyDrawable
<1>2. /\ phase # "closed" /\ win[d] \in Pix
      /\ s \in Buf \cup {NoBuf} /\ t \in Buf \cup {NoBuf}
      /\ priv \in [Draw -> PrivRec] /\ win \in [Draw -> Pix \cup {NoPix}]
  BY PrivFields DEF DestroyDrawable, Running, TypeInv, TypeOK
<1>3. W \in World /\ W.priv = priv /\ W.cmd = cmd /\ W.buf = buf
  BY <1>2, WType
<1>4. /\ \A x \in Buf : /\ buf[x].ref \in Int
                        /\ buf[x].ref >= Is(s, x) + Is(t, x)
      /\ \A x \in Buf : Is(NoBuf, x) = 0
      /\ \A x, y : Is(x, y) \in Int
  BY HeldRefs, SwapAssumption DEF Is
<1> HIDE DEF s, t
<1>5. /\ x1 \in World /\ SameSwaps(W, x1)
      /\ \A x \in Buf : x1.buf[x].ref = buf[x].ref - Is(s, x)
  <2>1. s \in Buf => W.buf[s].ref >= 1
    BY <1>3, <1>4 DEF Is
  <2> QED BY <1>2, <1>3, <2>1, DestroyBufferType, DestroyBufferRefs
<1> HIDE DEF x1
<1>6. /\ x2 \in World /\ SameSwaps(x1, x2)
      /\ \A x \in Buf : x2.buf[x].ref = x1.buf[x].ref - Is(t, x)
  <2>1. t \in Buf => x1.buf[t].ref >= 1
    BY <1>4, <1>5 DEF Is
  <2> QED BY <1>2, <1>5, <2>1, DestroyBufferType, DestroyBufferRefs
<1> HIDE DEF x2
<1>7. x2.priv = priv /\ x2.cmd = cmd
  BY <1>3, <1>5, <1>6 DEF SameSwaps
<1>8. /\ f[d].back = NoBuf /\ f[d].front = NoBuf /\ f[d].swaps = 0
      /\ \A e \in Draw \ {d} : f[e] = priv[e]
  BY <1>2, <1>7 DEF NoPriv
<1> HIDE DEF f, m
<1>9. v.buf = x2.buf /\ v.cmd = cmd /\ v.priv = f
  BY <1>6, <1>7 DEF World
<1> HIDE DEF v
<1>10. buf' = x2.buf /\ cmd' = cmd /\ priv' = f
  BY <1>1, <1>9 DEF Apply
<1>11. BuffersUsed(x2.buf, f, cmd)
  <2> DEFINE bf == buf
             bg == x2.buf
             pr == priv
             ps == f
             cm == cmd
  <2>1. /\ BuffersUsed(bf, pr, cm)
        /\ \A e \in Draw \ {d} : ps[e].back = pr[e].back /\ ps[e].front = pr[e].front
    BY <1>8 DEF UsersInv
  <2>2. \A x \in Buf :
             bg[x].ref = bf[x].ref + Is(ps[d].back, x) - Is(pr[d].back, x)
                                   + Is(ps[d].front, x) - Is(pr[d].front, x)
    BY <1>4, <1>5, <1>6, <1>8 DEF s, t
  <2> HIDE DEF bf, bg, pr, ps, cm
  <2>3. BuffersUsed(bg, ps, cm)
    BY <2>1, <2>2, HoldMoves, SMTT(30)
  <2> QED BY <2>3 DEF bg, ps, cm
<1>12. SwapsCounted(win', f, cmd)
  BY <1>1, <1>2, <1>8 DEF UsersInv, SwapsCounted
<1> QED BY <1>10, <1>11, <1>12 DEF UsersInv, DeadClear

\* Switching a CRTC leaves buffers and counts alone.
LEMMA SwitchCrtcUsers ==
  ASSUME TypeInv, UsersInv, NEW c \in Crtc, SwitchCrtc(c)
  PROVE  UsersInv'
<1>1. PICK ch \in Choices :
        Apply(IF c \in crtcOn THEN [W EXCEPT !.hw[c] = NoBo] ELSE SetMode(W, {c}, ch))
  BY DEF SwitchCrtc
<1>2. buf' = buf /\ cmd' = cmd /\ priv' = priv /\ win' = win
  BY <1>1 DEF SwitchCrtc, Apply, SetMode, W
<1> QED BY <1>2, SameUsers

\* So does resizing the screen.
LEMMA ResizeUsers ==
  ASSUME TypeInv, UsersInv, NEW s \in Size, Resize(s)
  PROVE  UsersInv'
<1>1. PICK ch \in Choices : Apply(ResizeScreen(W, s, ch))
  BY DEF Resize
<1> DEFINE v == ResizeScreen(W, s, ch)
<1>2. /\ W \in World /\ W.cmd = cmd /\ W.buf = buf /\ W.priv = priv /\ win' = win
  BY WType DEF Resize, Running
<1>3. SameBuffers(W, v) /\ v.cmd = cmd
  BY <1>2, ResizeScreenType
<1>4. v.buf = buf /\ \A e \in Draw : v.priv[e].swaps = priv[e].swaps
  BY <1>2, ResizeScreenRefs
<1>5. buf' = v.buf /\ cmd' = v.cmd /\ priv' = v.priv
  BY <1>1 DEF Apply
<1> HIDE DEF v
<1> DEFINE pr == v.priv
<1>6. \A e \in Draw : /\ pr[e].back = priv[e].back /\ pr[e].front = priv[e].front
                      /\ pr[e].swaps = priv[e].swaps
                      /\ win'[e] = NoPix <=> win[e] = NoPix
  BY <1>2, <1>3, <1>4 DEF SameBuffers
<1>7. buf' = buf /\ cmd' = cmd /\ priv' = pr
  BY <1>3, <1>4, <1>5
<1> HIDE DEF pr
<1> QED BY <1>6, <1>7, KeepUsers

\* Every step keeps what is counted.
LEMMA UsersStep ==
  ASSUME TypeInv, EventsBelong, NoneLost, UsersInv, [Next]_vars
  PROVE  UsersInv'
<1>1. CASE UNCHANGED vars
  BY <1>1, SameUsers DEF vars
<1>2. CASE ClientStep
  BY <1>2, GetBuffersUsers, SwapByFlipUsers, SwapAtVblankUsers, SwapNowUsers
     DEF ClientStep
<1>3. CASE KernelStep
  BY <1>3, FlipEventUsers, VBlankEventUsers DEF KernelStep
<1>4. ASSUME NEW d, Restack(d) PROVE UsersInv'
  BY <1>4, SameUsers DEF Restack
<1>5. ASSUME CloseScreen PROVE UsersInv'
  BY <1>5, SameUsers DEF CloseScreen
<1>6. ASSUME FinishClose PROVE UsersInv'
  <2>1. buf' = buf /\ cmd' = cmd /\ priv' = priv /\ win' = win
    BY <1>6 DEF FinishClose, Apply, W
  <2> QED BY <2>1, SameUsers
<1>7. CASE ServerStep
  BY <1>4, <1>5, <1>7, RedirectUsers, UnredirectUsers, DestroyDrawableUsers,
     CreateWindowUsers, SwitchCrtcUsers, ResizeUsers DEF ServerStep
<1> QED BY <1>1, <1>2, <1>3, <1>6, <1>7 DEF Next

\* Nothing is counted at first.
LEMMA InitUsers == Init => UsersInv
<1> SUFFICES ASSUME Init PROVE UsersInv
  OBVIOUS
<1> DEFINE bf == buf
           pr == priv
           cm == cmd
<1>1. /\ bf = [x \in Buf |-> NoBufRec] /\ pr = [d \in Draw |-> NoPriv]
      /\ cm = [k \in Cmd |-> NoCmdRec] /\ win = [d \in Draw |-> Root]
  BY DEF Init
<1> HIDE DEF bf, pr, cm
<1>2. /\ \A d \in Draw : Backs(pr)[d] = NoBuf /\ Fronts(pr)[d] = NoBuf
      /\ \A k \in Cmd : /\ Srcs(cm)[k] = NoBuf /\ Dsts(cm)[k] = NoBuf
                        /\ Counts(cm)[k] = NoDraw
  BY <1>1 DEF Backs, Fronts, Srcs, Dsts, Counts, Counted, NoPriv, NoCmdRec
<1>3. ASSUME NEW x \in Buf PROVE Users(pr, cm, x) = 0
  <2>1. x # NoBuf
    BY SwapAssumption
  <2>2. Times(Backs(pr), x) = 0 /\ Times(Fronts(pr), x) = 0
    BY <1>2, <2>1, CountDomains, TimesType
  <2>3. Times(Srcs(cm), x) = 0 /\ Times(Dsts(cm), x) = 0
    BY <1>2, <2>1, CountDomains, TimesType
  <2> QED BY <2>2, <2>3 DEF Users
<1>4. ASSUME NEW d \in Draw PROVE Times(Counts(cm), d) = 0
  <2>1. d # NoDraw
    BY SwapAssumption
  <2> QED BY <1>2, <2>1, CountDomains, TimesType
<1>5. BuffersUsed(bf, pr, cm)
  BY <1>1, <1>3 DEF BuffersUsed, NoBufRec
<1>6. SwapsCounted(win, pr, cm)
  BY <1>1, <1>4, SwapAssumption, MemAssumption DEF SwapsCounted, NoPriv
<1>7. DeadClear
  BY <1>1 DEF DeadClear, cm
<1> QED BY <1>5, <1>6, <1>7 DEF UsersInv, bf, pr, cm

\* No window is redirected unless the environment redirects windows.
LEMMA UnredirectedStep ==
  ASSUME "redirect" \notin Env, Unredirected, TypeInv, [Next]_vars
  PROVE  Unredirected'
<1>1. CASE win' = win
  BY <1>1 DEF Unredirected
<1>2. ASSUME NEW d \in Draw, win' = [win EXCEPT ![d] = Root]
      PROVE  Unredirected'
  BY <1>2 DEF Unredirected, TypeInv, TypeOK
<1>3. ASSUME NEW d \in Draw, win' = [win EXCEPT ![d] = NoPix]
      PROVE  Unredirected'
  BY <1>3 DEF Unredirected, TypeInv, TypeOK
<1>4. ASSUME UNCHANGED vars PROVE Unredirected'
  BY <1>1, <1>4 DEF vars
<1>5. ASSUME ClientStep PROVE win' = win
  BY <1>5 DEF ClientStep, GetBuffers, SwapByFlip, SwapAtVblank, SwapNow
<1>6. ASSUME KernelStep PROVE win' = win
  BY <1>6 DEF KernelStep, FlipEvent, VBlankEvent
<1>7. ASSUME ServerStep PROVE Unredirected'
  <2>1. ASSUME NEW d, Restack(d) PROVE win' = win
    BY <2>1 DEF Restack
  <2>2. ASSUME NEW d \in Draw, Redirect(d) PROVE FALSE
    BY <2>2 DEF Redirect
  <2>3. ASSUME NEW d \in Draw, Unredirect(d) PROVE Unredirected'
    BY <1>2, <2>3 DEF Unredirect
  <2>4. ASSUME NEW d \in Draw, DestroyDrawable(d) PROVE Unredirected'
    BY <1>3, <2>4 DEF DestroyDrawable
  <2>5. ASSUME NEW d \in Draw, CreateWindow(d) PROVE Unredirected'
    BY <1>2, <2>5 DEF CreateWindow
  <2>6. ASSUME NEW c, SwitchCrtc(c) PROVE win' = win
    BY <2>6 DEF SwitchCrtc
  <2>7. ASSUME NEW s, Resize(s) PROVE win' = win
    BY <2>7 DEF Resize
  <2>8. ASSUME CloseScreen PROVE win' = win
    BY <2>8 DEF CloseScreen
  <2> QED BY <1>1, <1>7, <2>1, <2>2, <2>3, <2>4, <2>5, <2>6, <2>7, <2>8 DEF ServerStep
<1>8. ASSUME FinishClose PROVE win' = win
  BY <1>8 DEF FinishClose
<1> QED BY <1>1, <1>4, <1>5, <1>6, <1>7, <1>8 DEF Next

-----------------------------------------------------------------------------
(* The theorems *)

\* What is counted holds in every reachable state.
THEOREM UsersInvariance == Spec => [](IInv /\ UsersInv)
<1>1. Init => IInv /\ UsersInv
  BY InitIInv, InitUsers
<1>2. IInv /\ UsersInv /\ [Next]_vars => (IInv /\ UsersInv)'
  BY NextIInv, UsersStep DEF IInv
<1> QED BY <1>1, <1>2, PTL DEF Spec

\* swapsPending of the core is the number of its swaps that the driver still
\* has in flight and that have not failed: a client is blocked as long as it
\* has one, and never for a swap that the driver gave up.
THEOREM SwapsCorrect == Spec => []CoreCountsSwaps
<1>1. ASSUME UsersInv
      PROVE  CoreCountsSwaps
  <2> SUFFICES ASSUME NEW d \in Draw, win[d] # NoPix
               PROVE  priv[d].swaps
                        = Cardinality({k \in Live : cmd[k].draw = d /\ ~cmd[k].fail})
    BY DEF CoreCountsSwaps
  <2>1. priv[d].swaps = Times(Counts(cmd), d)
    BY <1>1 DEF UsersInv, SwapsCounted
  <2>2. {k \in DOMAIN Counts(cmd) : Counts(cmd)[k] = d}
          = {k \in Live : cmd[k].draw = d /\ ~cmd[k].fail}
    BY SwapAssumption DEF Counts, Counted, Live
  <2> QED BY <2>1, <2>2 DEF Times
<1> QED BY <1>1, UsersInvariance, PTL

\* The reference count of a DRI2 buffer is the number of its users: the windows
\* whose back or front it is in the core, and the sources and targets of the
\* swaps in flight. No buffer is freed in use, and none is kept without a user.
THEOREM BufferRefsCorrect == Spec => []BuffersCountUsers
<1>1. ASSUME UsersInv
      PROVE  BuffersCountUsers
  <2> SUFFICES ASSUME NEW x \in Buf
               PROVE  buf[x].ref =   Cardinality({d \in Draw : priv[d].back = x})
                                   + Cardinality({d \in Draw : priv[d].front = x})
                                   + Cardinality({k \in Live : cmd[k].src = x})
                                   + Cardinality({k \in Live : cmd[k].dst = x})
    BY DEF BuffersCountUsers
  <2>1. buf[x].ref = Users(priv, cmd, x)
    BY <1>1 DEF UsersInv, BuffersUsed
  <2>2. /\ {d \in DOMAIN Backs(priv) : Backs(priv)[d] = x}
             = {d \in Draw : priv[d].back = x}
        /\ {d \in DOMAIN Fronts(priv) : Fronts(priv)[d] = x}
             = {d \in Draw : priv[d].front = x}
    BY DEF Backs, Fronts
  <2>3. \A k \in Cmd \ Live : cmd[k].src # x /\ cmd[k].dst # x
    BY <1>1, SwapAssumption DEF UsersInv, DeadClear, Live, NoCmdRec
  <2>4. /\ {k \in DOMAIN Srcs(cmd) : Srcs(cmd)[k] = x} = {k \in Live : cmd[k].src = x}
        /\ {k \in DOMAIN Dsts(cmd) : Dsts(cmd)[k] = x} = {k \in Live : cmd[k].dst = x}
    BY <2>3 DEF Srcs, Dsts, Live
  <2> QED BY <2>1, <2>2, <2>4 DEF Users, Times
<1> QED BY <1>1, UsersInvariance, PTL
=============================================================================
