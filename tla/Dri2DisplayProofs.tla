------------------------- MODULE Dri2DisplayProofs --------------------------
(***************************************************************************)
(* Theorems about what is on display in Dri2Swap: the name of a back       *)
(* buffer is that of the bo that its next swap will show, no client draws  *)
(* to a bo that a CRTC scans out, and the CRTCs show the scanout bo when   *)
(* no swap is in flight. Together, Dri2Pages implements FlipPromise. They *)
(* hold for double buffering, as far as one window only is flipped to the  *)
(* screen; the README says which of their hypotheses each of them needs.   *)
(***************************************************************************)
EXTENDS Dri2MemoryProofs, Dri2Pages

-----------------------------------------------------------------------------
(* Calls that make no buffer *)

\* The screen pixmap and the buffers in use show what they showed, under the
\* names that they had.
Still(w, v) == /\ v.mem.pbo[Root] = w.mem.pbo[Root]
               /\ \A x \in Buf : v.buf[x].ref > 0 => Stays(w, v, x)

\* Such calls in a row are such a call.
LEMMA StillTrans ==
  ASSUME NEW w, NEW u, NEW v, Still(w, u), Still(u, v)
  PROVE  Still(w, v)
<1>1. v.mem.pbo[Root] = w.mem.pbo[Root]
  BY DEF Still
<1>2. ASSUME NEW x \in Buf, v.buf[x].ref > 0
      PROVE  Stays(w, v, x)
  <2>1. Stays(u, v, x)
    BY <1>2, Zenon DEF Still
  <2>2. Stays(w, u, x)
    BY <2>1, Zenon DEF Still, Stays
  <2> QED BY <2>1, <2>2, Zenon DEF Stays
<1> QED BY <1>1, <1>2 DEF Still

\* Nothing that shows is touched where pixmaps and buffers are not.
LEMMA StillSame ==
  ASSUME NEW w, NEW v, v.mem.pbo = w.mem.pbo,
         \A x \in Buf : v.buf[x].ref > 0 => Left(w, v, x)
  PROVE  Still(w, v)
BY Zenon DEF Still, Stays, Left, Showing

\* DestroyBuffer
LEMMA DestroyStill ==
  ASSUME NumBufs = 2, NEW w \in World, NEW wn, WinsTyped(wn), Sound(w, wn),
         NEW x \in Buf, w.buf[x].ref > 0
  PROVE  LET v == DestroyBuffer(w, x)
         IN  /\ v \in World /\ SameRest(w, v) /\ Sound(v, wn) /\ Still(w, v)
             /\ \A y \in Buf : v.buf[y].ref = w.buf[y].ref - Is(x, y)
<1> DEFINE v == DestroyBuffer(w, x)
<1>1. /\ v \in World /\ SameRest(w, v) /\ Sound(v, wn) /\ Kept(w, v)
      /\ v.mem.pbo[Root] = w.mem.pbo[Root]
  BY DestroyOne
<1>2. \A y \in Buf : v.buf[y].ref > 0 => Left(w, v, y)
  BY DestroyLeaves
<1>3. \A y \in Buf : v.buf[y].ref = w.buf[y].ref - Is(x, y)
  <2>1. w.buf[x].ref \in Int
    BY WorldFields, BufFields
  <2> QED BY <2>1, DestroyBufferRefs
<1> HIDE DEF v
<1>4. ASSUME NEW y \in Buf, v.buf[y].ref > 0
      PROVE  Stays(w, v, y)
  <2> DEFINE p == w.buf[y].pix[0]
  <2>1. Left(w, v, y)
    BY <1>2, <1>4
  <2>2. w.buf[y].ref > 0 /\ v.buf[y].pix[0] = p
    BY <2>1, Zenon DEF Left
  <2>3. p \in Pix /\ w.mem.pref[p] > 0 /\ v.mem.pref[p] > 0
    <3>1. p \in Pix /\ w.mem.pref[p] > 0
      BY <2>2, InBuffers, Zenon
    <3>2. v.mem.pref[v.buf[y].pix[0]] > 0
      BY <1>1, <1>4, InBuffers, Zenon
    <3> QED BY <2>2, <3>1, <3>2
  <2> HIDE DEF p
  <2>4. v.mem.pbo[p] = w.mem.pbo[p]
    BY <1>1, <2>3 DEF Kept
  <2> QED BY <2>1, <2>2, <2>4, Zenon DEF Stays, Left, Showing, p
<1> QED BY <1>1, <1>3, <1>4 DEF Still, v

\* The end of a swap: buffers and bos of command k are released.
LEMMA ReleaseStill ==
  ASSUME NumBufs = 2, NEW w \in World, NEW wn, WinsTyped(wn), Sound(w, wn),
         NEW k \in Cmd, UsesOf(w, k), w.cmd[k].src \in Buf, w.cmd[k].dst \in Buf
  PROVE  LET v == Release(w, k)
         IN  Still(w, v) /\ v.hw = w.hw /\ v.scanout = w.scanout
<1> DEFINE s == w.cmd[k].src
           t == w.cmd[k].dst
           u == DestroyBuffer(w, s)
           v == DestroyBuffer(u, t)
           z == Settled(v, k)
<1>0. \A a, b : Is(a, b) \in {0, 1} /\ Is(a, a) = 1
  BY DEF Is
<1>1. /\ u \in World /\ SameRest(w, u) /\ Sound(u, wn) /\ Still(w, u)
      /\ \A y \in Buf : u.buf[y].ref = w.buf[y].ref - Is(s, y)
  <2>1. w.buf[s].ref > 0
    BY <1>0 DEF UsesOf
  <2> QED BY <2>1, DestroyStill
<1> HIDE DEF u
<1>2. v \in World /\ SameRest(u, v) /\ Still(u, v)
  <2>1. u.buf[t].ref > 0
    BY <1>0, <1>1 DEF UsesOf
  <2> QED BY <1>1, <2>1, DestroyStill
<1> HIDE DEF v
<1>3. v.cmd = w.cmd /\ v.hw = w.hw /\ v.scanout = w.scanout
  BY <1>1, <1>2 DEF SameRest, SameSwaps
<1>4. Release(w, k) = z
  BY <1>3 DEF Release, Settled, v, u
<1>5. z.buf = v.buf /\ z.hw = v.hw /\ z.scanout = v.scanout /\ z.mem.pbo = v.mem.pbo
  <2> DEFINE a  == v.cmd[k].oldSrc
             b  == v.cmd[k].oldDst
             m1 == BoUnref(v.mem, a)
             m2 == BoUnref(m1, b)
  <2>1. a \in Bo \cup {NoBo} /\ b \in Bo \cup {NoBo} /\ v.mem \in Mem
    BY <1>2, WorldFields, CmdFields
  <2>2. m1 \in Mem /\ m1.pbo = v.mem.pbo
    BY <2>1, BoUnrefType, BoUnrefForm
  <2> HIDE DEF m1, a
  <2>3. m2.pbo = v.mem.pbo
    BY <2>1, <2>2, BoUnrefForm
  <2>4. z = [v EXCEPT !.mem = m2, !.pending = @ - 1, !.cmd[k] = NoCmdRec]
    BY DEF Settled, m1, a
  <2> HIDE DEF m2, z
  <2>5. z.mem = m2 /\ z.buf = v.buf /\ z.hw = v.hw /\ z.scanout = v.scanout
    BY <1>2, <2>4 DEF World
  <2> QED BY <2>3, <2>5
<1> HIDE DEF z
<1>6. Still(v, z)
  BY <1>5, StillSame, Zenon DEF Left
<1>7. Still(w, z)
  BY <1>1, <1>2, <1>6, StillTrans
<1> QED BY <1>3, <1>4, <1>5, <1>7

-----------------------------------------------------------------------------
(* Swaps that start, and swaps that end without a flip *)

\* ARMSOCDRI2ScheduleSwap takes references and names nothing.
LEMMA PrepareStill ==
  ASSUME NumBufs = 2, NEW w \in World, WinsTyped(win), MemInv(w, win, Draw, Cmd),
         NEW d \in Draw, win[d] # NoPix, NEW k \in Cmd,
         w.priv[d].back \in Buf, w.priv[d].front \in Buf
  PROVE  LET v == PrepareSwap(w, d, k)
         IN  Still(w, v) /\ v.hw = w.hw /\ v.scanout = w.scanout
<1> DEFINE s == w.priv[d].back
           t == w.priv[d].front
           sbo == BoFromBuffer(w, s)
           tbo == BoFromBuffer(w, t)
           m1 == BoRef(w.mem, sbo)
           m2 == BoRef(m1, tbo)
           rs == [w.buf[s] EXCEPT !.ref = @ + 1]
           f  == [w.buf EXCEPT ![s] = rs]
           rt == [f[t] EXCEPT !.ref = @ + 1]
           g  == [f EXCEPT ![t] = rt]
           v  == PrepareSwap(w, d, k)
<1>1. /\ s \in Buf /\ t \in Buf /\ w.buf[s].ref > 0 /\ w.buf[t].ref > 0
      /\ Sound(w, win)
  <2>1. WinSound(w, win, d) /\ s # NoBuf
    BY SwapAssumption DEF MemInv, SwapInv
  <2> QED BY <2>1, Zenon DEF WinSound, MemInv, SwapInv
<1>2. sbo \in Bo /\ tbo \in Bo
  <2>1. w.buf[s].cur = 0 /\ w.buf[t].cur = 0
    BY <1>1, WorldFields, OnePixmap
  <2>2. /\ w.buf[s].pix[0] \in Pix /\ w.buf[t].pix[0] \in Pix
        /\ w.mem.pref[w.buf[s].pix[0]] > 0 /\ w.mem.pref[w.buf[t].pix[0]] > 0
    BY <1>1, InBuffers, Zenon
  <2>3. w.mem.pbo[w.buf[s].pix[0]] \in Bo /\ w.mem.pbo[w.buf[t].pix[0]] \in Bo
    BY <1>1, <2>2, InUse, Zenon
  <2> QED BY <2>1, <2>2, <2>3 DEF BoFromBuffer, PixmapBo
<1>3. m2.pbo = w.mem.pbo
  <2>1. m1 \in Mem /\ m1.pbo = w.mem.pbo
    BY <1>2, WorldFields, BoRefForm, BoRefType
  <2> HIDE DEF m1
  <2> QED BY <1>2, <2>1, BoRefForm
<1>4. /\ rs.ref = w.buf[s].ref + 1 /\ rs.att = w.buf[s].att
      /\ rs.name = w.buf[s].name /\ rs.pix = w.buf[s].pix
      /\ f[s] = rs /\ \A x \in Buf \ {s} : f[x] = w.buf[x]
  BY <1>1, WorldFields DEF BufRec
<1>5. /\ rt.ref = f[t].ref + 1 /\ rt.att = f[t].att
      /\ rt.name = f[t].name /\ rt.pix = f[t].pix
      /\ g[t] = rt /\ \A x \in Buf \ {t} : g[x] = f[x]
  <2>1. f[t] \in BufRec /\ f \in [Buf -> BufRec]
    <3>1. w.buf \in [Buf -> BufRec] /\ w.buf[s].ref \in Int
      BY <1>1, WorldFields, BufFields
    <3>2. rs \in BufRec
      <4> DEFINE i == w.buf[s].ref + 1
      <4>1. i \in Int /\ rs = [w.buf[s] EXCEPT !.ref = i] /\ w.buf[s] \in BufRec
        BY <1>1, <3>1
      <4> HIDE DEF i, rs
      <4> QED BY <4>1 DEF BufRec
    <3> HIDE DEF rs
    <3> QED BY <1>1, <3>1, <3>2
  <2> HIDE DEF f
  <2> QED BY <1>1, <2>1 DEF BufRec
<1>6. v.mem = m2 /\ v.buf = g /\ v.hw = w.hw /\ v.scanout = w.scanout
  <2> DEFINE u == [w EXCEPT !.buf = f]
             z == [u EXCEPT !.buf = g]
  <2>1. ReferenceBuffer(w, s) = u
    BY DEF ReferenceBuffer, World
  <2>2. u.buf = f /\ u.mem = w.mem /\ u.hw = w.hw /\ u.scanout = w.scanout
    BY DEF World
  <2>3. ReferenceBuffer(u, t) = z
    <3> HIDE DEF f
    <3> QED BY DEF ReferenceBuffer, World
  <2>4. z.buf = g /\ z.mem = w.mem /\ z.hw = w.hw /\ z.scanout = w.scanout
    <3> HIDE DEF f, g
    <3> QED BY DEF World
  <2> HIDE DEF z, u, f, g, m1
  <2>5. v.mem = BoRef(BoRef(z.mem, sbo), tbo)
    BY <2>1, <2>3 DEF PrepareSwap, World, z, u
  <2>6. v.buf = z.buf /\ v.hw = z.hw /\ v.scanout = z.scanout
    BY <2>1, <2>3 DEF PrepareSwap, World, z, u
  <2> QED BY <2>4, <2>5, <2>6 DEF m1
<1> HIDE DEF v, m2, f, g, rs, rt
<1>7. \A x \in Buf : v.buf[x].ref > 0 => Left(w, v, x)
  <2> SUFFICES ASSUME NEW x \in Buf, g[x].ref > 0 PROVE Left(w, v, x)
    BY <1>6
  <2>1. CASE x = t /\ x = s
    BY <1>1, <1>4, <1>5, <1>6, <2>1 DEF Left
  <2>2. CASE x = t /\ x # s
    BY <1>1, <1>4, <1>5, <1>6, <2>2 DEF Left
  <2>3. CASE x # t /\ x = s
    BY <1>1, <1>4, <1>5, <1>6, <2>3 DEF Left
  <2>4. CASE x # t /\ x # s
    BY <1>1, <1>4, <1>5, <1>6, <2>4 DEF Left
  <2> QED BY <2>1, <2>2, <2>3, <2>4
<1>8. Still(w, v)
  BY <1>3, <1>6, <1>7, StillSame
<1> QED BY <1>6, <1>8 DEF v

\* ARMSOCDRI2SwapComplete of a swap that does not flip.
LEMMA EndStill ==
  ASSUME NumBufs = 2, NEW w \in World, WinsTyped(win), Sound(w, win),
         NEW k \in Cmd, NEW ch \in Choices, UsesOf(w, k),
         w.cmd[k].draw \in Draw, w.cmd[k].src \in Buf, w.cmd[k].dst \in Buf,
         w.cmd[k].count <= 1,
         ~(Succeeded(w.cmd[k]) /\ w.cmd[k].type = "flip" /\ ~w.cmd[k].fake)
  PROVE  LET v == SwapComplete(w, k, ch)
         IN  Still(w, v) /\ v.hw = w.hw /\ v.scanout = w.scanout
<1> DEFINE c == w.cmd[k]
           d == c.draw
           n == w.priv[d].swaps - 1
           u == [w EXCEPT !.priv[d].swaps = n]
<1>1. ~(c.count > 1)
  BY WorldFields, CmdFields
<1>2. CASE Succeeded(c)
  <2>1. /\ u \in World /\ u.cmd = w.cmd /\ u.buf = w.buf /\ SameBuffers(w, u)
        /\ u.mem = w.mem /\ u.hw = w.hw /\ u.scanout = w.scanout
    <3> DEFINE i == w.priv[d].swaps + (-1)
               e == [w EXCEPT !.priv[d].swaps = i]
    <3>1. w.priv[d].swaps \in Int
      BY WorldFields, PrivFields
    <3>2. u = e
      BY <3>1, Zenon
    <3> HIDE DEF u
    <3>3. e \in World /\ e.cmd = w.cmd /\ e.buf = w.buf /\ SameBuffers(w, e)
      BY CountSwap
    <3>4. e.mem = w.mem /\ e.hw = w.hw /\ e.scanout = w.scanout
      BY DEF World
    <3> HIDE DEF e
    <3> QED BY <3>2, <3>3, <3>4
  <2>2. SwapComplete(w, k, ch) = Release(u, k)
    BY <1>1, <1>2, Zenon DEF SwapComplete
  <2> HIDE DEF u
  <2>3. UsesOf(u, k)
    BY <2>1, UsesKept
  <2>4. Sound(u, win)
    BY <2>1, SameHolders
  <2>5. /\ Still(u, Release(u, k)) /\ Release(u, k).hw = u.hw
        /\ Release(u, k).scanout = u.scanout
    BY <2>1, <2>3, <2>4, ReleaseStill
  <2>6. Still(w, u)
    BY <2>1, StillSame, Zenon DEF Left
  <2> QED BY <2>1, <2>2, <2>5, <2>6, StillTrans
<1>3. CASE ~Succeeded(c)
  <2>1. SwapComplete(w, k, ch) = Release(w, k)
    BY <1>1, <1>3 DEF SwapComplete
  <2> QED BY <2>1, ReleaseStill
<1> QED BY <1>2, <1>3

\* ARMSOCDRI2ExecuteSwap of a window that is on the screen: it is not given the
\* bo of its back buffer, because "canexchange" refuses the screen pixmap.
LEMMA ExecuteStill ==
  ASSUME NumBufs = 2, NEW w \in World, WinsTyped(win), Sound(w, win),
         NEW k \in Cmd, NEW ch \in Choices, UsesOf(w, k),
         w.cmd[k].draw \in Draw, w.cmd[k].src \in Buf, w.cmd[k].dst \in Buf,
         w.cmd[k].count <= 1, w.cmd[k].type = "none",
         win[w.cmd[k].draw] \in {Root, NoPix}
  PROVE  LET v == ExecuteSwap(w, k, ch)
         IN  Still(w, v) /\ v.hw = w.hw /\ v.scanout = w.scanout
<1> DEFINE d  == w.cmd[k].draw
           ty == IF win[d] = NoPix THEN w.cmd[k].type ELSE "blit"
           g  == [w.cmd EXCEPT ![k].type = ty]
           v  == [w EXCEPT !.cmd = g]
<1>1. ExecuteSwap(w, k, ch) = SwapComplete([w EXCEPT !.cmd[k].type = ty], k, ch)
  <2>1. ~(win[d] # NoPix /\ CanExchange(w, d, w.cmd[k].oldSrc, w.cmd[k].oldDst, ch))
    BY DEF CanExchange
  <2> HIDE DEF d
  <2> QED BY <2>1, Zenon DEF ExecuteSwap, d
<1>2. ty \in {"none", "blit"}
  OBVIOUS
<1> HIDE DEF ty
<1>3. [w EXCEPT !.cmd[k].type = ty] = v
  BY DEF World
<1>4. /\ g \in [Cmd -> CmdRec] /\ g[k].type = ty
      /\ \A j \in Cmd : /\ g[j].draw = w.cmd[j].draw
                        /\ g[j].src = w.cmd[j].src /\ g[j].dst = w.cmd[j].dst
                        /\ g[j].oldSrc = w.cmd[j].oldSrc /\ g[j].oldDst = w.cmd[j].oldDst
                        /\ g[j].count = w.cmd[j].count
  <2>1. w.cmd \in [Cmd -> CmdRec]
    BY WorldFields
  <2> QED BY <1>2, <2>1 DEF CmdRec
<1> HIDE DEF g
<1>5. /\ v \in World /\ v.cmd = g /\ v.mem = w.mem /\ v.buf = w.buf
      /\ v.scanout = w.scanout /\ v.priv = w.priv /\ v.hw = w.hw
  BY <1>4 DEF World
<1> HIDE DEF v
<1>6. UsesOf(v, k) /\ Sound(v, win)
  <2>1. UsesOf(v, k)
    BY <1>4, <1>5, UsesKept DEF SameBuffers
  <2>2. Sound(v, win)
    BY <1>4, <1>5, SameHolders
  <2> QED BY <2>1, <2>2
<1>7. LET z == SwapComplete(v, k, ch)
      IN  Still(v, z) /\ z.hw = v.hw /\ z.scanout = v.scanout
  <2>1. /\ v.cmd[k].draw \in Draw /\ v.cmd[k].src \in Buf /\ v.cmd[k].dst \in Buf
        /\ v.cmd[k].count <= 1 /\ v.cmd[k].type # "flip"
    BY <1>2, <1>4, <1>5
  <2> QED BY <1>5, <1>6, <2>1, EndStill
<1>8. Still(w, v)
  BY <1>5, StillSame, Zenon DEF Left
<1> QED BY <1>1, <1>3, <1>5, <1>7, <1>8, StillTrans

\* drmmode_page_flip changes nothing but the command and what the CRTCs show.
LEMMA StartFlipStill ==
  ASSUME NEW w \in World, NEW k \in Cmd, NEW S \in SUBSET Crtc
  PROVE  LET v == StartFlip(w, k, S)
         IN  /\ Still(w, v) /\ v.scanout = w.scanout
             /\ v.hw = [c \in Crtc |-> IF c \in S THEN w.cmd[k].oldSrc ELSE w.hw[c]]
             /\ v.cmd[k].type = "flip" /\ v.cmd[k].draw = w.cmd[k].draw
             /\ v.cmd[k].oldSrc = w.cmd[k].oldSrc
             /\ v.cmd[k].fail <=> S # crtcOn
             /\ v.cmd[k].fake <=> crtcOn = {}
<1> DEFINE c == [w.cmd[k] EXCEPT !.type = "flip", !.fail = S # crtcOn,
                                 !.fake = crtcOn = {}, !.count = Cardinality(S)]
           v == StartFlip(w, k, S)
<1>1. /\ v.mem = w.mem /\ v.buf = w.buf /\ v.scanout = w.scanout
      /\ v.hw = [x \in Crtc |-> IF x \in S THEN w.cmd[k].oldSrc ELSE w.hw[x]]
  BY DEF StartFlip, World
<1>2. v.cmd[k] = c
  BY WorldFields DEF StartFlip, World
<1>3. w.cmd[k] \in CmdRec
  BY WorldFields
<1>4. c.type = "flip" /\ c.draw = w.cmd[k].draw /\ c.oldSrc = w.cmd[k].oldSrc
  BY <1>3 DEF CmdRec
<1>5. c.fail = (S # crtcOn) /\ c.fake = (crtcOn = {})
  BY <1>3 DEF CmdRec
<1> HIDE DEF v, c
<1>6. Still(w, v)
  BY <1>1, StillSame, Zenon DEF Left
<1> QED BY <1>1, <1>2, <1>4, <1>5, <1>6 DEF v

-----------------------------------------------------------------------------
(* Swaps that end with a flip *)

\* ARMSOCDRI2ExchangeBuffers trades the names of the two buffers.
LEMMA ExchangeNames ==
  ASSUME NEW w \in World, NEW d, NEW s \in Buf, NEW t \in Buf, s # t
  PROVE  LET v == ExchangeBufs(w, d, s, t)
         IN  /\ v.buf[s].name = w.buf[t].name /\ v.buf[t].name = w.buf[s].name
             /\ \A x \in Buf \ {s, t} : v.buf[x] = w.buf[x]
<1> DEFINE ra == [w.buf[s] EXCEPT !.name = w.buf[t].name]
           f  == [w.buf EXCEPT ![s] = ra]
           rb == [w.buf[t] EXCEPT !.name = w.buf[s].name]
           g  == [f EXCEPT ![t] = rb]
           v  == ExchangeBufs(w, d, s, t)
<1>1. ra.name = w.buf[t].name /\ rb.name = w.buf[s].name
  BY WorldFields DEF BufRec
<1>2. f[t] = w.buf[t]
  BY WorldFields
<1>3. v.buf = g
  BY <1>2, WorldFields DEF ExchangeBufs, World
<1>4. g[s] = ra /\ g[t] = rb /\ \A x \in Buf \ {s, t} : g[x] = w.buf[x]
  <2>1. w.buf \in [Buf -> BufRec]
    BY WorldFields
  <2> HIDE DEF ra, rb
  <2> QED BY <2>1
<1> HIDE DEF v, g, f, ra, rb
<1> QED BY <1>1, <1>3, <1>4 DEF v

\* The screen pixmap has the bo of the back buffer s, which has that of the
\* screen; the two buffers have traded their names, other backs are the same.
Turned(w, v, s, t) ==
  /\ v.mem.pbo[Root] = Showing(w, s)
  /\ \A x \in Buf : v.buf[x].ref > 0 =>
       /\ w.buf[x].ref > 0 /\ v.buf[x].att = w.buf[x].att
       /\ x = s => /\ v.buf[x].name = w.buf[t].name
                   /\ Showing(v, x) = w.mem.pbo[Root]
       /\ x = t => v.buf[x].name = w.buf[s].name
       /\ x \notin {s, t} /\ w.buf[x].att = "back" => Stays(w, v, x)

LEMMA TurnedStill ==
  ASSUME NEW w, NEW u, NEW v, NEW s, NEW t, Turned(w, u, s, t), Still(u, v)
  PROVE  Turned(w, v, s, t)
<1>1. v.mem.pbo[Root] = Showing(w, s)
  BY Zenon DEF Turned, Still
<1>2. ASSUME NEW x \in Buf, v.buf[x].ref > 0
      PROVE  /\ w.buf[x].ref > 0 /\ v.buf[x].att = w.buf[x].att
             /\ x = s => /\ v.buf[x].name = w.buf[t].name
                         /\ Showing(v, x) = w.mem.pbo[Root]
             /\ x = t => v.buf[x].name = w.buf[s].name
             /\ x \notin {s, t} /\ w.buf[x].att = "back" => Stays(w, v, x)
  <2>1. Stays(u, v, x)
    BY <1>2, Zenon DEF Still
  <2>2. /\ u.buf[x].ref > 0 /\ v.buf[x].att = u.buf[x].att
        /\ v.buf[x].name = u.buf[x].name /\ Showing(v, x) = Showing(u, x)
    BY <2>1, Zenon DEF Stays
  <2>3. /\ w.buf[x].ref > 0 /\ u.buf[x].att = w.buf[x].att
        /\ x = s => /\ u.buf[x].name = w.buf[t].name
                    /\ Showing(u, x) = w.mem.pbo[Root]
        /\ x = t => u.buf[x].name = w.buf[s].name
        /\ x \notin {s, t} /\ w.buf[x].att = "back" => Stays(w, u, x)
    BY <2>2, Zenon DEF Turned
  <2>4. Stays(w, u, x) => Stays(w, v, x)
    BY <2>2, Zenon DEF Stays
  <2> QED BY <2>2, <2>3, <2>4, Zenon
<1> QED BY <1>1, <1>2, Zenon DEF Turned

\* The buffers that the client of a window on the screen had trade their bos.
LEMMA ExchangeTurns ==
  ASSUME NumBufs = 2, NEW w \in World, Sound(w, win),
         NEW d \in Draw, win[d] = Root, WinsTyped(win),
         NEW s \in Buf, NEW t \in Buf, w.buf[s].ref > 0, w.buf[t].ref > 0,
         w.buf[s].att = "back", w.buf[t].att = "front"
  PROVE  Turned(w, ExchangeBufs(w, d, s, t), s, t)
<1> DEFINE p == w.buf[s].pix[0]
           v == ExchangeBufs(w, d, s, t)
<1>1. /\ p \in Pix /\ p # Root /\ Root \in Pix
      /\ \A y \in Buf \ {s} : w.buf[y].pix[0] # p
  BY InBuffers, SwapAssumption, Zenon
<1>2. Traded(w, v, p, Root)
  BY <1>1, ExchangeForm
<1>3. s # t
  OBVIOUS
<1>4. /\ v.buf[s].name = w.buf[t].name /\ v.buf[t].name = w.buf[s].name
      /\ \A x \in Buf \ {s, t} : v.buf[x] = w.buf[x]
  BY <1>3, ExchangeNames
<1> HIDE DEF v
<1>5. /\ v.mem.pbo[p] = w.mem.pbo[Root] /\ v.mem.pbo[Root] = w.mem.pbo[p]
      /\ \A y \in Pix \ {p, Root} : v.mem.pbo[y] = w.mem.pbo[y]
  <2>1. w.mem.pbo \in [Pix -> Bo \cup {NoBo}]
    BY WorldFields, MemFields
  <2>2. v.mem.pbo = [w.mem.pbo EXCEPT ![p] = w.mem.pbo[Root], ![Root] = w.mem.pbo[p]]
    BY <1>2, Zenon DEF Traded
  <2> HIDE DEF p
  <2> QED BY <1>1, <2>1, <2>2
<1>6. v.mem.pbo[Root] = Showing(w, s)
  BY <1>5 DEF Showing
<1>7. ASSUME NEW x \in Buf, v.buf[x].ref > 0
      PROVE  /\ w.buf[x].ref > 0 /\ v.buf[x].att = w.buf[x].att
             /\ x = s => /\ v.buf[x].name = w.buf[t].name
                         /\ Showing(v, x) = w.mem.pbo[Root]
             /\ x = t => v.buf[x].name = w.buf[s].name
             /\ x \notin {s, t} /\ w.buf[x].att = "back" => Stays(w, v, x)
  <2>1. w.buf[x].ref > 0 /\ v.buf[x].att = w.buf[x].att /\ v.buf[x].pix = w.buf[x].pix
    BY <1>2, <1>7, Zenon DEF Traded
  <2>2. x = s => v.buf[x].name = w.buf[t].name /\ Showing(v, x) = w.mem.pbo[Root]
    BY <1>4, <1>5, <2>1 DEF Showing
  <2>3. x = t => v.buf[x].name = w.buf[s].name
    BY <1>4
  <2>4. ASSUME x \notin {s, t}, w.buf[x].att = "back"
        PROVE  Stays(w, v, x)
    <3>1. w.buf[x].pix[0] \in Pix \ {p, Root}
      <4>1. w.buf[x].pix[0] \in Pix /\ w.buf[x].pix[0] # Root
        BY <2>1, <2>4, InBuffers, Zenon
      <4> QED BY <1>1, <2>4, <4>1
    <3>2. v.mem.pbo[w.buf[x].pix[0]] = w.mem.pbo[w.buf[x].pix[0]]
      BY <1>5, <3>1
    <3>3. v.buf[x] = w.buf[x]
      BY <1>4, <2>4
    <3> QED BY <2>1, <3>2, <3>3 DEF Stays, Showing
  <2> QED BY <2>1, <2>2, <2>3, <2>4
<1> QED BY <1>6, <1>7, Zenon DEF Turned, v

\* ARMSOCDRI2SwapComplete of the last flip event of a swap that did not fail.
LEMMA FlipTurns ==
  ASSUME NumBufs = 2, NEW w \in World, WinsTyped(win), WinApart(win, top),
         NEW k \in Cmd, NEW ch \in Choices,
         MemInv(w, win, Draw, Cmd), HeldApart(w.priv), UsesOf(w, k),
         w.cmd[k].draw \in Draw, w.cmd[k].count <= 1, w.cmd[k].live,
         OnlySwap(w, w.cmd[k].draw, k), win[w.cmd[k].draw] = Root,
         Succeeded(w.cmd[k]), w.cmd[k].type = "flip", ~w.cmd[k].fake
  PROVE  LET v == SwapComplete(w, k, ch)
         IN  /\ Turned(w, v, w.cmd[k].src, w.cmd[k].dst) /\ v.hw = w.hw
             /\ v.scanout = w.cmd[k].oldSrc
<1> DEFINE c == w.cmd[k]
           d == c.draw
           s == c.src
           t == c.dst
           p == w.buf[s].pix[0]
           K == Cmd \ {k}
           v == ExchangeBufs(w, d, s, t)
           n == v.priv[d].swaps - 1
           u == [v EXCEPT !.priv[d].swaps = n]
           z == SetScanoutBo(u, u.mem.pbo[Root])
<1>1. /\ SwapInv(w, win, Draw, Cmd) /\ Sound(w, win)
      /\ ScreenSound(w) /\ CmdSound(w, win, k) /\ CmdHolds(c)
  BY DEF MemInv, SwapInv
<1>2. s \in Buf /\ t \in Buf /\ win[d] # NoPix /\ ~c.fail
  BY <1>1 DEF CmdHolds, Whole, Succeeded
<1>3. /\ w.priv[d].back = s /\ w.priv[d].front = t
      /\ w.mem.pbo[p] = c.oldSrc /\ w.mem.fb[c.oldSrc]
  BY <1>1, <1>2, Zenon DEF CmdSound
<1>4. /\ w.buf[t].pix[0] = Root
      /\ w.buf[s].ref > 0 /\ w.buf[t].ref > 0
      /\ w.buf[s].att = "back" /\ w.buf[t].att = "front"
  <2>1. WinSound(w, win, d) /\ s # NoBuf
    BY <1>1, <1>2, SwapAssumption DEF SwapInv
  <2> QED BY <1>3, <2>1, Zenon DEF WinSound
<1>5. Tradable(w, d, s, t)
  BY <1>2, <1>3, <1>4, Zenon DEF Tradable
<1>6. /\ v \in World /\ SameRest(w, v) /\ SwapInv(v, win, Draw, K)
      /\ Traded(w, v, p, win[d]) /\ p \in Pix \ {Root}
  <2> HIDE DEF c, d, s, t
  <2>1. d \in Draw /\ OnlySwap(w, d, k)
    BY DEF c, d
  <2> QED BY <1>1, <1>5, <2>1, TradeMem
<1>7. Turned(w, v, s, t)
  BY <1>1, <1>2, <1>4, ExchangeTurns
<1> HIDE DEF v
<1>8. /\ v.cmd = w.cmd /\ v.priv = w.priv /\ v.hw = w.hw
      /\ v.mem.fb = w.mem.fb
      /\ \A x \in Buf : /\ v.buf[x].ref = w.buf[x].ref
                        /\ v.buf[x].pix = w.buf[x].pix
  BY <1>6, Zenon DEF SameRest, SameSwaps, Traded
<1>9. v.mem.pbo[Root] = c.oldSrc
  BY <1>3, <1>7, Zenon DEF Turned, Showing
<1>10. UsesOf(v, k)
  <2>1. SameBuffers(w, v)
    BY <1>8 DEF SameBuffers
  <2> QED BY <1>8, <2>1, UsesKept
<1>11. /\ u \in World /\ u.mem = v.mem /\ u.buf = v.buf /\ u.cmd = v.cmd
       /\ u.hw = v.hw /\ UsesOf(u, k) /\ SwapInv(u, win, Draw, K)
  <2> DEFINE e == [v EXCEPT !.priv[d].swaps = @ + (-1)]
  <2>1. K \in SUBSET Cmd /\ -1 \in Int /\ d \in Draw
    OBVIOUS
  <2>2. v.priv[d].swaps \in Int
    BY <1>6, WorldFields, PrivFields, Zenon
  <2>3. u = e
    BY <2>2, Zenon
  <2>4. e.hw = v.hw
    BY <1>6 DEF World
  <2> HIDE DEF K, u, d
  <2>5. /\ e \in World /\ e.mem = v.mem /\ e.buf = v.buf /\ e.cmd = v.cmd
        /\ UsesOf(e, k) /\ SwapInv(e, win, Draw, K)
    <3>1. UsesOf(v, k) /\ v \in World /\ SwapInv(v, win, Draw, K) /\ WinsTyped(win)
      BY <1>6, <1>10
    <3>2. LET y == [v EXCEPT !.priv[d].swaps = @ + (-1)]
          IN  /\ y \in World /\ y.mem = v.mem /\ y.buf = v.buf /\ y.cmd = v.cmd
              /\ y.scanout = v.scanout /\ UsesOf(y, k)
              /\ SwapInv(y, win, Draw, K) /\ (ScreenSound(v) => ScreenSound(y))
      BY ONLY <2>1, <3>1, k \in Cmd, CountSwapMem, Zenon
    <3> QED BY <3>2, Zenon
  <2> HIDE DEF e
  <2> QED BY <2>3, <2>4, <2>5
<1> HIDE DEF u
<1>12. BoFromBuffer(u, t) = u.mem.pbo[Root]
  <2>1. u.buf[t].cur = 0
    BY <1>2, <1>11, WorldFields, OnePixmap
  <2>2. u.buf[t].pix[0] = Root
    BY <1>2, <1>4, <1>8, <1>11
  <2>3. Root \in Pix
    BY <1>1, InUse
  <2> QED BY <2>1, <2>2, <2>3 DEF BoFromBuffer, PixmapBo
<1>13. z \in World /\ SameSwaps(u, z) /\ z.buf = u.buf /\ MemInv(z, win, Draw, K)
  <2>1. K \in SUBSET Cmd /\ u.mem.fb[u.mem.pbo[Root]]
    BY <1>3, <1>8, <1>9, <1>11
  <2> HIDE DEF K
  <2> QED BY <1>11, <2>1, SetScanoutMem
<1>14. z.mem.pbo = u.mem.pbo /\ z.scanout = c.oldSrc
  <2>1. c.oldSrc \in Bo /\ u.scanout \in Bo
    BY <1>1, <1>11, WorldFields DEF CmdHolds
  <2>2. u.mem.pbo[Root] = c.oldSrc
    BY <1>9, <1>11
  <2> HIDE DEF c
  <2> DEFINE b  == c.oldSrc
             m0 == [u.mem EXCEPT !.ok = @ /\ u.mem.fb[b]]
             m1 == BoRef(m0, b)
             m2 == BoUnref(m1, u.scanout)
  <2>3. b # NoBo
    BY <2>1, MemAssumption
  <2>4. m0 \in Mem /\ m0.pbo = u.mem.pbo
    <3>1. u.mem \in Mem
      BY <1>11, WorldFields
    <3>2. \A m \in Mem : \A x \in Bo :
            LET r == [m EXCEPT !.ok = @ /\ m.fb[x]] IN r \in Mem /\ r.pbo = m.pbo
      BY DEF Mem
    <3> QED BY ONLY <2>1, <3>1, <3>2
  <2> HIDE DEF m0
  <2>5. m1 \in Mem /\ m1.pbo = m0.pbo
    BY <2>1, <2>4, BoRefForm, BoRefType
  <2> HIDE DEF m1
  <2>6. m2.pbo = m1.pbo
    BY <2>1, <2>5, BoUnrefForm
  <2>7. z = [u EXCEPT !.mem = m2, !.scanout = b]
    BY <2>2, <2>3 DEF SetScanoutBo, m1, m0
  <2> HIDE DEF m2, z
  <2>8. z.mem = m2 /\ z.scanout = b
    BY <1>11, <2>7 DEF World
  <2> QED BY <2>4, <2>5, <2>6, <2>8
<1> HIDE DEF z
<1>15. z.cmd = w.cmd /\ UsesOf(z, k) /\ z.hw = w.hw
  <2>1. SameBuffers(u, z) /\ z.cmd = u.cmd /\ z.hw = u.hw
    BY <1>13 DEF SameSwaps, SameBuffers
  <2> QED BY <1>8, <1>11, <1>13, <2>1, UsesKept
<1>16. Still(v, z)
  BY <1>11, <1>13, <1>14, StillSame, Zenon DEF Left
<1>17. LET y == Release(z, k)
       IN  Still(z, y) /\ y.hw = z.hw /\ y.scanout = z.scanout
  <2>1. Sound(z, win)
    BY <1>13 DEF MemInv, SwapInv
  <2>2. z.cmd[k].src \in Buf /\ z.cmd[k].dst \in Buf
    BY <1>2, <1>15
  <2> QED BY <1>13, <1>15, <2>1, <2>2, ReleaseStill
<1>18. SwapComplete(w, k, ch) = Release(z, k)
  <2>1. ~(c.count > 1)
    BY WorldFields, CmdFields
  <2>2. NextBuffer(v, d, s, ch) = v
    BY NextIsSame
  <2> QED BY <1>12, <2>1, <2>2, Zenon DEF SwapComplete, v, u, z
<1>19. Turned(w, Release(z, k), s, t)
  <2>1. Still(v, Release(z, k))
    BY <1>16, <1>17, StillTrans
  <2> QED BY <1>7, <2>1, TurnedStill
<1> QED BY <1>14, <1>15, <1>17, <1>18, <1>19

\* Such a swap does flip.
Flips(w, k) == Succeeded(w.cmd[k]) /\ w.cmd[k].type = "flip" /\ ~w.cmd[k].fake

\* ARMSOCDRI2SwapComplete for the event of one CRTC.
LEMMA CompleteShows ==
  ASSUME NumBufs = 2, NEW w \in World, WinsTyped(win), WinApart(win, top),
         NEW k \in Cmd, NEW ch \in Choices,
         MemInv(w, win, Draw, Cmd), HeldApart(w.priv), UsesOf(w, k),
         w.cmd[k].draw \in Draw, w.cmd[k].live,
         ~w.cmd[k].fail => OnlySwap(w, w.cmd[k].draw, k),
         win[w.cmd[k].draw] \in {Root, NoPix}
  PROVE  LET v == SwapComplete(w, k, ch)
         IN  /\ v.hw = w.hw
             /\ w.cmd[k].count > 1 \/ ~Flips(w, k) =>
                  Still(w, v) /\ v.scanout = w.scanout
             /\ w.cmd[k].count <= 1 /\ Flips(w, k) =>
                  /\ Turned(w, v, w.cmd[k].src, w.cmd[k].dst)
                  /\ v.scanout = w.cmd[k].oldSrc
<1> DEFINE c == w.cmd[k]
           v == SwapComplete(w, k, ch)
<1>1. c.src \in Buf /\ c.dst \in Buf
  BY DEF MemInv, SwapInv, CmdHolds, Whole
<1>2. c.count \in Int
  BY WorldFields, CmdFields
<1>3. CASE c.count > 1
  <2> DEFINE g == [w.cmd EXCEPT ![k].count = c.count - 1]
             y == [w EXCEPT !.cmd = g]
  <2>1. v = y
    BY <1>3, WorldFields, Zenon DEF SwapComplete, World
  <2>2. y.mem = w.mem /\ y.buf = w.buf /\ y.hw = w.hw /\ y.scanout = w.scanout
    BY DEF World
  <2> HIDE DEF v, y
  <2>3. Still(w, v)
    BY <2>1, <2>2, StillSame, Zenon DEF Left
  <2>4. ~(c.count <= 1)
    BY <1>2, <1>3
  <2> QED BY <2>1, <2>2, <2>3, <2>4 DEF v
<1>4. CASE c.count <= 1 /\ Flips(w, k)
  <2>1. win[c.draw] = Root /\ ~c.fail
    BY <1>4 DEF Flips, Succeeded
  <2>2. ~(c.count > 1)
    BY <1>2, <1>4
  <2> QED BY <1>4, <2>1, <2>2, FlipTurns DEF Flips
<1>5. CASE c.count <= 1 /\ ~Flips(w, k)
  <2>1. Sound(w, win)
    BY DEF MemInv, SwapInv
  <2>2. Still(w, v) /\ v.hw = w.hw /\ v.scanout = w.scanout
    BY <1>1, <1>5, <2>1, EndStill DEF Flips
  <2> QED BY <1>5, <2>2
<1> QED BY <1>2, <1>3, <1>4, <1>5

-----------------------------------------------------------------------------
(* What a step does to names and CRTCs *)

\* A CRTC scans out the bo that has the name of buffer x.
On(w, x) == \E c \in Crtc : w.hw[c] # NoBo /\ w.hw[c] = w.buf[x].name

\* The screen pixmap keeps its bo, a back buffer keeps name and bo or gets the
\* name of the bo that it has, and a front keeps its name or gets that of the
\* screen's bo.
KeepsNames(w, v) ==
  /\ v.mem.pbo[Root] = w.mem.pbo[Root]
  /\ \A x \in Buf : v.buf[x].ref > 0 /\ v.buf[x].att = "back" =>
       Stays(w, v, x) \/ v.buf[x].name = Showing(v, x)
  /\ \A e \in Draw :
       LET f == v.priv[e].front
       IN  \/ f = NoBuf
           \/ v.buf[f].name = v.mem.pbo[Root]
           \/ f = w.priv[e].front /\ v.buf[f].name = w.buf[f].name

\* A back buffer that a CRTC scans out is that of the same window as before.
OnKept(w, v) ==
  \A e \in Draw :
    LET b == v.priv[e].back
    IN  b # NoBuf /\ On(v, b) => w.priv[e].back = b /\ On(w, b)

\* A CRTC goes on with its bo for as long as that has an fb.
HwKept(w, v) ==
  \A c \in Crtc : \/ v.hw[c] = w.hw[c]
                  \/ v.hw[c] = NoBo /\ ~v.mem.fb[w.hw[c]]

\* No flip starts, and one that ends shows nothing and frees its command.
FlipsKept(w, v) ==
  \A k \in Cmd :
    /\ Flying(v, k) => /\ Flying(w, k)
                       /\ v.cmd[k].draw = w.cmd[k].draw
                       /\ v.cmd[k].oldSrc = w.cmd[k].oldSrc
                       /\ v.cmd[k].fail = w.cmd[k].fail
                       /\ v.cmd[k].fake = w.cmd[k].fake
    /\ Flying(w, k) /\ ~Flying(v, k) => ~Flips(w, k) /\ ~v.cmd[k].live

\* Nothing else comes on the screen.
Calm(w, v) == KeepsNames(w, v) /\ OnKept(w, v) /\ HwKept(w, v) /\ FlipsKept(w, v)

\* The core uses the buffers that it has.
Paired(w) == \A e \in Draw : w.priv[e].back = NoBuf <=> w.priv[e].front = NoBuf

LEMMA HeldBuffers ==
  ASSUME NEW w \in World, NEW wn, MemInv(w, wn, Draw, Cmd), Paired(w)
  PROVE  \A e \in Draw :
           /\ w.priv[e].back # NoBuf =>
                /\ w.priv[e].back \in Buf /\ w.buf[w.priv[e].back].ref > 0
                /\ w.buf[w.priv[e].back].att = "back" /\ wn[e] # NoPix
           /\ w.priv[e].front # NoBuf =>
                /\ w.priv[e].front \in Buf /\ w.buf[w.priv[e].front].ref > 0
                /\ w.buf[w.priv[e].front].att = "front"
<1> TAKE e \in Draw
<1>1. w.priv[e].back \in Buf \cup {NoBuf} /\ w.priv[e].front \in Buf \cup {NoBuf}
  BY WorldFields, PrivFields
<1>2. WinSound(w, wn, e)
  BY DEF MemInv, SwapInv
<1>3. w.priv[e].back = NoBuf <=> w.priv[e].front = NoBuf
  BY DEF Paired
<1> QED BY <1>1, <1>2, <1>3, Zenon DEF WinSound

\* The state before and after a step while the screen exists.
LEMMA Before ==
  ASSUME TypeInv, MemSafe, phase # "closed"
  PROVE  /\ W \in World /\ MemInv(W, win, Draw, Cmd) /\ Paired(W)
         /\ Sound(W, win) /\ WinsTyped(win)
<1>1. W \in World /\ MemInv(W, win, Draw, Cmd) /\ W.priv = priv /\ WinsTyped(win)
  BY Given
<1>2. Paired(W)
  BY <1>1 DEF Paired, TypeInv, BuffersPaired
<1> QED BY <1>1, <1>2 DEF MemInv, SwapInv

LEMMA After ==
  ASSUME TypeInv', MemSafe', phase' # "closed"
  PROVE  /\ W' \in World /\ MemInv(W', win', Draw, Cmd) /\ Paired(W')
         /\ Sound(W', win') /\ WinsTyped(win')
<1>1. W' \in World /\ W'.priv = priv'
  BY NextWorld
<1>2. MemInv(W', win', Draw, Cmd)
  BY DEF MemSafe
<1>3. Paired(W')
  BY <1>1 DEF Paired, TypeInv, BuffersPaired
<1>4. WinsTyped(win')
  BY DEF WinsTyped, TypeInv, TypeOK
<1> QED BY <1>1, <1>2, <1>3, <1>4 DEF MemInv, SwapInv

\* Nothing happens.
LEMMA CalmSame ==
  ASSUME TypeInv, MemSafe, phase # "closed", W' = W
  PROVE  Calm(W, W')
<1> DEFINE w == W
<1>0. w \in World /\ MemInv(w, win, Draw, Cmd) /\ Paired(w)
  BY Before
<1>1. Calm(w, w)
  <2> HIDE DEF w
  <2>1. KeepsNames(w, w)
    BY Zenon DEF KeepsNames, Stays
  <2>2. OnKept(w, w) /\ HwKept(w, w) /\ FlipsKept(w, w)
    BY Zenon DEF OnKept, HwKept, FlipsKept
  <2> QED BY <2>1, <2>2 DEF Calm
<1> QED BY <1>1

\* The fields of the world after a handler.
LEMMA Applied ==
  ASSUME NEW v, Apply(v)
  PROVE  /\ W'.mem = v.mem /\ W'.buf = v.buf /\ W'.cmd = v.cmd
         /\ W'.scanout = v.scanout /\ W'.priv = v.priv
         /\ \A c \in Crtc : \/ W'.hw[c] = v.hw[c]
                            \/ W'.hw[c] = NoBo /\ ~v.mem.fb[v.hw[c]]
<1>1. /\ W'.mem = v.mem /\ W'.buf = v.buf /\ W'.cmd = v.cmd
      /\ W'.scanout = v.scanout /\ W'.priv = v.priv /\ W'.hw = Shown(v)
  BY DEF W, Apply
<1>2. \A c \in Crtc : \/ Shown(v)[c] = v.hw[c]
                      \/ Shown(v)[c] = NoBo /\ ~v.mem.fb[v.hw[c]]
  BY DEF Shown
<1> QED BY <1>1, <1>2

\* The buffers that a window keeps while nothing else is touched.
LessHeld(w, v) ==
  \A e \in Draw : /\ v.priv[e].back \in {NoBuf, w.priv[e].back}
                  /\ v.priv[e].front \in {NoBuf, w.priv[e].front}

LEMMA StillNames ==
  ASSUME NEW w, NEW v \in World, NEW wn, MemInv(v, wn, Draw, Cmd), Paired(v),
         Still(w, v), LessHeld(w, v)
  PROVE  /\ KeepsNames(w, v)
         /\ \A e \in Draw : v.priv[e].back # NoBuf =>
              /\ v.priv[e].back = w.priv[e].back
              /\ Stays(w, v, v.priv[e].back)
<1>1. v.mem.pbo[Root] = w.mem.pbo[Root] /\ \A x \in Buf : v.buf[x].ref > 0 => Stays(w, v, x)
  BY Zenon DEF Still
<1>2. ASSUME NEW e \in Draw, v.priv[e].front # NoBuf
      PROVE  /\ v.priv[e].front = w.priv[e].front
             /\ Stays(w, v, v.priv[e].front)
  <2>1. v.priv[e].front \in Buf /\ v.buf[v.priv[e].front].ref > 0
    BY <1>2, HeldBuffers
  <2>2. v.priv[e].front = w.priv[e].front
    BY <1>2 DEF LessHeld
  <2> QED BY <1>1, <2>1, <2>2
<1>3. ASSUME NEW e \in Draw, v.priv[e].back # NoBuf
      PROVE  /\ v.priv[e].back = w.priv[e].back
             /\ Stays(w, v, v.priv[e].back)
  <2>1. v.priv[e].back \in Buf /\ v.buf[v.priv[e].back].ref > 0
    BY <1>3, HeldBuffers
  <2>2. v.priv[e].back = w.priv[e].back
    BY <1>3 DEF LessHeld
  <2> QED BY <1>1, <2>1, <2>2
<1>4. \A e \in Draw : v.priv[e].front # NoBuf =>
        /\ v.priv[e].front = w.priv[e].front
        /\ v.buf[v.priv[e].front].name = w.buf[v.priv[e].front].name
  BY <1>2, Zenon DEF Stays
<1>5. KeepsNames(w, v)
  BY <1>1, <1>4, Zenon DEF KeepsNames
<1> QED BY <1>3, <1>5

\* A handler that names nothing and leaves the CRTCs alone.
LEMMA CalmIf ==
  ASSUME TypeInv', MemSafe', phase' # "closed", W \in World,
         NEW v \in World, Apply(v), Still(W, v), v.hw = W.hw, LessHeld(W, v),
         FlipsKept(W, v)
  PROVE  Calm(W, W')
<1>1. /\ W' \in World /\ MemInv(W', win', Draw, Cmd) /\ Paired(W')
  BY After
<1>2. /\ W'.mem = v.mem /\ W'.buf = v.buf /\ W'.cmd = v.cmd /\ W'.priv = v.priv
      /\ \A c \in Crtc : \/ W'.hw[c] = v.hw[c]
                         \/ W'.hw[c] = NoBo /\ ~v.mem.fb[v.hw[c]]
  BY Applied
<1> DEFINE w == W
           u == W'
<1> HIDE DEF w, u
<1>3. Still(w, u) /\ LessHeld(w, u)
  <2>1. Still(w, u)
    BY <1>2 DEF Still, Stays, Showing, w, u
  <2>2. LessHeld(w, u)
    BY <1>2 DEF LessHeld, w, u
  <2> QED BY <2>1, <2>2
<1>4. /\ KeepsNames(w, u)
      /\ \A e \in Draw : u.priv[e].back # NoBuf =>
           /\ u.priv[e].back = w.priv[e].back
           /\ Stays(w, u, u.priv[e].back)
  <2>1. u \in World /\ MemInv(u, win', Draw, Cmd) /\ Paired(u)
    BY <1>1 DEF u
  <2> QED BY <1>3, <2>1, StillNames
<1>5. HwKept(w, u)
  BY <1>2 DEF HwKept, w, u
<1>6. OnKept(w, u)
  <2> SUFFICES ASSUME NEW e \in Draw, u.priv[e].back # NoBuf, On(u, u.priv[e].back)
               PROVE  w.priv[e].back = u.priv[e].back /\ On(w, u.priv[e].back)
    BY Zenon DEF OnKept
  <2>1. u.priv[e].back = w.priv[e].back /\ u.buf[u.priv[e].back].name = w.buf[u.priv[e].back].name
    BY <1>4, Zenon DEF Stays
  <2>2. PICK c \in Crtc : u.hw[c] # NoBo /\ u.hw[c] = u.buf[u.priv[e].back].name
    BY Zenon DEF On
  <2>3. u.hw[c] = w.hw[c]
    BY <1>5, <2>2, Zenon DEF HwKept
  <2> QED BY <2>1, <2>2, <2>3, Zenon DEF On
<1>7. FlipsKept(w, u)
  BY <1>2 DEF FlipsKept, Flying, w, u
<1> QED BY <1>4, <1>5, <1>6, <1>7 DEF Calm, w, u

-----------------------------------------------------------------------------
(* One lemma per action *)

\* DRI2GetBuffers of a window on the screen.
LEMMA GetBuffersCalm ==
  ASSUME NumBufs = 2, "name" \notin Env, TypeInv, UsersInv, MemSafe, BoLeft,
         TypeInv', MemSafe', Unredirected, NEW d \in Draw, GetBuffers(d)
  PROVE  Calm(W, W')
<1>1. /\ phase = "up" /\ phase' = "up" /\ Unthrottled(d) /\ win[d] = Root
      /\ win[d] # NoPix
  BY Zenon DEF GetBuffers, Running, Unthrottled, Unredirected
<1>2. /\ W \in World /\ WinsTyped(win) /\ MemInv(W, win, Draw, Cmd)
      /\ HeldApart(W.priv) /\ WinApart(win, top)
      /\ W.priv = priv /\ W.cmd = cmd
  BY <1>1, Given
<1>3. PICK ch \in Choices : Apply(GotBuffers(W, priv[d], d, ch))
  <2>1. \E ch \in Choices : Apply(GotBuffers(W, priv[d], d, ch))
    BY ONLY GetBuffers(d), Zenon DEF GetBuffers, GotBuffers, FrontGot, Handed
  <2> QED BY <2>1
<1> DEFINE v == GotBuffers(W, W.priv[d], d, ch)
<1>4. \A k \in Cmd : W.cmd[k].live /\ ~W.cmd[k].fail => W.cmd[k].draw # d
  BY <1>1, <1>2, NoSwapOf
<1>5. v \in World /\ v.cmd = W.cmd /\ Served(W, v, d)
  <2>1. FreeBo(W) # {}
    BY DEF BoLeft
  <2> QED BY ONLY NumBufs = 2, "name" \notin Env, d \in Draw, ch \in Choices,
                  <1>1, <1>2, <1>4, <2>1, GetBuffersMem
<1>6. Apply(v)
  <2>1. W.priv[d] = priv[d]
    BY <1>2
  <2> QED BY <1>3, <2>1
<1> HIDE DEF v
<1>7. /\ W' \in World /\ MemInv(W', win', Draw, Cmd) /\ Paired(W')
  BY <1>1, After
<1>8. /\ W'.mem = v.mem /\ W'.buf = v.buf /\ W'.cmd = v.cmd /\ W'.priv = v.priv
      /\ \A c \in Crtc : \/ W'.hw[c] = v.hw[c]
                         \/ W'.hw[c] = NoBo /\ ~v.mem.fb[v.hw[c]]
  BY <1>6, Applied
<1> DEFINE w == W
           u == W'
<1>9. /\ u.mem.pbo[Root] = w.mem.pbo[Root] /\ v.hw = w.hw
      /\ \A x \in Buf : u.buf[x].ref > 0 => Stays(w, u, x) \/ Fresh(v, x)
  BY <1>5, <1>8 DEF Served, Quiet, Stays, Showing
<1>10. /\ \A e \in Draw \ {d} :
            /\ u.priv[e] = w.priv[e]
            /\ w.priv[e].front \in Buf => u.buf[w.priv[e].front] = w.buf[w.priv[e].front]
       /\ \/ u.priv[d].back \in {NoBuf, w.priv[d].back}
          \/ \A c \in Crtc : v.hw[c] # u.buf[u.priv[d].back].name
       /\ u.priv[d].front # NoBuf => u.buf[u.priv[d].front].name = u.mem.pbo[Root]
  BY <1>1, <1>5, <1>8 DEF Served
<1>11. \A e \in Draw :
         /\ u.priv[e].back # NoBuf =>
              /\ u.priv[e].back \in Buf /\ u.buf[u.priv[e].back].ref > 0
              /\ u.buf[u.priv[e].back].att = "back"
         /\ u.priv[e].front # NoBuf => u.priv[e].front \in Buf
  BY <1>7, HeldBuffers
<1>12. HwKept(w, u)
  BY <1>8, <1>9 DEF HwKept
<1>13. u.cmd = w.cmd /\ u.buf = v.buf /\ u.mem = v.mem
  BY <1>5, <1>8
<1> HIDE DEF w, u
<1>14. KeepsNames(w, u)
  <2>1. ASSUME NEW x \in Buf, u.buf[x].ref > 0
        PROVE  Stays(w, u, x) \/ u.buf[x].name = Showing(u, x)
    <3>1. Fresh(v, x) => u.buf[x].name = Showing(u, x)
      BY <1>13 DEF Fresh, Showing
    <3> QED BY <1>9, <2>1, <3>1
  <2>2. ASSUME NEW e \in Draw, u.priv[e].front # NoBuf
        PROVE  \/ u.buf[u.priv[e].front].name = u.mem.pbo[Root]
               \/ /\ u.priv[e].front = w.priv[e].front
                  /\ u.buf[u.priv[e].front].name = w.buf[u.priv[e].front].name
    <3>1. CASE e = d
      BY <1>10, <2>2, <3>1
    <3>2. CASE e # d
      <4>1. u.priv[e] = w.priv[e] /\ u.priv[e].front \in Buf
        BY <1>10, <1>11, <2>2, <3>2
      <4>2. u.buf[w.priv[e].front] = w.buf[w.priv[e].front]
        BY <1>10, <3>2, <4>1
      <4> QED BY <4>1, <4>2
    <3> QED BY <3>1, <3>2
  <2> QED BY <1>9, <2>1, <2>2, Zenon DEF KeepsNames
<1>15. OnKept(w, u)
  <2> SUFFICES ASSUME NEW e \in Draw, u.priv[e].back # NoBuf, On(u, u.priv[e].back)
               PROVE  w.priv[e].back = u.priv[e].back /\ On(w, u.priv[e].back)
    BY Zenon DEF OnKept
  <2> DEFINE b == u.priv[e].back
  <2>1. b \in Buf /\ u.buf[b].ref > 0 /\ u.buf[b].att = "back"
    BY <1>11
  <2>2. PICK c \in Crtc : u.hw[c] # NoBo /\ u.hw[c] = u.buf[b].name
    BY Zenon DEF On
  <2>3. u.hw[c] = w.hw[c] /\ v.hw[c] = u.buf[b].name
    BY <1>9, <1>12, <2>2, Zenon DEF HwKept
  <2>4. w.priv[e].back = b
    <3>1. CASE e = d
      BY <1>10, <2>3, <3>1
    <3>2. CASE e # d
      BY <1>10, <3>2
    <3> QED BY <3>1, <3>2
  <2>5. ~Fresh(v, b)
    BY <1>13, <2>1, <2>3, Zenon DEF Fresh
  <2>6. Stays(w, u, b)
    BY <1>9, <2>1, <2>5
  <2> HIDE DEF b
  <2>7. On(w, b)
    BY <2>2, <2>3, <2>6, Zenon DEF On, Stays
  <2> QED BY <2>4, <2>7 DEF b
<1>16. FlipsKept(w, u)
  BY <1>13 DEF FlipsKept, Flying
<1> QED BY <1>12, <1>14, <1>15, <1>16 DEF Calm, w, u

\* ARMSOCDRI2ScheduleSwap counts the references of the window's two buffers.
LEMMA ScheduledStill ==
  ASSUME NumBufs = 2, TypeInv, UsersInv, MemSafe, NEW d \in Draw, CanSwap(d)
  PROVE  LET k == Pick(FreeCmd)
             v == PrepareSwap(W, d, k)
         IN  Still(W, v) /\ v.hw = W.hw /\ ~W.cmd[k].live
<1> DEFINE k == Pick(FreeCmd)
<1>1. phase # "closed" /\ win[d] # NoPix /\ priv[d].back # NoBuf
  BY DEF CanSwap, Running, Unthrottled
<1>2. /\ W \in World /\ WinsTyped(win) /\ MemInv(W, win, Draw, Cmd)
      /\ W.priv = priv /\ W.cmd = cmd
  BY <1>1, Given
<1>3. k \in Cmd /\ ~cmd[k].live
  <2>1. k \in FreeCmd
    BY PickIn DEF CanSwap
  <2> QED BY <2>1 DEF FreeCmd
<1>4. priv[d].back \in Buf /\ priv[d].front \in Buf
  <2>1. priv[d] \in PrivRec
    BY DEF TypeInv, TypeOK
  <2> QED BY <1>1, <2>1, PrivFields DEF TypeInv, BuffersPaired
<1>5. W.priv[d].back \in Buf /\ W.priv[d].front \in Buf /\ ~W.cmd[k].live
  BY <1>2, <1>3, <1>4
<1> HIDE DEF k
<1> QED BY <1>1, <1>2, <1>3, <1>5, PrepareStill DEF k

LEMMA LessIfSame ==
  ASSUME NEW w, NEW v, SameBuffers(w, v)
  PROVE  LessHeld(w, v)
BY DEF LessHeld, SameBuffers

LEMMA SameTrans ==
  ASSUME NEW w, NEW u, NEW v, SameBuffers(w, u), SameBuffers(u, v)
  PROVE  SameBuffers(w, v)
BY DEF SameBuffers

\* A command that was free is not a flip.
LEMMA StartsNoFlip ==
  ASSUME NEW w, NEW v, NEW k \in Cmd, ~w.cmd[k].live, ~Flying(v, k),
         \A j \in Cmd \ {k} : v.cmd[j] = w.cmd[j]
  PROVE  FlipsKept(w, v)
<1> SUFFICES ASSUME NEW j \in Cmd
             PROVE  /\ Flying(v, j) => /\ Flying(w, j) /\ v.cmd[j] = w.cmd[j]
                    /\ Flying(w, j) => Flying(v, j)
  BY Zenon DEF FlipsKept
<1>1. CASE j = k
  BY <1>1 DEF Flying
<1>2. CASE j # k
  BY <1>2 DEF Flying
<1> QED BY <1>1, <1>2

\* ARMSOCDRI2ScheduleSwap at the next vblank.
LEMMA SwapAtVblankCalm ==
  ASSUME NumBufs = 2, TypeInv, UsersInv, MemSafe, TypeInv', MemSafe',
         NEW d \in Draw, SwapAtVblank(d)
  PROVE  Calm(W, W')
<1> DEFINE k == Pick(FreeCmd)
           v == PrepareSwap(W, d, k)
<1>1. CanSwap(d) /\ Apply(v) /\ phase # "closed" /\ phase' # "closed"
  BY DEF SwapAtVblank, CanSwap, Running
<1>2. W \in World /\ W.cmd = cmd
  BY <1>1, Given
<1>3. /\ k \in Cmd /\ v \in World /\ SameBuffers(W, v) /\ v.cmd[k].type = "none"
      /\ \A j \in Cmd \ {k} : v.cmd[j] = cmd[j]
  BY <1>1, Scheduled
<1>4. Still(W, v) /\ v.hw = W.hw /\ ~W.cmd[k].live
  BY <1>1, ScheduledStill
<1> HIDE DEF v, k
<1>5. FlipsKept(W, v)
  <2>1. ~Flying(v, k)
    BY <1>3 DEF Flying
  <2> QED BY <1>2, <1>3, <1>4, <2>1, StartsNoFlip
<1>6. LessHeld(W, v)
  BY <1>3, LessIfSame
<1> QED BY <1>1, <1>2, <1>3, <1>4, <1>5, <1>6, CalmIf

\* ARMSOCDRI2ScheduleSwap that swaps at once.
LEMMA SwapNowCalm ==
  ASSUME NumBufs = 2, TypeInv, UsersInv, MemSafe, TypeInv', MemSafe',
         Unredirected, NEW d \in Draw, SwapNow(d)
  PROVE  Calm(W, W')
<1>1. CanSwap(d) /\ phase # "closed" /\ phase' # "closed"
  BY DEF SwapNow, CanSwap, Running
<1>2. PICK ch \in Choices :
        Apply(ExecuteSwap(PrepareSwap(W, d, Pick(FreeCmd)), Pick(FreeCmd), ch))
  BY DEF SwapNow
<1> DEFINE k == Pick(FreeCmd)
           v == PrepareSwap(W, d, k)
           x == ExecuteSwap(v, k, ch)
<1>3. W \in World /\ W.cmd = cmd /\ WinsTyped(win)
  BY <1>1, Given
<1>4. /\ k \in Cmd /\ v \in World /\ SameBuffers(W, v) /\ MemInv(v, win, Draw, Cmd)
      /\ v.cmd[k].live /\ v.cmd[k].draw = d /\ v.cmd[k].type = "none"
      /\ v.cmd[k].count = 0 /\ UsesOf(v, k)
      /\ \A j \in Cmd \ {k} : v.cmd[j] = cmd[j]
  BY <1>1, Scheduled
<1>5. Still(W, v) /\ v.hw = W.hw /\ ~W.cmd[k].live
  BY <1>1, ScheduledStill
<1>6. Apply(x)
  BY <1>2
<1> HIDE DEF v, k
<1>7. /\ v.cmd[k].draw \in Draw /\ v.cmd[k].src \in Buf /\ v.cmd[k].dst \in Buf
      /\ v.cmd[k].count <= 1 /\ win[v.cmd[k].draw] \in {Root, NoPix}
      /\ Sound(v, win)
  <2>1. CmdHolds(v.cmd[k]) /\ Sound(v, win)
    BY <1>4 DEF MemInv, SwapInv
  <2> QED BY <1>4, <2>1 DEF CmdHolds, Whole, Unredirected
<1>8. /\ x \in World /\ SameBuffers(v, x)
      /\ x.cmd = [v.cmd EXCEPT ![k] = NoCmdRec]
  BY <1>3, <1>4, <1>7, ExecuteSwapType DEF WinsTyped
<1>9. Still(v, x) /\ x.hw = v.hw
  BY <1>3, <1>4, <1>7, ExecuteStill
<1> HIDE DEF x
<1>10. /\ x.cmd[k] = NoCmdRec /\ \A j \in Cmd \ {k} : x.cmd[j] = W.cmd[j]
  <2>1. v.cmd \in [Cmd -> CmdRec]
    BY <1>4, WorldFields
  <2> QED BY <1>3, <1>4, <1>8, <2>1
<1>11. FlipsKept(W, x)
  <2>1. ~Flying(x, k)
    BY <1>10 DEF Flying, NoCmdRec
  <2> QED BY <1>4, <1>5, <1>10, <2>1, StartsNoFlip
<1>12. Still(W, x) /\ x.hw = W.hw
  BY <1>5, <1>9, StillTrans
<1>13. LessHeld(W, x)
  BY <1>4, <1>8, SameTrans, LessIfSame
<1> QED BY <1>1, <1>3, <1>6, <1>8, <1>11, <1>12, <1>13, CalmIf

\* vblank_handler
LEMMA VBlankEventCalm ==
  ASSUME NumBufs = 2, TypeInv, EventsBelong, NoneLost, UsersInv, MemSafe,
         TypeInv', MemSafe', Unredirected, NEW k \in Cmd, VBlankEvent(k)
  PROVE  Calm(W, W')
<1>1. k \in vblEv /\ phase # "closed" /\ phase' # "closed"
  BY DEF VBlankEvent, ReadVBlankEvent
<1>2. CASE Handlers # "dri2"
  <2>1. UNCHANGED <<mem, buf, cmd, scanout, pending, priv, hw>>
    BY <1>2 DEF VBlankEvent
  <2>2. W' = W
    BY <2>1 DEF W
  <2> QED BY <1>1, <2>2, CalmSame
<1>3. CASE Handlers = "dri2"
  <2>1. PICK ch \in Choices : Apply(ExecuteSwap(W, k, ch))
    BY <1>3 DEF VBlankEvent
  <2> DEFINE x == ExecuteSwap(W, k, ch)
  <2>2. /\ W \in World /\ WinsTyped(win) /\ MemInv(W, win, Draw, Cmd) /\ W.cmd = cmd
        /\ Sound(W, win)
    BY <1>1, Given DEF MemInv, SwapInv
  <2>3. /\ cmd[k].live /\ cmd[k].count = 0 /\ cmd[k].type = "none"
    <3>1. cmd[k].live /\ Flipping(k) = {} /\ cmd[k].count = 0
      BY <1>1 DEF EventsBelong
    <3> QED BY <1>3, <3>1 DEF NoneLost, Live
  <2>4. CmdHolds(cmd[k]) /\ UsesOf(W, k)
    BY <2>2, UsesHold DEF MemInv, SwapInv
  <2>5. /\ W.cmd[k].draw \in Draw /\ W.cmd[k].src \in Buf /\ W.cmd[k].dst \in Buf
        /\ W.cmd[k].count <= 1 /\ W.cmd[k].type = "none"
        /\ win[W.cmd[k].draw] \in {Root, NoPix}
    BY <2>2, <2>3, <2>4 DEF CmdHolds, Whole, Unredirected
  <2>6. /\ x \in World /\ SameBuffers(W, x)
        /\ x.cmd = [W.cmd EXCEPT ![k] = NoCmdRec]
    BY <2>2, <2>5, ExecuteSwapType DEF WinsTyped
  <2>7. Still(W, x) /\ x.hw = W.hw
    BY <2>2, <2>4, <2>5, ExecuteStill
  <2>8. Apply(x)
    BY <2>1
  <2> HIDE DEF x
  <2>9. FlipsKept(W, x)
    <3>1. x.cmd[k] = NoCmdRec /\ \A j \in Cmd \ {k} : x.cmd[j] = W.cmd[j]
      BY <2>2, <2>6, WorldFields
    <3> SUFFICES ASSUME NEW j \in Cmd
                 PROVE  /\ Flying(x, j) => Flying(W, j) /\ x.cmd[j] = W.cmd[j]
                        /\ Flying(W, j) => Flying(x, j)
      BY Zenon DEF FlipsKept
    <3>2. CASE j = k
      BY <2>5, <3>1, <3>2 DEF Flying, NoCmdRec
    <3>3. CASE j # k
      BY <3>1, <3>3 DEF Flying
    <3> QED BY <3>2, <3>3
  <2>10. LessHeld(W, x)
    BY <2>6, LessIfSame
  <2> QED BY <1>1, <2>2, <2>6, <2>7, <2>8, <2>9, <2>10, CalmIf
<1> QED BY <1>2, <1>3

\* The flip of command k is on the screen.
FlipDone(w, v, k) ==
  /\ Flying(w, k) /\ Flips(w, k)
  /\ Turned(w, v, w.cmd[k].src, w.cmd[k].dst)
  /\ w.priv[w.cmd[k].draw].back = w.cmd[k].src
  /\ w.priv[w.cmd[k].draw].front = w.cmd[k].dst
  /\ w.mem.pbo[w.buf[w.cmd[k].src].pix[0]] = w.cmd[k].oldSrc
  /\ SameBuffers(w, v) /\ HwKept(w, v)
  /\ ~v.cmd[k].live /\ \A j \in Cmd \ {k} : v.cmd[j] = w.cmd[j]

\* page_flip_handler
LEMMA FlipEventShows ==
  ASSUME NumBufs = 2, TypeInv, EventsBelong, UsersInv, MemSafe,
         TypeInv', MemSafe', Unredirected, NEW c \in Crtc, FlipEvent(c)
  PROVE  Calm(W, W') \/ \E k \in Cmd : FlipDone(W, W', k)
<1>1. flipEv[c] # NoCmd /\ phase # "closed" /\ phase' # "closed"
  BY DEF FlipEvent, ReadFlipEvent
<1>2. CASE Handlers # "dri2"
  <2>1. UNCHANGED <<mem, buf, cmd, scanout, pending, priv, hw>>
    BY <1>2 DEF FlipEvent
  <2>2. W' = W
    BY <2>1 DEF W
  <2> QED BY <1>1, <2>2, CalmSame
<1>3. CASE Handlers = "dri2"
  <2> DEFINE k == flipEv[c]
  <2>1. PICK ch \in Choices : Apply(SwapComplete(W, k, ch))
    BY <1>3 DEF FlipEvent
  <2> DEFINE x == SwapComplete(W, k, ch)
  <2>2. /\ W \in World /\ WinsTyped(win) /\ MemInv(W, win, Draw, Cmd)
        /\ HeldApart(W.priv) /\ WinApart(win, top) /\ W.cmd = cmd
    BY <1>1, Given
  <2>3. k \in Cmd /\ cmd[k].live
    <3>1. k \in Cmd /\ c \in Flipping(k)
      BY <1>1 DEF TypeInv, TypeOK, Flipping
    <3> QED BY <3>1 DEF EventsBelong
  <2>4. Apply(x)
    BY <2>1
  <2> HIDE DEF k
  <2>5. CmdHolds(cmd[k])
    BY <2>2, <2>3 DEF MemInv, SwapInv
  <2>6. cmd[k].draw \in Draw /\ cmd[k].src \in Buf /\ cmd[k].dst \in Buf
    BY <2>3, <2>5 DEF CmdHolds, Whole
  <2>7. (~cmd[k].fail => OnlySwap(W, cmd[k].draw, k)) /\ UsesOf(W, k)
    BY <2>3, OnlyOne, UsesHold
  <2>8. /\ W.cmd[k].draw \in Draw /\ W.cmd[k].src \in Buf /\ W.cmd[k].dst \in Buf
        /\ W.cmd[k].live
        /\ ~W.cmd[k].fail => OnlySwap(W, W.cmd[k].draw, k)
        /\ win[W.cmd[k].draw] \in {Root, NoPix}
    BY <2>2, <2>3, <2>6, <2>7 DEF Unredirected
  <2>9. /\ x.hw = W.hw
        /\ W.cmd[k].count > 1 \/ ~Flips(W, k) => Still(W, x)
        /\ W.cmd[k].count <= 1 /\ Flips(W, k) => Turned(W, x, W.cmd[k].src, W.cmd[k].dst)
    BY <2>2, <2>3, <2>7, <2>8, CompleteShows
  <2>10. /\ x \in World /\ SameBuffers(W, x)
         /\ IF W.cmd[k].count > 1
            THEN x.cmd = [W.cmd EXCEPT ![k].count = @ - 1]
            ELSE x.cmd = [W.cmd EXCEPT ![k] = NoCmdRec]
    BY <2>2, <2>3, <2>8, SwapCompleteType DEF WinsTyped
  <2> HIDE DEF x
  <2>11. W.cmd \in [Cmd -> CmdRec] /\ W.cmd[k] \in CmdRec /\ W.cmd[k].count \in Int
    BY <2>2, <2>3, WorldFields, CmdFields
  <2>12. \A j \in Cmd \ {k} : x.cmd[j] = W.cmd[j]
    BY <2>3, <2>10, <2>11
  <2>13. LessHeld(W, x)
    BY <2>10, LessIfSame
  <2>14. CASE W.cmd[k].count > 1
    <3>1. x.cmd[k] = [W.cmd[k] EXCEPT !.count = @ - 1]
      BY <2>3, <2>10, <2>11, <2>14
    <3>2. /\ x.cmd[k].live = W.cmd[k].live /\ x.cmd[k].fail = W.cmd[k].fail
          /\ x.cmd[k].draw = W.cmd[k].draw /\ x.cmd[k].type = W.cmd[k].type
          /\ x.cmd[k].oldSrc = W.cmd[k].oldSrc /\ x.cmd[k].fake = W.cmd[k].fake
      BY <2>11, <3>1 DEF CmdRec
    <3>3. FlipsKept(W, x)
      BY <2>12, <3>2 DEF FlipsKept, Flying
    <3>4. Still(W, x)
      BY <2>9, <2>14
    <3> QED BY <1>1, <2>2, <2>4, <2>9, <2>10, <2>13, <3>3, <3>4, CalmIf
  <2>15. CASE W.cmd[k].count <= 1
    <3>1. x.cmd[k] = NoCmdRec
      BY <2>3, <2>10, <2>11, <2>15
    <3>2. ~x.cmd[k].live /\ ~Flying(x, k)
      BY <3>1 DEF Flying, NoCmdRec
    <3>3. CASE Flips(W, k)
      <4>1. /\ W'.mem = x.mem /\ W'.buf = x.buf /\ W'.cmd = x.cmd /\ W'.priv = x.priv
            /\ \A b \in Crtc : \/ W'.hw[b] = x.hw[b]
                               \/ W'.hw[b] = NoBo /\ ~x.mem.fb[x.hw[b]]
        BY <2>4, Applied
      <4>2. Turned(W, W', W.cmd[k].src, W.cmd[k].dst)
        BY <2>9, <2>15, <3>3, <4>1 DEF Turned, Stays, Showing
      <4>3. SameBuffers(W, W') /\ HwKept(W, W')
        BY <2>9, <2>10, <4>1 DEF SameBuffers, HwKept
      <4>4. /\ W.priv[W.cmd[k].draw].back = W.cmd[k].src
            /\ W.priv[W.cmd[k].draw].front = W.cmd[k].dst
            /\ W.mem.pbo[W.buf[W.cmd[k].src].pix[0]] = W.cmd[k].oldSrc
        <5>1. CmdSound(W, win, k)
          BY <2>3, <2>8, <2>2 DEF MemInv, SwapInv
        <5>2. ~W.cmd[k].fail /\ win[W.cmd[k].draw] # NoPix
          BY <3>3, Zenon DEF Flips, Succeeded
        <5> QED BY <2>8, <5>1, <5>2, Zenon DEF CmdSound
      <4>5. Flying(W, k)
        BY <2>8, <3>3 DEF Flying, Flips
      <4>6. ~W'.cmd[k].live /\ \A j \in Cmd \ {k} : W'.cmd[j] = W.cmd[j]
        BY <2>12, <3>2, <4>1
      <4>7. FlipDone(W, W', k)
        BY <3>3, <4>2, <4>3, <4>4, <4>5, <4>6, Zenon DEF FlipDone
      <4> QED BY <2>3, <4>7
    <3>4. CASE ~Flips(W, k)
      <4>1. Still(W, x)
        BY <2>9, <3>4
      <4>2. FlipsKept(W, x)
        BY <2>12, <3>2, <3>4 DEF FlipsKept, Flying
      <4> QED BY <1>1, <2>2, <2>4, <2>9, <2>10, <2>13, <4>1, <4>2, CalmIf
    <3> QED BY <3>3, <3>4
  <2> QED BY <2>11, <2>14, <2>15
<1> QED BY <1>2, <1>3

\* A window on the screen is destroyed.
LEMMA DestroyCalm ==
  ASSUME NumBufs = 2, TypeInv, MemSafe, TypeInv', MemSafe', Unredirected,
         NEW d \in Draw, DestroyDrawable(d)
  PROVE  Calm(W, W')
<1>1. phase # "closed" /\ phase' # "closed" /\ win[d] # NoPix /\ win[d] = Root
  BY DEF DestroyDrawable, Running, Unredirected
<1>2. /\ W \in World /\ WinsTyped(win) /\ MemInv(W, win, Draw, Cmd) /\ Paired(W)
      /\ HeldApart(W.priv) /\ Sound(W, win) /\ W.priv = priv
  BY <1>1, Given, Before
<1> DEFINE b == W.priv[d].back
           f == W.priv[d].front
           u == DestroyBuffer(W, b)
           z == DestroyBuffer(u, f)
           v == Destroyed(W, d)
<1>3. Apply(v)
  BY <1>2 DEF DestroyDrawable, Destroyed
<1>4. v \in World /\ v.cmd = W.cmd /\ v.priv = [W.priv EXCEPT ![d] = NoPriv]
  <2> DEFINE vn == [win EXCEPT ![d] = NoPix]
  <2>1. vn = [win EXCEPT ![d] = NoPix]
    OBVIOUS
  <2> HIDE DEF v, vn
  <2> QED BY ONLY NumBufs = 2, d \in Draw, <1>1, <1>2, <2>1, DestroyMem DEF v
<1>5. /\ b # NoBuf => b \in Buf /\ W.buf[b].ref > 0 /\ W.buf[b].att = "back"
      /\ f # NoBuf => f \in Buf /\ W.buf[f].ref > 0 /\ W.buf[f].att = "front"
  BY <1>2, HeldBuffers
<1> HIDE DEF b, f
<1>6. /\ u \in World /\ Sound(u, win) /\ Still(W, u) /\ u.hw = W.hw
      /\ f # NoBuf => u.buf[f].ref > 0
  <2>1. CASE b = NoBuf
    <3>1. u = W
      BY <2>1 DEF DestroyBuffer
    <3>2. Still(W, W)
      BY StillSame, Zenon DEF Left
    <3> QED BY <1>2, <1>5, <3>1, <3>2
  <2>2. CASE b # NoBuf
    <3>1. /\ u \in World /\ SameRest(W, u) /\ Sound(u, win) /\ Still(W, u)
          /\ \A y \in Buf : u.buf[y].ref = W.buf[y].ref - Is(b, y)
      BY <1>2, <1>5, <2>2, DestroyStill
    <3> HIDE DEF u
    <3>2. u.hw = W.hw
      BY <3>1 DEF SameRest, SameSwaps
    <3>3. f # NoBuf => u.buf[f].ref > 0
      <4>1. f # NoBuf => u.buf[f].ref = W.buf[f].ref - 0
        BY <1>5, <2>2, <3>1 DEF Is
      <4>2. f # NoBuf => W.buf[f].ref \in Int
        BY <1>2, <1>5, WorldFields, BufFields
      <4> QED BY <1>5, <4>1, <4>2
    <3> QED BY <3>1, <3>2, <3>3
  <2> QED BY <2>1, <2>2
<1> HIDE DEF u
<1>7. z \in World /\ Still(u, z) /\ z.hw = u.hw
  <2>1. CASE f = NoBuf
    <3>1. z = u
      BY <2>1 DEF DestroyBuffer
    <3>2. Still(u, u)
      BY StillSame, Zenon DEF Left
    <3> QED BY <1>6, <3>1, <3>2
  <2>2. CASE f # NoBuf
    <3>1. z \in World /\ SameRest(u, z) /\ Still(u, z)
      BY <1>2, <1>5, <1>6, <2>2, DestroyStill
    <3> QED BY <3>1 DEF SameRest, SameSwaps
  <2> QED BY <2>1, <2>2
<1>8. v.mem = z.mem /\ v.buf = z.buf /\ v.hw = z.hw
  <2>1. v = [z EXCEPT !.priv[d] = NoPriv, !.mem = @]
    BY <1>1 DEF Destroyed, z, u, b, f
  <2> HIDE DEF z, v
  <2> QED BY <1>7, <2>1 DEF World
<1> HIDE DEF v, z
<1>9. Still(W, v) /\ v.hw = W.hw
  <2>1. Still(z, v)
    BY <1>8, StillSame, Zenon DEF Left
  <2> QED BY <1>6, <1>7, <1>8, <2>1, StillTrans
<1>10. LessHeld(W, v)
  <2>1. W.priv \in [Draw -> PrivRec]
    BY <1>2, WorldFields
  <2> QED BY <1>4, <2>1 DEF LessHeld, NoPriv
<1>11. FlipsKept(W, v)
  BY <1>4 DEF FlipsKept, Flying
<1> QED BY <1>1, <1>2, <1>3, <1>4, <1>9, <1>10, <1>11, CalmIf

\* The CRTCs of S have accepted the flip of command k to the back buffer of
\* window d.
Begun(w, v, d, k, S) ==
  /\ w.priv[d].back # NoBuf
  /\ ~w.cmd[k].live /\ Flying(v, k) /\ v.cmd[k].draw = d
  /\ v.cmd[k].oldSrc = Showing(w, w.priv[d].back)
  /\ v.cmd[k].fail <=> S # crtcOn
  /\ v.cmd[k].fake <=> crtcOn = {}
  /\ \A j \in Cmd \ {k} : v.cmd[j] = w.cmd[j]
  /\ KeepsNames(w, v)
  /\ \A e \in Draw : v.priv[e].back # NoBuf =>
       v.priv[e].back = w.priv[e].back /\ Stays(w, v, v.priv[e].back)
  /\ \A c \in Crtc : LET b == IF c \in S THEN v.cmd[k].oldSrc ELSE w.hw[c]
                     IN  v.hw[c] = b \/ (v.hw[c] = NoBo /\ ~v.mem.fb[b])

\* ARMSOCDRI2ScheduleSwap by page flip: the CRTCs of S are those that are free
\* and do not fail.
FlipTried(d, k, S) ==
  /\ flipEv' = [c \in Crtc |-> IF c \in S THEN k ELSE flipEv[c]]
  /\ "flipfail" \notin Env => S = {c \in crtcOn : flipEv[c] = NoCmd}
  /\ IF S = {} THEN Calm(W, W') ELSE Begun(W, W', d, k, S)

LEMMA SwapByFlipShows ==
  ASSUME NumBufs = 2, TypeInv, UsersInv, MemSafe, TypeInv', MemSafe',
         Unredirected, NEW d \in Draw, SwapByFlip(d)
  PROVE  \E k \in Cmd : \E S \in SUBSET crtcOn : FlipTried(d, k, S)
<1>1. /\ CanSwap(d) /\ DoFlip(W, d) /\ phase # "closed" /\ phase' # "closed"
      /\ priv[d].back # NoBuf
  BY DEF SwapByFlip, CanSwap, Running
<1>2. PICK ch \in Choices,
              bad \in SUBSET (IF "flipfail" \in Env THEN crtcOn ELSE {}) :
         LET k  == Pick(FreeCmd)
             S  == {c \in crtcOn \ bad : flipEv[c] = NoCmd}
             w1 == StartFlip(PrepareSwap(W, d, k), k, S)
             w2 == IF S = {} THEN SwapComplete(w1, k, ch) ELSE w1
         IN  /\ Apply(IF S = crtcOn THEN w2
                      ELSE [w2 EXCEPT !.priv[d].swaps = @ - 1])
             /\ flipEv' = [c \in Crtc |-> IF c \in S THEN k ELSE flipEv[c]]
  BY Zenon DEF SwapByFlip
<1> DEFINE k  == Pick(FreeCmd)
           S  == {c \in crtcOn \ bad : flipEv[c] = NoCmd}
           w0 == PrepareSwap(W, d, k)
           w1 == StartFlip(w0, k, S)
           wc == SwapComplete(w1, k, ch)
           w2 == IF S = {} THEN wc ELSE w1
           i  == w2.priv[d].swaps - 1
           w3 == [w2 EXCEPT !.priv[d].swaps = i]
           v  == IF S = crtcOn THEN w2 ELSE w3
<1>3. Apply(v) /\ flipEv' = [c \in Crtc |-> IF c \in S THEN k ELSE flipEv[c]]
  BY <1>2
<1>4. /\ S \in SUBSET crtcOn /\ S \in SUBSET Crtc
      /\ "flipfail" \notin Env => S = {c \in crtcOn : flipEv[c] = NoCmd}
  BY DEF TypeInv, TypeOK
<1> HIDE DEF S
<1>5. /\ W \in World /\ WinsTyped(win) /\ WinApart(win, top) /\ W.mem = mem
      /\ W.priv = priv /\ W.cmd = cmd /\ W.buf = buf
  BY <1>1, Given
<1>6. /\ k \in Cmd /\ w0 \in World /\ SameBuffers(W, w0)
      /\ MemInv(w0, win, Draw, Cmd) /\ HeldApart(w0.priv)
      /\ w0.cmd[k].live /\ w0.cmd[k].draw = d /\ ~w0.cmd[k].fail
      /\ OnlySwap(w0, d, k) /\ UsesOf(w0, k) /\ w0.mem.fb = mem.fb
      /\ w0.cmd[k].oldSrc = BoFromBuffer(W, priv[d].back)
      /\ \A j \in Cmd \ {k} : w0.cmd[j] = cmd[j]
  BY <1>1, Scheduled
<1>7. Still(W, w0) /\ w0.hw = W.hw /\ ~W.cmd[k].live
  BY <1>1, ScheduledStill
<1>8. w0.mem.fb[w0.cmd[k].oldSrc]
  BY <1>1, <1>5, <1>6 DEF DoFlip
<1>9. w0.cmd[k].oldSrc = Showing(W, W.priv[d].back)
  <2>1. /\ MemInv(W, win, Draw, Cmd) /\ Paired(W) /\ Sound(W, win)
    BY <1>1, Before
  <2>2. priv[d].back \in Buf /\ W.buf[priv[d].back].ref > 0
    BY <1>1, <1>5, <2>1, HeldBuffers
  <2>3. W.buf[priv[d].back].pix[0] \in Pix
    BY <1>5, <2>1, <2>2, InBuffers
  <2>4. W.buf[priv[d].back].cur = 0
    BY <1>5, <2>2, WorldFields, OnePixmap
  <2>5. BoFromBuffer(W, priv[d].back) = Showing(W, priv[d].back)
    BY <2>3, <2>4 DEF BoFromBuffer, PixmapBo, Showing
  <2> QED BY <1>5, <1>6, <2>5
<1> HIDE DEF k, w0
<1>10. /\ w1 \in World /\ MemInv(w1, win, Draw, Cmd)
       /\ SameBuffers(w0, w1) /\ w1.buf = w0.buf
       /\ \A j \in Cmd \ {k} : w1.cmd[j] = w0.cmd[j]
  BY <1>4, <1>5, <1>6, <1>8, StartFlipMem
<1>11. /\ w1.cmd[k].live /\ w1.cmd[k].draw = d
       /\ w1.cmd[k].src = w0.cmd[k].src /\ w1.cmd[k].dst = w0.cmd[k].dst
       /\ w1.cmd[k].count = Cardinality(S)
  <2>1. FlipStarted(w0, w1, k, S)
    BY ONLY <1>4, <1>6, StartFlipCmd
  <2> HIDE DEF w1
  <2> QED BY <1>6, <2>1 DEF FlipStarted
<1>12. /\ Still(w0, w1)
       /\ w1.hw = [c \in Crtc |-> IF c \in S THEN w0.cmd[k].oldSrc ELSE w0.hw[c]]
       /\ w1.cmd[k].type = "flip" /\ w1.cmd[k].oldSrc = w0.cmd[k].oldSrc
       /\ w1.cmd[k].fail <=> S # crtcOn
       /\ w1.cmd[k].fake <=> crtcOn = {}
  BY <1>4, <1>6, StartFlipStill
<1> HIDE DEF w1
<1>13. Still(W, w1) /\ SameBuffers(W, w1)
  BY <1>6, <1>7, <1>10, <1>12, StillTrans, SameTrans
<1>14. ASSUME S = {}
       PROVE  /\ wc \in World /\ SameBuffers(w1, wc) /\ Still(w1, wc)
              /\ wc.hw = w1.hw /\ wc.cmd = [w1.cmd EXCEPT ![k] = NoCmdRec]
  <2>1. OnlySwap(w1, d, k) /\ UsesOf(w1, k) /\ HeldApart(w1.priv)
    <3>1. OnlySwap(w1, d, k)
      BY <1>6, <1>10 DEF OnlySwap
    <3>2. UsesOf(w1, k)
      BY <1>6, <1>10, <1>11, UsesKept
    <3>3. HeldApart(w1.priv)
      BY <1>6, <1>10, SameApart
    <3> QED BY <3>1, <3>2, <3>3
  <2>2. /\ w1.cmd[k].draw \in Draw /\ w1.cmd[k].src \in Buf /\ w1.cmd[k].dst \in Buf
        /\ ~w1.cmd[k].fail => OnlySwap(w1, w1.cmd[k].draw, k)
        /\ win[w1.cmd[k].draw] \in {Root, NoPix}
    <3>1. CmdHolds(w1.cmd[k])
      BY <1>6, <1>10 DEF MemInv, SwapInv
    <3> QED BY <1>11, <2>1, <3>1 DEF CmdHolds, Whole, Unredirected
  <2>3. ~Flips(w1, k)
    BY <1>12, <1>14 DEF Flips, Succeeded
  <2>4. wc.hw = w1.hw /\ Still(w1, wc)
    BY <1>5, <1>6, <1>10, <1>11, <2>1, <2>2, <2>3, CompleteShows
  <2>5. ~(w1.cmd[k].count > 1)
    <3>1. w1.cmd[k].count = 0
      BY <1>11, <1>14, FS_EmptySet
    <3> QED BY <3>1
  <2>6. /\ wc \in World /\ SameBuffers(w1, wc)
        /\ IF w1.cmd[k].count > 1
           THEN wc.cmd = [w1.cmd EXCEPT ![k].count = @ - 1]
           ELSE wc.cmd = [w1.cmd EXCEPT ![k] = NoCmdRec]
    BY <1>5, <1>6, <1>10, <2>2, SwapCompleteType DEF WinsTyped
  <2> HIDE DEF wc
  <2> QED BY <2>4, <2>5, <2>6
<1> HIDE DEF wc
<1>15. /\ w2 \in World /\ Still(W, w2) /\ SameBuffers(W, w2) /\ w2.hw = w1.hw
       /\ S # {} => w2.cmd = w1.cmd
       /\ S = {} => w2.cmd = [w1.cmd EXCEPT ![k] = NoCmdRec]
  BY <1>10, <1>13, <1>14, StillTrans, SameTrans
<1> HIDE DEF w2
<1>16. /\ w3 \in World /\ w3.cmd = w2.cmd /\ w3.hw = w2.hw
       /\ Still(W, w3) /\ SameBuffers(W, w3)
  <2>1. i \in Int
    <3>1. w2.priv[d] \in PrivRec
      BY <1>15, WorldFields
    <3>2. w2.priv[d].swaps \in Int
      BY <3>1, PrivFields
    <3> QED BY <3>2
  <2> HIDE DEF i
  <2>2. /\ w3 \in World /\ w3.cmd = w2.cmd /\ w3.buf = w2.buf /\ w3.mem = w2.mem
        /\ SameBuffers(w2, w3)
    BY <1>15, <2>1, CountType
  <2>3. w3.hw = w2.hw
    BY <1>15 DEF World
  <2> HIDE DEF w3
  <2>4. Still(w2, w3)
    BY <2>2, StillSame, Zenon DEF Left
  <2> QED BY <1>15, <2>2, <2>3, <2>4, StillTrans, SameTrans
<1> HIDE DEF w3
<1>17. /\ v \in World /\ Still(W, v) /\ SameBuffers(W, v) /\ v.hw = w1.hw
       /\ S # {} => v.cmd = w1.cmd
       /\ S = {} => v.cmd = [w1.cmd EXCEPT ![k] = NoCmdRec]
  BY <1>15, <1>16
<1> HIDE DEF v
<1>18. LessHeld(W, v)
  BY <1>17, LessIfSame
<1>19. CASE S = {}
  <2>1. v.cmd[k] = NoCmdRec /\ \A j \in Cmd \ {k} : v.cmd[j] = W.cmd[j]
    <3>1. w1.cmd \in [Cmd -> CmdRec]
      BY <1>10, WorldFields
    <3> QED BY <1>5, <1>6, <1>10, <1>17, <1>19, <3>1
  <2>2. FlipsKept(W, v)
    <3>1. ~Flying(v, k)
      BY <2>1 DEF Flying, NoCmdRec
    <3> QED BY <1>6, <1>7, <2>1, <3>1, StartsNoFlip
  <2>3. v.hw = W.hw
    <3>1. W.hw \in [Crtc -> Bo \cup {NoBo}]
      BY <1>5, WorldFields
    <3> QED BY <1>7, <1>12, <1>17, <1>19, <3>1
  <2>4. Calm(W, W')
    BY <1>1, <1>3, <1>5, <1>17, <1>18, <2>2, <2>3, CalmIf
  <2> QED BY <1>3, <1>4, <1>6, <1>19, <2>4 DEF FlipTried
<1>20. CASE S # {}
  <2>1. /\ W' \in World /\ MemInv(W', win', Draw, Cmd) /\ Paired(W')
    BY <1>1, After
  <2>2. /\ W'.mem = v.mem /\ W'.buf = v.buf /\ W'.cmd = v.cmd /\ W'.priv = v.priv
        /\ \A c \in Crtc : \/ W'.hw[c] = v.hw[c]
                           \/ W'.hw[c] = NoBo /\ ~v.mem.fb[v.hw[c]]
    BY <1>3, Applied
  <2> DEFINE w == W
             u == W'
  <2>3. Still(w, u) /\ LessHeld(w, u)
    BY <1>17, <1>18, <2>2 DEF Still, Stays, Showing, LessHeld
  <2>4. /\ KeepsNames(w, u)
        /\ \A e \in Draw : u.priv[e].back # NoBuf =>
             /\ u.priv[e].back = w.priv[e].back
             /\ Stays(w, u, u.priv[e].back)
    <3> HIDE DEF w, u
    <3>1. u \in World /\ MemInv(u, win', Draw, Cmd) /\ Paired(u)
      BY <2>1 DEF u
    <3> QED BY <2>3, <3>1, StillNames
  <2>5. u.cmd = w1.cmd /\ w.cmd = cmd
    BY <1>5, <1>17, <1>20, <2>2
  <2>6. /\ w.priv[d].back # NoBuf /\ ~w.cmd[k].live
        /\ u.cmd[k].oldSrc = Showing(w, w.priv[d].back)
        /\ \A j \in Cmd \ {k} : u.cmd[j] = w.cmd[j]
    BY <1>1, <1>5, <1>6, <1>7, <1>9, <1>10, <1>12, <2>5
  <2>7. \A c \in Crtc : LET b == IF c \in S THEN u.cmd[k].oldSrc ELSE w.hw[c]
                        IN  u.hw[c] = b \/ (u.hw[c] = NoBo /\ ~u.mem.fb[b])
    BY <1>7, <1>12, <1>17, <2>2, <2>5
  <2>8. /\ Flying(u, k) /\ u.cmd[k].draw = d
        /\ u.cmd[k].fail <=> S # crtcOn
        /\ u.cmd[k].fake <=> crtcOn = {}
    BY <1>11, <1>12, <2>5 DEF Flying
  <2>9. Begun(w, u, d, k, S)
    <3> HIDE DEF w, u
    <3> QED BY <2>4, <2>6, <2>7, <2>8, Zenon DEF Begun
  <2> QED BY <1>3, <1>4, <1>6, <1>20, <2>9 DEF FlipTried
<1> QED BY <1>19, <1>20

\* RandR switches a CRTC: names and commands are as they were.
LEMMA SwitchCrtcKeeps ==
  ASSUME TypeInv, MemSafe, NEW c \in Crtc, SwitchCrtc(c)
  PROVE  KeepsNames(W, W') /\ W'.cmd = W.cmd
<1>1. phase # "closed"
  BY DEF SwitchCrtc, Running
<1>2. W \in World /\ MemInv(W, win, Draw, Cmd)
  BY <1>1, Given
<1>3. PICK ch \in Choices :
        Apply(IF c \in crtcOn THEN [W EXCEPT !.hw[c] = NoBo] ELSE SetMode(W, {c}, ch))
  BY DEF SwitchCrtc
<1> DEFINE v == IF c \in crtcOn THEN [W EXCEPT !.hw[c] = NoBo] ELSE SetMode(W, {c}, ch)
<1>4. v.mem = W.mem /\ v.buf = W.buf /\ v.cmd = W.cmd /\ v.priv = W.priv
  <2>1. CASE c \in crtcOn
    BY <1>2, <2>1 DEF World
  <2>2. CASE c \notin crtcOn
    <3>1. W.mem.fb[W.scanout]
      BY <1>2 DEF MemInv, ScreenSound
    <3>2. SetMode(W, {c}, ch) =
            [W EXCEPT !.mem = @, !.hw = [x \in Crtc |-> IF x \in {c} THEN W.scanout
                                                        ELSE W.hw[x]]]
      BY <3>1 DEF SetMode
    <3> QED BY <1>2, <2>2, <3>2 DEF World
  <2> QED BY <2>1, <2>2
<1>5. Apply(v)
  BY <1>3
<1> HIDE DEF v
<1>6. W'.mem = v.mem /\ W'.buf = v.buf /\ W'.cmd = v.cmd /\ W'.priv = v.priv
  BY <1>5, Applied
<1> DEFINE w == W
           u == W'
<1>7. u.mem = w.mem /\ u.buf = w.buf /\ u.cmd = w.cmd /\ u.priv = w.priv
  BY <1>4, <1>6
<1> HIDE DEF w, u
<1>8. KeepsNames(w, u)
  BY <1>7, Zenon DEF KeepsNames, Stays, Showing
<1> QED BY <1>7, <1>8 DEF w, u

\* What one step does to the screen, while the windows are on it.
Quietly == Calm(W, W') /\ \A c \in Crtc : flipEv'[c] \in {NoCmd, flipEv[c]}

Finishes == /\ \E k \in Cmd : FlipDone(W, W', k)
            /\ \A c \in Crtc : flipEv'[c] \in {NoCmd, flipEv[c]}

Starting == \E d \in Draw : \E k \in Cmd : \E S \in SUBSET crtcOn :
              /\ Unthrottled(d) /\ CanFlip(d)
              /\ S # {} /\ FlipTried(d, k, S)

Switching == "crtc" \in Env /\ KeepsNames(W, W') /\ W'.cmd = W.cmd

LEMMA ClientShows ==
  ASSUME NumBufs = 2, "name" \notin Env, TypeInv, UsersInv, MemSafe, BoLeft,
         TypeInv', MemSafe', Unredirected, ClientStep
  PROVE  crtcOn' = crtcOn /\ (Quietly \/ Starting)
<1>1. ASSUME NEW d \in Draw, GetBuffers(d) PROVE crtcOn' = crtcOn /\ Quietly
  <2>1. crtcOn' = crtcOn /\ flipEv' = flipEv
    BY <1>1 DEF GetBuffers
  <2> QED BY <1>1, <2>1, GetBuffersCalm DEF Quietly
<1>2. ASSUME NEW d \in Draw, SwapByFlip(d)
      PROVE  crtcOn' = crtcOn /\ (Quietly \/ Starting)
  <2>1. crtcOn' = crtcOn /\ Unthrottled(d) /\ CanFlip(d)
    BY <1>2 DEF SwapByFlip, CanSwap, DoFlip
  <2>2. PICK k \in Cmd, S \in SUBSET crtcOn : FlipTried(d, k, S)
    BY <1>2, SwapByFlipShows
  <2>3. CASE S = {}
    <3>1. Calm(W, W') /\ \A c \in Crtc : flipEv'[c] = flipEv[c]
      BY <2>2, <2>3 DEF FlipTried
    <3> QED BY <2>1, <3>1 DEF Quietly
  <2>4. CASE S # {}
    BY <2>1, <2>2, <2>4 DEF Starting
  <2> QED BY <2>3, <2>4
<1>3. ASSUME NEW d \in Draw, SwapAtVblank(d) PROVE crtcOn' = crtcOn /\ Quietly
  <2>1. crtcOn' = crtcOn /\ flipEv' = flipEv
    BY <1>3 DEF SwapAtVblank
  <2> QED BY <1>3, <2>1, SwapAtVblankCalm DEF Quietly
<1>4. ASSUME NEW d \in Draw, SwapNow(d) PROVE crtcOn' = crtcOn /\ Quietly
  <2>1. crtcOn' = crtcOn /\ flipEv' = flipEv
    BY <1>4 DEF SwapNow
  <2> QED BY <1>4, <2>1, SwapNowCalm DEF Quietly
<1> QED BY <1>1, <1>2, <1>3, <1>4 DEF ClientStep

LEMMA KernelShows ==
  ASSUME NumBufs = 2, TypeInv, EventsBelong, NoneLost, UsersInv, MemSafe,
         TypeInv', MemSafe', Unredirected, KernelStep
  PROVE  crtcOn' = crtcOn /\ (Quietly \/ Finishes)
<1>1. ASSUME NEW c \in Crtc, FlipEvent(c)
      PROVE  crtcOn' = crtcOn /\ (Quietly \/ Finishes)
  <2>1. crtcOn' = crtcOn /\ flipEv' = [flipEv EXCEPT ![c] = NoCmd]
    BY <1>1 DEF FlipEvent, ReadFlipEvent
  <2>2. \A x \in Crtc : flipEv'[x] \in {NoCmd, flipEv[x]}
    BY <2>1 DEF TypeInv, TypeOK
  <2> QED BY <1>1, <2>1, <2>2, FlipEventShows DEF Quietly, Finishes
<1>2. ASSUME NEW k \in Cmd, VBlankEvent(k) PROVE crtcOn' = crtcOn /\ Quietly
  <2>1. crtcOn' = crtcOn /\ flipEv' = flipEv
    BY <1>2 DEF VBlankEvent
  <2> QED BY <1>2, <2>1, VBlankEventCalm DEF Quietly
<1> QED BY <1>1, <1>2 DEF KernelStep

LEMMA ServerShows ==
  ASSUME NumBufs = 2, TypeInv, MemSafe, TypeInv', MemSafe', Unredirected, ServerStep,
         "redirect" \notin Env, "resize" \notin Env
  PROVE  (crtcOn' = crtcOn /\ Quietly) \/ Switching
<1>1. ASSUME W' = W, crtcOn' = crtcOn, flipEv' = flipEv, phase # "closed"
      PROVE  crtcOn' = crtcOn /\ Quietly
  BY <1>1, CalmSame DEF Quietly
<1>2. ASSUME NEW d \in Draw \cup {NoDraw}, Restack(d) PROVE crtcOn' = crtcOn /\ Quietly
  <2>1. W' = W /\ crtcOn' = crtcOn /\ flipEv' = flipEv /\ phase # "closed"
    BY <1>2 DEF Restack, Running, W
  <2> QED BY <1>1, <2>1
<1>3. ASSUME NEW d \in Draw, CreateWindow(d) PROVE crtcOn' = crtcOn /\ Quietly
  <2>1. W' = W /\ crtcOn' = crtcOn /\ flipEv' = flipEv /\ phase # "closed"
    BY <1>3 DEF CreateWindow, Running, W
  <2> QED BY <1>1, <2>1
<1>4. ASSUME CloseScreen PROVE crtcOn' = crtcOn /\ Quietly
  <2>1. W' = W /\ crtcOn' = crtcOn /\ flipEv' = flipEv /\ phase # "closed"
    BY <1>4 DEF CloseScreen, Running, W
  <2> QED BY <1>1, <2>1
<1>5. ASSUME NEW d \in Draw, DestroyDrawable(d) PROVE crtcOn' = crtcOn /\ Quietly
  <2>1. crtcOn' = crtcOn /\ flipEv' = flipEv
    BY <1>5 DEF DestroyDrawable
  <2> QED BY <1>5, <2>1, DestroyCalm DEF Quietly
<1>6. ASSUME NEW c \in Crtc, SwitchCrtc(c) PROVE Switching
  <2>1. "crtc" \in Env
    BY <1>6 DEF SwitchCrtc
  <2> QED BY <1>6, <2>1, SwitchCrtcKeeps DEF Switching
<1>7. \A d \in Draw : ~Redirect(d) /\ ~Unredirect(d)
  BY DEF Redirect, Unredirect, Unredirected
<1>8. \A s \in Size : ~Resize(s)
  BY DEF Resize
<1> QED BY <1>2, <1>3, <1>4, <1>5, <1>6, <1>7, <1>8 DEF ServerStep

\* Once the screen is closed nothing happens.
LEMMA ClosedStays ==
  ASSUME [Next]_vars, phase = "closed"
  PROVE  UNCHANGED vars
BY DEF Next, ClientStep, KernelStep, ServerStep, FinishClose, LeaveEventLoop,
       GetBuffers, SwapByFlip, SwapAtVblank, SwapNow, CanSwap, Running,
       FlipEvent, ReadFlipEvent, VBlankEvent, ReadVBlankEvent, Restack, Redirect,
       Unredirect, DestroyDrawable, CreateWindow, SwitchCrtc, Resize, CloseScreen

LEMMA StepShows ==
  ASSUME NumBufs = 2, "name" \notin Env, "redirect" \notin Env, "resize" \notin Env,
         TypeInv, EventsBelong, NoneLost, UsersInv, MemSafe, BoLeft,
         TypeInv', MemSafe', Unredirected, [Next]_vars, phase' # "closed"
  PROVE  (crtcOn' = crtcOn /\ (Quietly \/ Starting \/ Finishes)) \/ Switching
<1>1. CASE ClientStep
  BY <1>1, ClientShows
<1>2. CASE KernelStep
  BY <1>2, KernelShows
<1>3. CASE ServerStep
  BY <1>3, ServerShows
<1>4. CASE FinishClose
  BY <1>4 DEF FinishClose, LeaveEventLoop
<1>5. CASE UNCHANGED vars
  <2>1. W' = W /\ crtcOn' = crtcOn /\ flipEv' = flipEv /\ phase' = phase
    BY <1>5 DEF vars, W
  <2> QED BY <2>1, CalmSame DEF Quietly
<1> QED BY <1>1, <1>2, <1>3, <1>4, <1>5 DEF Next

-----------------------------------------------------------------------------
(* The names are right, if one window only is flipped. *)

\* A back buffer has the name of the bo that it shows, and the front of window
\* d that of the screen's bo.
Named(w, d) ==
  /\ \A x \in Buf : w.buf[x].ref > 0 /\ w.buf[x].att = "back" =>
       w.buf[x].name = Showing(w, x)
  /\ w.priv[d].front # NoBuf => w.buf[w.priv[d].front].name = w.mem.pbo[Root]

FlipsOf(w, d) == \A k \in Cmd : Flying(w, k) => w.cmd[k].draw = d

NameInv(d) ==
  /\ Unredirected
  /\ FlipsOf(W, d)
  /\ phase # "up" => \A e \in Draw : win[e] = NoPix
  /\ IF phase = "closed" THEN \A e \in Draw : priv[e].back = NoBuf ELSE Named(W, d)

LEMMA NamesStay ==
  ASSUME NEW w, NEW v, NEW d \in Draw, Named(w, d), KeepsNames(w, v)
  PROVE  Named(v, d)
<1>1. ASSUME NEW x \in Buf, v.buf[x].ref > 0, v.buf[x].att = "back"
      PROVE  v.buf[x].name = Showing(v, x)
  <2>1. Stays(w, v, x) \/ v.buf[x].name = Showing(v, x)
    BY <1>1, Zenon DEF KeepsNames
  <2>2. Stays(w, v, x) => /\ w.buf[x].ref > 0 /\ w.buf[x].att = "back"
                          /\ v.buf[x].name = w.buf[x].name
                          /\ Showing(v, x) = Showing(w, x)
    BY <1>1, Zenon DEF Stays
  <2>3. w.buf[x].ref > 0 /\ w.buf[x].att = "back" => w.buf[x].name = Showing(w, x)
    BY Zenon DEF Named
  <2> QED BY <2>1, <2>2, <2>3, Zenon
<1>2. ASSUME v.priv[d].front # NoBuf
      PROVE  v.buf[v.priv[d].front].name = v.mem.pbo[Root]
  <2>1. v.mem.pbo[Root] = w.mem.pbo[Root]
    BY Zenon DEF KeepsNames
  <2>2. \/ v.buf[v.priv[d].front].name = v.mem.pbo[Root]
        \/ /\ v.priv[d].front = w.priv[d].front
           /\ v.buf[v.priv[d].front].name = w.buf[v.priv[d].front].name
    BY <1>2, Zenon DEF KeepsNames
  <2>3. w.priv[d].front # NoBuf => w.buf[w.priv[d].front].name = w.mem.pbo[Root]
    BY Zenon DEF Named
  <2> QED BY <1>2, <2>1, <2>2, <2>3
<1> QED BY <1>1, <1>2 DEF Named

\* The flip of the window that alone flips.
LEMMA NamesTurn ==
  ASSUME NEW w \in World, NEW v \in World, NEW wn, MemInv(w, wn, Draw, Cmd), Paired(w),
         NEW vn, MemInv(v, vn, Draw, Cmd), Paired(v),
         NEW d \in Draw, NEW k \in Cmd, Named(w, d), FlipDone(w, v, k),
         w.cmd[k].draw = d, w.cmd[k].src # NoBuf
  PROVE  Named(v, d)
<1> DEFINE s == w.cmd[k].src
           t == w.cmd[k].dst
<1>1. /\ Turned(w, v, s, t) /\ SameBuffers(w, v)
      /\ w.priv[d].back = s /\ w.priv[d].front = t
  BY Zenon DEF FlipDone
<1>2. v.priv[d].back = s /\ v.priv[d].front = t
  BY <1>1 DEF SameBuffers
<1>3. /\ s \in Buf /\ w.buf[s].att = "back"
      /\ t \in Buf /\ w.buf[t].att = "front" /\ w.buf[s].ref > 0
      /\ v.buf[t].ref > 0
  <2>1. t # NoBuf
    BY <1>1 DEF Paired, s
  <2> HIDE DEF s, t
  <2>2. s # NoBuf
    BY DEF s
  <2>3. /\ s \in Buf /\ w.buf[s].att = "back" /\ w.buf[s].ref > 0
        /\ t \in Buf /\ w.buf[t].att = "front"
    BY <1>1, <2>1, <2>2, HeldBuffers
  <2>4. v.buf[t].ref > 0
    BY <1>2, <2>1, HeldBuffers
  <2> QED BY <2>3, <2>4
<1> HIDE DEF s, t
<1>4. w.buf[t].name = w.mem.pbo[Root]
  BY <1>1, <1>3, SwapAssumption DEF Named
<1>5. w.buf[s].name = Showing(w, s)
  BY <1>3 DEF Named
<1>6. ASSUME NEW x \in Buf, v.buf[x].ref > 0, v.buf[x].att = "back"
      PROVE  v.buf[x].name = Showing(v, x)
  <2>1. w.buf[x].ref > 0 /\ w.buf[x].att = "back"
    BY <1>1, <1>6, Zenon DEF Turned
  <2>2. x # t
    BY <1>3, <2>1
  <2>3. CASE x = s
    BY <1>1, <1>4, <1>6, <2>3, Zenon DEF Turned
  <2>4. CASE x # s
    <3>1. Stays(w, v, x)
      BY <1>1, <1>6, <2>1, <2>2, <2>4, Zenon DEF Turned
    <3> QED BY <2>1, <3>1, Zenon DEF Stays, Named
  <2> QED BY <2>3, <2>4
<1>7. v.buf[t].name = v.mem.pbo[Root]
  BY <1>1, <1>3, <1>5, Zenon DEF Turned
<1> QED BY <1>2, <1>6, <1>7 DEF Named

\* The server closes the screen when all windows are gone, and a window that is
\* gone has no buffers.
LEMMA ClosingStep ==
  ASSUME TypeInv, MemSafe, [Next]_vars,
         phase # "up" => \A e \in Draw : win[e] = NoPix,
         phase = "closed" => \A e \in Draw : priv[e].back = NoBuf
  PROVE  /\ phase' # "up" => \A e \in Draw : win'[e] = NoPix
         /\ phase' = "closed" => \A e \in Draw : priv'[e].back = NoBuf
<1>1. CASE phase = "closed"
  BY <1>1, ClosedStays DEF vars
<1>2. CASE phase # "closed" /\ FinishClose
  <2>1. phase = "closing" /\ win' = win /\ priv' = priv
    <3> DEFINE v == [W EXCEPT !.mem = BoUnref(@, scanout), !.scanout = NoBo]
    <3>1. Apply(v) /\ win' = win /\ phase = "closing"
      BY <1>2 DEF FinishClose, LeaveEventLoop
    <3>2. v.priv = priv
      BY DEF W
    <3> HIDE DEF v
    <3> QED BY <3>1, <3>2 DEF Apply
  <2>2. \A e \in Draw : win[e] = NoPix
    BY <2>1
  <2>3. MemInv(W, win, Draw, Cmd) /\ W.priv = priv
    BY <2>1, Given
  <2>4. \A e \in Draw : WinSound(W, win, e)
    BY <2>3 DEF MemInv, SwapInv
  <2>5. \A e \in Draw : priv[e].back = NoBuf
    BY <2>2, <2>3, <2>4, Zenon DEF WinSound
  <2> QED BY <2>1, <2>2, <2>5
<1>3. CASE phase = "closing" /\ ~FinishClose
  <2>1. win' = win /\ phase' = phase
    BY <1>3 DEF vars, Next, ClientStep, KernelStep, ServerStep,
         GetBuffers, SwapByFlip, SwapAtVblank, SwapNow, CanSwap, Running,
         FlipEvent, VBlankEvent, Restack, Redirect,
         Unredirect, DestroyDrawable, CreateWindow, SwitchCrtc, Resize, CloseScreen
  <2> QED BY <1>3, <2>1
<1>4. CASE phase = "up" /\ ~FinishClose
  <2>1. phase' = phase \/ (phase' = "closing" /\ \A e \in Draw : win'[e] = NoPix)
    BY <1>4 DEF vars, Next, ClientStep, KernelStep, ServerStep,
         GetBuffers, SwapByFlip, SwapAtVblank, SwapNow,
         FlipEvent, VBlankEvent, Restack, Redirect,
         Unredirect, DestroyDrawable, CreateWindow, SwitchCrtc, Resize, CloseScreen
  <2> QED BY <1>4, <2>1
<1>5. phase \in {"up", "closing", "closed"}
  BY DEF TypeInv, TypeOK
<1> QED BY <1>1, <1>2, <1>3, <1>4, <1>5

\* A step keeps the names right.
LEMMA NamesStep ==
  ASSUME NumBufs = 2, "name" \notin Env, "redirect" \notin Env, "resize" \notin Env,
         TypeInv, EventsBelong, NoneLost, UsersInv, MemSafe, BoLeft,
         TypeInv', MemSafe', NEW d \in Draw, OneFlips(d),
         NameInv(d), [Next]_vars
  PROVE  NameInv(d)'
<1>1. Unredirected'
  BY UnredirectedStep DEF NameInv
<1>2. /\ phase' # "up" => \A e \in Draw : win'[e] = NoPix
      /\ phase' = "closed" => \A e \in Draw : priv'[e].back = NoBuf
  BY ClosingStep DEF NameInv
<1>3. CASE phase' = "closed"
  <2>1. W'.cmd = W.cmd
    <3>1. CASE FinishClose
      <4> DEFINE v == [W EXCEPT !.mem = BoUnref(@, scanout), !.scanout = NoBo]
      <4>1. Apply(v)
        BY <3>1 DEF FinishClose
      <4>2. v.cmd = W.cmd
        BY DEF W
      <4> HIDE DEF v
      <4> QED BY <4>1, <4>2, Applied
    <3>2. CASE ~FinishClose
      <4>1. UNCHANGED vars
        BY <1>3, <3>2 DEF vars, Next, ClientStep, KernelStep, ServerStep,
             GetBuffers, SwapByFlip, SwapAtVblank, SwapNow, CanSwap, Running,
             FlipEvent, ReadFlipEvent, VBlankEvent, ReadVBlankEvent, Restack,
             Redirect, Unredirect, DestroyDrawable, CreateWindow, SwitchCrtc,
             Resize, CloseScreen
      <4> QED BY <4>1 DEF vars, W
    <3> QED BY <3>1, <3>2
  <2>2. FlipsOf(W, d)'
    BY <2>1 DEF FlipsOf, Flying, NameInv
  <2> QED BY <1>1, <1>2, <1>3, <2>2 DEF NameInv
<1>4. CASE phase' # "closed"
  <2>1. phase # "closed"
    BY <1>4, ClosedStays DEF vars
  <2>2. /\ Named(W, d) /\ FlipsOf(W, d) /\ Unredirected
    BY <2>1 DEF NameInv
  <2>3. (crtcOn' = crtcOn /\ (Quietly \/ Starting \/ Finishes)) \/ Switching
    BY <1>4, <2>2, StepShows
  <2>4. /\ W \in World /\ MemInv(W, win, Draw, Cmd) /\ Paired(W) /\ W.cmd = cmd
        /\ W' \in World /\ MemInv(W', win', Draw, Cmd) /\ Paired(W')
    BY <1>4, <2>1, Before, After, Given
  <2>5. FlipsOf(W', d) /\ Named(W', d)
    <3>1. CASE Quietly
      <4>1. KeepsNames(W, W') /\ FlipsKept(W, W')
        BY <3>1 DEF Quietly, Calm
      <4>2. Named(W', d)
        BY <2>2, <4>1, NamesStay
      <4>3. FlipsOf(W', d)
        BY <2>2, <4>1, Zenon DEF FlipsOf, FlipsKept
      <4> QED BY <4>2, <4>3
    <3>2. CASE Switching
      <4>1. KeepsNames(W, W') /\ W'.cmd = W.cmd
        BY <3>2 DEF Switching
      <4>2. Named(W', d)
        BY <2>2, <4>1, NamesStay
      <4>3. FlipsOf(W', d)
        BY <2>2, <4>1 DEF FlipsOf, Flying
      <4> QED BY <4>2, <4>3
    <3>3. CASE Finishes
      <4>1. PICK k \in Cmd : FlipDone(W, W', k)
        BY <3>3 DEF Finishes
      <4>2. W.cmd[k].draw = d /\ W.cmd[k].live
        BY <2>2, <4>1, Zenon DEF FlipsOf, FlipDone, Flying
      <4>3. W.cmd[k].src # NoBuf
        BY <2>4, <4>2, SwapAssumption DEF TypeInv, CommandsWhole, Whole
      <4>4. Named(W', d)
        BY <2>2, <2>4, <4>1, <4>2, <4>3, NamesTurn
      <4>5. ~W'.cmd[k].live /\ \A j \in Cmd \ {k} : W'.cmd[j] = W.cmd[j]
        BY <4>1, Zenon DEF FlipDone
      <4>6. FlipsOf(W', d)
        BY <2>2, <4>5 DEF FlipsOf, Flying
      <4> QED BY <4>4, <4>6
    <3>4. CASE Starting
      <4>1. PICK e \in Draw, k \in Cmd, S \in SUBSET crtcOn :
              CanFlip(e) /\ S # {} /\ FlipTried(e, k, S)
        BY <3>4 DEF Starting
      <4>2. e = d
        BY <4>1 DEF OneFlips
      <4>3. Begun(W, W', d, k, S)
        BY <4>1, <4>2 DEF FlipTried
      <4>4. /\ KeepsNames(W, W') /\ W'.cmd[k].draw = d
            /\ \A j \in Cmd \ {k} : W'.cmd[j] = W.cmd[j]
        BY <4>3, Zenon DEF Begun
      <4>5. Named(W', d)
        BY <2>2, <4>4, NamesStay
      <4>6. FlipsOf(W', d)
        BY <2>2, <4>4 DEF FlipsOf, Flying
      <4> QED BY <4>5, <4>6
    <3> QED BY <2>3, <3>1, <3>2, <3>3, <3>4
  <2> QED BY <1>1, <1>2, <1>4, <2>5 DEF NameInv
<1> QED BY <1>3, <1>4

\* At first no window has buffers.
LEMMA InitNames ==
  ASSUME NEW d \in Draw, Init
  PROVE  NameInv(d)
<1>1. /\ buf = [x \in Buf |-> NoBufRec] /\ cmd = [k \in Cmd |-> NoCmdRec]
      /\ win = [e \in Draw |-> Root] /\ priv = [e \in Draw |-> NoPriv]
      /\ phase = "up"
  BY DEF Init
<1>2. Unredirected
  BY <1>1 DEF Unredirected
<1>3. FlipsOf(W, d)
  BY <1>1 DEF FlipsOf, Flying, NoCmdRec, W
<1>4. Named(W, d)
  <2>1. \A x \in Buf : ~(W.buf[x].ref > 0)
    BY <1>1 DEF NoBufRec, W
  <2>2. W.priv[d].front = NoBuf
    BY <1>1 DEF NoPriv, W
  <2> QED BY <2>1, <2>2 DEF Named
<1> QED BY <1>1, <1>2, <1>3, <1>4 DEF NameInv

\* So they are right in every state.
LEMMA NamesInvariance ==
  ASSUME NumBufs = 2, "name" \notin Env, "redirect" \notin Env, "resize" \notin Env,
         NEW d \in Draw
  PROVE  Spec /\ []BoLeft /\ []OneFlips(d) => []NameInv(d)
<1> DEFINE UI == IInv /\ UsersInv
           One == OneFlips(d)
           NI == NameInv(d)
<1>1. Init => NI
  BY InitNames
<1>2. UI /\ UI' /\ BoLeft /\ MemSafe /\ MemSafe' /\ One /\ NI /\ [Next]_vars => NI'
  BY NamesStep DEF IInv
<1>3. Spec => []UI
  BY UsersInvariance
<1>4. Spec /\ []BoLeft => []MemSafe
  BY MemorySafety
<1>5. Spec /\ []BoLeft /\ []One => []NI
  <2> HIDE DEF UI, One, NI
  <2> QED BY <1>1, <1>2, <1>3, <1>4, PTL DEF Spec
<1> QED BY <1>5

\* NameMatchesPixmap
LEMMA NamesRight ==
  ASSUME NumBufs = 2, TypeInv, MemSafe, NEW d \in Draw, NameInv(d)
  PROVE  NameMatchesPixmap
<1> SUFFICES ASSUME NEW e \in Draw, mem.ok, priv[e].back # NoBuf
             PROVE  buf[priv[e].back].name = BoFromBuffer(W, priv[e].back)
  BY DEF NameMatchesPixmap
<1>1. phase # "closed" /\ Named(W, d)
  BY DEF NameInv
<1>2. /\ W \in World /\ MemInv(W, win, Draw, Cmd) /\ Paired(W) /\ Sound(W, win)
      /\ WinsTyped(win) /\ W.priv = priv /\ W.buf = buf
  BY <1>1, Before, Given
<1> DEFINE b == priv[e].back
<1>3. b \in Buf /\ W.buf[b].ref > 0 /\ W.buf[b].att = "back"
  BY <1>2, HeldBuffers
<1> HIDE DEF b
<1>4. W.buf[b].pix[0] \in Pix /\ W.buf[b].cur = 0
  <2>1. W.buf[b].pix[0] \in Pix
    BY <1>2, <1>3, InBuffers
  <2> QED BY <1>2, <1>3, <2>1, WorldFields, OnePixmap
<1>5. W.buf[b].name = Showing(W, b)
  BY <1>1, <1>3 DEF Named
<1> QED BY <1>2, <1>4, <1>5 DEF BoFromBuffer, PixmapBo, Showing, b

-----------------------------------------------------------------------------
(* No CRTC scans out a back buffer, except for the flip of it. *)

\* While a flip is in flight the CRTCs scan out its bo.
FlipsShow(w) ==
  \A k \in Cmd : Flying(w, k) =>
    /\ ~w.cmd[k].fail
    /\ ~w.cmd[k].fake
    /\ \A c \in Crtc : w.hw[c] \in {NoBo, w.cmd[k].oldSrc}

\* A back buffer that is scanned out is being flipped to.
OnlyFlipsOn(w) ==
  \A e \in Draw : w.priv[e].back # NoBuf /\ On(w, w.priv[e].back) =>
    \E k \in Cmd : Flying(w, k) /\ w.cmd[k].draw = e

\* Every CRTC is on, and an event is for a flip.
EventsFly == \A c \in Crtc : flipEv[c] # NoCmd => Flying(W, flipEv[c])

BackInv == phase # "closed" =>
             crtcOn = Crtc /\ EventsFly /\ FlipsShow(W) /\ OnlyFlipsOn(W)

LEMMA CalmBacks ==
  ASSUME NEW w, NEW v, Calm(w, v), FlipsShow(w), OnlyFlipsOn(w),
         \A e \in Draw : w.priv[e].back # NoBuf => win[e] # NoPix
  PROVE  FlipsShow(v) /\ OnlyFlipsOn(v)
<1>1. HwKept(w, v) /\ FlipsKept(w, v) /\ OnKept(w, v)
  BY Zenon DEF Calm
<1>2. FlipsShow(v)
  <2> SUFFICES ASSUME NEW k \in Cmd, Flying(v, k)
               PROVE  /\ ~v.cmd[k].fail
                      /\ ~v.cmd[k].fake
                      /\ \A c \in Crtc : v.hw[c] \in {NoBo, v.cmd[k].oldSrc}
    BY Zenon DEF FlipsShow
  <2>1. /\ Flying(w, k) /\ v.cmd[k].oldSrc = w.cmd[k].oldSrc
        /\ v.cmd[k].fail = w.cmd[k].fail /\ v.cmd[k].fake = w.cmd[k].fake
    BY <1>1, Zenon DEF FlipsKept
  <2>2. /\ ~w.cmd[k].fail
        /\ ~w.cmd[k].fake
        /\ \A c \in Crtc : w.hw[c] \in {NoBo, w.cmd[k].oldSrc}
    BY <2>1, Zenon DEF FlipsShow
  <2>3. \A c \in Crtc : v.hw[c] \in {NoBo, w.hw[c]}
    BY <1>1 DEF HwKept
  <2> QED BY <2>1, <2>2, <2>3
<1>3. OnlyFlipsOn(v)
  <2> SUFFICES ASSUME NEW e \in Draw, v.priv[e].back # NoBuf, On(v, v.priv[e].back)
               PROVE  \E k \in Cmd : Flying(v, k) /\ v.cmd[k].draw = e
    BY Zenon DEF OnlyFlipsOn
  <2>1. w.priv[e].back = v.priv[e].back /\ On(w, v.priv[e].back)
    BY <1>1, Zenon DEF OnKept
  <2>2. PICK k \in Cmd : Flying(w, k) /\ w.cmd[k].draw = e
    BY <2>1, Zenon DEF OnlyFlipsOn
  <2>3. Crtc # {} /\ win[e] # NoPix
    BY <2>1 DEF On
  <2>4. Flips(w, k)
    <3>1. ~w.cmd[k].fail /\ ~w.cmd[k].fake
      BY <2>2, <2>3, Zenon DEF FlipsShow
    <3> QED BY <2>2, <2>3, <3>1 DEF Flips, Succeeded, Flying
  <2>5. Flying(v, k)
    BY <1>1, <2>2, <2>4, Zenon DEF FlipsKept
  <2>6. v.cmd[k].draw = w.cmd[k].draw
    BY <1>1, <2>5, Zenon DEF FlipsKept
  <2> QED BY <2>2, <2>5, <2>6
<1> QED BY <1>2, <1>3

\* Two windows have different back buffers, which show different bos, and both
\* differ from that of the screen.
LEMMA BacksApart ==
  ASSUME NEW w \in World, NEW wn, WinsTyped(wn), MemInv(w, wn, Draw, Cmd),
         Paired(w), HeldApart(w.priv), NEW d \in Draw, w.priv[d].back # NoBuf
  PROVE  /\ Showing(w, w.priv[d].back) \in Bo
         /\ Showing(w, w.priv[d].back) # w.mem.pbo[Root]
         /\ \A e \in Draw \ {d} : w.priv[e].back # NoBuf =>
              /\ w.priv[e].back # w.priv[d].back
              /\ w.priv[e].back # w.priv[d].front
              /\ Showing(w, w.priv[e].back) # Showing(w, w.priv[d].back)
<1> DEFINE b == w.priv[d].back
<1>1. Sound(w, wn) /\ b \in Buf /\ w.buf[b].ref > 0 /\ w.buf[b].att = "back"
  BY HeldBuffers DEF MemInv, SwapInv
<1> DEFINE p == w.buf[b].pix[0]
<1>2. /\ p \in Pix /\ w.mem.pref[p] > 0 /\ p # Root
      /\ \A y \in Buf \ {b} : w.buf[y].pix[0] # p
  BY <1>1, InBuffers, Zenon
<1>3. Root \in Pix /\ w.mem.pbo[p] \in Bo /\ \A q \in Pix \ {p} : w.mem.pbo[q] # w.mem.pbo[p]
  BY <1>1, <1>2, InUse, Zenon
<1>4. ASSUME NEW e \in Draw \ {d}, w.priv[e].back # NoBuf
      PROVE  /\ w.priv[e].back # b /\ w.priv[e].back # w.priv[d].front
             /\ Showing(w, w.priv[e].back) # Showing(w, b)
  <2> DEFINE x == w.priv[e].back
  <2>1. x \in Buf /\ w.buf[x].ref > 0
    BY <1>4, HeldBuffers
  <2>2. x # b /\ x # w.priv[d].front
    BY <1>4, <2>1 DEF HeldApart
  <2>3. w.buf[x].pix[0] \in Pix
    BY <1>1, <2>1, InBuffers
  <2>4. w.buf[x].pix[0] \in Pix \ {p}
    BY <1>2, <2>1, <2>2, <2>3
  <2> HIDE DEF x, p, b
  <2>5. w.mem.pbo[w.buf[x].pix[0]] # w.mem.pbo[p]
    BY <1>3, <2>4
  <2> QED BY <2>2, <2>5 DEF Showing, x, p
<1> QED BY <1>2, <1>3, <1>4 DEF Showing

LEMMA FinishedBacks ==
  ASSUME NEW w \in World, NEW v, NEW wn, WinsTyped(wn), MemInv(w, wn, Draw, Cmd),
         Paired(w), HeldApart(w.priv), NEW wz, MemInv(v, wz, Draw, Cmd), v \in World,
         Paired(v), NEW d \in Draw, Named(w, d), FlipsOf(w, d), FlipsShow(w),
         OnlyFlipsOn(w), NEW k \in Cmd, w.cmd[k].src # NoBuf, FlipDone(w, v, k)
  PROVE  FlipsShow(v) /\ OnlyFlipsOn(v)
<1> DEFINE s == w.cmd[k].src
           t == w.cmd[k].dst
<1>1. /\ Turned(w, v, s, t) /\ SameBuffers(w, v) /\ HwKept(w, v)
      /\ Flying(w, k)
      /\ ~v.cmd[k].live /\ \A j \in Cmd \ {k} : v.cmd[j] = w.cmd[j]
  BY Zenon DEF FlipDone
<1>2. w.cmd[k].draw = d
  BY <1>1, Zenon DEF FlipsOf
<1>3. /\ w.priv[d].back = s /\ w.priv[d].front = t
      /\ w.mem.pbo[w.buf[s].pix[0]] = w.cmd[k].oldSrc
  BY <1>2, Zenon DEF FlipDone
<1>4. \A c \in Crtc : w.hw[c] \in {NoBo, Showing(w, s)}
  <2>1. \A c \in Crtc : w.hw[c] \in {NoBo, w.cmd[k].oldSrc}
    BY <1>1, Zenon DEF FlipsShow
  <2> QED BY <1>3, <2>1 DEF Showing
<1>5. /\ Showing(w, s) # w.mem.pbo[Root]
      /\ \A e \in Draw \ {d} : w.priv[e].back # NoBuf =>
           w.priv[e].back # s /\ w.priv[e].back # t
  BY <1>3, BacksApart
<1>6. t # NoBuf /\ w.buf[t].name = w.mem.pbo[Root]
  BY <1>3 DEF Paired, Named
<1> HIDE DEF s, t
<1>7. \A c \in Crtc : v.hw[c] \in {NoBo, w.hw[c]}
  BY <1>1 DEF HwKept
<1>8. \A j \in Cmd : Flying(v, j) => j # k /\ Flying(w, j) /\ v.cmd[j] = w.cmd[j]
  BY <1>1 DEF Flying
<1>9. FlipsShow(v)
  <2> SUFFICES ASSUME NEW j \in Cmd, Flying(v, j)
               PROVE  /\ ~v.cmd[j].fail
                      /\ ~v.cmd[j].fake
                      /\ \A c \in Crtc : v.hw[c] \in {NoBo, v.cmd[j].oldSrc}
    BY Zenon DEF FlipsShow
  <2>1. v.cmd[j] = w.cmd[j] /\ Flying(w, j)
    BY <1>8
  <2>2. /\ ~w.cmd[j].fail
        /\ ~w.cmd[j].fake
        /\ \A c \in Crtc : w.hw[c] \in {NoBo, w.cmd[j].oldSrc}
    BY <2>1, Zenon DEF FlipsShow
  <2> QED BY <1>7, <2>1, <2>2
<1>10. OnlyFlipsOn(v)
  <2> SUFFICES ASSUME NEW e \in Draw, v.priv[e].back # NoBuf, On(v, v.priv[e].back)
               PROVE  \E j \in Cmd : Flying(v, j) /\ v.cmd[j].draw = e
    BY Zenon DEF OnlyFlipsOn
  <2> DEFINE b == v.priv[e].back
  <2>1. w.priv[e].back = b /\ b \in Buf /\ v.buf[b].ref > 0 /\ v.buf[b].att = "back"
    <3>1. w.priv[e].back = b
      BY <1>1 DEF SameBuffers
    <3> QED BY <3>1, HeldBuffers
  <2>2. PICK c \in Crtc : v.hw[c] # NoBo /\ v.hw[c] = v.buf[b].name
    BY Zenon DEF On
  <2>3. w.hw[c] # NoBo /\ w.hw[c] = v.buf[b].name
    BY <1>7, <2>2
  <2> HIDE DEF b
  <2>4. CASE e = d
    <3>1. v.buf[b].name = w.buf[t].name
      BY <1>1, <1>3, <2>1, <2>4, Zenon DEF Turned
    <3> QED BY <1>4, <1>5, <1>6, <2>3, <3>1
  <2>5. CASE e # d
    <3>1. b # s /\ b # t
      BY <1>5, <2>1, <2>5, SwapAssumption
    <3>2. Stays(w, v, b)
      <4>1. w.buf[b].att = "back"
        BY <1>1, <2>1, Zenon DEF Turned
      <4> QED BY <1>1, <2>1, <3>1, <4>1, Zenon DEF Turned
    <3>3. On(w, b)
      BY <2>3, <3>2, Zenon DEF On, Stays
    <3>4. PICK j \in Cmd : Flying(w, j) /\ w.cmd[j].draw = e
      BY <2>1, <3>3, SwapAssumption, Zenon DEF OnlyFlipsOn
    <3> QED BY <2>5, <3>4, Zenon DEF FlipsOf
  <2> QED BY <2>4, <2>5
<1> QED BY <1>9, <1>10

LEMMA StartedBacks ==
  ASSUME NEW w \in World, NEW v, NEW wn, WinsTyped(wn), MemInv(w, wn, Draw, Cmd),
         Paired(w), HeldApart(w.priv), NEW d \in Draw, Named(w, d),
         \A j \in Cmd : ~Flying(w, j), crtcOn = Crtc, Crtc # {},
         NEW k \in Cmd, Begun(w, v, d, k, Crtc)
  PROVE  FlipsShow(v) /\ OnlyFlipsOn(v)
<1> DEFINE o == v.cmd[k].oldSrc
<1>1. /\ w.priv[d].back # NoBuf
      /\ Flying(v, k) /\ v.cmd[k].draw = d
      /\ o = Showing(w, w.priv[d].back)
      /\ ~v.cmd[k].fail
      /\ ~v.cmd[k].fake
      /\ \A j \in Cmd \ {k} : v.cmd[j] = w.cmd[j]
      /\ \A e \in Draw : v.priv[e].back # NoBuf =>
           v.priv[e].back = w.priv[e].back /\ Stays(w, v, v.priv[e].back)
      /\ \A c \in Crtc : v.hw[c] = o \/ v.hw[c] = NoBo
  BY Zenon DEF Begun
<1> HIDE DEF o
<1>2. \A j \in Cmd : Flying(v, j) => j = k
  BY <1>1 DEF Flying
<1>3. FlipsShow(v)
  BY <1>1, <1>2 DEF FlipsShow, o
<1>4. OnlyFlipsOn(v)
  <2> SUFFICES ASSUME NEW e \in Draw, v.priv[e].back # NoBuf, On(v, v.priv[e].back)
               PROVE  e = d
    BY <1>1, Zenon DEF OnlyFlipsOn
  <2> DEFINE b == v.priv[e].back
  <2>1. b = w.priv[e].back /\ Stays(w, v, b)
    BY <1>1
  <2>2. PICK c \in Crtc : v.hw[c] # NoBo /\ v.hw[c] = v.buf[b].name
    BY Zenon DEF On
  <2>3. v.buf[b].name = Showing(w, w.priv[d].back)
    BY <1>1, <2>2
  <2>4. v.buf[b].name = Showing(w, b)
    <3>1. b \in Buf /\ w.buf[b].ref > 0 /\ w.buf[b].att = "back"
      BY <2>1, HeldBuffers
    <3> QED BY <2>1, <3>1, Zenon DEF Stays, Named
  <2>5. \A g \in Draw \ {d} : w.priv[g].back # NoBuf =>
          Showing(w, w.priv[g].back) # Showing(w, w.priv[d].back)
    BY <1>1, BacksApart
  <2>6. w.priv[e].back = b /\ b # NoBuf
    BY <2>1
  <2>7. Showing(w, b) = Showing(w, w.priv[d].back)
    BY <2>3, <2>4
  <2> HIDE DEF b
  <2>8. Showing(w, w.priv[e].back) = Showing(w, w.priv[d].back)
    BY ONLY <2>6, <2>7
  <2> QED BY ONLY e \in Draw, <2>5, <2>6, <2>8
<1> QED BY <1>3, <1>4

\* A swap is scheduled when none of its window is in flight, so that every
\* CRTC is free to flip.
LEMMA AllFree ==
  ASSUME "flipfail" \notin Env, TypeInv, UsersInv, MemSafe, phase # "closed",
         BackInv, NEW d \in Draw, NameInv(d), Unthrottled(d),
         NEW k \in Cmd, NEW S \in SUBSET crtcOn, FlipTried(d, k, S)
  PROVE  S = Crtc /\ crtcOn = Crtc /\ \A j \in Cmd : ~Flying(W, j)
<1>1. W.cmd = cmd
  BY Given
<1>2. \A j \in Cmd : cmd[j].live /\ ~cmd[j].fail => cmd[j].draw # d
  BY NoSwapOf
<1>3. FlipsOf(W, d) /\ FlipsShow(W) /\ EventsFly /\ crtcOn = Crtc
  BY DEF NameInv, BackInv
<1>4. ASSUME NEW j \in Cmd, Flying(W, j)
      PROVE  FALSE
  <2>1. W.cmd[j].draw = d /\ ~W.cmd[j].fail /\ W.cmd[j].live
    BY <1>3, <1>4, Zenon DEF FlipsOf, FlipsShow, Flying
  <2> QED BY <1>1, <1>2, <2>1
<1>5. \A c \in Crtc : flipEv[c] = NoCmd
  BY <1>3, <1>4 DEF EventsFly, TypeInv, TypeOK
<1>6. S = {c \in crtcOn : flipEv[c] = NoCmd}
  BY DEF FlipTried
<1> QED BY <1>3, <1>4, <1>5, <1>6

\* While the events are those of the flips in flight.
LEMMA EventsFlyOn ==
  ASSUME EventsBelong', W' \in World, W'.cmd = cmd', TypeInv, EventsFly,
         \A c \in Crtc : flipEv'[c] \in {NoCmd, flipEv[c]},
         \A j \in Cmd : Flying(W, j) /\ W'.cmd[j].live => Flying(W', j)
  PROVE  EventsFly'
<1> SUFFICES ASSUME NEW c \in Crtc, flipEv'[c] # NoCmd
             PROVE  Flying(W', flipEv'[c])
  BY DEF EventsFly
<1>1. flipEv'[c] = flipEv[c] /\ flipEv[c] \in Cmd
  BY DEF TypeInv, TypeOK
<1>2. Flying(W, flipEv[c])
  BY <1>1 DEF EventsFly
<1>3. cmd'[flipEv[c]].live
  <2>1. c \in Flipping(flipEv[c])'
    BY <1>1 DEF Flipping
  <2> QED BY <1>1, <2>1 DEF EventsBelong
<1> QED BY <1>1, <1>2, <1>3

\* A step keeps the backs off the CRTCs.
LEMMA BackStep ==
  ASSUME NumBufs = 2, "name" \notin Env, "redirect" \notin Env, "resize" \notin Env,
         "flipfail" \notin Env, "crtc" \notin Env,
         TypeInv, EventsBelong, NoneLost, UsersInv, MemSafe, BoLeft,
         TypeInv', EventsBelong', MemSafe', NEW d \in Draw, OneFlips(d),
         NameInv(d), BackInv, [Next]_vars
  PROVE  BackInv'
<1> SUFFICES ASSUME phase' # "closed"
             PROVE  BackInv'
  BY DEF BackInv
<1>1. phase # "closed"
  BY ClosedStays DEF vars
<1>2. /\ Named(W, d) /\ FlipsOf(W, d) /\ Unredirected
      /\ crtcOn = Crtc /\ EventsFly /\ FlipsShow(W) /\ OnlyFlipsOn(W)
  BY <1>1 DEF NameInv, BackInv
<1>3. crtcOn' = crtcOn /\ (Quietly \/ Starting \/ Finishes)
  BY <1>2, StepShows DEF Switching
<1>4. /\ W \in World /\ MemInv(W, win, Draw, Cmd) /\ Paired(W) /\ WinsTyped(win)
      /\ HeldApart(W.priv) /\ W.cmd = cmd
      /\ W' \in World /\ MemInv(W', win', Draw, Cmd) /\ Paired(W') /\ W'.cmd = cmd'
  BY <1>1, Before, After, Given, NextWorld
<1>5. EventsFly' /\ FlipsShow(W') /\ OnlyFlipsOn(W')
  <2>1. CASE Quietly
    <3>1. Calm(W, W') /\ \A c \in Crtc : flipEv'[c] \in {NoCmd, flipEv[c]}
      BY <2>1 DEF Quietly
    <3>2. \A e \in Draw : W.priv[e].back # NoBuf => win[e] # NoPix
      BY <1>4, HeldBuffers
    <3>3. FlipsShow(W') /\ OnlyFlipsOn(W')
      BY ONLY <1>2, <3>1, <3>2, CalmBacks
    <3>4. \A j \in Cmd : Flying(W, j) /\ W'.cmd[j].live => Flying(W', j)
      BY <3>1, Zenon DEF Calm, FlipsKept
    <3> QED BY <1>2, <1>4, <3>1, <3>3, <3>4, EventsFlyOn
  <2>2. CASE Finishes
    <3>1. /\ \A c \in Crtc : flipEv'[c] \in {NoCmd, flipEv[c]}
          /\ \E k \in Cmd : FlipDone(W, W', k)
      BY <2>2 DEF Finishes
    <3>2. PICK k \in Cmd : FlipDone(W, W', k)
      BY <3>1
    <3>3. W.cmd[k].live /\ ~W'.cmd[k].live /\ \A j \in Cmd \ {k} : W'.cmd[j] = W.cmd[j]
      BY <3>2, Zenon DEF FlipDone, Flying
    <3>4. W.cmd[k].src # NoBuf
      BY <1>4, <3>3, SwapAssumption DEF TypeInv, CommandsWhole, Whole
    <3>5. FlipsShow(W') /\ OnlyFlipsOn(W')
      BY ONLY d \in Draw, k \in Cmd, <1>2, <1>4, <3>2, <3>4, FinishedBacks
    <3>6. \A j \in Cmd : Flying(W, j) /\ W'.cmd[j].live => Flying(W', j)
      BY <3>3 DEF Flying
    <3> QED BY <1>2, <1>4, <3>1, <3>5, <3>6, EventsFlyOn
  <2>3. CASE Starting
    <3>1. PICK e \in Draw, k \in Cmd, S \in SUBSET crtcOn :
            Unthrottled(e) /\ CanFlip(e) /\ S # {} /\ FlipTried(e, k, S)
      BY <2>3 DEF Starting
    <3>2. e = d
      BY <3>1 DEF OneFlips
    <3>3. S = Crtc /\ Crtc # {} /\ crtcOn = Crtc /\ \A j \in Cmd : ~Flying(W, j)
      BY <1>1, <3>1, <3>2, AllFree
    <3>4. Begun(W, W', d, k, Crtc) /\ flipEv' = [c \in Crtc |-> IF c \in S THEN k ELSE flipEv[c]]
      BY <3>1, <3>2, <3>3 DEF FlipTried
    <3>5. FlipsShow(W') /\ OnlyFlipsOn(W')
      BY ONLY d \in Draw, k \in Cmd, <1>2, <1>4, <3>3, <3>4, StartedBacks
    <3>6. Flying(W', k)
      BY <3>4, Zenon DEF Begun
    <3>7. \A c \in Crtc : flipEv'[c] = k
      BY <3>3, <3>4
    <3>8. EventsFly'
      BY <3>6, <3>7 DEF EventsFly
    <3> QED BY <3>5, <3>8
  <2> QED BY <1>3, <2>1, <2>2, <2>3
<1> QED BY <1>2, <1>3, <1>5 DEF BackInv

\* At first no window has buffers, and no swap is in flight.
LEMMA InitBack ==
  ASSUME Init
  PROVE  BackInv
<1>1. /\ cmd = [k \in Cmd |-> NoCmdRec] /\ priv = [e \in Draw |-> NoPriv]
      /\ crtcOn = Crtc /\ flipEv = [c \in Crtc |-> NoCmd]
  BY DEF Init
<1>2. \A k \in Cmd : ~Flying(W, k)
  BY <1>1 DEF Flying, NoCmdRec, W
<1>3. \A e \in Draw : W.priv[e].back = NoBuf
  BY <1>1 DEF NoPriv, W
<1> QED BY <1>1, <1>2, <1>3 DEF BackInv, EventsFly, FlipsShow, OnlyFlipsOn

LEMMA BackInvariance ==
  ASSUME NumBufs = 2, "name" \notin Env, "redirect" \notin Env, "resize" \notin Env,
         "flipfail" \notin Env, "crtc" \notin Env, NEW d \in Draw
  PROVE  Spec /\ []BoLeft /\ []OneFlips(d) => []BackInv
<1> DEFINE UI == IInv /\ UsersInv
           One == OneFlips(d)
           NI == NameInv(d)
<1>1. Init => BackInv
  BY InitBack
<1>2. UI /\ UI' /\ BoLeft /\ MemSafe /\ MemSafe' /\ One /\ NI /\ BackInv /\ [Next]_vars
        => BackInv'
  BY BackStep DEF IInv
<1>3. Spec => []UI
  BY UsersInvariance
<1>4. Spec /\ []BoLeft => []MemSafe
  BY MemorySafety
<1>5. Spec /\ []BoLeft /\ []One => []NI
  BY NamesInvariance
<1>6. Spec /\ []BoLeft /\ []One => []BackInv
  <2> HIDE DEF UI, One, NI
  <2> QED BY <1>1, <1>2, <1>3, <1>4, <1>5, PTL DEF Spec
<1> QED BY <1>6

\* BackIsPrivate
LEMMA BackPrivate ==
  ASSUME TypeInv, UsersInv, MemSafe, NEW d \in Draw, NameInv(d), BackInv
  PROVE  BackIsPrivate
<1> SUFFICES ASSUME NEW e \in Draw, priv[e].back # NoBuf, win[e] # NoPix,
                    priv[e].swaps < 1
             PROVE  /\ \A c \in Crtc : hw[c] # buf[priv[e].back].name
                    /\ mem.pbo[win[e]] # buf[priv[e].back].name
  BY DEF BackIsPrivate
<1>1. phase # "closed" /\ Named(W, d) /\ Unredirected
  BY DEF NameInv
<1>2. FlipsShow(W) /\ OnlyFlipsOn(W)
  BY <1>1 DEF BackInv
<1>3. /\ W \in World /\ MemInv(W, win, Draw, Cmd) /\ Paired(W) /\ WinsTyped(win)
      /\ HeldApart(W.priv) /\ W.cmd = cmd /\ W.priv = priv /\ W.buf = buf
      /\ W.mem = mem /\ W.hw = hw
  BY <1>1, Before, Given
<1> DEFINE b == priv[e].back
<1>4. b \in Buf /\ W.buf[b].ref > 0 /\ W.buf[b].att = "back"
  BY <1>3, HeldBuffers
<1>5. /\ Showing(W, b) \in Bo /\ Showing(W, b) # mem.pbo[Root]
  BY <1>3, BacksApart
<1>6. ~On(W, b)
  <2> SUFFICES ASSUME On(W, b)
               PROVE  FALSE
    OBVIOUS
  <2>1. PICK k \in Cmd : Flying(W, k) /\ W.cmd[k].draw = e
    BY <1>2, <1>3, Zenon DEF OnlyFlipsOn
  <2>2. W.cmd[k].live /\ ~W.cmd[k].fail
    BY <1>2, <2>1, Zenon DEF FlipsShow, Flying
  <2>3. Unthrottled(e)
    BY DEF Unthrottled
  <2> QED BY <1>3, <2>1, <2>2, <2>3, NoSwapOf
<1> HIDE DEF b
<1>7. buf[b].name = Showing(W, b)
  BY <1>1, <1>3, <1>4 DEF Named
<1>8. buf[b].name # NoBo
  BY <1>5, <1>7, MemAssumption
<1>9. win[e] = Root
  BY <1>1 DEF Unredirected
<1>10. \A c \in Crtc : hw[c] # buf[b].name
  BY <1>3, <1>6, <1>8 DEF On
<1> QED BY <1>5, <1>7, <1>9, <1>10 DEF b

-----------------------------------------------------------------------------
(* The CRTCs show the screen, or the flip in flight. *)

ShowInv ==
  /\ phase = "up" /\ \A e \in Draw : win[e] = Root
  /\ (\A k \in Cmd : ~Flying(W, k)) => \A c \in Crtc : W.hw[c] = W.mem.pbo[Root]
  /\ \A k \in Cmd : Flying(W, k) => \A c \in Crtc : W.hw[c] = W.cmd[k].oldSrc

\* The bo of a flip in flight has an fb.
LEMMA FlyingHasFb ==
  ASSUME NEW w, NEW wn, MemInv(w, wn, Draw, Cmd), NEW d \in Draw, wn[d] # NoPix,
         FlipsOf(w, d), FlipsShow(w), NEW k \in Cmd, Flying(w, k)
  PROVE  w.mem.fb[w.cmd[k].oldSrc]
<1>1. w.cmd[k].draw = d /\ w.cmd[k].live /\ ~w.cmd[k].fail /\ w.cmd[k].type = "flip"
  BY Zenon DEF FlipsOf, FlipsShow, Flying
<1>2. CmdSound(w, wn, k)
  BY <1>1 DEF MemInv, SwapInv
<1> QED BY <1>1, <1>2, Zenon DEF CmdSound

\* Windows that are not destroyed stay, and so does the screen.
LEMMA StaysUp ==
  ASSUME "redirect" \notin Env, "destroy" \notin Env, [Next]_vars, Draw # {},
         phase = "up", \A e \in Draw : win[e] = Root
  PROVE  phase' = "up" /\ \A e \in Draw : win'[e] = Root
<1>1. Root # NoPix
  BY SwapAssumption, MemAssumption
<1>2. ~FinishClose
  BY DEF FinishClose, LeaveEventLoop
<1>3. ASSUME ClientStep \/ KernelStep
      PROVE  phase' = phase /\ win' = win
  BY <1>3 DEF ClientStep, KernelStep, GetBuffers, SwapByFlip, SwapAtVblank, SwapNow,
              FlipEvent, VBlankEvent
<1>4. ASSUME ServerStep
      PROVE  phase' = phase /\ win' = win
  <2>1. \A e \in Draw : ~Redirect(e) /\ ~Unredirect(e) /\ ~DestroyDrawable(e) /\ ~CreateWindow(e)
    BY <1>1 DEF Redirect, Unredirect, DestroyDrawable, CreateWindow
  <2>2. ~CloseScreen
    BY <1>1 DEF CloseScreen
  <2> QED BY <1>4, <2>1, <2>2 DEF ServerStep, Restack, SwitchCrtc, Resize
<1>5. phase' = phase /\ win' = win
  BY <1>2, <1>3, <1>4 DEF Next, vars
<1> QED BY <1>5

\* A step that shows nothing new.
LEMMA CalmShown ==
  ASSUME NEW w, NEW v, NEW wn, Calm(w, v), MemInv(v, wn, Draw, Cmd), NEW d \in Draw,
         wn[d] # NoPix, FlipsOf(w, d), FlipsOf(v, d), FlipsShow(w), FlipsShow(v),
         win[d] # NoPix,
         (\A k \in Cmd : ~Flying(w, k)) => \A c \in Crtc : w.hw[c] = w.mem.pbo[Root],
         \A k \in Cmd : Flying(w, k) => \A c \in Crtc : w.hw[c] = w.cmd[k].oldSrc
  PROVE  /\ (\A k \in Cmd : ~Flying(v, k)) => \A c \in Crtc : v.hw[c] = v.mem.pbo[Root]
         /\ \A k \in Cmd : Flying(v, k) => \A c \in Crtc : v.hw[c] = v.cmd[k].oldSrc
<1>1. HwKept(w, v) /\ FlipsKept(w, v) /\ v.mem.pbo[Root] = w.mem.pbo[Root]
  BY Zenon DEF Calm, KeepsNames
<1>2. ASSUME NEW k \in Cmd, Flying(v, k), NEW c \in Crtc
      PROVE  v.hw[c] = v.cmd[k].oldSrc
  <2>1. Flying(w, k) /\ v.cmd[k].oldSrc = w.cmd[k].oldSrc
    BY <1>1, <1>2, Zenon DEF FlipsKept
  <2>2. v.mem.fb[v.cmd[k].oldSrc]
    BY <1>2, FlyingHasFb
  <2>3. w.hw[c] = v.cmd[k].oldSrc
    BY <2>1
  <2> QED BY <1>1, <2>2, <2>3, Zenon DEF HwKept
<1>3. ASSUME \A k \in Cmd : ~Flying(v, k), NEW c \in Crtc
      PROVE  v.hw[c] = v.mem.pbo[Root]
  <2>1. ASSUME NEW k \in Cmd, Flying(w, k)
        PROVE  FALSE
    <3>1. ~Flips(w, k)
      BY <1>1, <1>3, <2>1, Zenon DEF FlipsKept
    <3>2. w.cmd[k].draw = d /\ ~w.cmd[k].fail /\ w.cmd[k].type = "flip"
      BY <2>1, Zenon DEF FlipsOf, FlipsShow, Flying
    <3>3. ~w.cmd[k].fake
      BY <1>3, <2>1, Zenon DEF FlipsShow
    <3> QED BY <3>1, <3>2, <3>3 DEF Flips, Succeeded
  <2>2. w.hw[c] = v.mem.pbo[Root]
    BY <1>1, <2>1
  <2>3. v.mem.fb[v.mem.pbo[Root]]
    BY DEF MemInv, ScreenSound
  <2> QED BY <1>1, <2>2, <2>3, Zenon DEF HwKept
<1> QED BY <1>2, <1>3

\* A step keeps the CRTCs on the screen.
LEMMA ShowStep ==
  ASSUME NumBufs = 2, "name" \notin Env, "redirect" \notin Env, "resize" \notin Env,
         "flipfail" \notin Env, "crtc" \notin Env, "destroy" \notin Env,
         TypeInv, EventsBelong, NoneLost, UsersInv, MemSafe, BoLeft,
         TypeInv', MemSafe', NEW d \in Draw, OneFlips(d),
         NameInv(d), NameInv(d)', BackInv, BackInv', ShowInv, [Next]_vars
  PROVE  ShowInv'
<1>1. phase = "up" /\ phase' = "up" /\ \A e \in Draw : win[e] = Root /\ win'[e] = Root
  BY StaysUp DEF ShowInv
<1>2. Root # NoPix /\ win[d] # NoPix /\ win'[d] # NoPix
  BY <1>1, SwapAssumption, MemAssumption
<1>3. /\ FlipsOf(W, d) /\ FlipsShow(W) /\ Unredirected
      /\ FlipsOf(W', d) /\ FlipsShow(W')
  BY <1>1 DEF NameInv, BackInv
<1>4. Quietly \/ Starting \/ Finishes
  BY <1>1, <1>3, StepShows DEF Switching
<1>5. MemInv(W', win', Draw, Cmd) /\ W.cmd = cmd
  BY <1>1, After, Given
<1>6. /\ (\A k \in Cmd : ~Flying(W, k)) => \A c \in Crtc : W.hw[c] = W.mem.pbo[Root]
      /\ \A k \in Cmd : Flying(W, k) => \A c \in Crtc : W.hw[c] = W.cmd[k].oldSrc
  BY DEF ShowInv
<1> DEFINE w == W
           u == W'
<1>7. /\ (\A k \in Cmd : ~Flying(u, k)) => \A c \in Crtc : u.hw[c] = u.mem.pbo[Root]
      /\ \A k \in Cmd : Flying(u, k) => \A c \in Crtc : u.hw[c] = u.cmd[k].oldSrc
  <2>1. CASE Quietly
    <3>1. Calm(w, u)
      BY <2>1 DEF Quietly
    <3> HIDE DEF w, u
    <3>2. /\ MemInv(u, win', Draw, Cmd)
          /\ FlipsOf(w, d) /\ FlipsShow(w) /\ FlipsOf(u, d) /\ FlipsShow(u)
      BY <1>3, <1>5 DEF w, u
    <3>3. /\ (\A k \in Cmd : ~Flying(w, k)) => \A c \in Crtc : w.hw[c] = w.mem.pbo[Root]
          /\ \A k \in Cmd : Flying(w, k) => \A c \in Crtc : w.hw[c] = w.cmd[k].oldSrc
      BY <1>6 DEF w
    <3> QED BY ONLY d \in Draw, <1>2, <3>1, <3>2, <3>3, CalmShown
  <2>2. CASE Finishes
    <3>1. PICK k \in Cmd : FlipDone(w, u, k)
      BY <2>2 DEF Finishes
    <3>2. /\ Flying(w, k) /\ HwKept(w, u)
          /\ u.mem.pbo[Root] = w.cmd[k].oldSrc
          /\ ~u.cmd[k].live /\ \A j \in Cmd \ {k} : u.cmd[j] = w.cmd[j]
      BY <3>1, Zenon DEF FlipDone, Turned, Showing
    <3>3. u.mem.fb[u.mem.pbo[Root]]
      BY <1>5 DEF MemInv, ScreenSound
    <3>4. \A c \in Crtc : w.hw[c] = w.cmd[k].oldSrc
      BY <1>6, <3>2
    <3>5. w.cmd[k].live /\ ~w.cmd[k].fail /\ w.cmd[k].draw = d
      BY <1>3, <3>2, Zenon DEF FlipsOf, FlipsShow, Flying
    <3>6. OnlySwap(w, d, k)
      BY <1>5, <3>5, OnlyOne
    <3>7. /\ FlipsOf(w, d) /\ FlipsShow(w)
      BY <1>3
    <3> HIDE DEF w, u
    <3>8. ASSUME NEW j \in Cmd, Flying(u, j)
          PROVE  FALSE
      <4>1. j # k /\ u.cmd[j] = w.cmd[j]
        BY <3>2, <3>8 DEF Flying
      <4>2. Flying(w, j)
        BY <3>8, <4>1 DEF Flying
      <4>3. w.cmd[j].live /\ ~w.cmd[j].fail /\ w.cmd[j].draw = d
        BY <3>7, <4>2, Zenon DEF FlipsOf, FlipsShow, Flying
      <4> QED BY <3>6, <4>1, <4>3 DEF OnlySwap
    <3>9. \A c \in Crtc : u.hw[c] = u.mem.pbo[Root]
      BY <3>2, <3>3, <3>4 DEF HwKept
    <3> QED BY <3>8, <3>9
  <2>3. CASE Starting
    <3>1. PICK e \in Draw, k \in Cmd, S \in SUBSET crtcOn :
            Unthrottled(e) /\ CanFlip(e) /\ S # {} /\ FlipTried(e, k, S)
      BY <2>3 DEF Starting
    <3>2. e = d
      BY <3>1 DEF OneFlips
    <3>3. S = Crtc /\ \A j \in Cmd : ~Flying(w, j)
      BY <1>1, <3>1, <3>2, AllFree
    <3>4. Begun(w, u, d, k, Crtc)
      BY <3>1, <3>2, <3>3 DEF FlipTried
    <3> HIDE DEF w, u
    <3>5. /\ Flying(u, k) /\ \A j \in Cmd \ {k} : u.cmd[j] = w.cmd[j]
          /\ \A c \in Crtc : u.hw[c] = u.cmd[k].oldSrc \/ ~u.mem.fb[u.cmd[k].oldSrc]
      BY <3>4, Zenon DEF Begun
    <3>6. /\ MemInv(u, win', Draw, Cmd) /\ FlipsOf(u, d) /\ FlipsShow(u)
      BY <1>3, <1>5 DEF u
    <3>7. u.mem.fb[u.cmd[k].oldSrc]
      BY ONLY d \in Draw, k \in Cmd, <1>2, <3>5, <3>6, FlyingHasFb
    <3>8. \A j \in Cmd : Flying(u, j) => j = k
      BY <3>3, <3>5 DEF Flying
    <3> QED BY <3>5, <3>7, <3>8
  <2> QED BY <1>4, <2>1, <2>2, <2>3
<1> HIDE DEF w, u
<1>8. /\ (\A k \in Cmd : ~Flying(W, k)') => \A c \in Crtc : W'.hw[c] = W'.mem.pbo[Root]
      /\ \A k \in Cmd : Flying(W, k)' => \A c \in Crtc : W'.hw[c] = W'.cmd[k].oldSrc
  BY <1>7 DEF Flying, u
<1> QED BY <1>1, <1>8 DEF ShowInv

\* At first the CRTCs show the screen.
LEMMA InitShow ==
  ASSUME Init
  PROVE  ShowInv
<1>1. /\ cmd = [k \in Cmd |-> NoCmdRec] /\ win = [e \in Draw |-> Root]
      /\ phase = "up" /\ \A c \in Crtc : hw[c] = scanout
  BY DEF Init
<1>2. \A k \in Cmd : ~Flying(W, k)
  BY <1>1 DEF Flying, NoCmdRec, W
<1>3. mem.pbo[Root] = scanout
  BY <1>1, InitMem DEF MemSafe, MemInv, ScreenSound, W
<1>4. W.hw = hw /\ W.mem = mem
  BY DEF W
<1> QED BY <1>1, <1>2, <1>3, <1>4 DEF ShowInv

LEMMA ShowInvariance ==
  ASSUME NumBufs = 2, "name" \notin Env, "redirect" \notin Env, "resize" \notin Env,
         "flipfail" \notin Env, "crtc" \notin Env, "destroy" \notin Env, NEW d \in Draw
  PROVE  Spec /\ []BoLeft /\ []OneFlips(d) => []ShowInv
<1> DEFINE UI == IInv /\ UsersInv
           One == OneFlips(d)
           NI == NameInv(d)
<1>1. Init => ShowInv
  BY InitShow
<1>2. UI /\ UI' /\ BoLeft /\ MemSafe /\ MemSafe' /\ One /\ NI /\ NI' /\ BackInv
        /\ BackInv' /\ ShowInv /\ [Next]_vars => ShowInv'
  BY ShowStep DEF IInv
<1>3. Spec => []UI
  BY UsersInvariance
<1>4. Spec /\ []BoLeft => []MemSafe
  BY MemorySafety
<1>5. Spec /\ []BoLeft /\ []One => []NI
  BY NamesInvariance
<1>6. Spec /\ []BoLeft /\ []One => []BackInv
  BY BackInvariance
<1>7. Spec /\ []BoLeft /\ []One => []ShowInv
  <2> HIDE DEF UI, One, NI
  <2> QED BY <1>1, <1>2, <1>3, <1>4, <1>5, <1>6, PTL DEF Spec
<1> QED BY <1>7

\* ScanoutIsShown
LEMMA ScanoutShown ==
  ASSUME TypeInv, MemSafe, BackInv, ShowInv
  PROVE  ScanoutIsShown
<1>1. phase = "up" /\ crtcOn = Crtc
  BY DEF ShowInv, BackInv
<1>2. MemInv(W, win, Draw, Cmd) /\ W.mem = mem /\ W.hw = hw /\ W.cmd = cmd /\ W.scanout = scanout
  BY <1>1, Given
<1>3. mem.fb[scanout] /\ mem.pbo[Root] = scanout
  BY <1>2 DEF MemInv, ScreenSound
<1>4. Live = {} => \A k \in Cmd : ~Flying(W, k)
  BY <1>2 DEF Live, Flying
<1>5. Live = {} => \A c \in Crtc : hw[c] = scanout
  BY <1>2, <1>3, <1>4 DEF ShowInv
<1> QED BY <1>1, <1>3, <1>5 DEF ScanoutIsShown

-----------------------------------------------------------------------------
(* One step of the windows is one step of the double buffer. *)

\* The bo of the back buffer.
Drawn(w, d) ==
  IF w.priv[d].back = NoBuf THEN NoBo ELSE Showing(w, w.priv[d].back)

LEMMA BackShows ==
  ASSUME NumBufs = 2, NEW w \in World, NEW wn, WinsTyped(wn),
         MemInv(w, wn, Draw, Cmd), Paired(w), NEW d \in Draw, w.priv[d].back # NoBuf
  PROVE  BoFromBuffer(w, w.priv[d].back) = Showing(w, w.priv[d].back)
<1> DEFINE b == w.priv[d].back
<1>1. Sound(w, wn) /\ b \in Buf /\ w.buf[b].ref > 0
  BY HeldBuffers DEF MemInv, SwapInv
<1> HIDE DEF b
<1>2. w.buf[b].pix[0] \in Pix
  BY <1>1, InBuffers
<1>3. w.buf[b].cur = 0
  BY <1>1, WorldFields, OnePixmap
<1> QED BY <1>2, <1>3 DEF BoFromBuffer, PixmapBo, Showing, b

LEMMA DraftNow ==
  ASSUME NumBufs = 2, TypeInv, MemSafe, phase # "closed", NEW d \in Draw
  PROVE  Draft(d) = Drawn(W, d)
<1>1. /\ W \in World /\ MemInv(W, win, Draw, Cmd) /\ Paired(W) /\ WinsTyped(win)
      /\ W.priv = priv
  BY Before, Given
<1>2. W.priv[d].back # NoBuf =>
        BoFromBuffer(W, W.priv[d].back) = Showing(W, W.priv[d].back)
  BY <1>1, BackShows
<1> QED BY <1>1, <1>2 DEF Draft, Drawn

LEMMA DraftNext ==
  ASSUME NumBufs = 2, TypeInv', MemSafe', phase' # "closed", NEW d \in Draw
  PROVE  Draft(d)' = Drawn(W', d)
<1>1. /\ W' \in World /\ MemInv(W', win', Draw, Cmd) /\ Paired(W') /\ WinsTyped(win')
      /\ W'.priv = priv'
  BY After, NextWorld
<1> DEFINE u == W'
<1>2. u.priv[d].back # NoBuf =>
        BoFromBuffer(u, u.priv[d].back) = Showing(u, u.priv[d].back)
  <2>1. u \in World /\ MemInv(u, win', Draw, Cmd) /\ Paired(u)
    BY <1>1
  <2> HIDE DEF u
  <2> QED BY <1>1, <2>1, BackShows
<1>3. Draft(d)' = IF priv'[d].back = NoBuf THEN NoBo ELSE BoFromBuffer(u, priv'[d].back)
  BY DEF Draft, BoFromBuffer
<1> HIDE DEF u
<1>4. u.priv = priv'
  BY <1>1 DEF u
<1>5. Draft(d)' = Drawn(u, d)
  BY <1>2, <1>3, <1>4 DEF Drawn
<1> QED BY <1>5 DEF u

\* While a flip is in flight the bo of the back buffer is the one flipped to.
LEMMA FlyingDrawn ==
  ASSUME NEW w, NEW wn, MemInv(w, wn, Draw, Cmd), NEW d \in Draw, wn[d] # NoPix,
         FlipsOf(w, d), FlipsShow(w), NEW k \in Cmd, Flying(w, k)
  PROVE  Drawn(w, d) = w.cmd[k].oldSrc
<1>1. w.cmd[k].draw = d /\ w.cmd[k].live /\ ~w.cmd[k].fail
  BY Zenon DEF FlipsOf, FlipsShow, Flying
<1>2. CmdSound(w, wn, k) /\ CmdHolds(w.cmd[k])
  BY <1>1 DEF MemInv, SwapInv
<1>3. /\ w.priv[d].back = w.cmd[k].src
      /\ w.mem.pbo[w.buf[w.cmd[k].src].pix[0]] = w.cmd[k].oldSrc
  BY <1>1, <1>2, Zenon DEF CmdSound
<1>4. w.cmd[k].src \in Buf
  BY <1>1, <1>2, Zenon DEF CmdHolds, Whole
<1>5. w.priv[d].back # NoBuf
  BY <1>3, <1>4, SwapAssumption
<1> QED BY <1>3, <1>5 DEF Drawn, Showing

\* What the double buffer sees of world w.
Busy(w) == \E k \in Cmd : Flying(w, k)

Shows(w, b) == \A c \in Crtc : w.hw[c] = b

\* A world of the lemmas below: window d alone is flipped.
Steady(w, wn, d) ==
  /\ w \in World /\ MemInv(w, wn, Draw, Cmd) /\ Paired(w) /\ WinsTyped(wn)
  /\ HeldApart(w.priv) /\ wn[d] # NoPix
  /\ FlipsOf(w, d) /\ FlipsShow(w)
  /\ ~Busy(w) => Shows(w, w.mem.pbo[Root])
  /\ Busy(w) => Shows(w, Drawn(w, d)) /\ Drawn(w, d) \in Bo

LEMMA SameHw ==
  ASSUME NEW w \in World, NEW v \in World, NEW b, Shows(w, b), Shows(v, b)
  PROVE  v.hw = w.hw
<1>1. /\ w.hw \in [Crtc -> Bo \cup {NoBo}] /\ v.hw \in [Crtc -> Bo \cup {NoBo}]
  BY WorldFields
<1>2. \A c \in Crtc : v.hw[c] = w.hw[c]
  BY DEF Shows
<1> QED BY <1>1, <1>2

\* Quiet steps: the client gets a page or nothing happens.
LEMMA QuietPages ==
  ASSUME NEW d \in Draw, NEW w, NEW wn, Steady(w, wn, d), NEW v, NEW vn,
         Steady(v, vn, d), Calm(w, v), win[d] # NoPix
  PROVE  /\ v.hw = w.hw /\ v.mem.pbo[Root] = w.mem.pbo[Root]
         /\ Busy(v) <=> Busy(w)
         /\ Busy(w) => Drawn(v, d) = Drawn(w, d)
         /\ Drawn(v, d) \in {NoBo} \cup (Bo \ {w.mem.pbo[Root]})
<1>1. FlipsKept(w, v) /\ v.mem.pbo[Root] = w.mem.pbo[Root]
  BY Zenon DEF Calm, KeepsNames
<1>2. /\ w \in World /\ MemInv(w, wn, Draw, Cmd) /\ wn[d] # NoPix
      /\ FlipsOf(w, d) /\ FlipsShow(w)
      /\ v \in World /\ MemInv(v, vn, Draw, Cmd) /\ vn[d] # NoPix
      /\ FlipsOf(v, d) /\ FlipsShow(v)
      /\ Paired(v) /\ WinsTyped(vn) /\ HeldApart(v.priv)
  BY DEF Steady
<1>3. \A k \in Cmd : Flying(w, k) <=> Flying(v, k)
  <2>1. ASSUME NEW k \in Cmd, Flying(v, k) PROVE Flying(w, k)
    BY <1>1, <2>1, Zenon DEF FlipsKept
  <2>2. ASSUME NEW k \in Cmd, Flying(w, k) PROVE Flying(v, k)
    <3>1. /\ w.cmd[k].draw = d /\ w.cmd[k].type = "flip"
          /\ ~w.cmd[k].fail /\ ~w.cmd[k].fake
      BY <1>2, <2>2, Zenon DEF FlipsOf, FlipsShow, Flying
    <3>2. Flips(w, k)
      BY <3>1 DEF Flips, Succeeded
    <3> QED BY <1>1, <2>2, <3>2, Zenon DEF FlipsKept
  <2> QED BY <2>1, <2>2
<1>4. Busy(v) <=> Busy(w)
  BY <1>3 DEF Busy
<1>5. ASSUME Busy(w) PROVE Drawn(v, d) = Drawn(w, d)
  <2>1. PICK k \in Cmd : Flying(w, k) /\ Flying(v, k)
    BY <1>3, <1>5 DEF Busy
  <2>2. v.cmd[k].oldSrc = w.cmd[k].oldSrc
    BY <1>1, <2>1, Zenon DEF FlipsKept
  <2>3. Drawn(w, d) = w.cmd[k].oldSrc
    BY <1>2, <2>1, FlyingDrawn
  <2>4. Drawn(v, d) = v.cmd[k].oldSrc
    BY <1>2, <2>1, FlyingDrawn
  <2> QED BY <2>2, <2>3, <2>4
<1>6. Drawn(v, d) \in {NoBo} \cup (Bo \ {v.mem.pbo[Root]})
  <2>1. v.priv[d].back # NoBuf =>
          /\ Showing(v, v.priv[d].back) \in Bo
          /\ Showing(v, v.priv[d].back) # v.mem.pbo[Root]
    BY <1>2, BacksApart
  <2> QED BY <2>1 DEF Drawn
<1>7. v.hw = w.hw
  <2>1. CASE Busy(w)
    <3>1. Shows(w, Drawn(w, d)) /\ Shows(v, Drawn(w, d))
      BY <1>4, <1>5, <2>1 DEF Steady
    <3> QED BY <1>2, <3>1, SameHw
  <2>2. CASE ~Busy(w)
    <3>1. Shows(w, w.mem.pbo[Root]) /\ Shows(v, w.mem.pbo[Root])
      BY <1>1, <1>4, <2>2 DEF Steady
    <3> QED BY <1>2, <3>1, SameHw
  <2> QED BY <2>1, <2>2
<1> QED BY <1>1, <1>4, <1>5, <1>6, <1>7

\* The flip is done: the two pages trade places.
LEMMA TurnPages ==
  ASSUME NEW d \in Draw, NEW w, NEW wn, Steady(w, wn, d), NEW v, NEW vn,
         Steady(v, vn, d), NEW k \in Cmd, FlipDone(w, v, k), OnlySwap(w, d, k)
  PROVE  /\ Busy(w) /\ ~Busy(v) /\ v.hw = w.hw
         /\ v.mem.pbo[Root] = Drawn(w, d) /\ Drawn(v, d) = w.mem.pbo[Root]
<1> DEFINE s == w.cmd[k].src
           t == w.cmd[k].dst
<1>1. /\ Flying(w, k) /\ Turned(w, v, s, t) /\ SameBuffers(w, v)
      /\ ~v.cmd[k].live /\ \A j \in Cmd \ {k} : v.cmd[j] = w.cmd[j]
  BY Zenon DEF FlipDone
<1>2. /\ w \in World /\ MemInv(w, wn, Draw, Cmd) /\ wn[d] # NoPix
      /\ FlipsOf(w, d) /\ FlipsShow(w)
      /\ v \in World /\ MemInv(v, vn, Draw, Cmd) /\ Paired(v)
  BY DEF Steady
<1>3. w.cmd[k].draw = d /\ w.cmd[k].live
  BY <1>1, <1>2, Zenon DEF FlipsOf, Flying
<1>4. w.priv[d].back = s
  BY <1>3, Zenon DEF FlipDone
<1>5. s \in Buf
  BY <1>2, <1>3, Zenon DEF MemInv, SwapInv, CmdHolds, Whole
<1> HIDE DEF s, t
<1>6. s # NoBuf /\ v.priv[d].back = s
  BY <1>1, <1>4, <1>5, SwapAssumption DEF SameBuffers
<1>7. v.buf[s].ref > 0
  BY <1>2, <1>6, HeldBuffers
<1>8. v.mem.pbo[Root] = Showing(w, s) /\ Showing(v, s) = w.mem.pbo[Root]
  BY <1>1, <1>5, <1>7, Zenon DEF Turned
<1>9. Drawn(w, d) = Showing(w, s) /\ Drawn(v, d) = Showing(v, s)
  BY <1>4, <1>6 DEF Drawn
<1>10. ASSUME NEW j \in Cmd, Flying(v, j) PROVE FALSE
  <2>1. j # k /\ v.cmd[j] = w.cmd[j]
    BY <1>1, <1>10 DEF Flying
  <2>2. Flying(w, j)
    BY <1>10, <2>1 DEF Flying
  <2>3. w.cmd[j].live /\ ~w.cmd[j].fail /\ w.cmd[j].draw = d
    BY <1>2, <2>2, Zenon DEF FlipsOf, FlipsShow, Flying
  <2> QED BY <2>1, <2>3 DEF OnlySwap
<1>11. Busy(w) /\ ~Busy(v)
  BY <1>1, <1>10 DEF Busy
<1>12. Shows(w, Drawn(w, d)) /\ Shows(v, Drawn(w, d))
  BY <1>8, <1>9, <1>11 DEF Steady
<1>13. v.hw = w.hw
  BY <1>2, <1>12, SameHw
<1> QED BY <1>8, <1>9, <1>11, <1>13

\* A flip starts: all CRTCs take the page.
LEMMA FlipPages ==
  ASSUME NEW d \in Draw, NEW w, NEW wn, Steady(w, wn, d), NEW v, NEW vn,
         Steady(v, vn, d), NEW k \in Cmd, Begun(w, v, d, k, Crtc), ~Busy(w)
  PROVE  /\ Busy(v) /\ v.mem.pbo[Root] = w.mem.pbo[Root]
         /\ Drawn(w, d) # NoBo /\ Drawn(v, d) = Drawn(w, d)
         /\ v.hw = [c \in Crtc |-> Drawn(w, d)]
<1>1. /\ w.priv[d].back # NoBuf /\ Flying(v, k)
      /\ v.cmd[k].oldSrc = Showing(w, w.priv[d].back)
      /\ v.mem.pbo[Root] = w.mem.pbo[Root]
  BY Zenon DEF Begun, KeepsNames
<1>2. /\ w \in World /\ MemInv(w, wn, Draw, Cmd) /\ Paired(w) /\ WinsTyped(wn)
      /\ HeldApart(w.priv)
      /\ v \in World /\ MemInv(v, vn, Draw, Cmd) /\ vn[d] # NoPix
      /\ FlipsOf(v, d) /\ FlipsShow(v)
  BY DEF Steady
<1>3. Drawn(w, d) = Showing(w, w.priv[d].back)
  BY <1>1 DEF Drawn
<1>4. Drawn(v, d) = v.cmd[k].oldSrc
  BY <1>1, <1>2, FlyingDrawn
<1>5. Showing(w, w.priv[d].back) \in Bo
  BY <1>1, <1>2, BacksApart
<1>6. Busy(v)
  BY <1>1 DEF Busy
<1>7. Shows(v, Drawn(v, d))
  BY <1>6 DEF Steady
<1>8. v.hw = [c \in Crtc |-> Drawn(v, d)]
  BY <1>2, <1>7, WorldFields DEF Shows
<1> QED BY <1>1, <1>3, <1>4, <1>5, <1>6, <1>8, MemAssumption

LEMMA SteadyIf ==
  ASSUME NEW w \in World, NEW wn, MemInv(w, wn, Draw, Cmd), Paired(w), WinsTyped(wn),
         HeldApart(w.priv), NEW d \in Draw, wn[d] # NoPix, FlipsOf(w, d), FlipsShow(w),
         (\A k \in Cmd : ~Flying(w, k)) => \A c \in Crtc : w.hw[c] = w.mem.pbo[Root],
         \A k \in Cmd : Flying(w, k) => \A c \in Crtc : w.hw[c] = w.cmd[k].oldSrc
  PROVE  Steady(w, wn, d)
<1>1. ~Busy(w) => Shows(w, w.mem.pbo[Root])
  BY DEF Busy, Shows
<1>2. ASSUME NEW k \in Cmd, Flying(w, k)
      PROVE  Shows(w, Drawn(w, d)) /\ Drawn(w, d) \in Bo
  <2>1. Drawn(w, d) = w.cmd[k].oldSrc
    BY <1>2, FlyingDrawn
  <2>2. w.cmd[k].oldSrc \in Bo
    BY <1>2, Zenon DEF MemInv, SwapInv, CmdHolds, Flying
  <2> QED BY <1>2, <2>1, <2>2 DEF Shows
<1>3. Busy(w) => Shows(w, Drawn(w, d)) /\ Drawn(w, d) \in Bo
  BY <1>2 DEF Busy
<1> QED BY <1>1, <1>3 DEF Steady

LEMMA SteadyNow ==
  ASSUME TypeInv, MemSafe, NEW d \in Draw, NameInv(d), BackInv, ShowInv
  PROVE  Steady(W, win, d)
<1>1. phase # "closed" /\ win[d] # NoPix
  BY SwapAssumption, MemAssumption DEF ShowInv
<1>2. FlipsOf(W, d) /\ FlipsShow(W)
  BY <1>1 DEF NameInv, BackInv
<1>3. /\ W \in World /\ MemInv(W, win, Draw, Cmd) /\ Paired(W) /\ WinsTyped(win)
      /\ HeldApart(W.priv)
  BY <1>1, Before, Given
<1>4. /\ (\A k \in Cmd : ~Flying(W, k)) => \A c \in Crtc : W.hw[c] = W.mem.pbo[Root]
      /\ \A k \in Cmd : Flying(W, k) => \A c \in Crtc : W.hw[c] = W.cmd[k].oldSrc
  BY DEF ShowInv
<1> DEFINE w == W
<1>5. /\ w \in World /\ MemInv(w, win, Draw, Cmd) /\ Paired(w) /\ WinsTyped(win)
      /\ HeldApart(w.priv) /\ FlipsOf(w, d) /\ FlipsShow(w)
      /\ (\A k \in Cmd : ~Flying(w, k)) => \A c \in Crtc : w.hw[c] = w.mem.pbo[Root]
      /\ \A k \in Cmd : Flying(w, k) => \A c \in Crtc : w.hw[c] = w.cmd[k].oldSrc
  BY <1>2, <1>3, <1>4
<1> HIDE DEF w
<1>6. Steady(w, win, d)
  BY ONLY d \in Draw, <1>1, <1>5, SteadyIf
<1> QED BY <1>6 DEF w

LEMMA SteadyNext ==
  ASSUME TypeInv', MemSafe', NEW d \in Draw, NameInv(d)', BackInv', ShowInv'
  PROVE  Steady(W', win', d)
<1>1. phase' # "closed" /\ win'[d] # NoPix
  BY SwapAssumption, MemAssumption DEF ShowInv
<1>2. FlipsOf(W', d) /\ FlipsShow(W')
  BY <1>1 DEF NameInv, BackInv
<1>3. /\ W' \in World /\ MemInv(W', win', Draw, Cmd) /\ Paired(W') /\ WinsTyped(win')
  BY <1>1, After
<1>4. HeldApart(W'.priv)
  <2>1. HeldApart(priv') /\ W'.priv = priv'
    BY <1>1, NextWorld DEF MemSafe
  <2> QED BY <2>1
<1>5. /\ (\A k \in Cmd : ~Flying(W, k)') => \A c \in Crtc : W'.hw[c] = W'.mem.pbo[Root]
      /\ \A k \in Cmd : Flying(W, k)' => \A c \in Crtc : W'.hw[c] = W'.cmd[k].oldSrc
  BY DEF ShowInv
<1> DEFINE u == W'
<1>6. \A k \in Cmd : Flying(W, k)' <=> Flying(u, k)
  BY DEF Flying
<1>7. /\ u \in World /\ MemInv(u, win', Draw, Cmd) /\ Paired(u) /\ WinsTyped(win')
      /\ HeldApart(u.priv) /\ FlipsOf(u, d) /\ FlipsShow(u)
      /\ (\A k \in Cmd : ~Flying(u, k)) => \A c \in Crtc : u.hw[c] = u.mem.pbo[Root]
      /\ \A k \in Cmd : Flying(u, k) => \A c \in Crtc : u.hw[c] = u.cmd[k].oldSrc
  BY <1>2, <1>3, <1>4, <1>5, <1>6
<1> HIDE DEF u
<1>8. Steady(u, win', d)
  BY ONLY d \in Draw, <1>1, <1>7, SteadyIf
<1> QED BY <1>8 DEF u

\* Every step is one of the double buffer, or leaves it as it is.
LEMMA PagesStep ==
  ASSUME NumBufs = 2, "name" \notin Env, "redirect" \notin Env, "resize" \notin Env,
         "flipfail" \notin Env, "crtc" \notin Env,
         TypeInv, EventsBelong, NoneLost, UsersInv, MemSafe, BoLeft, TypeInv', MemSafe',
         OneFlips(Flipper), NameInv(Flipper), NameInv(Flipper)',
         BackInv, BackInv', ShowInv, ShowInv', [Next]_vars
  PROVE  [Pages!Next]_(Pages!vars)
<1> DEFINE d == Flipper
           w == W
           u == W'
<1>1. d \in Draw /\ phase # "closed" /\ phase' # "closed" /\ win[d] # NoPix
  BY FlipperAssumption, SwapAssumption, MemAssumption DEF ShowInv
<1>2. Steady(w, win, d) /\ Steady(u, win', d)
  BY <1>1, SteadyNow, SteadyNext
<1>3. Draft(d) = Drawn(w, d) /\ Draft(d)' = Drawn(u, d)
  BY <1>1, DraftNow, DraftNext
<1>4. /\ hw = w.hw /\ hw' = u.hw
      /\ mem.pbo[Root] = w.mem.pbo[Root] /\ mem'.pbo[Root] = u.mem.pbo[Root]
  BY DEF W
<1>5. /\ (\E k \in Cmd : Flying(W, k)) <=> Busy(w)
      /\ (\E k \in Cmd : Flying(W, k)') <=> Busy(u)
  BY DEF Busy, Flying
<1>6. Quietly \/ Starting \/ Finishes
  BY <1>1, StepShows DEF Switching, NameInv
<1>7. CASE Quietly
  <2>1. Calm(w, u)
    BY <1>7 DEF Quietly
  <2> HIDE DEF d, w, u
  <2>2. /\ u.hw = w.hw /\ u.mem.pbo[Root] = w.mem.pbo[Root]
        /\ Busy(u) <=> Busy(w)
        /\ Busy(w) => Drawn(u, d) = Drawn(w, d)
        /\ Drawn(u, d) \in {NoBo} \cup (Bo \ {w.mem.pbo[Root]})
    BY ONLY <1>1, <1>2, <2>1, QuietPages
  <2>3. /\ hw' = hw /\ mem'.pbo[Root] = mem.pbo[Root]
        /\ (\E k \in Cmd : Flying(W, k)') <=> (\E k \in Cmd : Flying(W, k))
    BY <1>4, <1>5, <2>2
  <2>4. CASE Busy(w)
    <3>1. Draft(Flipper)' = Draft(Flipper)
      BY <1>3, <2>2, <2>4 DEF d
    <3> QED BY <2>3, <3>1 DEF Pages!vars
  <2>5. CASE ~Busy(w)
    <3>1. Draft(Flipper)' \in {NoBo} \cup (Bo \ {mem.pbo[Root]})
      BY <1>3, <1>4, <2>2 DEF d
    <3> QED BY <1>5, <2>3, <2>5, <3>1 DEF Pages!Next, Pages!Get
  <2> QED BY <2>4, <2>5
<1>8. CASE Finishes
  <2>1. PICK k \in Cmd : FlipDone(w, u, k)
    BY <1>8 DEF Finishes
  <2>2. OnlySwap(w, d, k)
    <3>1. w.cmd[k].live /\ ~w.cmd[k].fail /\ w.cmd[k].draw = d
      BY <1>2, <2>1, Zenon DEF Steady, FlipDone, FlipsOf, FlipsShow, Flying
    <3>2. w.cmd = cmd
      BY DEF W
    <3> QED BY <3>1, <3>2, OnlyOne
  <2> HIDE DEF d, w, u
  <2>3. /\ Busy(w) /\ ~Busy(u) /\ u.hw = w.hw
        /\ u.mem.pbo[Root] = Drawn(w, d) /\ Drawn(u, d) = w.mem.pbo[Root]
    BY ONLY <1>1, <1>2, k \in Cmd, <2>1, <2>2, TurnPages
  <2>4. /\ hw' = hw /\ mem'.pbo[Root] = Draft(Flipper)
        /\ Draft(Flipper)' = mem.pbo[Root]
    BY <1>3, <1>4, <2>3 DEF d
  <2>5. (\E j \in Cmd : Flying(W, j)) /\ ~(\E j \in Cmd : Flying(W, j)')
    BY <1>5, <2>3
  <2> QED BY <2>4, <2>5 DEF Pages!Next, Pages!Turn
<1>9. CASE Starting
  <2>1. PICK e \in Draw, k \in Cmd, S \in SUBSET crtcOn :
          Unthrottled(e) /\ CanFlip(e) /\ S # {} /\ FlipTried(e, k, S)
    BY <1>9 DEF Starting
  <2>2. e = d
    BY <2>1 DEF OneFlips
  <2>3. S = Crtc /\ \A j \in Cmd : ~Flying(w, j)
    BY <1>1, <2>1, <2>2, AllFree
  <2>4. Begun(w, u, d, k, Crtc)
    BY <2>1, <2>2, <2>3 DEF FlipTried
  <2> HIDE DEF d, w, u
  <2>5. ~Busy(w)
    BY <2>3 DEF Busy
  <2>6. /\ Busy(u) /\ u.mem.pbo[Root] = w.mem.pbo[Root]
        /\ Drawn(w, d) # NoBo /\ Drawn(u, d) = Drawn(w, d)
        /\ u.hw = [c \in Crtc |-> Drawn(w, d)]
    BY ONLY <1>1, <1>2, k \in Cmd, <2>4, <2>5, FlipPages
  <2>7. /\ hw' = [c \in Crtc |-> Draft(Flipper)] /\ mem'.pbo[Root] = mem.pbo[Root]
        /\ Draft(Flipper) # NoBo /\ Draft(Flipper)' = Draft(Flipper)
    BY <1>3, <1>4, <2>6 DEF d
  <2>8. ~(\E j \in Cmd : Flying(W, j)) /\ (\E j \in Cmd : Flying(W, j)')
    BY <1>5, <2>5, <2>6
  <2> QED BY <2>7, <2>8 DEF Pages!Next, Pages!Flip
<1> QED BY <1>6, <1>7, <1>8, <1>9

\* At first every CRTC shows the screen and the client has no page.
LEMMA InitPages ==
  ASSUME Init
  PROVE  Pages!Init
<1>1. /\ cmd = [k \in Cmd |-> NoCmdRec] /\ priv = [e \in Draw |-> NoPriv]
      /\ hw = [c \in Crtc |-> scanout]
  BY DEF Init
<1>2. mem.pbo[Root] = scanout /\ scanout \in Bo
  <2>1. MemInv(W, win, Draw, Cmd) /\ W \in World /\ W.scanout = scanout /\ W.mem = mem
    <3>1. phase = "up"
      BY DEF Init
    <3>2. MemSafe /\ TypeInv
      BY InitMem, InitIInv DEF IInv
    <3> QED BY <3>1, <3>2, Given
  <2> QED BY <2>1, WorldFields DEF MemInv, ScreenSound
<1>3. ~(\E k \in Cmd : Flying(W, k))
  BY <1>1 DEF Flying, NoCmdRec, W
<1>4. Draft(Flipper) = NoBo
  BY <1>1, FlipperAssumption DEF Draft, NoPriv
<1> QED BY <1>1, <1>2, <1>3, <1>4 DEF Pages!Init

-----------------------------------------------------------------------------
(* The properties *)

\* The name that a client was given for its back buffer is that of the bo that
\* its next swap shows: ExchangeBufs swaps the names of the two buffers with
\* the bos of their pixmaps. So it is for double buffering, when bos have names
\* (drmModeFLINK does not fail), while the windows are on a screen that keeps
\* its size, and no window but one is ever flipped. CRTCs may go off and flips
\* may fail.
THEOREM NamesCorrect ==
  ASSUME NumBufs = 2, "name" \notin Env, "redirect" \notin Env, "resize" \notin Env,
         NEW d \in Draw
  PROVE  Spec /\ []BoLeft /\ []OneFlips(d) => []NameMatchesPixmap
<1> DEFINE One == OneFlips(d)
           NI == NameInv(d)
<1>1. IInv /\ MemSafe /\ NI => NameMatchesPixmap
  BY NamesRight DEF IInv
<1>2. Spec /\ []BoLeft => []MemSafe
  BY MemorySafety
<1>3. Spec /\ []BoLeft /\ []One => []NI
  BY NamesInvariance
<1>4. Spec /\ []BoLeft /\ []One => []NameMatchesPixmap
  <2> HIDE DEF One, NI
  <2> QED BY <1>1, <1>2, <1>3, Invariance, PTL
<1> QED BY <1>4

\* A client whose swaps are done draws to a bo that no CRTC scans out and that
\* is not the screen's: SwapComplete runs once the last CRTC has flipped, and
\* GetBuffers hands out no bo that is still scanned out. So it is when, besides,
\* every CRTC stays on and takes each flip.
THEOREM BackCorrect ==
  ASSUME NumBufs = 2, "name" \notin Env, "redirect" \notin Env, "resize" \notin Env,
         "flipfail" \notin Env, "crtc" \notin Env, NEW d \in Draw
  PROVE  Spec /\ []BoLeft /\ []OneFlips(d) => []BackIsPrivate
<1> DEFINE UI == IInv /\ UsersInv
           One == OneFlips(d)
           NI == NameInv(d)
<1>1. UI /\ MemSafe /\ NI /\ BackInv => BackIsPrivate
  BY BackPrivate DEF IInv
<1>2. Spec => []UI
  BY UsersInvariance
<1>3. Spec /\ []BoLeft => []MemSafe
  BY MemorySafety
<1>4. Spec /\ []BoLeft /\ []One => []NI
  BY NamesInvariance
<1>5. Spec /\ []BoLeft /\ []One => []BackInv
  BY BackInvariance
<1>6. Spec /\ []BoLeft /\ []One => []BackIsPrivate
  <2> HIDE DEF UI, One, NI
  <2> QED BY <1>1, <1>2, <1>3, <1>4, <1>5, PTL
<1> QED BY <1>6

\* When no swap is in flight every CRTC shows pARMSOC->scanout, which has an
\* fb: ARMSOCDRI2SwapComplete makes the bo that the flip put on the CRTCs the
\* scanout, and no other path of a swap changes either. So it is when, besides,
\* no window is destroyed while it has a flip in flight.
THEOREM ScanoutCorrect ==
  ASSUME NumBufs = 2, "name" \notin Env, "redirect" \notin Env, "resize" \notin Env,
         "flipfail" \notin Env, "crtc" \notin Env, "destroy" \notin Env, NEW d \in Draw
  PROVE  Spec /\ []BoLeft /\ []OneFlips(d) => []ScanoutIsShown
<1> DEFINE One == OneFlips(d)
<1>1. IInv /\ MemSafe /\ BackInv /\ ShowInv => ScanoutIsShown
  BY ScanoutShown DEF IInv
<1>2. Spec /\ []BoLeft => []MemSafe
  BY MemorySafety
<1>3. Spec /\ []BoLeft /\ []One => []BackInv
  BY BackInvariance
<1>4. Spec /\ []BoLeft /\ []One => []ShowInv
  BY ShowInvariance
<1>5. Spec /\ []BoLeft /\ []One => []ScanoutIsShown
  <2> HIDE DEF One
  <2> QED BY <1>1, <1>2, <1>3, <1>4, Invariance, PTL
<1> QED BY <1>5

\* All this for constants alone: the NoFlip option, or a screen with one window
\* to flip; CRTCs that stay on and flips that they take; and more bos than
\* there can be holders and CRTCs to show them.
THEOREM ShownWithPlenty ==
  ASSUME NumBufs = 2, PlentyOfBos, NEW d \in Draw, NoFlip \/ Draw = {d},
         Env \cap {"name", "redirect", "resize", "flipfail", "crtc", "destroy"} = {}
  PROVE  Spec => [](NameMatchesPixmap /\ BackIsPrivate /\ ScanoutIsShown)
<1> DEFINE One == OneFlips(d)
<1>1. /\ "name" \notin Env /\ "redirect" \notin Env /\ "resize" \notin Env
      /\ "flipfail" \notin Env /\ "crtc" \notin Env /\ "destroy" \notin Env
  OBVIOUS
<1>2. Spec => []BoLeft
  BY <1>1, MemorySafetyOfPlenty, PTL
<1>3. One
  BY DEF OneFlips, CanFlip
<1>4. /\ Spec /\ []BoLeft /\ []One => []NameMatchesPixmap
      /\ Spec /\ []BoLeft /\ []One => []BackIsPrivate
      /\ Spec /\ []BoLeft /\ []One => []ScanoutIsShown
  BY <1>1, NamesCorrect, BackCorrect, ScanoutCorrect
<1> HIDE DEF One
<1> QED BY <1>2, <1>3, <1>4, PTL

\* Page flipping is double buffering, step by step: a client of a fullscreen
\* window draws to a bo that is on no CRTC and not the screen's, until
\* ARMSOCDRI2ScheduleSwap puts that bo on all CRTCs at once; it and the
\* screen's bo trade places when page_flip_handler has heard from the last
\* CRTC, and no other step of any client or of the server changes what the
\* CRTCs show or the screen's bo. That every flip ends is left to the run.
THEOREM DoubleBuffering ==
  ASSUME NumBufs = 2,
         Env \cap {"name", "redirect", "resize", "flipfail", "crtc", "destroy"} = {}
  PROVE  OneSpec /\ []BoLeft => Pages!Safe
<1> SUFFICES ASSUME NEW d \in Draw, d = Flipper
             PROVE  OneSpec /\ []BoLeft => Pages!Safe
  BY FlipperAssumption
<1> DEFINE UI == IInv /\ UsersInv
           One == OneFlips(d)
           NI == NameInv(d)
<1>1. /\ "name" \notin Env /\ "redirect" \notin Env /\ "resize" \notin Env
      /\ "flipfail" \notin Env /\ "crtc" \notin Env /\ "destroy" \notin Env
      /\ Flipper \in Draw
  BY FlipperAssumption
<1>2. Init => One
  BY SwapAssumption DEF Init, OneFlips, CanFlip
<1>3. OneSpec => Spec /\ []One
  <2>1. [OneNext]_vars => [Next]_vars
    BY DEF OneNext
  <2>2. One /\ [OneNext]_vars => One'
    BY DEF OneNext, vars, OneFlips, CanFlip
  <2> HIDE DEF One
  <2> QED BY <1>2, <2>1, <2>2, PTL DEF OneSpec, Spec
<1>4. Spec => []UI
  BY UsersInvariance
<1>5. Spec /\ []BoLeft => []MemSafe
  BY <1>1, MemorySafety
<1>6. Spec /\ []BoLeft /\ []One => []NI
  BY <1>1, NamesInvariance
<1>7. Spec /\ []BoLeft /\ []One => []BackInv
  BY <1>1, BackInvariance
<1>8. Spec /\ []BoLeft /\ []One => []ShowInv
  BY <1>1, ShowInvariance
<1>9. Init => Pages!Init
  BY InitPages
<1>10. UI /\ UI' /\ BoLeft /\ MemSafe /\ MemSafe' /\ One /\ NI /\ NI' /\ BackInv
         /\ BackInv' /\ ShowInv /\ ShowInv' /\ [Next]_vars => [Pages!Next]_(Pages!vars)
  BY <1>1, PagesStep DEF IInv
<1>11. OneSpec /\ []BoLeft => Pages!Safe
  <2> HIDE DEF UI, One, NI
  <2> QED BY <1>3, <1>4, <1>5, <1>6, <1>7, <1>8, <1>9, <1>10, PTL
          DEF Spec, Pages!Safe
<1> QED BY <1>11
=============================================================================
