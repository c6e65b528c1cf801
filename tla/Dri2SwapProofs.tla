--------------------------- MODULE Dri2SwapProofs ---------------------------
(***************************************************************************)
(* Theorems about Dri2Swap, for every number of windows, buffers,          *)
(* commands, CRTCs and pixmaps and whatever the environment does.          *)
(*                                                                         *)
(* First come lemmas about BoPixmap: every operation on buffer objects and *)
(* pixmaps maps memories to memories, also a memory whose counts are       *)
(* wrong. Each proof names the functions that the operation updates, types *)
(* them, and hides them, so that the last leaf is about the record alone.  *)
(*                                                                         *)
(* The handlers are functions from worlds to worlds, so most lemmas say    *)
(* that an operator maps a world to a world and what it does to commands   *)
(* and pending_flips. From these follows one lemma per action, and with    *)
(* them StepKinds: as far as commands and events go there are six kinds    *)
(* of steps. The inductive invariant IInv is about commands and events.    *)
(***************************************************************************)
EXTENDS Dri2Swap, FiniteSetTheorems, TLAPS

-----------------------------------------------------------------------------
(* Buffer objects and pixmaps *)

\* An update of a function is a function into the same set. The value matters
\* only if the argument is in the domain.
LEMMA Update ==
  ASSUME NEW S, NEW T, NEW g \in [S -> T], NEW b, NEW x, b \in S => x \in T
  PROVE  [g EXCEPT ![b] = x] \in [S -> T]
OBVIOUS

\* The types of the components of a memory.
LEMMA MemFields ==
  ASSUME NEW m \in Mem
  PROVE  /\ m.ref  \in [Bo -> Int]
         /\ m.fb   \in [Bo -> BOOLEAN]
         /\ m.size \in [Bo -> Size]
         /\ m.cap  \in [Bo -> Size]
         /\ m.pref \in [Pix -> Int]
         /\ m.pbo  \in [Pix -> Bo \cup {NoBo}]
         /\ m.ext  \in [Pix -> Int]
         /\ m.pdim \in [Pix -> Size]
         /\ m.ok   \in BOOLEAN
BY DEF Mem

\* armsoc_bo_new_with_dim yields a memory.
LEMMA NewBoType ==
  ASSUME NEW m \in Mem, NEW b, NEW s \in Size
  PROVE  NewBo(m, b, s) \in Mem
<1> DEFINE r == [m.ref EXCEPT ![b] = 1]
           f == [m.fb EXCEPT ![b] = FALSE]
           z == [m.size EXCEPT ![b] = s]
           c == [m.cap EXCEPT ![b] = s]
<1>1. /\ r \in [Bo -> Int] /\ f \in [Bo -> BOOLEAN]
      /\ z \in [Bo -> Size] /\ c \in [Bo -> Size]
  BY MemFields, Update
<1>2. NewBo(m, b, s) = [m EXCEPT !.ref = r, !.fb = f, !.size = z, !.cap = c]
  BY DEF NewBo
<1> HIDE DEF r, f, z, c
<1> QED BY <1>1, <1>2 DEF Mem

\* armsoc_bo_reference yields a memory.
LEMMA BoRefType ==
  ASSUME NEW m \in Mem, NEW b
  PROVE  BoRef(m, b) \in Mem
<1> DEFINE r == [m.ref EXCEPT ![b] = @ + 1]
<1>1. b \in Bo => m.ref[b] + 1 \in Int
  BY MemFields
<1>2. r \in [Bo -> Int]
  BY <1>1, MemFields, Update
<1>3. BoRef(m, b) = [m EXCEPT !.ref = r, !.ok = @ /\ m.ref[b] > 0]
  BY DEF BoRef
<1> HIDE DEF r
<1> QED BY <1>2, <1>3 DEF Mem

\* armsoc_bo_unreference yields a memory.
LEMMA BoUnrefType ==
  ASSUME NEW m \in Mem, NEW b
  PROVE  BoUnref(m, b) \in Mem
<1> DEFINE r == [m.ref EXCEPT ![b] = @ - 1]
           f == [m.fb EXCEPT ![b] = @ /\ m.ref[b] > 1]
<1>1. b \in Bo => m.ref[b] - 1 \in Int
  BY MemFields
<1>2. r \in [Bo -> Int] /\ f \in [Bo -> BOOLEAN]
  BY <1>1, MemFields, Update
<1>3. SUFFICES [m EXCEPT !.ref = r, !.fb = f, !.ok = @ /\ m.ref[b] > 0] \in Mem
  BY DEF BoUnref
<1> HIDE DEF r, f
<1> QED BY <1>2 DEF Mem

\* armsoc_bo_add_fb yields a memory.
LEMMA AddFbType ==
  ASSUME NEW m \in Mem, NEW b
  PROVE  AddFb(m, b) \in Mem
<1> DEFINE f == [m.fb EXCEPT ![b] = TRUE]
<1>1. f \in [Bo -> BOOLEAN]
  BY MemFields, Update
<1>2. AddFb(m, b) = [m EXCEPT !.fb = f, !.ok = @ /\ m.ref[b] > 0 /\ ~m.fb[b]]
  BY DEF AddFb
<1> HIDE DEF f
<1> QED BY <1>1, <1>2 DEF Mem

\* armsoc_bo_rm_fb yields a memory.
LEMMA RmFbType ==
  ASSUME NEW m \in Mem, NEW b
  PROVE  RmFb(m, b) \in Mem
<1> DEFINE f == [m.fb EXCEPT ![b] = FALSE]
<1>1. f \in [Bo -> BOOLEAN]
  BY MemFields, Update
<1>2. RmFb(m, b) = [m EXCEPT !.fb = f, !.ok = @ /\ m.ref[b] > 0 /\ m.fb[b]]
  BY DEF RmFb
<1> HIDE DEF f
<1> QED BY <1>1, <1>2 DEF Mem

\* armsoc_bo_resize yields a memory.
LEMMA ResizeBoType ==
  ASSUME NEW m \in Mem, NEW b, NEW s \in Size
  PROVE  ResizeBo(m, b, s) \in Mem
<1> DEFINE z == [m.size EXCEPT ![b] = s]
<1>1. z \in [Bo -> Size]
  BY MemFields, Update
<1>2. ResizeBo(m, b, s) =
        [m EXCEPT !.size = z, !.ok = @ /\ m.ref[b] > 0 /\ ~m.fb[b]]
  BY DEF ResizeBo
<1> HIDE DEF z
<1> QED BY <1>1, <1>2 DEF Mem

\* ARMSOCCreatePixmap2 yields a memory.
LEMMA NewPixmapType ==
  ASSUME NEW m \in Mem, NEW p, NEW b \in Bo, NEW s \in Size
  PROVE  NewPixmap(m, p, b, s) \in Mem
<1> DEFINE n == NewBo(m, b, s)
           r == [n.pref EXCEPT ![p] = 1]
           o == [n.pbo EXCEPT ![p] = b]
           e == [n.ext EXCEPT ![p] = 0]
           z == [n.pdim EXCEPT ![p] = s]
<1>1. n \in Mem
  BY NewBoType
<1>2. NewPixmap(m, p, b, s) =
        [n EXCEPT !.pref = r, !.pbo = o, !.ext = e, !.pdim = z]
  BY DEF NewPixmap
<1> HIDE DEF n
<1>3. /\ r \in [Pix -> Int] /\ o \in [Pix -> Bo \cup {NoBo}]
      /\ e \in [Pix -> Int] /\ z \in [Pix -> Size]
  BY <1>1, MemFields, Update
<1> HIDE DEF r, o, e, z
<1> QED BY <1>1, <1>2, <1>3 DEF Mem

\* ARMSOCPixmapBo yields a bo or NULL.
LEMMA PixmapBoType ==
  ASSUME NEW m \in Mem, NEW p
  PROVE  PixmapBo(m, p) \in Bo \cup {NoBo}
BY MemFields DEF PixmapBo

\* ARMSOCRegisterExternalAccess yields a memory.
LEMMA RegisterType ==
  ASSUME NEW m \in Mem, NEW p
  PROVE  Register(m, p) \in Mem
<1> DEFINE e == [m.ext EXCEPT ![p] = @ + 1]
<1>1. p \in Pix => m.ext[p] + 1 \in Int
  BY MemFields
<1>2. e \in [Pix -> Int]
  BY <1>1, MemFields, Update
<1>3. Register(m, p) = [m EXCEPT !.ext = e]
  BY DEF Register
<1> HIDE DEF e
<1> QED BY <1>2, <1>3 DEF Mem

\* ARMSOCDeregisterExternalAccess yields a memory.
LEMMA DeregisterType ==
  ASSUME NEW m \in Mem, NEW P
  PROVE  Deregister(m, P) \in Mem
<1> DEFINE e == [p \in Pix |-> IF p \in P THEN m.ext[p] - 1 ELSE m.ext[p]]
<1>1. e \in [Pix -> Int]
  BY MemFields
<1>2. Deregister(m, P) = [m EXCEPT !.ext = e, !.ok = @ /\ \A p \in P : m.ext[p] > 0]
  BY DEF Deregister
<1> HIDE DEF e
<1> QED BY <1>1, <1>2 DEF Mem

\* DestroyPixmap yields a memory.
LEMMA DropPixmapsType ==
  ASSUME NEW m \in Mem, NEW P \in SUBSET Pix
  PROVE  DropPixmaps(m, P) \in Mem
<1> DEFINE dead == {p \in P : m.pref[p] = 1}
           lost(b) == Cardinality({p \in dead : m.pbo[p] = b})
           ref == [b \in Bo |-> m.ref[b] - lost(b)]
           pr == [p \in Pix |-> IF p \in P THEN m.pref[p] - 1 ELSE m.pref[p]]
           pb == [p \in Pix |-> IF p \in dead THEN NoBo ELSE m.pbo[p]]
           fb == [b \in Bo |-> m.fb[b] /\ (lost(b) = 0 \/ ref[b] > 0)]
           ok == /\ \A p \in P : m.pref[p] > 0
                 /\ \A p \in dead : m.ext[p] = 0
                 /\ \A b \in Bo : ref[b] >= 0 \/ lost(b) = 0
<1>1. \A b \in Bo : lost(b) \in Nat
  <2> SUFFICES ASSUME NEW b \in Bo PROVE lost(b) \in Nat
    OBVIOUS
  <2>1. {p \in dead : m.pbo[p] = b} \subseteq Pix
    OBVIOUS
  <2> QED BY <2>1, MemAssumption, FS_Subset, FS_CardinalityType
<1>2. ref \in [Bo -> Int]
  <2> HIDE DEF lost
  <2> QED BY <1>1, MemFields
<1>3. pr \in [Pix -> Int] /\ pb \in [Pix -> Bo \cup {NoBo}]
  BY MemFields
<1>4. fb \in [Bo -> BOOLEAN]
  OBVIOUS
<1>5. DropPixmaps(m, P) = [m EXCEPT !.pref = pr, !.pbo = pb, !.ref = ref,
                                    !.fb = fb, !.ok = @ /\ ok]
  BY DEF DropPixmaps
<1> HIDE DEF dead, lost, ref, pr, pb, fb, ok
<1> QED BY <1>2, <1>3, <1>4, <1>5 DEF Mem

\* ARMSOCPixmapExchange yields a memory.
LEMMA PixmapExchangeType ==
  ASSUME NEW m \in Mem, NEW a, NEW b
  PROVE  PixmapExchange(m, a, b) \in Mem
<1> DEFINE pb == [m.pbo EXCEPT ![a] = m.pbo[b], ![b] = m.pbo[a]]
<1>1. CASE {a, b} \subseteq Pix
  <2>1. pb \in [Pix -> Bo \cup {NoBo}]
    BY <1>1, MemFields
  <2>2. PixmapExchange(m, a, b) = [m EXCEPT !.pbo = pb]
    BY <1>1 DEF PixmapExchange
  <2> HIDE DEF pb
  <2> QED BY <2>1, <2>2 DEF Mem
<1>2. CASE ~({a, b} \subseteq Pix)
  BY <1>2 DEF PixmapExchange, Mem
<1> QED BY <1>1, <1>2

\* ARMSOCModifyPixmapHeader yields a memory.
LEMMA WrapScanoutType ==
  ASSUME NEW m \in Mem, NEW p, NEW b \in Bo
  PROVE  WrapScanout(m, p, b) \in Mem
<1> DEFINE r  == BoRef(m, b)
           pb == [r.pbo EXCEPT ![p] = b]
           m1 == [r EXCEPT !.pbo = pb]
           m2 == IF m.pbo[p] = b THEN m ELSE BoUnref(m1, m.pbo[p])
           z  == [m2.pdim EXCEPT ![p] = m2.size[b]]
<1>1. r \in Mem
  BY BoRefType
<1>2. pb \in [Pix -> Bo \cup {NoBo}]
  <2> HIDE DEF r
  <2> QED BY <1>1, MemFields, Update
<1>3. m1 \in Mem
  <2> HIDE DEF r, pb
  <2> QED BY <1>1, <1>2 DEF Mem
<1>4. m2 \in Mem
  BY <1>3, BoUnrefType
<1>5. WrapScanout(m, p, b) = [m2 EXCEPT !.pdim = z]
  BY DEF WrapScanout
<1> HIDE DEF m2
<1>6. z \in [Pix -> Size]
  <2>1. m2.pdim \in [Pix -> Size] /\ m2.size[b] \in Size
    BY <1>4, MemFields
  <2> QED BY <2>1, Update
<1> HIDE DEF z
<1> QED BY <1>4, <1>5, <1>6 DEF Mem

-----------------------------------------------------------------------------
(* Worlds *)

\* What a handler starts from and ends with, while the screen exists.

World == [mem : Mem, buf : [Buf -> BufRec], cmd : [Cmd -> CmdRec],
          scanout : Bo, pending : Int, priv : [Draw -> PrivRec],
          hw : [Crtc -> Bo \cup {NoBo}]]

\* What the operations on buffers leave alone.
SameSwaps(w, v) == /\ v.cmd = w.cmd /\ v.pending = w.pending
                   /\ v.priv = w.priv /\ v.hw = w.hw

\* The fields of a world have their types.
LEMMA WorldFields ==
  ASSUME NEW w \in World
  PROVE  /\ w.mem \in Mem
         /\ w.buf \in [Buf -> BufRec]
         /\ w.cmd \in [Cmd -> CmdRec]
         /\ w.scanout \in Bo
         /\ w.pending \in Int
         /\ w.priv \in [Draw -> PrivRec]
         /\ w.hw \in [Crtc -> Bo \cup {NoBo}]
BY DEF World

\* A world with other memory is a world, and swaps, core and CRTCs are as before.
LEMMA SetMem ==
  ASSUME NEW w \in World, NEW m \in Mem
  PROVE  /\ [w EXCEPT !.mem = m] \in World
         /\ SameSwaps(w, [w EXCEPT !.mem = m])
BY DEF World, SameSwaps

\* So is a world with other memory and other buffers.
LEMMA SetMemBuf ==
  ASSUME NEW w \in World, NEW m \in Mem, NEW b, NEW r, b \in Buf => r \in BufRec
  PROVE  /\ [w EXCEPT !.mem = m, !.buf[b] = r] \in World
         /\ SameSwaps(w, [w EXCEPT !.mem = m, !.buf[b] = r])
<1> DEFINE f == [w.buf EXCEPT ![b] = r]
<1>1. f \in [Buf -> BufRec]
  BY WorldFields, Update
<1>2. [w EXCEPT !.mem = m, !.buf[b] = r] = [w EXCEPT !.mem = m, !.buf = f]
  OBVIOUS
<1> HIDE DEF f
<1> QED BY <1>1, <1>2 DEF World, SameSwaps

\* Pick takes an element of a set that has one.
LEMMA PickIn ==
  ASSUME NEW S, S # {}
  PROVE  Pick(S) \in S
BY DEF Pick

\* A back buffer has room for one pixmap at least.
LEMMA SlotZero == 0 \in Slots /\ 1 \in 1 .. NumBufs - 1
BY SwapAssumption DEF Slots

\* A free address counts as a buffer.
LEMMA NoBufRecType == NoBufRec \in BufRec
BY SlotZero DEF NoBufRec, BufRec

\* The fields of a buffer have their types.
LEMMA BufFields ==
  ASSUME NEW r \in BufRec
  PROVE  /\ r.ref \in Int /\ r.att \in {"front", "back"}
         /\ r.pix \in [Slots -> Pix \cup {NoPix}]
         /\ r.cur \in Slots /\ r.num \in 1 .. NumBufs - 1
         /\ r.bo \in Bo \cup {NoBo} /\ r.name \in Bo \cup {NoBo}
         /\ r.tried \in BOOLEAN
BY DEF BufRec

\* A buffer keeps its type when reference, pixmap, bo, name or flag change.
LEMMA BufUpdates ==
  ASSUME NEW r \in BufRec
  PROVE  /\ \A a \in {"front", "back"} : [r EXCEPT !.att = a] \in BufRec
         /\ \A n \in 1 .. NumBufs - 1 : [r EXCEPT !.num = n] \in BufRec
         /\ \A i \in Int : [r EXCEPT !.ref = i] \in BufRec
         /\ [r EXCEPT !.ref = @ - 1] \in BufRec
         /\ [r EXCEPT !.ref = @ + 1] \in BufRec
<1>1. \A i \in Int : [r EXCEPT !.ref = i] \in BufRec
  BY DEF BufRec
<1>2. r.ref - 1 \in Int /\ r.ref + 1 \in Int
  BY DEF BufRec
<1>3. \A a \in {"front", "back"} : [r EXCEPT !.att = a] \in BufRec
  BY DEF BufRec
<1>4. \A n \in 1 .. NumBufs - 1 : [r EXCEPT !.num = n] \in BufRec
  BY DEF BufRec
<1> QED BY <1>1, <1>2, <1>3, <1>4

\* CreatePixmap leaves well-formed memory.
LEMMA CreatePixType ==
  ASSUME NEW w \in World, NEW d \in Draw, win[d] \in Pix, CanCreatePix(w)
  PROVE  CreatePix(w, d) \in Mem
<1>1. Pick(FreePix(w)) \in Pix /\ Pick(FreeBo(w)) \in Bo
  BY PickIn DEF CanCreatePix, FreePix, FreeBo
<1>2. w.mem \in Mem /\ w.mem.pdim[win[d]] \in Size
  BY WorldFields, MemFields
<1> QED BY <1>1, <1>2, NewPixmapType DEF CreatePix

\* DestroyBufferResources leaves well-formed memory.
LEMMA DestroyBufferResourcesType ==
  ASSUME NEW m \in Mem, NEW r \in BufRec
  PROVE  DestroyBufferResources(m, r) \in Mem
<1> DEFINE P == {r.pix[i] : i \in {j \in 0 .. NumPixmaps(r.att) - 1 :
                                     \A l \in 0 .. j : r.pix[l] # NoPix}}
<1>1. P \in SUBSET Pix
  <2> SUFFICES ASSUME NEW j \in 0 .. NumPixmaps(r.att) - 1,
                      \A l \in 0 .. j : r.pix[l] # NoPix
               PROVE  r.pix[j] \in Pix
    OBVIOUS
  <2>1. r.pix \in [Slots -> Pix \cup {NoPix}] /\ NumPixmaps(r.att) \in {1, NumBufs - 1}
    BY BufFields DEF NumPixmaps
  <2>2. j \in Slots /\ j \in 0 .. j
    BY <2>1, SwapAssumption DEF Slots
  <2> QED BY <2>1, <2>2
<1> DEFINE m1 == Deregister(m, P)
           m2 == DropPixmaps(m1, P)
<1>2. m1 \in Mem
  BY DeregisterType
<1>3. m2 \in Mem
  BY <1>1, <1>2, DropPixmapsType
<1>4. DestroyBufferResources(m, r) = BoUnref(m2, r.bo)
  BY DEF DestroyBufferResources
<1> HIDE DEF m2
<1> QED BY <1>3, <1>4, BoUnrefType

\* CreateBufferResources leaves well-formed memory and a well-formed buffer,
\* whichever of its calls fails.
LEMMA CreateBufferResourcesType ==
  ASSUME NEW w \in World, NEW d \in Draw, win[d] \in Pix, NEW r \in BufRec,
         NEW ch \in Choices
  PROVE  /\ CreateBufferResources(w, d, r, ch).mem \in Mem
         /\ CreateBufferResources(w, d, r, ch).r \in BufRec
<1> DEFINE front == r.att = "front"
           p  == IF front THEN win[d] ELSE Pick(FreePix(w))
           m1 == IF front THEN [w.mem EXCEPT !.pref[p] = @ + 1] ELSE CreatePix(w, d)
           m2 == [m1 EXCEPT !.ok = @ /\ r.cur = 0]
           r1 == [r EXCEPT !.pix[0] = p]
           bo == PixmapBo(m2, p)
           flippable == CanFlip(d) /\ ~front
           m3 == IF flippable /\ ch.fb THEN AddFb(m2, bo) ELSE m2
           m4 == BoRef(Register(m3, p), bo)
           r2 == [r1 EXCEPT !.name = bo, !.bo = bo, !.tried = @ \/ flippable]
<1>1. CASE ~front /\ ~CanCreatePix(w)
  BY <1>1, WorldFields DEF CreateBufferResources
<1>2. CASE front \/ CanCreatePix(w)
  <2>1. p \in Pix
    BY <1>2, PickIn DEF CanCreatePix, FreePix
  <2>2. m1 \in Mem
    <3>1. CASE front
      <4> DEFINE f == [w.mem.pref EXCEPT ![p] = @ + 1]
      <4>1. w.mem \in Mem /\ w.mem.pref \in [Pix -> Int]
        BY WorldFields, MemFields
      <4>2. f \in [Pix -> Int]
        BY <2>1, <4>1
      <4>3. m1 = [w.mem EXCEPT !.pref = f]
        BY <3>1
      <4> HIDE DEF f, m1
      <4> QED BY <4>1, <4>2, <4>3 DEF Mem
    <3>2. CASE ~front
      BY <1>2, <3>2, CreatePixType
    <3> QED BY <3>1, <3>2
  <2> HIDE DEF p, m1
  <2>3. m2 \in Mem
    BY <2>2 DEF Mem
  <2> HIDE DEF m2
  <2>4. bo \in Bo \cup {NoBo}
    BY <2>3, PixmapBoType
  <2> HIDE DEF bo
  <2>5. m3 \in Mem
    BY <2>3, AddFbType
  <2> HIDE DEF m3
  <2>6. m4 \in Mem
    BY <2>5, RegisterType, BoRefType
  <2>7. r1 \in BufRec
    <3> DEFINE f == [r.pix EXCEPT ![0] = p]
    <3>1. f \in [Slots -> Pix \cup {NoPix}]
      BY <2>1, BufFields
    <3>2. r1 = [r EXCEPT !.pix = f]
      OBVIOUS
    <3> HIDE DEF f, r1
    <3> QED BY <3>1, <3>2 DEF BufRec
  <2> HIDE DEF r1
  <2>8. r2 \in BufRec
    BY <2>4, <2>7 DEF BufRec
  <2>9. DropPixmaps(m2, {p}) \in Mem
    BY <2>1, <2>3, DropPixmapsType
  <2> HIDE DEF m4, r2
  <2>10. \/ /\ CreateBufferResources(w, d, r, ch).mem = DropPixmaps(m2, {p})
            /\ CreateBufferResources(w, d, r, ch).r = r1
         \/ /\ CreateBufferResources(w, d, r, ch).mem = m4
            /\ CreateBufferResources(w, d, r, ch).r = r2
    BY <1>2 DEF CreateBufferResources, p, m1, m2, m3, m4, r1, r2, bo
  <2> QED BY <2>6, <2>7, <2>8, <2>9, <2>10
<1> QED BY <1>1, <1>2

\* ARMSOCDRI2CreateBuffer keeps a world a world and touches no swap.
LEMMA CreateBufferType ==
  ASSUME NEW w \in World, NEW d \in Draw, win[d] \in Pix,
         NEW att \in {"front", "back"}, NEW ch \in Choices
  PROVE  LET res == CreateBuffer(w, d, att, ch)
         IN  /\ res.w \in World
             /\ SameSwaps(w, res.w)
             /\ res.b \in Buf \cup {NoBuf}
<1> DEFINE b == Pick(FreeBuf(w))
           r == [NoBufRec EXCEPT !.ref = 1, !.att = att, !.num = NumPixmaps(att)]
           res == CreateBufferResources(w, d, r, ch)
<1>1. r \in BufRec
  <2>1. NumPixmaps(att) \in 1 .. NumBufs - 1
    BY SwapAssumption DEF NumPixmaps
  <2> DEFINE r1 == [NoBufRec EXCEPT !.ref = 1]
             r2 == [r1 EXCEPT !.att = att]
  <2>2. r1 \in BufRec
    BY NoBufRecType DEF BufRec
  <2>3. r = [r2 EXCEPT !.num = NumPixmaps(att)]
    OBVIOUS
  <2> HIDE DEF r1
  <2>4. r2 \in BufRec
    BY <2>2, BufUpdates
  <2> HIDE DEF r2
  <2> QED BY <2>1, <2>3, <2>4, BufUpdates
<1> HIDE DEF r
<1>2. res.mem \in Mem /\ res.r \in BufRec
  BY <1>1, CreateBufferResourcesType
<1> HIDE DEF res
<1>3. FreeBuf(w) # {} => b \in Buf
  BY PickIn DEF FreeBuf
<1> HIDE DEF b
<1>4. /\ [w EXCEPT !.mem = res.mem] \in World
      /\ SameSwaps(w, [w EXCEPT !.mem = res.mem])
  BY <1>2, SetMem
<1>5. /\ [w EXCEPT !.mem = res.mem, !.buf[b] = res.r] \in World
      /\ SameSwaps(w, [w EXCEPT !.mem = res.mem, !.buf[b] = res.r])
  BY <1>2, SetMemBuf
<1>6. SameSwaps(w, w)
  BY DEF SameSwaps
<1>7. CreateBuffer(w, d, att, ch) =
        IF FreeBuf(w) = {} THEN [w |-> w, b |-> NoBuf]
        ELSE IF ~res.ok THEN [w |-> [w EXCEPT !.mem = res.mem], b |-> NoBuf]
        ELSE [w |-> [w EXCEPT !.mem = res.mem, !.buf[b] = res.r], b |-> b]
  BY DEF CreateBuffer, b, r, res
<1> QED BY <1>3, <1>4, <1>5, <1>6, <1>7

\* ARMSOCDRI2DestroyBuffer keeps a world a world and touches no swap.
LEMMA DestroyBufferType ==
  ASSUME NEW w \in World, NEW b \in Buf \cup {NoBuf}
  PROVE  DestroyBuffer(w, b) \in World /\ SameSwaps(w, DestroyBuffer(w, b))
<1>1. CASE b = NoBuf
  BY <1>1 DEF DestroyBuffer, SameSwaps
<1>2. CASE b # NoBuf /\ w.buf[b].ref > 1
  <2> DEFINE r == [w.buf[b] EXCEPT !.ref = @ - 1]
             f == [w.buf EXCEPT ![b] = r]
  <2>1. w.buf \in [Buf -> BufRec] /\ w.buf[b] \in BufRec
    BY <1>2, WorldFields
  <2>2. r \in BufRec
    BY <2>1, BufUpdates, SlotZero
  <2>3. DestroyBuffer(w, b) = [w EXCEPT !.buf = f]
    BY <1>2 DEF DestroyBuffer
  <2> HIDE DEF r
  <2>4. f \in [Buf -> BufRec]
    BY <2>1, <2>2, Update
  <2> HIDE DEF f
  <2> QED BY <2>3, <2>4 DEF World, SameSwaps
<1>3. CASE b # NoBuf /\ ~(w.buf[b].ref > 1)
  <2> DEFINE m == DestroyBufferResources(w.mem, w.buf[b])
  <2>1. m \in Mem
    BY <1>3, WorldFields, DestroyBufferResourcesType
  <2>2. DestroyBuffer(w, b) = [w EXCEPT !.mem = m, !.buf[b] = NoBufRec]
    BY <1>3 DEF DestroyBuffer
  <2> HIDE DEF m
  <2>3. /\ [w EXCEPT !.mem = m, !.buf[b] = NoBufRec] \in World
        /\ SameSwaps(w, [w EXCEPT !.mem = m, !.buf[b] = NoBufRec])
    BY <2>1, NoBufRecType, SetMemBuf
  <2> QED BY <2>2, <2>3
<1> QED BY <1>1, <1>2, <1>3

\* ARMSOCDRI2ReuseBufferNotify keeps a world a world and touches no swap.
LEMMA ReuseBufferNotifyType ==
  ASSUME NEW w \in World, NEW d \in Draw, win[d] \in Pix, NEW b \in Buf,
         NEW ch \in Choices
  PROVE  LET v == ReuseBufferNotify(w, d, b, ch)
         IN  v \in World /\ SameSwaps(w, v)
<1> DEFINE r   == w.buf[b]
           bo  == PixmapBo(w.mem, r.pix[0])
           up  == CanFlip(d) /\ ~r.tried /\ ~w.mem.fb[bo]
           down == ~CanFlip(d) /\ w.mem.fb[bo]
           m0  == IF down THEN RmFb(w.mem, bo) ELSE w.mem
           m1  == DestroyBufferResources(m0, r)
           r1  == [r EXCEPT !.tried = @ /\ ~down]
           w1  == [w EXCEPT !.mem = m1]
           res == CreateBufferResources(w1, d, r1, ch)
           v   == IF up \/ down THEN [w EXCEPT !.mem = res.mem, !.buf[b] = res.r]
                  ELSE w
<1>1. r \in BufRec
  BY WorldFields
<1>2. m0 \in Mem
  BY RmFbType, WorldFields
<1>3. m1 \in Mem
  BY <1>1, <1>2, DestroyBufferResourcesType
<1>4. ReuseBufferNotify(w, d, b, ch) = v
  BY DEF ReuseBufferNotify
<1> HIDE DEF r, up, down, m1
<1>5. r1 \in BufRec
  BY <1>1 DEF BufRec
<1>6. w1 \in World
  BY <1>3, SetMem
<1> HIDE DEF r1, w1
<1>7. res.mem \in Mem /\ res.r \in BufRec
  BY <1>5, <1>6, CreateBufferResourcesType
<1> HIDE DEF res
<1>8. /\ [w EXCEPT !.mem = res.mem, !.buf[b] = res.r] \in World
      /\ SameSwaps(w, [w EXCEPT !.mem = res.mem, !.buf[b] = res.r])
  BY <1>7, SetMemBuf
<1>9. SameSwaps(w, w)
  BY DEF SameSwaps
<1>10. v \in World /\ SameSwaps(w, v)
  BY <1>8, <1>9
<1> QED BY <1>4, <1>10

-----------------------------------------------------------------------------

\* exchangebufs keeps a world a world and touches no swap.
LEMMA ExchangeBufsType ==
  ASSUME NEW w \in World, NEW d \in Draw, NEW a \in Buf, NEW b \in Buf
  PROVE  LET v == ExchangeBufs(w, d, a, b)
         IN  v \in World /\ SameSwaps(w, v) /\ v.scanout = w.scanout
<1> DEFINE m == PixmapExchange(w.mem, Dri2Pix(w, d, a), Dri2Pix(w, d, b))
           ra == [w.buf[a] EXCEPT !.name = w.buf[b].name]
           f == [w.buf EXCEPT ![a].name = w.buf[b].name]
           rb == [f[b] EXCEPT !.name = w.buf[a].name]
           g == [f EXCEPT ![b] = rb]
<1>1. m \in Mem
  BY WorldFields, PixmapExchangeType
<1>2. /\ w.buf[a] \in BufRec /\ w.buf[b] \in BufRec
      /\ w.buf[a].name \in Bo \cup {NoBo} /\ w.buf[b].name \in Bo \cup {NoBo}
  BY WorldFields, BufFields
<1>3. ra \in BufRec
  BY <1>2 DEF BufRec
<1>4. f \in [Buf -> BufRec]
  <2>1. f = [w.buf EXCEPT ![a] = ra]
    OBVIOUS
  <2> HIDE DEF ra, f
  <2> QED BY <1>3, <2>1, WorldFields, Update
<1> HIDE DEF f
<1>5. rb \in BufRec
  <2>1. f[b] \in BufRec
    BY <1>4
  <2> QED BY <1>2, <2>1 DEF BufRec
<1> HIDE DEF rb
<1>6. g \in [Buf -> BufRec]
  BY <1>4, <1>5, Update
<1>7. ExchangeBufs(w, d, a, b) = [w EXCEPT !.mem = m, !.buf = g]
  BY DEF ExchangeBufs, f, rb
<1> HIDE DEF m, g
<1> QED BY <1>1, <1>6, <1>7 DEF World, SameSwaps

\* The index that nextBuffer computes is one of the slots in use.
LEMMA ModBound ==
  ASSUME NEW a \in Int, NEW n \in Nat, n > 0
  PROVE  a % n \in 0 .. n - 1
OBVIOUS

\* nextBuffer keeps a world a world: the current slot stays within the slots,
\* also when allocNextBuffer fails and gives up the rest of them.
LEMMA NextBufferType ==
  ASSUME NEW w \in World, NEW d \in Draw, win[d] \in Pix, NEW b \in Buf,
         NEW ch \in Choices
  PROVE  LET v == NextBuffer(w, d, b, ch)
         IN  v \in World /\ SameSwaps(w, v) /\ v.scanout = w.scanout
<1> DEFINE r == w.buf[b]
           n == (r.cur + 1) % r.num
           p == Pick(FreePix(w))
           bo == Pick(FreeBo(w))
           old == PixmapBo(w.mem, r.pix[n])
           v1 == [w EXCEPT !.buf[b] = [@ EXCEPT !.cur = n, !.name = old],
                           !.mem.ok = @ /\ old # NoBo]
           v2 == [w EXCEPT !.buf[b] = [@ EXCEPT !.cur = n, !.pix[n] = p, !.name = bo],
                           !.mem = AddFb(Register(CreatePix(w, d), p), bo)]
           v3 == [w EXCEPT !.buf[b] = [@ EXCEPT !.cur = IF n > 0 THEN n - 1 ELSE 0,
                                                !.num = IF n > 0 THEN n ELSE 1],
                           !.mem.ok = @ /\ n > 0]
<1>1. r \in BufRec /\ n \in Slots /\ n \in 0 .. NumBufs - 2
  <2>1. r \in BufRec
    BY WorldFields
  <2>2. r.cur \in Int /\ r.num \in 1 .. NumBufs - 1
    BY <2>1, BufFields DEF Slots
  <2>3. n \in 0 .. r.num - 1
    BY <2>2, SwapAssumption, ModBound
  <2> HIDE DEF n, r
  <2>4. n \in 0 .. NumBufs - 2
    BY <2>2, <2>3, SwapAssumption
  <2> QED BY <2>1, <2>4 DEF Slots
<1>2. w.mem \in Mem /\ w.buf \in [Buf -> BufRec]
  BY WorldFields
<1>3. old \in Bo \cup {NoBo}
  BY <1>2, PixmapBoType
<1> HIDE DEF n, old
<1>4. v1 \in World /\ SameSwaps(w, v1) /\ v1.scanout = w.scanout
  <2> DEFINE s == [r EXCEPT !.cur = n, !.name = old]
             f == [w.buf EXCEPT ![b] = s]
             m == [w.mem EXCEPT !.ok = @ /\ old # NoBo]
  <2>1. s \in BufRec
    BY <1>1, <1>3 DEF BufRec
  <2>2. m \in Mem
    BY <1>2 DEF Mem
  <2>3. v1 = [w EXCEPT !.buf = f, !.mem = m]
    OBVIOUS
  <2> HIDE DEF s, m
  <2>4. f \in [Buf -> BufRec]
    BY <1>2, <2>1, Update
  <2> HIDE DEF f, v1
  <2> QED BY <2>2, <2>3, <2>4 DEF World, SameSwaps
<1>5. CanCreatePix(w) => v2 \in World /\ SameSwaps(w, v2) /\ v2.scanout = w.scanout
  <2> SUFFICES ASSUME CanCreatePix(w)
               PROVE  v2 \in World /\ SameSwaps(w, v2) /\ v2.scanout = w.scanout
    OBVIOUS
  <2> DEFINE q == [r.pix EXCEPT ![n] = p]
             s == [r EXCEPT !.cur = n, !.pix = q, !.name = bo]
             f == [w.buf EXCEPT ![b] = s]
             m1 == Register(CreatePix(w, d), p)
             m == AddFb(m1, bo)
  <2>1. p \in Pix /\ bo \in Bo
    BY PickIn DEF CanCreatePix, FreePix, FreeBo
  <2>2. m1 \in Mem
    BY CreatePixType, RegisterType
  <2>3. m \in Mem
    <3> HIDE DEF m1
    <3> QED BY <2>2, AddFbType
  <2>4. v2 = [w EXCEPT !.buf = f, !.mem = m]
    OBVIOUS
  <2> HIDE DEF m, p, bo
  <2>5. q \in [Slots -> Pix \cup {NoPix}]
    BY <1>1, <2>1, BufFields
  <2> HIDE DEF q
  <2>6. s \in BufRec
    BY <1>1, <2>1, <2>5 DEF BufRec
  <2> HIDE DEF s
  <2>7. f \in [Buf -> BufRec]
    BY <1>2, <2>6, Update
  <2> HIDE DEF f, v2
  <2> QED BY <2>3, <2>4, <2>7 DEF World, SameSwaps
<1>6. v3 \in World /\ SameSwaps(w, v3) /\ v3.scanout = w.scanout
  <2> DEFINE cu == IF n > 0 THEN n - 1 ELSE 0
             nu == IF n > 0 THEN n ELSE 1
             s == [r EXCEPT !.cur = cu, !.num = nu]
             f == [w.buf EXCEPT ![b] = s]
             m == [w.mem EXCEPT !.ok = @ /\ n > 0]
  <2>1. cu \in Slots /\ nu \in 1 .. NumBufs - 1
    BY <1>1, SwapAssumption DEF Slots
  <2>2. v3 = [w EXCEPT !.buf = f, !.mem = m]
    OBVIOUS
  <2>3. m \in Mem
    BY <1>2 DEF Mem
  <2> HIDE DEF cu, nu, m
  <2>4. s \in BufRec
    BY <1>1, <2>1 DEF BufRec
  <2> HIDE DEF s
  <2>5. f \in [Buf -> BufRec]
    BY <1>2, <2>4, Update
  <2> HIDE DEF f, v3
  <2> QED BY <2>2, <2>3, <2>5 DEF World, SameSwaps
<1>7. SameSwaps(w, w)
  BY DEF SameSwaps
<1>8. NextBuffer(w, d, b, ch) = IF NumBufs <= 2 THEN w
                                ELSE IF r.pix[n] # NoPix THEN v1
                                ELSE IF CanCreatePix(w) /\ ch.fb /\ ch.name THEN v2
                                ELSE v3
  BY DEF NextBuffer, n, old
<1> HIDE DEF r, v1, v2, v3
<1> QED BY <1>4, <1>5, <1>6, <1>7, <1>8

\* boFromBuffer returns a bo or NULL.
LEMMA BoFromBufferType ==
  ASSUME NEW w \in World, NEW b
  PROVE  BoFromBuffer(w, b) \in Bo \cup {NoBo}
BY WorldFields, PixmapBoType DEF BoFromBuffer

\* drmmode_set_scanout_bo never leaves the screen without a bo.
LEMMA SetScanoutBoType ==
  ASSUME NEW w \in World, NEW b \in Bo \cup {NoBo}
  PROVE  SetScanoutBo(w, b) \in World /\ SameSwaps(w, SetScanoutBo(w, b))
<1> DEFINE m0 == [w.mem EXCEPT !.ok = @ /\ w.mem.fb[b]]
           m1 == BoRef(m0, b)
           m2 == BoUnref(m1, w.scanout)
           m3 == [w.mem EXCEPT !.ok = FALSE]
<1>1. m0 \in Mem /\ m3 \in Mem
  BY WorldFields DEF Mem
<1>2. m1 \in Mem
  <2> HIDE DEF m0
  <2> QED BY <1>1, BoRefType
<1>3. m2 \in Mem
  <2> HIDE DEF m1
  <2> QED BY <1>2, BoUnrefType
<1>4. SetScanoutBo(w, b) = IF b = NoBo THEN [w EXCEPT !.mem = m3]
                           ELSE [w EXCEPT !.mem = m2, !.scanout = b]
  BY DEF SetScanoutBo
<1> HIDE DEF m2, m3
<1>5. [w EXCEPT !.mem = m3] \in World /\ SameSwaps(w, [w EXCEPT !.mem = m3])
  BY <1>1, SetMem
<1>6. b # NoBo => /\ [w EXCEPT !.mem = m2, !.scanout = b] \in World
                  /\ SameSwaps(w, [w EXCEPT !.mem = m2, !.scanout = b])
  BY <1>3 DEF World, SameSwaps
<1> QED BY <1>4, <1>5, <1>6

\* The fields of a command have their types.
LEMMA CmdFields ==
  ASSUME NEW c \in CmdRec
  PROVE  /\ c.live \in BOOLEAN /\ c.draw \in Draw \cup {NoDraw}
         /\ c.src \in Buf \cup {NoBuf} /\ c.dst \in Buf \cup {NoBuf}
         /\ c.oldSrc \in Bo \cup {NoBo} /\ c.oldDst \in Bo \cup {NoBo}
         /\ c.count \in Int /\ c.type \in {"none", "flip", "blit", "exchange"}
         /\ c.fail \in BOOLEAN /\ c.fake \in BOOLEAN
BY DEF CmdRec

\* A free address counts as a command.
LEMMA NoCmdRecType == NoCmdRec \in CmdRec
BY DEF NoCmdRec, CmdRec

\* The end of ARMSOCDRI2SwapComplete frees the command, and pending_flips
\* goes down by one whatever became of the swap.
LEMMA ReleaseType ==
  ASSUME NEW w \in World, NEW k \in Cmd
  PROVE  LET v == Release(w, k)
         IN  /\ v \in World
             /\ v.cmd = [w.cmd EXCEPT ![k] = NoCmdRec]
             /\ v.pending = w.pending - 1
             /\ v.priv = w.priv
             /\ v.hw = w.hw
<1> DEFINE c  == w.cmd[k]
           w0 == DestroyBuffer(w, c.src)
           w1 == DestroyBuffer(w0, c.dst)
           m1 == BoUnref(w1.mem, c.oldSrc)
           m2 == BoUnref(m1, c.oldDst)
           f  == [w1.cmd EXCEPT ![k] = NoCmdRec]
           v  == [w1 EXCEPT !.mem = m2, !.pending = @ - 1, !.cmd = f]
<1>1. c \in CmdRec
  BY WorldFields
<1>2. w0 \in World /\ SameSwaps(w, w0)
  BY <1>1, CmdFields, DestroyBufferType
<1>3. w1 \in World /\ SameSwaps(w0, w1)
  <2> HIDE DEF w0
  <2> QED BY <1>1, <1>2, CmdFields, DestroyBufferType
<1>4. Release(w, k) = v
  BY DEF Release
<1> HIDE DEF w1
<1>5. m1 \in Mem
  BY <1>3, WorldFields, BoUnrefType
<1>6. m2 \in Mem
  <2> HIDE DEF m1
  <2> QED BY <1>5, BoUnrefType
<1> HIDE DEF m2
<1>7. f \in [Cmd -> CmdRec]
  BY <1>3, WorldFields, NoCmdRecType, Update
<1>8. SameSwaps(w, w1)
  BY <1>2, <1>3 DEF SameSwaps
<1>9. f = [w.cmd EXCEPT ![k] = NoCmdRec]
  BY <1>8 DEF SameSwaps
<1> HIDE DEF f
<1>10. /\ v.cmd = f /\ v.pending = w1.pending - 1
       /\ v.priv = w1.priv /\ v.hw = w1.hw
  BY <1>3 DEF World
<1>11. v \in World
  <2> DEFINE pd == w1.pending - 1
  <2>1. pd \in Int
    BY <1>3, WorldFields
  <2>2. v = [w1 EXCEPT !.mem = m2, !.pending = pd, !.cmd = f]
    OBVIOUS
  <2> HIDE DEF pd, v
  <2> QED BY <1>3, <1>6, <1>7, <2>1, <2>2 DEF World
<1> HIDE DEF v
<1> QED BY <1>4, <1>8, <1>9, <1>10, <1>11 DEF SameSwaps
\* The buffers that the core holds for its windows are the same in w and v.
SameBuffers(w, v) == \A d \in Draw : /\ v.priv[d].back = w.priv[d].back
                                     /\ v.priv[d].front = w.priv[d].front

\* The fields of the core's record of a window have their types.
LEMMA PrivFields ==
  ASSUME NEW p \in PrivRec
  PROVE  /\ p.back \in Buf \cup {NoBuf} /\ p.front \in Buf \cup {NoBuf}
         /\ p.fresh \in BOOLEAN /\ p.swaps \in Int
BY DEF PrivRec

\* The core counts a swap in or out.
LEMMA CountType ==
  ASSUME NEW w \in World, NEW d \in Draw, NEW i \in Int
  PROVE  LET v == [w EXCEPT !.priv[d].swaps = i]
         IN  /\ v \in World
             /\ v.cmd = w.cmd /\ v.pending = w.pending
             /\ v.buf = w.buf /\ v.mem = w.mem /\ v.hw = w.hw
             /\ v.scanout = w.scanout
             /\ SameBuffers(w, v)
<1> DEFINE q == [w.priv[d] EXCEPT !.swaps = i]
           f == [w.priv EXCEPT ![d] = q]
           v == [w EXCEPT !.priv = f]
<1>1. w.priv \in [Draw -> PrivRec] /\ w.priv[d] \in PrivRec
  BY WorldFields
<1>2. q \in PrivRec /\ q.back = w.priv[d].back /\ q.front = w.priv[d].front
  BY <1>1 DEF PrivRec
<1>3. [w EXCEPT !.priv[d].swaps = i] = v
  OBVIOUS
<1> HIDE DEF q
<1>4. f \in [Draw -> PrivRec]
  BY <1>1, <1>2, Update
<1>5. \A e \in Draw : f[e].back = w.priv[e].back /\ f[e].front = w.priv[e].front
  BY <1>1, <1>2
<1> HIDE DEF f
<1>6. v \in World /\ v.priv = f /\ v.cmd = w.cmd /\ v.pending = w.pending
      /\ v.buf = w.buf /\ v.mem = w.mem /\ v.hw = w.hw /\ v.scanout = w.scanout
  BY <1>4 DEF World
<1> HIDE DEF v
<1> QED BY <1>3, <1>5, <1>6 DEF SameBuffers

\* ARMSOCDRI2SwapComplete counts a command down that waits for further flips,
\* and otherwise frees it and lowers pending_flips.
LEMMA SwapCompleteType ==
  ASSUME NEW w \in World, NEW k \in Cmd, NEW ch \in Choices,
         win \in [Draw -> Pix \cup {NoPix}],
         w.cmd[k].draw \in Draw, w.cmd[k].src \in Buf, w.cmd[k].dst \in Buf
  PROVE  LET v == SwapComplete(w, k, ch)
         IN  /\ v \in World
             /\ SameBuffers(w, v)
             /\ IF w.cmd[k].count > 1
                THEN /\ v.cmd = [w.cmd EXCEPT ![k].count = @ - 1]
                     /\ v.pending = w.pending
                ELSE /\ v.cmd = [w.cmd EXCEPT ![k] = NoCmdRec]
                     /\ v.pending = w.pending - 1
<1> DEFINE c     == w.cmd[k]
           d     == c.draw
           found == Succeeded(c)
           flip  == found /\ c.type = "flip" /\ ~c.fake
           x1 == ExchangeBufs(w, d, c.src, c.dst)
           x2 == NextBuffer(x1, d, c.src, ch)
           w1 == IF flip THEN x2 ELSE w
           y1 == [w1 EXCEPT !.priv[d].swaps = @ - 1]
           w2 == IF found THEN y1 ELSE w1
           w3 == IF flip THEN SetScanoutBo(w2, BoFromBuffer(w2, c.dst)) ELSE w2
           v  == SwapComplete(w, k, ch)
<1>1. CASE c.count > 1
  <2> DEFINE q == [c EXCEPT !.count = @ - 1]
             f == [w.cmd EXCEPT ![k] = q]
  <2>1. w.cmd \in [Cmd -> CmdRec] /\ c \in CmdRec
    BY WorldFields
  <2>2. v = [w EXCEPT !.cmd = f]
    BY <1>1 DEF SwapComplete
  <2>3. f = [w.cmd EXCEPT ![k].count = @ - 1]
    OBVIOUS
  <2>4. q \in CmdRec
    <3> DEFINE i == c.count - 1
    <3>1. i \in Int
      BY <2>1, CmdFields
    <3>2. q = [c EXCEPT !.count = i]
      OBVIOUS
    <3> HIDE DEF i, q, c
    <3> QED BY <2>1, <3>1, <3>2 DEF CmdRec
  <2> HIDE DEF q
  <2>5. f \in [Cmd -> CmdRec]
    BY <2>1, <2>4, Update
  <2> HIDE DEF f, v
  <2>6. v \in World /\ v.cmd = f /\ v.pending = w.pending /\ v.priv = w.priv
    BY <2>2, <2>5 DEF World
  <2> QED BY <1>1, <2>3, <2>6 DEF SameBuffers, v
<1>2. CASE ~(c.count > 1)
  <2>1. found => win[d] \in Pix
    BY DEF Succeeded
  <2> HIDE DEF found
  <2>2. x1 \in World /\ SameSwaps(w, x1)
    BY ExchangeBufsType
  <2>3. found => x2 \in World /\ SameSwaps(x1, x2)
    <3> HIDE DEF x1
    <3> QED BY <2>1, <2>2, NextBufferType
  <2>4. w1 \in World /\ SameSwaps(w, w1)
    <3> HIDE DEF x1, x2
    <3> QED BY <2>2, <2>3 DEF SameSwaps
  <2> HIDE DEF w1
  <2>5. /\ y1 \in World /\ y1.cmd = w1.cmd /\ y1.pending = w1.pending
        /\ SameBuffers(w1, y1)
    <3>1. w1.priv[d].swaps - 1 \in Int
      BY <2>4, WorldFields, PrivFields
    <3> QED BY <2>4, <3>1, CountType
  <2> HIDE DEF y1
  <2>6. /\ w2 \in World /\ w2.cmd = w.cmd /\ w2.pending = w.pending
        /\ SameBuffers(w, w2)
    BY <2>4, <2>5 DEF SameSwaps, SameBuffers
  <2> HIDE DEF w2
  <2>7. /\ w3 \in World /\ w3.cmd = w.cmd /\ w3.pending = w.pending
        /\ SameBuffers(w, w3)
    BY <2>6, BoFromBufferType, SetScanoutBoType DEF SameSwaps, SameBuffers
  <2>8. v = Release(w3, k)
    BY <1>2 DEF SwapComplete, w1, y1, w2, found
  <2> HIDE DEF w3
  <2>9. /\ Release(w3, k) \in World
        /\ Release(w3, k).cmd = [w3.cmd EXCEPT ![k] = NoCmdRec]
        /\ Release(w3, k).pending = w3.pending - 1
        /\ Release(w3, k).priv = w3.priv
    BY <2>7, ReleaseType
  <2> HIDE DEF v
  <2>10. /\ v \in World /\ SameBuffers(w, v)
         /\ v.cmd = [w.cmd EXCEPT ![k] = NoCmdRec]
         /\ v.pending = w.pending - 1
    BY <2>7, <2>8, <2>9 DEF SameBuffers
  <2> QED BY <1>2, <2>10 DEF v
<1> QED BY <1>1, <1>2

\* ARMSOCDRI2ExecuteSwap of a command that waits for no flip frees it.
LEMMA ExecuteSwapType ==
  ASSUME NEW w \in World, NEW k \in Cmd, NEW ch \in Choices,
         win \in [Draw -> Pix \cup {NoPix}],
         w.cmd[k].draw \in Draw, w.cmd[k].src \in Buf, w.cmd[k].dst \in Buf,
         w.cmd[k].count <= 1
  PROVE  LET v == ExecuteSwap(w, k, ch)
         IN  /\ v \in World
             /\ SameBuffers(w, v)
             /\ v.cmd = [w.cmd EXCEPT ![k] = NoCmdRec]
             /\ v.pending = w.pending - 1
<1> DEFINE c == w.cmd[k]
           d == c.draw
           x == win[d] # NoPix /\ CanExchange(w, d, c.oldSrc, c.oldDst, ch)
           x1 == ExchangeBufs(w, d, c.src, c.dst)
           x2 == NextBuffer(x1, d, c.src, ch)
           w1 == IF x THEN x2 ELSE w
           t == IF win[d] = NoPix THEN c.type ELSE IF x THEN "exchange" ELSE "blit"
           q == [w1.cmd[k] EXCEPT !.type = t]
           f == [w1.cmd EXCEPT ![k] = q]
           w2 == [w1 EXCEPT !.cmd = f]
           v  == SwapComplete(w2, k, ch)
<1>1. ExecuteSwap(w, k, ch) = v
  BY DEF ExecuteSwap
<1>2. c \in CmdRec /\ t \in {"none", "flip", "blit", "exchange"}
  BY WorldFields, CmdFields
<1>3. x => win[d] \in Pix
  OBVIOUS
<1> HIDE DEF x, t
<1>4. x1 \in World /\ SameSwaps(w, x1)
  BY ExchangeBufsType
<1>5. x => x2 \in World /\ SameSwaps(x1, x2)
  <2> HIDE DEF x1
  <2> QED BY <1>3, <1>4, NextBufferType
<1>6. w1 \in World /\ SameSwaps(w, w1)
  <2> HIDE DEF x1, x2
  <2> QED BY <1>4, <1>5 DEF SameSwaps
<1> HIDE DEF w1
<1>7. w1.cmd = w.cmd /\ w1.pending = w.pending /\ w1.priv = w.priv
  BY <1>6 DEF SameSwaps
<1>8. /\ q \in CmdRec /\ q.draw = c.draw /\ q.src = c.src /\ q.dst = c.dst
      /\ q.count = c.count
  BY <1>2, <1>7 DEF CmdRec
<1> HIDE DEF q
<1>9. f \in [Cmd -> CmdRec] /\ f[k] = q
  BY <1>6, <1>8, WorldFields
<1>10. [f EXCEPT ![k] = NoCmdRec] = [w.cmd EXCEPT ![k] = NoCmdRec]
  BY <1>7, <1>9, WorldFields
<1> HIDE DEF f
<1>11. /\ w2 \in World /\ w2.cmd = f /\ w2.pending = w1.pending
       /\ w2.priv = w1.priv
  BY <1>6, <1>9 DEF World
<1> HIDE DEF w2
<1>12. ~(w2.cmd[k].count > 1)
  BY <1>2, <1>8, <1>9, <1>11, CmdFields
<1>13. /\ v \in World
       /\ SameBuffers(w2, v)
       /\ v.cmd = [w2.cmd EXCEPT ![k] = NoCmdRec]
       /\ v.pending = w2.pending - 1
  BY <1>8, <1>9, <1>11, <1>12, SwapCompleteType
<1> HIDE DEF v
<1>14. SameBuffers(w, v)
  BY <1>7, <1>11, <1>13 DEF SameBuffers
<1> QED BY <1>1, <1>7, <1>10, <1>11, <1>13, <1>14

\* ARMSOCDRI2ReferenceBuffer keeps a world a world and touches no swap.
LEMMA ReferenceBufferType ==
  ASSUME NEW w \in World, NEW b \in Buf
  PROVE  LET v == ReferenceBuffer(w, b)
         IN  /\ v \in World /\ SameSwaps(w, v) /\ v.mem = w.mem
<1> DEFINE r == [w.buf[b] EXCEPT !.ref = @ + 1]
           f == [w.buf EXCEPT ![b] = r]
<1>1. ReferenceBuffer(w, b) = [w EXCEPT !.buf = f]
  BY DEF ReferenceBuffer
<1>2. r \in BufRec
  BY WorldFields, BufUpdates
<1> HIDE DEF r
<1>3. f \in [Buf -> BufRec]
  BY <1>2, WorldFields, Update
<1> HIDE DEF f
<1> QED BY <1>1, <1>3 DEF World, SameSwaps

\* ARMSOCDRI2ScheduleSwap takes a command and raises pending_flips before it
\* decides how to swap.
LEMMA PrepareSwapType ==
  ASSUME NEW w \in World, NEW d \in Draw, NEW k \in Cmd,
         w.priv[d].back \in Buf, w.priv[d].front \in Buf
  PROVE  LET v == PrepareSwap(w, d, k)
         IN  /\ v \in World
             /\ SameBuffers(w, v)
             /\ v.pending = w.pending + 1
             /\ v.cmd = [w.cmd EXCEPT ![k] = v.cmd[k]]
             /\ v.cmd[k].live /\ v.cmd[k].draw = d /\ v.cmd[k].count = 0
             /\ v.cmd[k].src \in Buf /\ v.cmd[k].dst \in Buf
             /\ v.cmd[k].type = "none"
<1> DEFINE s == w.priv[d].back
           t == w.priv[d].front
           sbo == BoFromBuffer(w, s)
           tbo == BoFromBuffer(w, t)
           ws == ReferenceBuffer(w, s)
           wt == ReferenceBuffer(ws, t)
           m1 == BoRef(wt.mem, sbo)
           m == BoRef(m1, tbo)
           c == [NoCmdRec EXCEPT !.live = TRUE, !.draw = d, !.src = s, !.dst = t,
                                 !.oldSrc = sbo, !.oldDst = tbo]
           h == [wt.cmd EXCEPT ![k] = c]
           p == wt.pending + 1
           i == wt.priv[d].swaps + 1
           w1 == [wt EXCEPT !.priv[d].swaps = i]
           v == [w1 EXCEPT !.pending = p, !.mem = m, !.cmd = h]
<1>1. ws \in World /\ SameSwaps(w, ws)
  BY ReferenceBufferType
<1>2. wt \in World /\ SameSwaps(ws, wt)
  <2> HIDE DEF ws
  <2> QED BY <1>1, ReferenceBufferType
<1>3. SameSwaps(w, wt)
  BY <1>1, <1>2 DEF SameSwaps
<1>4. sbo \in Bo \cup {NoBo} /\ tbo \in Bo \cup {NoBo}
  BY BoFromBufferType
<1>5. PrepareSwap(w, d, k) = [wt EXCEPT !.pending = p, !.priv[d].swaps = i,
                                        !.mem = m, !.cmd = h]
  BY DEF PrepareSwap
<1> HIDE DEF ws, wt, s, t, sbo, tbo
<1>6. m \in Mem
  <2>1. m1 \in Mem
    BY <1>2, WorldFields, BoRefType
  <2> HIDE DEF m1
  <2> QED BY <2>1, BoRefType
<1>7. s \in Buf /\ t \in Buf
  BY DEF s, t
<1>8. /\ c \in CmdRec /\ c.live /\ c.draw = d /\ c.src = s /\ c.dst = t
      /\ c.count = 0 /\ c.type = "none"
  <2>1. NoCmdRec.count = 0 /\ NoCmdRec.type = "none"
    BY DEF NoCmdRec
  <2> QED BY <1>4, <1>7, <2>1, NoCmdRecType DEF CmdRec
<1> HIDE DEF m, c
<1>9. h \in [Cmd -> CmdRec] /\ h[k] = c /\ h = [wt.cmd EXCEPT ![k] = h[k]]
  BY <1>2, <1>8, WorldFields
<1>10. p \in Int /\ i \in Int
  BY <1>2, WorldFields, PrivFields
<1> HIDE DEF h, p, i
<1>11. w1 \in World /\ SameBuffers(wt, w1)
  BY <1>2, <1>10, CountType
<1>12. PrepareSwap(w, d, k) = v
  BY <1>5
<1> HIDE DEF w1
<1>13. v \in World /\ v.cmd = h /\ v.pending = p /\ v.priv = w1.priv
  BY <1>6, <1>9, <1>10, <1>11 DEF World
<1> HIDE DEF v
<1>14. SameBuffers(w, v)
  BY <1>3, <1>11, <1>13 DEF SameBuffers, SameSwaps
<1> QED BY <1>3, <1>7, <1>8, <1>9, <1>12, <1>13, <1>14 DEF p, SameSwaps

\* drmmode_page_flip changes one command, which then counts the CRTCs that
\* accepted the flip.
LEMMA StartFlipType ==
  ASSUME NEW w \in World, NEW k \in Cmd, NEW S \in SUBSET Crtc
  PROVE  LET v == StartFlip(w, k, S)
         IN  /\ v \in World
             /\ SameBuffers(w, v)
             /\ v.pending = w.pending
             /\ v.cmd = [w.cmd EXCEPT ![k] = v.cmd[k]]
             /\ v.cmd[k].live = w.cmd[k].live /\ v.cmd[k].draw = w.cmd[k].draw
             /\ v.cmd[k].src = w.cmd[k].src /\ v.cmd[k].dst = w.cmd[k].dst
             /\ v.cmd[k].count = Cardinality(S)
<1> DEFINE n == Cardinality(S)
           c == [w.cmd[k] EXCEPT !.type = "flip", !.fail = S # crtcOn,
                                 !.fake = crtcOn = {}, !.count = n]
           f == [w.cmd EXCEPT ![k] = c]
           h == [x \in Crtc |-> IF x \in S THEN w.cmd[k].oldSrc ELSE w.hw[x]]
           v == [w EXCEPT !.cmd = f, !.hw = h]
<1>1. StartFlip(w, k, S) = v
  BY DEF StartFlip
<1>2. n \in Int
  BY SwapAssumption, FS_Subset, FS_CardinalityType
<1>3. w.cmd[k] \in CmdRec /\ w.cmd[k].oldSrc \in Bo \cup {NoBo}
  BY WorldFields, CmdFields
<1>4. h \in [Crtc -> Bo \cup {NoBo}]
  BY <1>3, WorldFields
<1> HIDE DEF n, h
<1>5. /\ c \in CmdRec /\ c.live = w.cmd[k].live /\ c.draw = w.cmd[k].draw
      /\ c.src = w.cmd[k].src /\ c.dst = w.cmd[k].dst /\ c.count = n
  BY <1>2, <1>3 DEF CmdRec
<1> HIDE DEF c
<1>6. f \in [Cmd -> CmdRec] /\ f[k] = c /\ f = [w.cmd EXCEPT ![k] = f[k]]
  BY <1>5, WorldFields
<1> HIDE DEF f
<1>7. v \in World /\ v.cmd = f /\ v.pending = w.pending /\ v.priv = w.priv
  BY <1>4, <1>6 DEF World
<1> HIDE DEF v
<1> QED BY <1>1, <1>5, <1>6, <1>7 DEF SameBuffers, n

-----------------------------------------------------------------------------

\* drmmode_set_mode_major touches no swap.
LEMMA SetModeType ==
  ASSUME NEW w \in World, NEW S, NEW ch \in Choices
  PROVE  LET v == SetMode(w, S, ch)
         IN  /\ v \in World
             /\ v.cmd = w.cmd /\ v.pending = w.pending /\ v.priv = w.priv
<1> DEFINE has == w.mem.fb[w.scanout]
           add == ~has /\ S # {} /\ ch.fb
           m == IF add THEN AddFb(w.mem, w.scanout) ELSE w.mem
           h == [c \in Crtc |-> IF c \in S /\ (has \/ add) THEN w.scanout ELSE w.hw[c]]
           v == [w EXCEPT !.mem = m, !.hw = h]
<1>1. SetMode(w, S, ch) = v
  BY DEF SetMode
<1>2. m \in Mem
  BY WorldFields, AddFbType
<1>3. h \in [Crtc -> Bo \cup {NoBo}]
  BY WorldFields
<1> HIDE DEF m, h
<1> QED BY <1>1, <1>2, <1>3 DEF World

\* resize_scanout_bo keeps a world a world and touches no swap.
LEMMA ResizeScanoutType ==
  ASSUME NEW w \in World, NEW s \in Size, NEW ch \in Choices
  PROVE  LET v == ResizeScanout(w, s, ch).w
         IN  v \in World /\ SameSwaps(w, v)
<1> DEFINE old == w.scanout
           new == Pick(FreeBo(w))
           m0  == NewBo(w.mem, new, s)
           m1  == AddFb(m0, new)
           w0  == [w EXCEPT !.mem = m1]
           w1  == SetScanoutBo(w0, new)
           w2  == [w1 EXCEPT !.mem = BoUnref(w1.mem, new)]
           m2  == RmFb(w.mem, old)
           fit == s <= w.mem.cap[old]
           m3  == IF fit THEN ResizeBo(m2, old, s) ELSE m2
           m4  == IF ch.fb THEN AddFb(m3, old) ELSE m3
           v   == ResizeScanout(w, s, ch).w
<1>1. \/ v = w
      \/ FreeBo(w) # {} /\ v = w2
      \/ v = [w EXCEPT !.mem = m4]
  BY DEF ResizeScanout
<1>2. FreeBo(w) # {} => w2 \in World /\ SameSwaps(w, w2)
  <2> SUFFICES ASSUME FreeBo(w) # {} PROVE w2 \in World /\ SameSwaps(w, w2)
    OBVIOUS
  <2>1. new \in Bo
    BY PickIn DEF FreeBo
  <2>2. m0 \in Mem
    BY WorldFields, NewBoType
  <2>3. m1 \in Mem
    <3> HIDE DEF m0
    <3> QED BY <2>2, AddFbType
  <2> HIDE DEF m1, new
  <2>4. w0 \in World /\ SameSwaps(w, w0)
    BY <2>3, SetMem
  <2> HIDE DEF w0
  <2>5. w1 \in World /\ SameSwaps(w0, w1)
    BY <2>1, <2>4, SetScanoutBoType
  <2> HIDE DEF w1
  <2>6. BoUnref(w1.mem, new) \in Mem
    BY <2>5, WorldFields, BoUnrefType
  <2>7. w2 \in World /\ SameSwaps(w1, w2)
    BY <2>5, <2>6, SetMem
  <2> HIDE DEF w2
  <2> QED BY <2>4, <2>5, <2>7 DEF SameSwaps
<1>3. [w EXCEPT !.mem = m4] \in World /\ SameSwaps(w, [w EXCEPT !.mem = m4])
  <2>1. m2 \in Mem
    BY WorldFields, RmFbType
  <2> HIDE DEF m2
  <2>2. m3 \in Mem
    BY <2>1, ResizeBoType
  <2> HIDE DEF m3
  <2>3. m4 \in Mem
    BY <2>2, AddFbType
  <2> HIDE DEF m4
  <2> QED BY <2>3, SetMem
<1>4. SameSwaps(w, w)
  BY DEF SameSwaps
<1> HIDE DEF v, w2, m4
<1> QED BY <1>1, <1>2, <1>3, <1>4 DEF v

\* drmmode_xf86crtc_resize keeps a world a world; the windows keep their
\* buffers.
LEMMA ResizeScreenType ==
  ASSUME NEW w \in World, NEW s \in Size, NEW ch \in Choices
  PROVE  LET v == ResizeScreen(w, s, ch)
         IN  /\ v \in World
             /\ v.cmd = w.cmd /\ v.pending = w.pending
             /\ SameBuffers(w, v)
<1> DEFINE res == ResizeScanout(w, s, ch)
           x == res.w
           m == WrapScanout(x.mem, Root, x.scanout)
           f == [d \in Draw |-> [w.priv[d] EXCEPT !.fresh = @ /\ win[d] # Root]]
           w1 == [x EXCEPT !.mem = m, !.priv = f]
           w2 == SetMode(w1, crtcOn, ch)
<1>1. x \in World /\ SameSwaps(w, x)
  BY ResizeScanoutType
<1>2. ResizeScreen(w, s, ch) = IF res.ok THEN w2 ELSE x
  BY DEF ResizeScreen
<1> HIDE DEF x
<1>3. m \in Mem
  BY <1>1, WorldFields, WrapScanoutType
<1>4. /\ f \in [Draw -> PrivRec]
      /\ \A d \in Draw : f[d].back = w.priv[d].back /\ f[d].front = w.priv[d].front
  <2> SUFFICES ASSUME NEW d \in Draw
               PROVE  LET q == [w.priv[d] EXCEPT !.fresh = @ /\ win[d] # Root]
                      IN  /\ q \in PrivRec /\ q.back = w.priv[d].back
                          /\ q.front = w.priv[d].front
    OBVIOUS
  <2>1. w.priv[d] \in PrivRec
    BY WorldFields
  <2> QED BY <2>1 DEF PrivRec
<1> HIDE DEF m, f
<1>5. w1 \in World /\ w1.cmd = x.cmd /\ w1.pending = x.pending /\ w1.priv = f
  BY <1>1, <1>3, <1>4 DEF World
<1> HIDE DEF w1
<1>6. w2 \in World /\ w2.cmd = w1.cmd /\ w2.pending = w1.pending /\ w2.priv = w1.priv
  BY <1>5, SetModeType
<1> HIDE DEF w2
<1>7. SameBuffers(w, w2) /\ SameBuffers(w, x)
  BY <1>1, <1>4, <1>5, <1>6 DEF SameBuffers, SameSwaps
<1> QED BY <1>1, <1>2, <1>5, <1>6, <1>7 DEF SameSwaps
-----------------------------------------------------------------------------
(* The inductive invariant *)

\* There is a scanout bo until ARMSOCCloseScreen has released it.
ScreenHasBo == phase # "closed" => scanout \in Bo

\* A command names a window and two buffers.
Whole(c) == c.draw \in Draw /\ c.src \in Buf /\ c.dst \in Buf

\* That holds of every command in flight.
CommandsWhole == \A k \in Cmd : cmd[k].live => Whole(cmd[k])

\* The core has both buffers of a window or none.
BuffersPaired ==
  \A d \in Draw : priv[d].back = NoBuf <=> priv[d].front = NoBuf

\* What the handlers need to keep the types.
TypeInv == TypeOK /\ ScreenHasBo /\ CommandsWhole /\ BuffersPaired

\* The CRTCs that still have to report the flip of k.
Flipping(k) == {c \in Crtc : flipEv[c] = k}

\* An event outstanding is that of a command in flight, and no command waits
\* for a vblank and for flips.
EventsBelong ==
  \A k \in Cmd :
    /\ k \in vblEv => cmd[k].live /\ Flipping(k) = {} /\ cmd[k].count = 0
    /\ Flipping(k) # {} => /\ cmd[k].live
                           /\ Cardinality(Flipping(k)) <= cmd[k].count

\* With the handlers of DRI2 in place every command in flight has its event.
NoneLost ==
  Handlers = "dri2" =>
    \A k \in Live :
      \/ k \in vblEv /\ cmd[k].type = "none"
      \/ Flipping(k) # {} /\ Cardinality(Flipping(k)) = cmd[k].count

\* The inductive invariant.
IInv == TypeInv /\ EventsBelong /\ NoneLost /\ PendingCountsCommands

-----------------------------------------------------------------------------
(* Every action keeps the types, and what it does to the commands. *)

\* While the screen exists the state is a world.
LEMMA WType ==
  ASSUME TypeInv, phase # "closed"
  PROVE  /\ W \in World
         /\ W.mem = mem /\ W.buf = buf /\ W.cmd = cmd /\ W.scanout = scanout
         /\ W.pending = pending /\ W.priv = priv /\ W.hw = hw
BY DEF TypeInv, TypeOK, ScreenHasBo, W, World

\* What is left to show of an action that applies v.
LEMMA ApplyType ==
  ASSUME NEW v \in World, Apply(v),
         \/ SameBuffers(W, v) /\ BuffersPaired
         \/ \A d \in Draw : v.priv[d].back = NoBuf <=> v.priv[d].front = NoBuf,
         \A k \in Cmd : v.cmd[k].live => Whole(v.cmd[k]),
         win' \in [Draw -> Pix \cup {NoPix}],
         top' \in Draw \cup {NoDraw},
         crtcOn' \subseteq Crtc,
         flipEv' \in [Crtc -> Cmd \cup {NoCmd}],
         vblEv' \subseteq Cmd,
         phase' \in {"up", "closing", "closed"}
  PROVE  TypeInv'
<1>1. Shown(v) \in [Crtc -> Bo \cup {NoBo}]
  BY WorldFields DEF Shown
<1>2. TypeOK'
  BY <1>1, WorldFields DEF TypeOK, Apply
<1>3. ScreenHasBo'
  BY WorldFields DEF ScreenHasBo, Apply
<1>4. CommandsWhole'
  BY DEF CommandsWhole, Whole, Apply
<1>5. BuffersPaired'
  BY DEF BuffersPaired, SameBuffers, Apply, W
<1> QED BY <1>2, <1>3, <1>4, <1>5 DEF TypeInv

\* Commands and events stay as they are.
SwapsUnchanged == UNCHANGED <<cmd, pending, flipEv, vblEv>>

\* DRI2GetBuffers keeps the types and touches no swap, whatever it allocates.
LEMMA GetBuffersStep ==
  ASSUME TypeInv, NEW d \in Draw, GetBuffers(d)
  PROVE  TypeInv' /\ SwapsUnchanged
<1>1. PICK ch \in Choices :
       LET pv   == priv[d]
           keep == pv.fresh /\ pv.back # NoBuf
           bk   == IF keep THEN [w |-> ReuseBufferNotify(W, d, pv.back, ch),
                                 b |-> pv.back]
                   ELSE CreateBuffer(W, d, "back", ch)
           w1   == DestroyBuffer(bk.w, pv.front)
           fr   == IF bk.b = NoBuf THEN [w |-> w1, b |-> NoBuf]
                   ELSE CreateBuffer(w1, d, "front", ch)
           all  == fr.b # NoBuf
           w2   == IF keep THEN fr.w ELSE DestroyBuffer(fr.w, pv.back)
           w3   == IF all THEN w2 ELSE DestroyBuffer(w2, bk.b)
       IN  Apply([w3 EXCEPT !.priv[d] =
                    [@ EXCEPT !.fresh = TRUE,
                              !.back  = IF all THEN bk.b ELSE NoBuf,
                              !.front = fr.b]])
  BY DEF GetBuffers
<1> DEFINE pv   == priv[d]
           keep == pv.fresh /\ pv.back # NoBuf
           cb   == CreateBuffer(W, d, "back", ch)
           bkw  == IF keep THEN ReuseBufferNotify(W, d, pv.back, ch) ELSE cb.w
           bkb  == IF keep THEN pv.back ELSE cb.b
           w1   == DestroyBuffer(bkw, pv.front)
           cf   == CreateBuffer(w1, d, "front", ch)
           frw  == IF bkb = NoBuf THEN w1 ELSE cf.w
           frb  == IF bkb = NoBuf THEN NoBuf ELSE cf.b
           all  == frb # NoBuf
           w2   == IF keep THEN frw ELSE DestroyBuffer(frw, pv.back)
           w3   == IF all THEN w2 ELSE DestroyBuffer(w2, bkb)
           q    == [w3.priv[d] EXCEPT !.fresh = TRUE,
                              !.back  = IF all THEN bkb ELSE NoBuf,
                              !.front = frb]
           f    == [w3.priv EXCEPT ![d] = q]
           v    == [w3 EXCEPT !.priv = f]
<1>2. Apply(v)
  BY <1>1
<1>3. phase # "closed" /\ win[d] \in Pix /\ win \in [Draw -> Pix \cup {NoPix}]
  BY DEF GetBuffers, Running, Unthrottled, TypeInv, TypeOK
<1>4. W \in World /\ W.priv = priv /\ W.cmd = cmd /\ W.pending = pending
  BY <1>3, WType
<1>5. pv \in PrivRec /\ pv.back \in Buf \cup {NoBuf} /\ pv.front \in Buf \cup {NoBuf}
  BY PrivFields DEF TypeInv, TypeOK
<1> HIDE DEF pv
<1>6. bkw \in World /\ SameSwaps(W, bkw) /\ bkb \in Buf \cup {NoBuf}
  BY <1>3, <1>4, <1>5, ReuseBufferNotifyType, CreateBufferType
<1> HIDE DEF bkw, bkb
<1>7. w1 \in World /\ SameSwaps(bkw, w1)
  BY <1>5, <1>6, DestroyBufferType
<1> HIDE DEF w1
<1>8. frw \in World /\ SameSwaps(w1, frw) /\ frb \in Buf \cup {NoBuf}
      /\ (bkb = NoBuf => frb = NoBuf)
  <2>1. SameSwaps(w1, w1)
    BY DEF SameSwaps
  <2> QED BY <1>3, <1>7, <2>1, CreateBufferType
<1> HIDE DEF frw, frb
<1>9. w2 \in World /\ SameSwaps(frw, w2)
  <2>1. SameSwaps(frw, frw)
    BY DEF SameSwaps
  <2> QED BY <1>5, <1>8, <2>1, DestroyBufferType
<1> HIDE DEF w2
<1>10. w3 \in World /\ SameSwaps(w2, w3)
  <2>1. SameSwaps(w2, w2)
    BY DEF SameSwaps
  <2> QED BY <1>6, <1>9, <2>1, DestroyBufferType
<1> HIDE DEF w3
<1>11. SameSwaps(W, w3)
  BY <1>6, <1>7, <1>8, <1>9, <1>10 DEF SameSwaps
<1>12. q \in PrivRec /\ (q.back = NoBuf <=> q.front = NoBuf)
  <2>1. w3.priv[d] \in PrivRec
    BY <1>10, WorldFields
  <2> QED BY <1>6, <1>8, <2>1 DEF PrivRec
<1> HIDE DEF q
<1>13. /\ f \in [Draw -> PrivRec]
       /\ \A e \in Draw : f[e].back = NoBuf <=> f[e].front = NoBuf
  BY <1>4, <1>10, <1>11, <1>12, WorldFields DEF SameSwaps, TypeInv, BuffersPaired
<1> HIDE DEF f
<1>14. v \in World /\ v.priv = f /\ v.cmd = w3.cmd /\ v.pending = w3.pending
  BY <1>10, <1>13 DEF World
<1> HIDE DEF v
<1>15. v.cmd = cmd /\ v.pending = pending
  BY <1>4, <1>11, <1>14 DEF SameSwaps
<1>16. TypeInv'
  BY <1>2, <1>13, <1>14, <1>15, ApplyType DEF GetBuffers, TypeInv, TypeOK, CommandsWhole
<1>17. cmd' = cmd /\ pending' = pending
  BY <1>2, <1>15 DEF Apply
<1> QED BY <1>16, <1>17 DEF SwapsUnchanged, GetBuffers
\* Command k, free until now, is in flight and waits for n flips.
Starts(k, n) == /\ cmd' = [cmd EXCEPT ![k] = cmd'[k]]
                /\ cmd'[k].live /\ cmd'[k].count = n
                /\ pending' = pending + 1

\* Command k is not in flight any more.
Ends(k) == cmd' = [cmd EXCEPT ![k] = NoCmdRec] /\ pending' = pending - 1

\* Command k has come and gone.
Passes(k) == cmd' = [cmd EXCEPT ![k] = NoCmdRec] /\ pending' = pending

\* ARMSOCDRI2ScheduleSwap finds a free command and two buffers.
LEMMA CanSwapStep ==
  ASSUME TypeInv, NEW d \in Draw, CanSwap(d)
  PROVE  LET k == Pick(FreeCmd)
             v == PrepareSwap(W, d, k)
         IN  /\ k \in Cmd /\ ~cmd[k].live
             /\ win \in [Draw -> Pix \cup {NoPix}]
             /\ v \in World
             /\ SameBuffers(W, v)
             /\ v.pending = pending + 1
             /\ v.cmd = [cmd EXCEPT ![k] = v.cmd[k]]
             /\ v.cmd[k].live /\ Whole(v.cmd[k])
             /\ v.cmd[k].count = 0 /\ v.cmd[k].type = "none"
<1> DEFINE k == Pick(FreeCmd)
<1>1. k \in FreeCmd
  BY PickIn DEF CanSwap
<1>2. k \in Cmd /\ ~cmd[k].live
  BY <1>1 DEF FreeCmd
<1>3. phase # "closed"
  BY DEF CanSwap, Running
<1>4. W.priv[d].back \in Buf /\ W.priv[d].front \in Buf
  <2>1. priv[d] \in PrivRec /\ priv[d].back # NoBuf /\ priv[d].front # NoBuf
    BY DEF CanSwap, TypeInv, TypeOK, BuffersPaired
  <2> QED BY <1>3, <2>1, WType, PrivFields
<1> HIDE DEF k
<1>5. LET v == PrepareSwap(W, d, k)
      IN  /\ v \in World
          /\ SameBuffers(W, v)
          /\ v.pending = W.pending + 1
          /\ v.cmd = [W.cmd EXCEPT ![k] = v.cmd[k]]
          /\ v.cmd[k].live /\ v.cmd[k].draw = d /\ v.cmd[k].count = 0
          /\ v.cmd[k].src \in Buf /\ v.cmd[k].dst \in Buf
          /\ v.cmd[k].type = "none"
  BY <1>2, <1>3, <1>4, WType, PrepareSwapType
<1> DEFINE v == PrepareSwap(W, d, k)
<1> HIDE DEF v
<1>6. /\ v \in World
      /\ SameBuffers(W, v)
      /\ v.pending = pending + 1
      /\ v.cmd = [cmd EXCEPT ![k] = v.cmd[k]]
      /\ v.cmd[k].live /\ Whole(v.cmd[k])
      /\ v.cmd[k].count = 0 /\ v.cmd[k].type = "none"
  BY <1>3, <1>5, WType DEF v, Whole
<1>7. win \in [Draw -> Pix \cup {NoPix}]
  BY DEF TypeInv, TypeOK
<1> QED BY <1>2, <1>6, <1>7 DEF v, k

\* Applying v, which differs from W in command k only.
LEMMA ApplySwap ==
  ASSUME TypeInv, NEW k \in Cmd, NEW v \in World, Apply(v),
         SameBuffers(W, v),
         v.cmd = [cmd EXCEPT ![k] = v.cmd[k]],
         v.cmd[k].live => Whole(v.cmd[k]),
         UNCHANGED <<win, top, crtcOn, phase>>,
         flipEv' \in [Crtc -> Cmd \cup {NoCmd}],
         vblEv' \subseteq Cmd
  PROVE  TypeInv' /\ cmd' = v.cmd /\ pending' = v.pending
<1>1. cmd' = v.cmd /\ pending' = v.pending
  BY DEF Apply
<1>2. \A j \in Cmd : v.cmd[j].live => Whole(v.cmd[j])
  BY DEF TypeInv, TypeOK, CommandsWhole
<1>3. TypeInv'
  BY <1>2, ApplyType DEF TypeInv, TypeOK
<1> QED BY <1>1, <1>3

\* A swap by page flip takes a free command and gives its event to the CRTCs
\* that accepted; if none did, the command is finished at once.
LEMMA SwapByFlipStep ==
  ASSUME TypeInv, NEW d \in Draw, SwapByFlip(d)
  PROVE  /\ TypeInv'
         /\ vblEv' = vblEv
         /\ \E k \in Cmd, S \in SUBSET Crtc :
              /\ ~cmd[k].live
              /\ \A c \in S : flipEv[c] = NoCmd
              /\ flipEv' = [c \in Crtc |-> IF c \in S THEN k ELSE flipEv[c]]
              /\ IF S = {} THEN Passes(k) ELSE Starts(k, Cardinality(S))
<1>1. PICK ch \in Choices,
              bad \in SUBSET (IF "flipfail" \in Env THEN crtcOn ELSE {}) :
         LET k  == Pick(FreeCmd)
             S  == {c \in crtcOn \ bad : flipEv[c] = NoCmd}
             w1 == StartFlip(PrepareSwap(W, d, k), k, S)
             w2 == IF S = {} THEN SwapComplete(w1, k, ch) ELSE w1
         IN  /\ Apply(IF S = crtcOn THEN w2
                      ELSE [w2 EXCEPT !.priv[d].swaps = @ - 1])
             /\ flipEv' = [c \in Crtc |-> IF c \in S THEN k ELSE flipEv[c]]
  BY DEF SwapByFlip
<1> DEFINE k  == Pick(FreeCmd)
           S  == {c \in crtcOn \ bad : flipEv[c] = NoCmd}
           w0 == PrepareSwap(W, d, k)
           w1 == StartFlip(w0, k, S)
           wc == SwapComplete(w1, k, ch)
           w2 == IF S = {} THEN wc ELSE w1
           i  == w2.priv[d].swaps - 1
           w3 == [w2 EXCEPT !.priv[d].swaps = i]
           v  == IF S = crtcOn THEN w2 ELSE w3
<1>2. Apply(v) /\ flipEv' = [c \in Crtc |-> IF c \in S THEN k ELSE flipEv[c]]
  BY <1>1
<1>3. S \in SUBSET Crtc /\ \A c \in S : flipEv[c] = NoCmd
  BY DEF TypeInv, TypeOK
<1> HIDE DEF S
<1>4. /\ k \in Cmd /\ ~cmd[k].live
      /\ win \in [Draw -> Pix \cup {NoPix}]
      /\ w0 \in World /\ SameBuffers(W, w0) /\ w0.pending = pending + 1
      /\ w0.cmd = [cmd EXCEPT ![k] = w0.cmd[k]]
      /\ w0.cmd[k].live /\ Whole(w0.cmd[k])
  BY CanSwapStep DEF SwapByFlip
<1> HIDE DEF k, w0
<1>5. /\ w1 \in World
      /\ SameBuffers(w0, w1)
      /\ w1.pending = w0.pending
      /\ w1.cmd = [w0.cmd EXCEPT ![k] = w1.cmd[k]]
      /\ w1.cmd[k].live /\ Whole(w1.cmd[k])
      /\ w1.cmd[k].count = Cardinality(S)
  <2>1. /\ w1 \in World
        /\ SameBuffers(w0, w1)
        /\ w1.pending = w0.pending
        /\ w1.cmd = [w0.cmd EXCEPT ![k] = w1.cmd[k]]
        /\ w1.cmd[k].live = w0.cmd[k].live
        /\ w1.cmd[k].draw = w0.cmd[k].draw
        /\ w1.cmd[k].src = w0.cmd[k].src /\ w1.cmd[k].dst = w0.cmd[k].dst
        /\ w1.cmd[k].count = Cardinality(S)
    <3>1. w0 \in World /\ k \in Cmd /\ S \in SUBSET Crtc
      BY <1>3, <1>4
    <3> QED BY <3>1, StartFlipType
  <2> HIDE DEF w1
  <2> QED BY <1>4, <2>1 DEF Whole
<1> HIDE DEF w1
<1>6. w1.cmd = [cmd EXCEPT ![k] = w1.cmd[k]]
  BY <1>4, <1>5 DEF TypeInv, TypeOK
<1>7. S = {} => /\ wc \in World
                /\ SameBuffers(w1, wc)
                /\ wc.cmd = [w1.cmd EXCEPT ![k] = NoCmdRec]
                /\ wc.pending = w1.pending - 1
  <2> SUFFICES ASSUME S = {}
               PROVE  /\ wc \in World
                      /\ SameBuffers(w1, wc)
                      /\ wc.cmd = [w1.cmd EXCEPT ![k] = NoCmdRec]
                      /\ wc.pending = w1.pending - 1
    OBVIOUS
  <2>1. w1.cmd[k].count = 0
    BY <1>5, FS_EmptySet
  <2>2. ~(w1.cmd[k].count > 1)
    BY <2>1
  <2>3. w1.cmd[k].draw \in Draw /\ w1.cmd[k].src \in Buf /\ w1.cmd[k].dst \in Buf
    BY <1>5 DEF Whole
  <2>4. /\ wc \in World
        /\ SameBuffers(w1, wc)
        /\ IF w1.cmd[k].count > 1
           THEN /\ wc.cmd = [w1.cmd EXCEPT ![k].count = @ - 1]
                /\ wc.pending = w1.pending
           ELSE /\ wc.cmd = [w1.cmd EXCEPT ![k] = NoCmdRec]
                /\ wc.pending = w1.pending - 1
    BY <1>4, <1>5, <2>3, SwapCompleteType
  <2> HIDE DEF wc
  <2> QED BY <2>2, <2>4
<1> HIDE DEF wc
<1>8. /\ w2 \in World /\ SameBuffers(W, w2)
      /\ w2.cmd = [cmd EXCEPT ![k] = w2.cmd[k]]
      /\ w2.cmd[k].live => Whole(w2.cmd[k])
      /\ IF S = {} THEN /\ w2.cmd = [cmd EXCEPT ![k] = NoCmdRec]
                        /\ w2.pending = pending
                   ELSE /\ w2.cmd[k].live /\ w2.cmd[k].count = Cardinality(S)
                        /\ w2.pending = pending + 1
  <2>1. pending \in Int /\ cmd \in [Cmd -> CmdRec] /\ ~NoCmdRec.live
    BY DEF TypeInv, TypeOK, NoCmdRec
  <2>2. SameBuffers(W, w1)
    BY <1>4, <1>5 DEF SameBuffers
  <2>3. CASE S = {}
    <3>1. wc.cmd = [cmd EXCEPT ![k] = NoCmdRec]
      BY <1>6, <1>7, <2>1, <2>3
    <3>2. SameBuffers(W, wc)
      BY <1>7, <2>2, <2>3 DEF SameBuffers
    <3>3. wc.cmd[k] = NoCmdRec
      BY <1>4, <2>1, <3>1
    <3>4. wc.pending = pending
      BY <1>4, <1>5, <1>7, <2>1, <2>3
    <3>5. w2 = wc
      BY <2>3
    <3> HIDE DEF w2
    <3> QED BY <1>7, <2>1, <2>3, <3>1, <3>2, <3>3, <3>4, <3>5
  <2>4. CASE S # {}
    BY <1>4, <1>5, <1>6, <2>2, <2>4
  <2> QED BY <2>3, <2>4
<1> HIDE DEF w2
<1>9. /\ w3 \in World /\ w3.cmd = w2.cmd /\ w3.pending = w2.pending
      /\ SameBuffers(w2, w3)
  <2>1. i \in Int
    BY <1>8, WorldFields, PrivFields
  <2> HIDE DEF i
  <2> QED BY <1>8, <2>1, CountType
<1> HIDE DEF w3
<1>10. /\ v \in World /\ v.cmd = w2.cmd /\ v.pending = w2.pending
       /\ SameBuffers(W, v)
  BY <1>8, <1>9 DEF SameBuffers
<1> HIDE DEF v
<1>11. flipEv' \in [Crtc -> Cmd \cup {NoCmd}]
  BY <1>2, <1>4 DEF TypeInv, TypeOK
<1>12. TypeInv' /\ cmd' = v.cmd /\ pending' = v.pending
  <2>1. UNCHANGED <<win, top, crtcOn, phase>> /\ vblEv' \subseteq Cmd
    BY DEF SwapByFlip, TypeInv, TypeOK
  <2> QED BY <1>2, <1>4, <1>8, <1>10, <1>11, <2>1, ApplySwap
<1>13. IF S = {} THEN Passes(k) ELSE Starts(k, Cardinality(S))
  BY <1>8, <1>10, <1>12 DEF Passes, Starts
<1> QED BY <1>2, <1>3, <1>4, <1>12, <1>13 DEF SwapByFlip

\* A swap at the next vblank takes a free command and queues its event.
LEMMA SwapAtVblankStep ==
  ASSUME TypeInv, NEW d \in Draw, SwapAtVblank(d)
  PROVE  /\ TypeInv'
         /\ flipEv' = flipEv
         /\ \E k \in Cmd : /\ ~cmd[k].live
                           /\ Starts(k, 0) /\ cmd'[k].type = "none"
                           /\ vblEv' = vblEv \cup {k}
<1> DEFINE k == Pick(FreeCmd)
           v == PrepareSwap(W, d, k)
<1>1. Apply(v) /\ vblEv' = vblEv \cup {k}
  BY DEF SwapAtVblank
<1>2. /\ k \in Cmd /\ ~cmd[k].live
      /\ v \in World /\ SameBuffers(W, v) /\ v.pending = pending + 1
      /\ v.cmd = [cmd EXCEPT ![k] = v.cmd[k]]
      /\ v.cmd[k].live /\ Whole(v.cmd[k])
      /\ v.cmd[k].count = 0 /\ v.cmd[k].type = "none"
  BY CanSwapStep DEF SwapAtVblank
<1> HIDE DEF k, v
<1>3. TypeInv' /\ cmd' = v.cmd /\ pending' = v.pending
  BY <1>1, <1>2, ApplySwap DEF SwapAtVblank, TypeInv, TypeOK
<1>4. Starts(k, 0) /\ cmd'[k].type = "none"
  BY <1>2, <1>3 DEF Starts
<1> QED BY <1>1, <1>2, <1>3, <1>4 DEF SwapAtVblank

\* A swap that cannot wait for a vblank is finished at once.
LEMMA SwapNowStep ==
  ASSUME TypeInv, NEW d \in Draw, SwapNow(d)
  PROVE  /\ TypeInv'
         /\ flipEv' = flipEv /\ vblEv' = vblEv
         /\ \E k \in Cmd : ~cmd[k].live /\ Passes(k)
<1> DEFINE k == Pick(FreeCmd)
           w == PrepareSwap(W, d, k)
<1>1. PICK ch \in Choices : Apply(ExecuteSwap(w, k, ch))
  BY DEF SwapNow
<1> DEFINE v == ExecuteSwap(w, k, ch)
<1>2. /\ k \in Cmd /\ ~cmd[k].live
      /\ win \in [Draw -> Pix \cup {NoPix}]
      /\ w \in World /\ SameBuffers(W, w) /\ w.pending = pending + 1
      /\ w.cmd = [cmd EXCEPT ![k] = w.cmd[k]]
      /\ w.cmd[k].live /\ Whole(w.cmd[k])
      /\ w.cmd[k].count = 0
  BY CanSwapStep DEF SwapNow
<1> HIDE DEF k, w
<1>3. /\ v \in World /\ SameBuffers(w, v)
      /\ v.cmd = [w.cmd EXCEPT ![k] = NoCmdRec]
      /\ v.pending = w.pending - 1
  BY <1>2, ExecuteSwapType DEF Whole
<1>4. Apply(v)
  BY <1>1
<1> HIDE DEF v
<1>5. /\ v.cmd = [cmd EXCEPT ![k] = NoCmdRec] /\ v.pending = pending
      /\ v.cmd = [cmd EXCEPT ![k] = v.cmd[k]] /\ ~v.cmd[k].live
      /\ SameBuffers(W, v)
  <2>1. cmd \in [Cmd -> CmdRec] /\ pending \in Int /\ ~NoCmdRec.live
    BY DEF TypeInv, TypeOK, NoCmdRec
  <2>2. v.cmd = [cmd EXCEPT ![k] = NoCmdRec]
    BY <1>2, <1>3, <2>1
  <2>3. v.cmd[k] = NoCmdRec
    BY <1>2, <2>1, <2>2
  <2>4. v.pending = pending
    BY <1>2, <1>3, <2>1
  <2>5. SameBuffers(W, v)
    BY <1>2, <1>3 DEF SameBuffers
  <2> QED BY <2>1, <2>2, <2>3, <2>4, <2>5
<1>6. TypeInv' /\ cmd' = v.cmd /\ pending' = v.pending
  BY <1>2, <1>3, <1>4, <1>5, ApplySwap DEF SwapNow, TypeInv, TypeOK
<1> QED BY <1>2, <1>5, <1>6 DEF SwapNow, Passes

\* Command k waits for one flip less.
CountsDown(k) == cmd' = [cmd EXCEPT ![k].count = @ - 1] /\ pending' = pending

\* page_flip_handler of DRI2 counts down or ends the command of the event; the
\* one of Present leaves it as it is.
LEMMA FlipEventStep ==
  ASSUME TypeInv, EventsBelong, NEW c \in Crtc, FlipEvent(c)
  PROVE  /\ TypeInv'
         /\ flipEv[c] \in Cmd
         /\ flipEv' = [flipEv EXCEPT ![c] = NoCmd]
         /\ vblEv' = vblEv
         /\ IF Handlers # "dri2" THEN UNCHANGED <<cmd, pending>>
            ELSE IF cmd[flipEv[c]].count > 1 THEN CountsDown(flipEv[c])
            ELSE Ends(flipEv[c])
<1> DEFINE k == flipEv[c]
<1>1. /\ k \in Cmd /\ flipEv' = [flipEv EXCEPT ![c] = NoCmd] /\ vblEv' = vblEv
      /\ phase # "closed" /\ UNCHANGED <<win, top, crtcOn, phase>>
      /\ flipEv' \in [Crtc -> Cmd \cup {NoCmd}]
  BY DEF FlipEvent, ReadFlipEvent, TypeInv, TypeOK
<1>2. CASE Handlers # "dri2"
  <2>1. UNCHANGED <<mem, buf, cmd, scanout, pending, priv, hw>>
    BY <1>2 DEF FlipEvent
  <2>2. TypeInv'
    BY <1>1, <2>1 DEF TypeInv, TypeOK, ScreenHasBo, CommandsWhole, Whole, BuffersPaired
  <2> QED BY <1>1, <1>2, <2>1, <2>2
<1>3. CASE Handlers = "dri2"
  <2>1. PICK ch \in Choices : Apply(SwapComplete(W, k, ch))
    BY <1>3 DEF FlipEvent
  <2> DEFINE v == SwapComplete(W, k, ch)
  <2>2. /\ W \in World /\ W.cmd = cmd /\ W.pending = pending
        /\ win \in [Draw -> Pix \cup {NoPix}] /\ cmd \in [Cmd -> CmdRec]
    BY <1>1, WType DEF TypeInv, TypeOK
  <2>3. cmd[k].live /\ Whole(cmd[k])
    BY <1>1 DEF EventsBelong, Flipping, TypeInv, CommandsWhole
  <2>4. W.cmd[k].draw \in Draw /\ W.cmd[k].src \in Buf /\ W.cmd[k].dst \in Buf
    BY <2>2, <2>3 DEF Whole
  <2>5. /\ v \in World
        /\ SameBuffers(W, v)
        /\ IF W.cmd[k].count > 1
           THEN /\ v.cmd = [W.cmd EXCEPT ![k].count = @ - 1]
                /\ v.pending = W.pending
           ELSE /\ v.cmd = [W.cmd EXCEPT ![k] = NoCmdRec]
                /\ v.pending = W.pending - 1
    BY <1>1, <2>2, <2>4, SwapCompleteType
  <2>6. Apply(v)
    BY <2>1
  <2> HIDE DEF k, v
  <2>7. v.cmd = [cmd EXCEPT ![k] = v.cmd[k]] /\ (v.cmd[k].live => Whole(v.cmd[k]))
    <3>1. CASE cmd[k].count > 1
      <4>1. v.cmd = [cmd EXCEPT ![k].count = @ - 1]
        BY <2>2, <2>5, <3>1
      <4>2. cmd[k] \in CmdRec
        BY <1>1, <2>2
      <4>3. Whole([cmd[k] EXCEPT !.count = @ - 1])
        BY <2>3, <4>2 DEF Whole, CmdRec
      <4> QED BY <1>1, <2>2, <4>1, <4>3
    <3>2. CASE ~(cmd[k].count > 1)
      <4>1. v.cmd = [cmd EXCEPT ![k] = NoCmdRec]
        BY <2>2, <2>5, <3>2
      <4> QED BY <1>1, <2>2, <4>1 DEF NoCmdRec
    <3> QED BY <3>1, <3>2
  <2>8. TypeInv' /\ cmd' = v.cmd /\ pending' = v.pending
    BY <1>1, <2>5, <2>6, <2>7, ApplySwap DEF TypeInv, TypeOK
  <2>9. IF cmd[k].count > 1 THEN CountsDown(k) ELSE Ends(k)
    BY <2>2, <2>5, <2>8 DEF CountsDown, Ends
  <2> QED BY <1>1, <1>3, <2>8, <2>9 DEF k
<1> QED BY <1>2, <1>3

\* vblank_handler of DRI2 ends the command of the event; the one of Present
\* leaves it as it is.
LEMMA VBlankEventStep ==
  ASSUME TypeInv, EventsBelong, NEW k \in Cmd, VBlankEvent(k)
  PROVE  /\ TypeInv'
         /\ k \in vblEv
         /\ flipEv' = flipEv
         /\ vblEv' = vblEv \ {k}
         /\ IF Handlers = "dri2" THEN Ends(k) ELSE UNCHANGED <<cmd, pending>>
<1>1. /\ k \in vblEv /\ vblEv' = vblEv \ {k} /\ flipEv' = flipEv
      /\ phase # "closed" /\ UNCHANGED <<win, top, crtcOn, phase>>
      /\ vblEv' \subseteq Cmd
  BY DEF VBlankEvent, ReadVBlankEvent, TypeInv, TypeOK
<1>2. CASE Handlers # "dri2"
  <2>1. UNCHANGED <<mem, buf, cmd, scanout, pending, priv, hw>>
    BY <1>2 DEF VBlankEvent
  <2>2. TypeInv'
    BY <1>1, <2>1 DEF TypeInv, TypeOK, ScreenHasBo, CommandsWhole, Whole, BuffersPaired
  <2> QED BY <1>1, <1>2, <2>1, <2>2
<1>3. CASE Handlers = "dri2"
  <2>1. PICK ch \in Choices : Apply(ExecuteSwap(W, k, ch))
    BY <1>3 DEF VBlankEvent
  <2> DEFINE v == ExecuteSwap(W, k, ch)
  <2>2. /\ W \in World /\ W.cmd = cmd /\ W.pending = pending
        /\ win \in [Draw -> Pix \cup {NoPix}] /\ cmd \in [Cmd -> CmdRec]
    BY <1>1, WType DEF TypeInv, TypeOK
  <2>3. cmd[k].live /\ Whole(cmd[k]) /\ cmd[k].count = 0
    BY <1>1 DEF EventsBelong, TypeInv, CommandsWhole
  <2>4. /\ W.cmd[k].draw \in Draw /\ W.cmd[k].src \in Buf /\ W.cmd[k].dst \in Buf
        /\ W.cmd[k].count <= 1
    BY <2>2, <2>3 DEF Whole
  <2>5. /\ v \in World
        /\ SameBuffers(W, v)
        /\ v.cmd = [cmd EXCEPT ![k] = NoCmdRec]
        /\ v.pending = pending - 1
    BY <2>2, <2>4, ExecuteSwapType
  <2>6. Apply(v)
    BY <2>1
  <2> HIDE DEF v
  <2>7. v.cmd = [cmd EXCEPT ![k] = v.cmd[k]] /\ ~v.cmd[k].live
    BY <2>2, <2>5 DEF NoCmdRec
  <2>8. TypeInv' /\ cmd' = v.cmd /\ pending' = v.pending
    BY <1>1, <2>5, <2>6, <2>7, ApplySwap DEF TypeInv, TypeOK
  <2> QED BY <1>1, <1>3, <2>5, <2>8 DEF Ends
<1> QED BY <1>2, <1>3

LEMMA RestackStep ==
  ASSUME TypeInv, NEW d \in Draw \cup {NoDraw}, Restack(d)
  PROVE  TypeInv' /\ SwapsUnchanged
BY DEF Restack, TypeInv, TypeOK, ScreenHasBo, CommandsWhole, Whole,
       BuffersPaired, SwapsUnchanged

\* A new window keeps the types and touches no swap.
LEMMA CreateWindowStep ==
  ASSUME TypeInv, NEW d \in Draw, CreateWindow(d)
  PROVE  TypeInv' /\ SwapsUnchanged
<1>1. Root \in Pix
  BY SwapAssumption
<1> QED BY <1>1 DEF CreateWindow, TypeInv, TypeOK, ScreenHasBo, CommandsWhole,
                    Whole, BuffersPaired, SwapsUnchanged

\* A window whose pixmap is replaced keeps its buffers.
LEMMA ReplacePixmap ==
  ASSUME TypeInv, NEW d \in Draw, NEW p \in Pix \cup {NoPix}, mem' \in Mem,
         win' = [win EXCEPT ![d] = p],
         priv' = [priv EXCEPT ![d].fresh = FALSE],
         top' \in Draw \cup {NoDraw},
         UNCHANGED <<buf, cmd, scanout, pending, hw, crtcOn, flipEv, vblEv, phase>>
  PROVE  TypeInv' /\ SwapsUnchanged
<1> DEFINE q == [priv[d] EXCEPT !.fresh = FALSE]
           f == [priv EXCEPT ![d] = q]
<1>1. priv' = f /\ priv \in [Draw -> PrivRec] /\ priv[d] \in PrivRec
  BY DEF TypeInv, TypeOK
<1>2. q \in PrivRec /\ q.back = priv[d].back /\ q.front = priv[d].front
  BY <1>1 DEF PrivRec
<1> HIDE DEF q
<1>3. /\ f \in [Draw -> PrivRec]
      /\ \A e \in Draw : f[e].back = priv[e].back /\ f[e].front = priv[e].front
  BY <1>1, <1>2
<1> HIDE DEF f
<1>4. win' \in [Draw -> Pix \cup {NoPix}]
  BY DEF TypeInv, TypeOK
<1>5. TypeOK'
  BY <1>1, <1>3, <1>4 DEF TypeInv, TypeOK
<1>6. BuffersPaired'
  BY <1>1, <1>3 DEF TypeInv, BuffersPaired
<1> QED BY <1>5, <1>6 DEF TypeInv, ScreenHasBo, CommandsWhole, Whole, SwapsUnchanged

\* Redirecting a window keeps the types and touches no swap.
LEMMA RedirectStep ==
  ASSUME TypeInv, NEW d \in Draw, Redirect(d)
  PROVE  TypeInv' /\ SwapsUnchanged
<1>1. phase # "closed" /\ win[d] \in Pix
  BY SwapAssumption DEF Redirect, Running
<1>2. W \in World /\ FreePix(W) # {} /\ FreeBo(W) # {}
  BY <1>1, WType DEF Redirect, CanCreatePix
<1>3. mem' \in Mem
  BY <1>1, <1>2, CreatePixType DEF Redirect, CanCreatePix
<1>4. Pick(FreePix(W)) \in Pix
  BY <1>2, PickIn DEF FreePix
<1>5. top' \in Draw \cup {NoDraw}
  BY DEF Redirect, TypeInv, TypeOK
<1> QED BY <1>3, <1>4, <1>5, ReplacePixmap DEF Redirect

\* So does taking the redirection back.
LEMMA UnredirectStep ==
  ASSUME TypeInv, NEW d \in Draw, Unredirect(d)
  PROVE  TypeInv' /\ SwapsUnchanged
<1>1. mem' \in Mem
  <2>1. win[d] \in Pix /\ mem \in Mem
    BY DEF Unredirect, TypeInv, TypeOK
  <2> QED BY <2>1, DropPixmapsType DEF Unredirect
<1>2. Root \in Pix
  BY SwapAssumption
<1>3. top' \in Draw \cup {NoDraw}
  BY DEF Unredirect, TypeInv, TypeOK
<1> QED BY <1>1, <1>2, <1>3, ReplacePixmap DEF Unredirect

\* A window that goes away leaves its swaps in flight.
LEMMA DestroyDrawableStep ==
  ASSUME TypeInv, NEW d \in Draw, DestroyDrawable(d)
  PROVE  TypeInv' /\ SwapsUnchanged
<1> DEFINE x1 == DestroyBuffer(W, priv[d].back)
           x2 == DestroyBuffer(x1, priv[d].front)
           f  == [x2.priv EXCEPT ![d] = NoPriv]
           m  == IF win[d] = Root THEN x2.mem ELSE DropPixmaps(x2.mem, {win[d]})
           v  == [x2 EXCEPT !.priv = f, !.mem = m]
<1>1. Apply(v)
  BY DEF DestroyDrawable
<1>2. /\ phase # "closed" /\ win[d] \in Pix
      /\ priv[d].back \in Buf \cup {NoBuf} /\ priv[d].front \in Buf \cup {NoBuf}
      /\ priv \in [Draw -> PrivRec] /\ win \in [Draw -> Pix \cup {NoPix}]
      /\ top \in Draw \cup {NoDraw} /\ crtcOn \subseteq Crtc
      /\ flipEv \in [Crtc -> Cmd \cup {NoCmd}] /\ vblEv \subseteq Cmd
      /\ phase \in {"up", "closing", "closed"}
  BY PrivFields DEF DestroyDrawable, Running, TypeInv, TypeOK
<1>3. W \in World /\ W.priv = priv /\ W.cmd = cmd /\ W.pending = pending
  BY <1>2, WType
<1>4. x1 \in World /\ SameSwaps(W, x1)
  BY <1>2, <1>3, DestroyBufferType
<1> HIDE DEF x1
<1>5. x2 \in World /\ SameSwaps(x1, x2)
  BY <1>2, <1>4, DestroyBufferType
<1> HIDE DEF x2
<1>6. x2.cmd = cmd /\ x2.pending = pending /\ x2.priv = priv
  BY <1>3, <1>4, <1>5 DEF SameSwaps
<1>7. NoPriv \in PrivRec /\ NoPriv.back = NoPriv.front
  BY DEF NoPriv, PrivRec
<1>8. /\ f \in [Draw -> PrivRec]
      /\ \A e \in Draw : f[e].back = NoBuf <=> f[e].front = NoBuf
  <2>1. NoPriv.back = NoBuf /\ NoPriv.front = NoBuf
    BY DEF NoPriv
  <2> QED BY <1>2, <1>6, <1>7, <2>1 DEF TypeInv, BuffersPaired
<1> HIDE DEF f
<1>9. m \in Mem
  BY <1>2, <1>5, WorldFields, DropPixmapsType
<1> HIDE DEF m
<1>10. v \in World /\ v.priv = f /\ v.cmd = cmd /\ v.pending = pending
  BY <1>5, <1>6, <1>8, <1>9 DEF World
<1> HIDE DEF v
<1>11. /\ win' \in [Draw -> Pix \cup {NoPix}] /\ top' \in Draw \cup {NoDraw}
       /\ UNCHANGED <<crtcOn, flipEv, vblEv, phase>>
  BY <1>2 DEF DestroyDrawable
<1>12. \A k \in Cmd : v.cmd[k].live => Whole(v.cmd[k])
  BY <1>10 DEF TypeInv, CommandsWhole
<1>13. TypeInv'
  BY <1>1, <1>2, <1>8, <1>10, <1>11, <1>12, ApplyType
<1> QED BY <1>1, <1>10, <1>11, <1>13 DEF Apply, SwapsUnchanged

\* What is left to show of a step of the server that applies v.
LEMMA ApplyServer ==
  ASSUME TypeInv, NEW v \in World, Apply(v), SameBuffers(W, v),
         v.cmd = cmd, v.pending = pending,
         top' \in Draw \cup {NoDraw}, crtcOn' \subseteq Crtc,
         UNCHANGED <<win, flipEv, vblEv, phase>>
  PROVE  TypeInv' /\ SwapsUnchanged
<1>1. /\ win \in [Draw -> Pix \cup {NoPix}]
      /\ flipEv \in [Crtc -> Cmd \cup {NoCmd}] /\ vblEv \subseteq Cmd
      /\ phase \in {"up", "closing", "closed"} /\ BuffersPaired
      /\ \A k \in Cmd : v.cmd[k].live => Whole(v.cmd[k])
  BY DEF TypeInv, TypeOK, CommandsWhole
<1>2. TypeInv'
  BY <1>1, ApplyType
<1> QED BY <1>2 DEF Apply, SwapsUnchanged

\* Switching a CRTC keeps the types and touches no swap.
LEMMA SwitchCrtcStep ==
  ASSUME TypeInv, NEW c \in Crtc, SwitchCrtc(c)
  PROVE  TypeInv' /\ SwapsUnchanged
<1>1. PICK ch \in Choices :
        LET w == IF c \in crtcOn THEN [W EXCEPT !.hw[c] = NoBo]
                 ELSE SetMode(W, {c}, ch)
        IN  /\ Apply(w)
            /\ crtcOn' = IF w.hw[c] = NoBo THEN crtcOn \ {c} ELSE crtcOn \cup {c}
  BY DEF SwitchCrtc
<1> DEFINE f == [W.hw EXCEPT ![c] = NoBo]
           x == [W EXCEPT !.hw = f]
           v == IF c \in crtcOn THEN x ELSE SetMode(W, {c}, ch)
<1>2. Apply(v) /\ (crtcOn' = crtcOn \ {c} \/ crtcOn' = crtcOn \cup {c})
  BY <1>1
<1>3. /\ W \in World /\ W.priv = priv /\ W.cmd = cmd /\ W.pending = pending
      /\ crtcOn \subseteq Crtc /\ top' \in Draw \cup {NoDraw}
      /\ UNCHANGED <<win, flipEv, vblEv, phase>>
  BY WType DEF SwitchCrtc, Running, TypeInv, TypeOK
<1>4. x \in World /\ x.cmd = W.cmd /\ x.pending = W.pending /\ x.priv = W.priv
  <2>1. f \in [Crtc -> Bo \cup {NoBo}]
    BY <1>3, WorldFields
  <2> HIDE DEF f
  <2> QED BY <1>3, <2>1 DEF World
<1> HIDE DEF x
<1>5. v \in World /\ v.cmd = W.cmd /\ v.pending = W.pending /\ v.priv = W.priv
  BY <1>3, <1>4, SetModeType
<1> HIDE DEF v
<1>6. SameBuffers(W, v)
  BY <1>5 DEF SameBuffers
<1> QED BY <1>2, <1>3, <1>5, <1>6, ApplyServer

\* Resizing the screen keeps the types and touches no swap.
LEMMA ResizeStep ==
  ASSUME TypeInv, NEW s \in Size, Resize(s)
  PROVE  TypeInv' /\ SwapsUnchanged
<1>1. PICK ch \in Choices : Apply(ResizeScreen(W, s, ch))
  BY DEF Resize
<1> DEFINE v == ResizeScreen(W, s, ch)
<1>2. /\ W \in World /\ W.cmd = cmd /\ W.pending = pending
      /\ crtcOn' \subseteq Crtc /\ top' \in Draw \cup {NoDraw}
      /\ UNCHANGED <<win, flipEv, vblEv, phase>>
  BY WType DEF Resize, Running, TypeInv, TypeOK
<1>3. /\ v \in World /\ SameBuffers(W, v)
      /\ v.cmd = cmd /\ v.pending = pending
  BY <1>2, ResizeScreenType
<1>4. Apply(v)
  BY <1>1
<1> HIDE DEF v
<1> QED BY <1>2, <1>3, <1>4, ApplyServer

\* ARMSOCCloseScreen begins with the swaps in flight as they are.
LEMMA CloseScreenStep ==
  ASSUME TypeInv, CloseScreen
  PROVE  TypeInv' /\ SwapsUnchanged
BY DEF CloseScreen, Running, TypeInv, TypeOK, ScreenHasBo, CommandsWhole, Whole,
       BuffersPaired, SwapsUnchanged

\* The rest of ARMSOCCloseScreen leaves the swaps in flight as they are.
LEMMA FinishCloseStep ==
  ASSUME TypeInv, FinishClose
  PROVE  TypeInv' /\ SwapsUnchanged
<1> DEFINE m == BoUnref(mem, scanout)
           v == [W EXCEPT !.mem = m, !.scanout = NoBo]
<1>1. /\ mem' = m /\ scanout' = NoBo /\ hw' = Shown(v) /\ phase' = "closed"
      /\ UNCHANGED <<buf, cmd, pending, priv, win, top, crtcOn, flipEv, vblEv>>
  BY DEF FinishClose, LeaveEventLoop, Apply, W
<1>2. scanout \in Bo
  BY DEF FinishClose, LeaveEventLoop, TypeInv, ScreenHasBo
<1>3. m \in Mem
  BY <1>2, BoUnrefType DEF TypeInv, TypeOK
<1>4. hw' \in [Crtc -> Bo \cup {NoBo}]
  BY <1>1 DEF Shown, W, TypeInv, TypeOK
<1> HIDE DEF m, v
<1>5. TypeOK'
  BY <1>1, <1>3, <1>4 DEF TypeInv, TypeOK
<1>6. ScreenHasBo' /\ CommandsWhole' /\ BuffersPaired'
  BY <1>1 DEF TypeInv, ScreenHasBo, CommandsWhole, Whole, BuffersPaired
<1> QED BY <1>1, <1>5, <1>6 DEF TypeInv, SwapsUnchanged

-----------------------------------------------------------------------------
(* How a step moves commands and events: the cases of Next that differ. *)

\* Command k is queued as a page flip on the CRTCs of S.
FlipStarts(k, S) ==
  /\ ~cmd[k].live /\ vblEv' = vblEv
  /\ \A c \in S : flipEv[c] = NoCmd
  /\ flipEv' = [c \in Crtc |-> IF c \in S THEN k ELSE flipEv[c]]
  /\ IF S = {} THEN Passes(k) ELSE Starts(k, Cardinality(S))

\* Command k is queued for the next vblank.
VBlankStarts(k) ==
  /\ ~cmd[k].live /\ flipEv' = flipEv /\ vblEv' = vblEv \cup {k}
  /\ Starts(k, 0) /\ cmd'[k].type = "none"

\* Command k is executed without an event.
NoEvent(k) == /\ ~cmd[k].live /\ flipEv' = flipEv /\ vblEv' = vblEv
              /\ Passes(k)

\* The flip event of CRTC c is read.
FlipEnds(c) ==
  /\ flipEv[c] \in Cmd
  /\ flipEv' = [flipEv EXCEPT ![c] = NoCmd] /\ vblEv' = vblEv
  /\ IF Handlers # "dri2" THEN UNCHANGED <<cmd, pending>>
     ELSE IF cmd[flipEv[c]].count > 1 THEN CountsDown(flipEv[c])
     ELSE Ends(flipEv[c])

\* The vblank event of command k is read.
VBlankEnds(k) ==
  /\ k \in vblEv /\ flipEv' = flipEv /\ vblEv' = vblEv \ {k}
  /\ IF Handlers = "dri2" THEN Ends(k) ELSE UNCHANGED <<cmd, pending>>

\* Every step keeps the types, and is one of these or leaves commands and
\* events alone.
LEMMA StepKinds ==
  ASSUME TypeInv, EventsBelong, [Next]_vars
  PROVE  /\ TypeInv'
         /\ \/ SwapsUnchanged
            \/ \E k \in Cmd, S \in SUBSET Crtc : FlipStarts(k, S)
            \/ \E k \in Cmd : VBlankStarts(k)
            \/ \E k \in Cmd : NoEvent(k)
            \/ \E c \in Crtc : FlipEnds(c)
            \/ \E k \in Cmd : VBlankEnds(k)
<1>1. CASE UNCHANGED vars
  BY <1>1 DEF vars, TypeInv, TypeOK, ScreenHasBo, CommandsWhole, Whole,
              BuffersPaired, SwapsUnchanged
<1>2. ASSUME NEW d \in Draw, GetBuffers(d)
      PROVE  TypeInv' /\ SwapsUnchanged
  BY <1>2, GetBuffersStep
<1>3. ASSUME NEW d \in Draw, SwapByFlip(d)
      PROVE  TypeInv' /\ \E k \in Cmd, S \in SUBSET Crtc : FlipStarts(k, S)
  BY <1>3, SwapByFlipStep DEF FlipStarts
<1>4. ASSUME NEW d \in Draw, SwapAtVblank(d)
      PROVE  TypeInv' /\ \E k \in Cmd : VBlankStarts(k)
  BY <1>4, SwapAtVblankStep DEF VBlankStarts
<1>5. ASSUME NEW d \in Draw, SwapNow(d)
      PROVE  TypeInv' /\ \E k \in Cmd : NoEvent(k)
  BY <1>5, SwapNowStep DEF NoEvent
<1>6. ASSUME NEW c \in Crtc, FlipEvent(c)
      PROVE  TypeInv' /\ FlipEnds(c)
  BY <1>6, FlipEventStep DEF FlipEnds
<1>7. ASSUME NEW k \in Cmd, VBlankEvent(k)
      PROVE  TypeInv' /\ VBlankEnds(k)
  BY <1>7, VBlankEventStep DEF VBlankEnds
<1>8. CASE ServerStep
  BY <1>8, RestackStep, RedirectStep, UnredirectStep, DestroyDrawableStep,
     CreateWindowStep, SwitchCrtcStep, ResizeStep, CloseScreenStep DEF ServerStep
<1>9. CASE FinishClose
  BY <1>9, FinishCloseStep
<1> QED BY <1>1, <1>2, <1>3, <1>4, <1>5, <1>6, <1>7, <1>8, <1>9
        DEF Next, ClientStep, KernelStep

\* There are finitely many commands in flight and finitely many CRTCs.
LEMMA FiniteLive ==
  IsFiniteSet(Live) /\ \A k : IsFiniteSet(Flipping(k))
BY SwapAssumption, FS_Subset DEF Live, Flipping

\* The events that are outstanding still belong to commands in flight.
LEMMA EventsBelongStep ==
  ASSUME TypeInv, EventsBelong, [Next]_vars
  PROVE  EventsBelong'
<1> USE DEF Flipping
<1>1. /\ cmd \in [Cmd -> CmdRec] /\ flipEv \in [Crtc -> Cmd \cup {NoCmd}]
      /\ vblEv \subseteq Cmd /\ NoCmd \notin Cmd
      /\ \A k \in Cmd : cmd[k].count \in Int
  BY SwapAssumption, CmdFields DEF TypeInv, TypeOK
<1>2. CASE SwapsUnchanged
  BY <1>2 DEF SwapsUnchanged, EventsBelong
<1>3. ASSUME NEW k \in Cmd, NEW S \in SUBSET Crtc, FlipStarts(k, S)
      PROVE  EventsBelong'
  <2>1. k \notin vblEv /\ Flipping(k) = {}
    BY <1>3 DEF FlipStarts, EventsBelong
  <2>2. Flipping(k)' = S /\ \A j \in Cmd \ {k} : Flipping(j)' = Flipping(j)
    <3>1. \A x \in Crtc : flipEv'[x] = IF x \in S THEN k ELSE flipEv[x]
      BY <1>3 DEF FlipStarts
    <3>2. \A x \in Crtc : (flipEv'[x] = k) <=> x \in S
      BY <2>1, <3>1
    <3>3. \A j \in Cmd \ {k} : \A x \in Crtc : (flipEv'[x] = j) <=> (flipEv[x] = j)
      BY <1>1, <1>3, <3>1 DEF FlipStarts
    <3> QED BY <3>2, <3>3
  <2>3. \A j \in Cmd \ {k} : cmd'[j] = cmd[j]
    BY <1>1, <1>3 DEF FlipStarts, Passes, Starts
  <2>4. S # {} => cmd'[k].live /\ cmd'[k].count = Cardinality(S)
    BY <1>3 DEF FlipStarts, Starts
  <2>5. Cardinality(S) \in Nat
    BY SwapAssumption, FS_Subset, FS_CardinalityType
  <2>6. vblEv' = vblEv
    BY <1>3 DEF FlipStarts
  <2>7. Cardinality(S) <= Cardinality(S)
    BY <2>5
  <2> HIDE DEF Flipping
  <2>8. ASSUME NEW j \in Cmd
        PROVE  /\ j \in vblEv' => cmd'[j].live /\ Flipping(j)' = {} /\ cmd'[j].count = 0
               /\ Flipping(j)' # {} => /\ cmd'[j].live
                                       /\ Cardinality(Flipping(j)') <= cmd'[j].count
    <3>1. CASE j = k
      BY <2>1, <2>2, <2>4, <2>6, <2>7, <3>1
    <3>2. CASE j # k
      BY <2>2, <2>3, <2>6, <3>2 DEF EventsBelong
    <3> QED BY <3>1, <3>2
  <2> QED BY <2>8 DEF EventsBelong
<1>4. ASSUME NEW k \in Cmd, VBlankStarts(k)
      PROVE  EventsBelong'
  <2>1. Flipping(k) = {}
    BY <1>4 DEF VBlankStarts, EventsBelong
  <2>2. /\ \A j \in Cmd \ {k} : cmd'[j] = cmd[j]
        /\ cmd'[k].live /\ cmd'[k].count = 0
        /\ flipEv' = flipEv /\ vblEv' = vblEv \cup {k}
    BY <1>1, <1>4 DEF VBlankStarts, Starts
  <2> QED BY <2>1, <2>2 DEF EventsBelong
<1>5. ASSUME NEW k \in Cmd, NoEvent(k)
      PROVE  EventsBelong'
  <2>1. k \notin vblEv /\ Flipping(k) = {}
    BY <1>5 DEF NoEvent, EventsBelong
  <2>2. \A j \in Cmd \ {k} : cmd'[j] = cmd[j]
    BY <1>1, <1>5 DEF NoEvent, Passes
  <2> QED BY <1>5, <2>1, <2>2 DEF NoEvent, EventsBelong
<1>6. ASSUME NEW c \in Crtc, FlipEnds(c)
      PROVE  EventsBelong'
  <2>0. PICK k \in Cmd : k = flipEv[c]
    BY <1>6 DEF FlipEnds
  <2>1. flipEv' = [flipEv EXCEPT ![c] = NoCmd] /\ vblEv' = vblEv
    BY <1>6 DEF FlipEnds
  <2>2. /\ Flipping(k)' = Flipping(k) \ {c}
        /\ \A j \in Cmd \ {k} : Flipping(j)' = Flipping(j)
    <3>1. \A x \in Crtc : flipEv'[x] = IF x = c THEN NoCmd ELSE flipEv[x]
      BY <1>1, <2>1
    <3> QED BY <1>1, <2>0, <3>1
  <2>3. \A j \in Cmd \ {k} : cmd'[j] = cmd[j]
    BY <1>1, <1>6, <2>0 DEF FlipEnds, CountsDown, Ends
  <2>4. /\ cmd[k].live /\ k \notin vblEv
        /\ Cardinality(Flipping(k)) <= cmd[k].count
    BY <2>0 DEF EventsBelong
  <2>5. /\ c \in Flipping(k) /\ IsFiniteSet(Flipping(k))
        /\ IsFiniteSet(Flipping(k) \ {c})
        /\ Cardinality(Flipping(k) \ {c}) = Cardinality(Flipping(k)) - 1
        /\ Cardinality(Flipping(k)) \in Nat
        /\ Cardinality(Flipping(k) \ {c}) \in Nat
    <3>1. c \in Flipping(k) /\ IsFiniteSet(Flipping(k))
      BY <2>0, FiniteLive
    <3> HIDE DEF Flipping
    <3> QED BY <3>1, FS_RemoveElement, FS_CardinalityType
  <2>6. cmd[k].count \in Int
    BY <1>1
  <2>7. Flipping(k) \ {c} # {} =>
          /\ cmd'[k].live
          /\ Cardinality(Flipping(k) \ {c}) <= cmd'[k].count
    <3> DEFINE F == Flipping(k) \ {c}
    <3> HIDE DEF Flipping
    <3>1. CASE Handlers # "dri2"
      <4>1. cmd' = cmd
        BY <1>6, <3>1 DEF FlipEnds
      <4> QED BY <2>4, <2>5, <2>6, <4>1
    <3>2. CASE Handlers = "dri2" /\ cmd[k].count > 1
      <4>1. cmd' = [cmd EXCEPT ![k].count = @ - 1]
        BY <1>6, <2>0, <3>2 DEF FlipEnds, CountsDown
      <4>2. cmd[k] \in CmdRec
        BY <1>1
      <4>3. cmd'[k] = [cmd[k] EXCEPT !.count = @ - 1]
        BY <1>1, <4>1
      <4>4. cmd'[k].live = cmd[k].live /\ cmd'[k].count = cmd[k].count - 1
        BY <4>2, <4>3 DEF CmdRec
      <4> QED BY <2>4, <2>5, <2>6, <4>4
    <3>3. CASE ~(cmd[k].count > 1)
      <4>1. Cardinality(F) = 0
        BY <2>4, <2>5, <2>6, <3>3
      <4>2. F = {}
        BY <2>5, <4>1, FS_EmptySet
      <4> QED BY <4>2
    <3> QED BY <3>1, <3>2, <3>3
  <2> HIDE DEF Flipping
  <2>8. ASSUME NEW j \in Cmd
        PROVE  /\ j \in vblEv' => cmd'[j].live /\ Flipping(j)' = {} /\ cmd'[j].count = 0
               /\ Flipping(j)' # {} => /\ cmd'[j].live
                                       /\ Cardinality(Flipping(j)') <= cmd'[j].count
    <3>1. CASE j = k
      <4>1. j \notin vblEv' /\ Flipping(j)' = Flipping(k) \ {c}
        BY <2>1, <2>2, <2>4, <3>1
      <4> QED BY <2>7, <3>1, <4>1
    <3>2. CASE j # k
      BY <2>1, <2>2, <2>3, <3>2 DEF EventsBelong
    <3> QED BY <3>1, <3>2
  <2> QED BY <2>8 DEF EventsBelong
<1>7. ASSUME NEW k \in Cmd, VBlankEnds(k)
      PROVE  EventsBelong'
  <2>1. k \in vblEv /\ Flipping(k) = {} /\ flipEv' = flipEv /\ vblEv' = vblEv \ {k}
    BY <1>7 DEF VBlankEnds, EventsBelong
  <2>2. \A j \in Cmd \ {k} : cmd'[j] = cmd[j]
    BY <1>1, <1>7 DEF VBlankEnds, Ends
  <2> QED BY <2>1, <2>2 DEF EventsBelong
<1> QED BY <1>2, <1>3, <1>4, <1>5, <1>6, <1>7, StepKinds

\* With the handlers of DRI2 no command loses its events.
LEMMA NoneLostStep ==
  ASSUME TypeInv, EventsBelong, NoneLost, [Next]_vars
  PROVE  NoneLost'
<1> SUFFICES ASSUME Handlers = "dri2", NEW j \in Cmd, cmd'[j].live
             PROVE  \/ j \in vblEv' /\ cmd'[j].type = "none"
                    \/ /\ Flipping(j)' # {}
                       /\ Cardinality(Flipping(j)') = cmd'[j].count
  BY DEF NoneLost, Live
<1>1. /\ cmd \in [Cmd -> CmdRec] /\ flipEv \in [Crtc -> Cmd \cup {NoCmd}]
      /\ NoCmd \notin Cmd /\ ~NoCmdRec.live
  BY SwapAssumption DEF TypeInv, TypeOK, NoCmdRec
<1>2. cmd[j].live => \/ j \in vblEv /\ cmd[j].type = "none"
                     \/ /\ Flipping(j) # {}
                        /\ Cardinality(Flipping(j)) = cmd[j].count
  BY DEF NoneLost, Live
<1>3. CASE SwapsUnchanged
  BY <1>2, <1>3 DEF SwapsUnchanged, Flipping
<1>4. ASSUME NEW k \in Cmd, NEW S \in SUBSET Crtc, FlipStarts(k, S)
      PROVE  \/ j \in vblEv' /\ cmd'[j].type = "none"
             \/ /\ Flipping(j)' # {}
                /\ Cardinality(Flipping(j)') = cmd'[j].count
  <2>1. \A x \in Crtc : flipEv'[x] = IF x \in S THEN k ELSE flipEv[x]
    BY <1>4 DEF FlipStarts
  <2>2. vblEv' = vblEv /\ \A x \in S : flipEv[x] = NoCmd
    BY <1>4 DEF FlipStarts
  <2>3. CASE j = k
    <3>1. S # {}
      BY <1>1, <1>4, <2>3 DEF FlipStarts, Passes
    <3>2. cmd'[j].count = Cardinality(S)
      BY <1>4, <2>3, <3>1 DEF FlipStarts, Starts
    <3>3. Flipping(k) = {}
      BY <1>4 DEF FlipStarts, EventsBelong
    <3>4. \A x \in Crtc : (flipEv'[x] = k) <=> x \in S
      BY <2>1, <3>3 DEF Flipping
    <3>5. Flipping(j)' = S
      BY <2>3, <3>4 DEF Flipping
    <3> QED BY <3>1, <3>2, <3>5
  <2>4. CASE j # k
    <3>1. cmd'[j] = cmd[j]
      BY <1>1, <1>4, <2>4 DEF FlipStarts, Passes, Starts
    <3>2. \A x \in Crtc : (flipEv'[x] = j) <=> (flipEv[x] = j)
      BY <1>1, <2>1, <2>2, <2>4
    <3>3. Flipping(j)' = Flipping(j)
      BY <3>2 DEF Flipping
    <3> QED BY <1>2, <2>2, <3>1, <3>3
  <2> QED BY <2>3, <2>4
<1>5. ASSUME NEW k \in Cmd, VBlankStarts(k)
      PROVE  \/ j \in vblEv' /\ cmd'[j].type = "none"
             \/ /\ Flipping(j)' # {}
                /\ Cardinality(Flipping(j)') = cmd'[j].count
  <2>1. /\ flipEv' = flipEv /\ vblEv' = vblEv \cup {k} /\ cmd'[k].type = "none"
        /\ (j # k => cmd'[j] = cmd[j])
    BY <1>1, <1>5 DEF VBlankStarts, Starts
  <2>2. Flipping(j)' = Flipping(j)
    BY <2>1 DEF Flipping
  <2> QED BY <1>2, <2>1, <2>2
<1>6. ASSUME NEW k \in Cmd, NoEvent(k)
      PROVE  \/ j \in vblEv' /\ cmd'[j].type = "none"
             \/ /\ Flipping(j)' # {}
                /\ Cardinality(Flipping(j)') = cmd'[j].count
  <2>1. /\ flipEv' = flipEv /\ vblEv' = vblEv /\ j # k /\ cmd'[j] = cmd[j]
    BY <1>1, <1>6 DEF NoEvent, Passes
  <2>2. Flipping(j)' = Flipping(j)
    BY <2>1 DEF Flipping
  <2> QED BY <1>2, <2>1, <2>2
<1>7. ASSUME NEW c \in Crtc, FlipEnds(c)
      PROVE  \/ j \in vblEv' /\ cmd'[j].type = "none"
             \/ /\ Flipping(j)' # {}
                /\ Cardinality(Flipping(j)') = cmd'[j].count
  <2>0. PICK k \in Cmd : k = flipEv[c]
    BY <1>7 DEF FlipEnds
  <2>1. \A x \in Crtc : flipEv'[x] = IF x = c THEN NoCmd ELSE flipEv[x]
    BY <1>1, <1>7 DEF FlipEnds
  <2>2. vblEv' = vblEv
    BY <1>7 DEF FlipEnds
  <2>3. CASE j # k
    <3>1. cmd'[j] = cmd[j]
      BY <1>1, <1>7, <2>0, <2>3 DEF FlipEnds, CountsDown, Ends
    <3>2. Flipping(j)' = Flipping(j)
      BY <1>1, <2>0, <2>1, <2>3 DEF Flipping
    <3> QED BY <1>2, <2>2, <3>1, <3>2
  <2>4. CASE j = k
    <3>1. cmd[k].count > 1
      BY <1>1, <1>7, <2>0, <2>4 DEF FlipEnds, Ends
    <3>2. cmd' = [cmd EXCEPT ![k].count = @ - 1]
      BY <1>7, <2>0, <3>1 DEF FlipEnds, CountsDown
    <3>3. cmd[k] \in CmdRec /\ cmd'[k] = [cmd[k] EXCEPT !.count = @ - 1]
      BY <1>1, <3>2
    <3>4. cmd'[k].live = cmd[k].live /\ cmd'[k].count = cmd[k].count - 1
      BY <3>3 DEF CmdRec
    <3>5. c \in Flipping(k) /\ IsFiniteSet(Flipping(k))
      BY <2>0, FiniteLive DEF Flipping
    <3>6. k \notin vblEv
      BY <3>5 DEF EventsBelong
    <3>7. Cardinality(Flipping(k)) = cmd[k].count
      BY <1>2, <2>4, <3>4, <3>6
    <3>8. Flipping(k)' = Flipping(k) \ {c}
      BY <1>1, <2>1 DEF Flipping
    <3>9. Cardinality(Flipping(k) \ {c}) = cmd[k].count - 1
      BY <3>5, <3>7, FS_RemoveElement
    <3>10. Flipping(k) \ {c} # {}
      <4>1. cmd[k].count \in Int /\ cmd[k].count - 1 # 0
        BY <1>1, <3>1, CmdFields
      <4> QED BY <3>9, <4>1, FS_EmptySet
    <3> QED BY <2>4, <3>4, <3>8, <3>9, <3>10
  <2> QED BY <2>3, <2>4
<1>8. ASSUME NEW k \in Cmd, VBlankEnds(k)
      PROVE  \/ j \in vblEv' /\ cmd'[j].type = "none"
             \/ /\ Flipping(j)' # {}
                /\ Cardinality(Flipping(j)') = cmd'[j].count
  <2>1. /\ flipEv' = flipEv /\ vblEv' = vblEv \ {k} /\ j # k /\ cmd'[j] = cmd[j]
    BY <1>1, <1>8 DEF VBlankEnds, Ends
  <2>2. Flipping(j)' = Flipping(j)
    BY <2>1 DEF Flipping
  <2> QED BY <1>2, <2>1, <2>2
<1> QED BY <1>3, <1>4, <1>5, <1>6, <1>7, <1>8, StepKinds

\* pending_flips moves with the set of commands in flight.
LEMMA PendingStep ==
  ASSUME TypeInv, EventsBelong, PendingCountsCommands, [Next]_vars
  PROVE  PendingCountsCommands'
<1>1. /\ cmd \in [Cmd -> CmdRec] /\ ~NoCmdRec.live
      /\ IsFiniteSet(Live) /\ Cardinality(Live) \in Nat
      /\ pending = Cardinality(Live)
  BY FiniteLive, FS_CardinalityType
     DEF TypeInv, TypeOK, NoCmdRec, PendingCountsCommands
<1>2. ASSUME cmd' = cmd, pending' = pending
      PROVE  PendingCountsCommands'
  BY <1>1, <1>2 DEF PendingCountsCommands, Live
<1>3. ASSUME NEW k \in Cmd, NEW n, ~cmd[k].live, Starts(k, n)
      PROVE  PendingCountsCommands'
  <2>1. Live' = Live \cup {k} /\ k \notin Live /\ pending' = pending + 1
    BY <1>1, <1>3 DEF Starts, Live
  <2>2. Cardinality(Live \cup {k}) = Cardinality(Live) + 1
    BY <1>1, <2>1, FS_AddElement
  <2> QED BY <1>1, <2>1, <2>2 DEF PendingCountsCommands
<1>4. ASSUME NEW k \in Cmd, ~cmd[k].live, Passes(k)
      PROVE  PendingCountsCommands'
  <2>1. Live' = Live /\ pending' = pending
    BY <1>1, <1>4 DEF Passes, Live
  <2> QED BY <1>1, <2>1 DEF PendingCountsCommands
<1>5. ASSUME NEW k \in Cmd, cmd[k].live, Ends(k)
      PROVE  PendingCountsCommands'
  <2>1. Live' = Live \ {k} /\ k \in Live /\ pending' = pending - 1
    BY <1>1, <1>5 DEF Ends, Live
  <2>2. Cardinality(Live \ {k}) = Cardinality(Live) - 1
    BY <1>1, <2>1, FS_RemoveElement
  <2> QED BY <1>1, <2>1, <2>2 DEF PendingCountsCommands
<1>6. ASSUME NEW k \in Cmd, cmd[k].live, CountsDown(k)
      PROVE  PendingCountsCommands'
  <2>1. cmd[k] \in CmdRec /\ pending' = pending
    BY <1>1, <1>6 DEF CountsDown
  <2>2. [cmd[k] EXCEPT !.count = @ - 1].live
    BY <1>6, <2>1 DEF CmdRec
  <2>3. cmd' = [cmd EXCEPT ![k] = [cmd[k] EXCEPT !.count = @ - 1]]
    BY <1>6 DEF CountsDown
  <2> DEFINE q == [cmd[k] EXCEPT !.count = @ - 1]
  <2> HIDE DEF q
  <2>4. cmd' = [cmd EXCEPT ![k] = q] /\ q.live
    BY <2>2, <2>3 DEF q
  <2>5. Live' = Live
    BY <1>1, <1>6, <2>4 DEF Live
  <2> QED BY <1>1, <2>1, <2>5 DEF PendingCountsCommands
<1>7. CASE SwapsUnchanged
  BY <1>2, <1>7 DEF SwapsUnchanged
<1>8. ASSUME NEW k \in Cmd, NEW S \in SUBSET Crtc, FlipStarts(k, S)
      PROVE  PendingCountsCommands'
  BY <1>3, <1>4, <1>8 DEF FlipStarts
<1>9. ASSUME NEW k \in Cmd, VBlankStarts(k)
      PROVE  PendingCountsCommands'
  BY <1>3, <1>9 DEF VBlankStarts
<1>10. ASSUME NEW k \in Cmd, NoEvent(k)
       PROVE  PendingCountsCommands'
  BY <1>4, <1>10 DEF NoEvent
<1>11. ASSUME NEW c \in Crtc, FlipEnds(c)
       PROVE  PendingCountsCommands'
  <2>1. PICK k \in Cmd : k = flipEv[c]
    BY <1>11 DEF FlipEnds
  <2>2. cmd[k].live
    BY <2>1 DEF EventsBelong, Flipping
  <2> QED BY <1>2, <1>5, <1>6, <1>11, <2>1, <2>2 DEF FlipEnds
<1>12. ASSUME NEW k \in Cmd, VBlankEnds(k)
       PROVE  PendingCountsCommands'
  <2>1. cmd[k].live
    BY <1>12 DEF VBlankEnds, EventsBelong
  <2> QED BY <1>2, <1>5, <1>12, <2>1 DEF VBlankEnds
<1> QED BY <1>7, <1>8, <1>9, <1>10, <1>11, <1>12, StepKinds

-----------------------------------------------------------------------------
(* The theorems *)

\* The screen comes up with one bo, one pixmap and nothing in flight.
LEMMA InitIInv == Init => IInv
<1> SUFFICES ASSUME Init
             PROVE  IInv
  OBVIOUS
<1> DEFINE b == CHOOSE x \in Bo : TRUE
           m == [ref  |-> [x \in Bo |-> 0], fb |-> [x \in Bo |-> FALSE],
                 size |-> [x \in Bo |-> InitSize], cap |-> [x \in Bo |-> InitSize],
                 pref |-> [p \in Pix |-> 0], pbo |-> [p \in Pix |-> NoBo],
                 ext  |-> [p \in Pix |-> 0], pdim |-> [p \in Pix |-> InitSize],
                 ok   |-> TRUE]
           m1 == NewPixmap(m, Root, b, InitSize)
           m2 == BoRef(m1, b)
           m3 == AddFb(m2, b)
<1>1. /\ mem = m3
      /\ scanout = b
      /\ buf = [x \in Buf |-> NoBufRec]
      /\ cmd = [k \in Cmd |-> NoCmdRec]
      /\ pending = 0
      /\ win = [d \in Draw |-> Root]
      /\ priv = [d \in Draw |-> NoPriv]
      /\ top = NoDraw
      /\ hw = [c \in Crtc |-> b]
      /\ crtcOn = Crtc
      /\ flipEv = [c \in Crtc |-> NoCmd]
      /\ vblEv = {}
      /\ phase = "up"
  BY DEF Init
<1>2. b \in Bo /\ Root \in Pix /\ InitSize \in Size /\ NoCmd \notin Cmd
  BY SwapAssumption
<1>3. m \in Mem
  BY <1>2 DEF Mem
<1> HIDE DEF m
<1>4. m1 \in Mem
  BY <1>2, <1>3, NewPixmapType
<1> HIDE DEF m1
<1>5. m2 \in Mem
  BY <1>4, BoRefType
<1> HIDE DEF m2
<1>6. m3 \in Mem
  BY <1>5, AddFbType
<1> HIDE DEF m3, b
<1>7. NoPriv \in PrivRec /\ NoPriv.back = NoBuf /\ NoPriv.front = NoBuf
  BY DEF NoPriv, PrivRec
<1>8. NoBufRec \in BufRec /\ NoCmdRec \in CmdRec /\ ~NoCmdRec.live
  BY NoBufRecType, NoCmdRecType DEF NoCmdRec
<1>9. TypeOK
  BY <1>1, <1>2, <1>6, <1>7, <1>8 DEF TypeOK
<1>10. TypeInv
  BY <1>1, <1>2, <1>7, <1>8, <1>9
     DEF TypeInv, ScreenHasBo, CommandsWhole, BuffersPaired
<1>11. EventsBelong
  BY <1>1, <1>2 DEF EventsBelong, Flipping
<1>12. Live = {}
  BY <1>1, <1>8 DEF Live
<1>13. NoneLost /\ PendingCountsCommands
  BY <1>1, <1>12, FS_EmptySet DEF NoneLost, PendingCountsCommands
<1> QED BY <1>10, <1>11, <1>13 DEF IInv

\* Every step keeps the inductive invariant.
LEMMA NextIInv == IInv /\ [Next]_vars => IInv'
BY StepKinds, EventsBelongStep, NoneLostStep, PendingStep DEF IInv

\* The inductive invariant holds in every reachable state.
THEOREM Invariance == Spec => []IInv
BY InitIInv, NextIInv, PTL DEF Spec

\* Whatever clients, kernel and server do, for any number of windows, CRTCs,
\* buffers and pixmaps: every variable keeps its type.
THEOREM TypeCorrect == Spec => []TypeOK
<1>1. IInv => TypeOK
  BY DEF IInv, TypeInv
<1> QED BY <1>1, Invariance, PTL

\* pending_flips is the number of commands in flight, so that the loop of
\* ARMSOCDRI2CloseScreen waits for exactly those.
THEOREM PendingCorrect == Spec => []PendingCountsCommands
<1>1. IInv => PendingCountsCommands
  BY DEF IInv
<1> QED BY <1>1, Invariance, PTL

\* With the handlers of DRI2 in event_context no command is ever without an
\* event to complete it, and no event names a command that is free.
THEOREM EventsCorrect ==
  ASSUME Handlers = "dri2"
  PROVE  Spec => []EventsMatchCommands
<1>1. ASSUME IInv
      PROVE  EventsMatchCommands
  <2>1. \A c \in Crtc : flipEv[c] # NoCmd => cmd[flipEv[c]].live
    BY <1>1 DEF IInv, TypeInv, TypeOK, EventsBelong, Flipping
  <2>2. vblEv \subseteq Live
    BY <1>1 DEF IInv, TypeInv, TypeOK, EventsBelong, Live
  <2>3. ASSUME NEW k \in Live
        PROVE  \/ /\ k \in vblEv /\ Cardinality(Flipping(k)) = 0
                  /\ cmd[k].type = "none"
               \/ /\ k \notin vblEv /\ Cardinality(Flipping(k)) > 0
                  /\ Cardinality(Flipping(k)) = cmd[k].count
    <3>1. k \in Cmd
      BY DEF Live
    <3>2. CASE k \in vblEv /\ cmd[k].type = "none"
      <4>1. Flipping(k) = {}
        BY <1>1, <3>1, <3>2 DEF IInv, EventsBelong
      <4> QED BY <3>2, <4>1, FS_EmptySet
    <3>3. CASE Flipping(k) # {} /\ Cardinality(Flipping(k)) = cmd[k].count
      <4>1. k \notin vblEv
        BY <1>1, <3>1, <3>3 DEF IInv, EventsBelong
      <4>2. Cardinality(Flipping(k)) \in Nat /\ Cardinality(Flipping(k)) # 0
        BY <3>3, FiniteLive, FS_CardinalityType, FS_EmptySet
      <4> QED BY <3>3, <4>1, <4>2
    <3> QED BY <1>1, <3>2, <3>3 DEF IInv, NoneLost
  <2> QED BY <2>1, <2>2, <2>3 DEF EventsMatchCommands, Flipping
<1> QED BY <1>1, Invariance, PTL
=============================================================================
