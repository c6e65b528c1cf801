------------------------------ MODULE BoPixmap ------------------------------
(***************************************************************************)
(* Buffer objects (armsoc_dumb.c) and the pixmaps wrapped around them      *)
(* (armsoc_exa.c).                                                         *)
(*                                                                         *)
(* A memory m is a record of functions:                                    *)
(*   ref   bo->refcnt; 0 is "not allocated"                                *)
(*   fb    bo->fb_id # 0                                                   *)
(*   size  width x height, as one abstract size                            *)
(*   cap   original_size: what the dumb buffer was allocated with          *)
(*   pref  PixmapRec.refcnt; 0 is "not allocated"                          *)
(*   pbo   priv->bo of the pixmap's driver private                         *)
(*   ext   priv->ext_access_cnt                                            *)
(*   pdim  drawable.width x drawable.height of the pixmap                  *)
(*   ok    no assert() has failed so far and no NULL was dereferenced      *)
(*                                                                         *)
(* Every operation is a function from memories to memories, so that a      *)
(* handler of the driver is the composition of the calls it makes.         *)
(* The dma_buf fd of a bo is left out: armsoc_bo_set_dmabuf never attaches *)
(* one (its body is compiled out), so has_dmabuf is always false.          *)
(***************************************************************************)
EXTENDS Integers, FiniteSets

CONSTANTS
  Bo,     (* addresses of struct armsoc_bo *)
  NoBo,   (* the NULL bo                   *)
  Pix,    (* addresses of PixmapRec        *)
  NoPix,  (* the NULL pixmap               *)
  Size    (* the sizes a bo can have, in order of the memory they need *)

ASSUME MemAssumption ==
  /\ NoBo \notin Bo
  /\ NoPix \notin Pix
  /\ IsFiniteSet(Bo)
  /\ IsFiniteSet(Pix)
  /\ Size \subseteq Nat

Mem == [ref  : [Bo -> Int],
        fb   : [Bo -> BOOLEAN],
        size : [Bo -> Size],
        cap  : [Bo -> Size],
        pref : [Pix -> Int],
        pbo  : [Pix -> Bo \cup {NoBo}],
        ext  : [Pix -> Int],
        pdim : [Pix -> Size],
        ok   : BOOLEAN]

-----------------------------------------------------------------------------
(* Buffer objects *)

\* armsoc_bo_new_with_dim: a fresh bo with one reference and no fb.
NewBo(m, b, s) ==
  [m EXCEPT !.ref[b] = 1, !.fb[b] = FALSE, !.size[b] = s, !.cap[b] = s]

BoRef(m, b) ==
  [m EXCEPT !.ref[b] = @ + 1, !.ok = @ /\ m.ref[b] > 0]

\* armsoc_bo_unreference and, at zero, armsoc_bo_del, which removes the fb.
BoUnref(m, b) ==
  IF b = NoBo THEN m
  ELSE [m EXCEPT !.ref[b] = @ - 1,
                 !.fb[b]  = @ /\ m.ref[b] > 1,
                 !.ok     = @ /\ m.ref[b] > 0]

\* armsoc_bo_add_fb, when drmModeAddFB accepts the bo.
AddFb(m, b) ==
  [m EXCEPT !.fb[b] = TRUE, !.ok = @ /\ m.ref[b] > 0 /\ ~m.fb[b]]

\* armsoc_bo_rm_fb, when drmModeRmFB succeeds.
RmFb(m, b) ==
  [m EXCEPT !.fb[b] = FALSE, !.ok = @ /\ m.ref[b] > 0 /\ m.fb[b]]

\* armsoc_bo_resize, when the original allocation is large enough.
ResizeBo(m, b, s) ==
  [m EXCEPT !.size[b] = s, !.ok = @ /\ m.ref[b] > 0 /\ ~m.fb[b]]

-----------------------------------------------------------------------------
(* Pixmaps *)

\* ARMSOCCreatePixmap2 for a scanout or backing pixmap: CreateDumbPixmap.
NewPixmap(m, p, b, s) ==
  [NewBo(m, b, s) EXCEPT
     !.pref[p] = 1, !.pbo[p] = b, !.ext[p] = 0, !.pdim[p] = s]

\* ARMSOCPixmapBo
PixmapBo(m, p) == IF p \in Pix THEN m.pbo[p] ELSE NoBo

\* ARMSOCRegisterExternalAccess
\* Mutant: a mark where the code keeps a count.
Register_Mark(m, p) == [m EXCEPT !.ext[p] = 1]

Register(m, p) == [m EXCEPT !.ext[p] = @ + 1]

\* ARMSOCDeregisterExternalAccess on every pixmap of P.
Deregister(m, P) ==
  [m EXCEPT !.ext = [p \in Pix |-> IF p \in P THEN m.ext[p] - 1 ELSE m.ext[p]],
            !.ok  = @ /\ \A p \in P : m.ext[p] > 0]

\* DestroyPixmap on every pixmap of P: the server drops a reference, and the
\* last one calls ARMSOCDestroyPixmap, which drops the pixmap's bo.
DropPixmaps(m, P) ==
  LET dead == {p \in P : m.pref[p] = 1}
      lost(b) == Cardinality({p \in dead : m.pbo[p] = b})
      ref  == [b \in Bo |-> m.ref[b] - lost(b)]
  IN  [m EXCEPT
         !.pref = [p \in Pix |-> IF p \in P THEN m.pref[p] - 1 ELSE m.pref[p]],
         !.pbo  = [p \in Pix |-> IF p \in dead THEN NoBo ELSE m.pbo[p]],
         !.ref  = ref,
         !.fb   = [b \in Bo |-> m.fb[b] /\ (lost(b) = 0 \/ ref[b] > 0)],
         !.ok   = /\ @
                  /\ \A p \in P : m.pref[p] > 0
                  /\ \A p \in dead : m.ext[p] = 0
                  /\ \A b \in Bo : ref[b] >= 0 \/ lost(b) = 0]

\* ARMSOCPixmapExchange: the two pixmaps trade their bos.
\* Mutant: no trade.
PixmapExchange_Nothing(m, a, b) == m

PixmapExchange(m, a, b) ==
  IF {a, b} \subseteq Pix
  THEN [m EXCEPT !.pbo = [@ EXCEPT ![a] = m.pbo[b], ![b] = m.pbo[a]]]
  ELSE [m EXCEPT !.ok = FALSE]

\* ARMSOCModifyPixmapHeader of pixmap p onto the mapping of the scanout bo.
\* After the call the pixmap has the scanout's bo and its dimensions.
WrapScanout(m, p, scanout) ==
  LET old == m.pbo[p]
      m1  == [BoRef(m, scanout) EXCEPT !.pbo[p] = scanout]
      m2  == IF old = scanout THEN m ELSE BoUnref(m1, old)
  IN  [m2 EXCEPT !.pdim[p] = m2.size[scanout]]
=============================================================================
