------------------------------ MODULE Dri2Swap ------------------------------
(***************************************************************************)
(* The DRI2 swap engine of the driver (armsoc_dri2.c) with the parts it    *)
(* cannot be understood without: page flipping, the scanout bo and its     *)
(* resize (drmmode_display.c), buffer objects and pixmaps (BoPixmap).      *)
(*                                                                         *)
(* Three actors share the state:                                           *)
(*   - the driver: buf, cmd, scanout, pending, mem;                        *)
(*   - the X server and its DRI2 core, external: win, priv, top;           *)
(*   - the kernel's display driver, external: hw, crtcOn, flipEv, vblEv.   *)
(*                                                                         *)
(* The X server is single threaded, so a handler runs to completion; what  *)
(* interleaves is requests, kernel events, and the life of the drawables.  *)
(* A handler is a function from worlds to worlds (W below), so each action *)
(* is the whole handler, in the order in which the code makes its calls.   *)
(* A false assert() clears mem.ok, and a server that aborted does nothing. *)
(***************************************************************************)
EXTENDS BoPixmap

CONSTANTS
  Draw, NoDraw,  (* windows that DRI2 clients render to, by XID             *)
  Buf, NoBuf,    (* addresses of struct ARMSOCDRI2BufferRec                 *)
  Cmd, NoCmd,    (* addresses of struct ARMSOCDRISwapCmd                    *)
  Crtc,          (* the CRTCs of the card                                   *)
  Root,          (* the screen pixmap                                       *)
  InitSize,      (* the size of the screen when the server starts           *)
  NumBufs,       (* driNumBufs: 2 is double buffering                       *)
  NoFlip,        (* the NoFlip option                                       *)
  Handlers,      (* whose handlers event_context holds: "dri2" as           *)
                 (* drmmode_display.c initialises it, "present" after       *)
                 (* armsoc_present_screen_init, which AccelInit calls last  *)
  Env            (* what the environment of a run may do, see EnvKind       *)

EnvKind ==
  {"destroy",    (* windows are destroyed and created, the screen closes    *)
   "redirect",   (* a compositor redirects and unredirects windows          *)
   "crtc",       (* RandR switches CRTCs on and off                         *)
   "resize",     (* RandR resizes the screen                                *)
   "flipfail",   (* drmModePageFlip fails on an idle CRTC                   *)
   "vblfail",    (* drmWaitVBlank fails                                     *)
   "fb",         (* drmModeAddFB fails                                      *)
   "name"}       (* DRM_IOCTL_GEM_FLINK fails                               *)

ASSUME SwapAssumption ==
  /\ NoDraw \notin Draw /\ NoBuf \notin Buf /\ NoCmd \notin Cmd
  /\ IsFiniteSet(Draw) /\ IsFiniteSet(Buf)
  /\ IsFiniteSet(Cmd) /\ IsFiniteSet(Crtc)
  /\ Root \in Pix /\ InitSize \in Size /\ Bo # {}
  /\ NumBufs \in Nat /\ NumBufs >= 2
  /\ NoFlip \in BOOLEAN
  /\ Handlers \in {"dri2", "present"}
  /\ Env \subseteq EnvKind

VARIABLES
  mem,      (* bos and pixmaps, a record of Mem                             *)
  buf,      (* DRI2 buffers                                                 *)
  cmd,      (* swap commands                                                *)
  scanout,  (* pARMSOC->scanout                                             *)
  pending,  (* pARMSOC->pending_flips                                       *)
  win,      (* GetWindowPixmap of each window; NoPix: no such drawable      *)
  priv,     (* DRI2 core: buffers, swapsPending, serial still matching      *)
  top,      (* the window that covers the screen alone: DRI2CanFlip         *)
  hw,       (* the bo each CRTC is committed to scan out                    *)
  crtcOn,   (* crtc->enabled                                                *)
  flipEv,   (* the flip a CRTC still has to complete, by its user_data      *)
  vblEv,    (* queued vblank events, by user_data                           *)
  phase     (* "up", "closing" in ARMSOCCloseScreen, "closed"               *)

vars == <<mem, buf, cmd, scanout, pending, win, priv, top, hw, crtcOn,
          flipEv, vblEv, phase>>

-----------------------------------------------------------------------------
(* Data structures *)

Slots == 0 .. NumBufs - 2

\* struct ARMSOCDRI2BufferRec; ref = 0 is a free address.
BufRec == [ref : Int, att : {"front", "back"}, pix : [Slots -> Pix \cup {NoPix}],
           cur : Slots, num : 1 .. NumBufs - 1, bo : Bo \cup {NoBo},
           name : Bo \cup {NoBo}, tried : BOOLEAN]

\* struct ARMSOCDRISwapCmd; fail and fake are the two bits of flags.
CmdRec == [live : BOOLEAN, draw : Draw \cup {NoDraw}, src : Buf \cup {NoBuf},
           dst : Buf \cup {NoBuf}, oldSrc : Bo \cup {NoBo},
           oldDst : Bo \cup {NoBo}, count : Int,
           type : {"none", "flip", "blit", "exchange"},
           fail : BOOLEAN, fake : BOOLEAN]

\* DRI2DrawableRec of the X server.
PrivRec == [back : Buf \cup {NoBuf}, front : Buf \cup {NoBuf},
            fresh : BOOLEAN, swaps : Int]

NoBufRec == [ref |-> 0, att |-> "back", pix |-> [i \in Slots |-> NoPix],
             cur |-> 0, num |-> 1, bo |-> NoBo, name |-> NoBo,
             tried |-> FALSE]

NoCmdRec == [live |-> FALSE, draw |-> NoDraw, src |-> NoBuf, dst |-> NoBuf,
             oldSrc |-> NoBo, oldDst |-> NoBo, count |-> 0, type |-> "none",
             fail |-> FALSE, fake |-> FALSE]

NoPriv == [back |-> NoBuf, front |-> NoBuf, fresh |-> FALSE, swaps |-> 0]

\* What a handler can change.
W == [mem |-> mem, buf |-> buf, cmd |-> cmd, scanout |-> scanout,
      pending |-> pending, priv |-> priv, hw |-> hw]

\* The outcomes of the system calls that one handler makes.
Choices == [fb   : {TRUE} \cup (IF "fb" \in Env THEN {FALSE} ELSE {}),
            name : {TRUE} \cup (IF "name" \in Env THEN {FALSE} ELSE {}),
            clip : BOOLEAN]

Pick(S) == CHOOSE x \in S : TRUE

\* Memory that is free; the kernel keeps what a CRTC still scans out.
FreeBo(w)  == {b \in Bo : w.mem.ref[b] = 0 /\ \A c \in Crtc : w.hw[c] # b}
FreePix(w) == {p \in Pix : w.mem.pref[p] = 0}
FreeBuf(w) == {b \in Buf : w.buf[b].ref = 0}
FreeCmd    == {k \in Cmd : ~cmd[k].live}

-----------------------------------------------------------------------------
(* Buffers *)

\* DRI2CanFlip holds of the one window that covers the screen alone.
CanFlip(d) == ~NoFlip /\ top = d

\* pScreen->CreatePixmap can only fail for want of memory.
CanCreatePix(w) == FreeBo(w) # {} /\ FreePix(w) # {}

CreatePix(w, d) ==
  NewPixmap(w.mem, Pick(FreePix(w)), Pick(FreeBo(w)), w.mem.pdim[win[d]])

\* The room a new buffer has for pixmaps.
\* Mutant: an array of driNumBufs pixmaps, one more than the back needs.
NumPixmaps_OneMore(att) == IF att = "back" THEN NumBufs ELSE 1

NumPixmaps(att) == IF att = "back" THEN NumBufs - 1 ELSE 1

\* Mutant: the loop over the pixmaps stops one short.
DestroyBufferResources_OneShort(m, r) ==
  LET P == {r.pix[i] : i \in {j \in 0 .. NumPixmaps(r.att) - 2 :
                                \A l \in 0 .. j : r.pix[l] # NoPix}}
  IN  BoUnref(DropPixmaps(Deregister(m, P), P), r.bo)

DestroyBufferResources(m, r) ==
  LET P == {r.pix[i] : i \in {j \in 0 .. NumPixmaps(r.att) - 1 :
                                \A l \in 0 .. j : r.pix[l] # NoPix}}
  IN  BoUnref(DropPixmaps(Deregister(m, P), P), r.bo)

\* The name of a back buffer's bo is asked for the first time here; the bo of
\* a window normally has its name already, so only the former may fail.
CreateBufferResources(w, d, r, ch) ==
  LET front == r.att = "front"
      p  == IF front THEN win[d] ELSE Pick(FreePix(w))
      m1 == IF front THEN [w.mem EXCEPT !.pref[p] = @ + 1] ELSE CreatePix(w, d)
      m2 == [m1 EXCEPT !.ok = @ /\ r.cur = 0]
      r1 == [r EXCEPT !.pix[0] = p]
      bo == PixmapBo(m2, p)
      flippable == CanFlip(d) /\ ~front
      m3 == IF flippable /\ ch.fb THEN AddFb(m2, bo) ELSE m2
  IN  IF ~front /\ ~CanCreatePix(w)
      THEN [ok |-> FALSE, mem |-> w.mem, r |-> r]
      ELSE IF ~front /\ ~ch.name
      THEN [ok |-> FALSE, mem |-> DropPixmaps(m2, {p}), r |-> r1]
      ELSE [ok  |-> TRUE,
            mem |-> BoRef(Register(m3, p), bo),
            r   |-> [r1 EXCEPT !.name = bo, !.bo = bo,
                               !.tried = @ \/ flippable]]

CreateBuffer(w, d, att, ch) ==
  LET b   == Pick(FreeBuf(w))
      r   == [NoBufRec EXCEPT !.ref = 1, !.att = att, !.num = NumPixmaps(att)]
      res == CreateBufferResources(w, d, r, ch)
  IN  IF FreeBuf(w) = {} THEN [w |-> w, b |-> NoBuf]
      ELSE IF ~res.ok THEN [w |-> [w EXCEPT !.mem = res.mem], b |-> NoBuf]
      ELSE [w |-> [w EXCEPT !.mem = res.mem, !.buf[b] = res.r], b |-> b]

DestroyBuffer(w, b) ==
  IF b = NoBuf THEN w
  ELSE IF w.buf[b].ref > 1 THEN [w EXCEPT !.buf[b].ref = @ - 1]
  ELSE [w EXCEPT !.mem = DestroyBufferResources(w.mem, w.buf[b]),
                 !.buf[b] = NoBufRec]

\* The result of CreateBufferResources is ignored, as in the code.
ReuseBufferNotify(w, d, b, ch) ==
  LET r   == w.buf[b]
      bo  == PixmapBo(w.mem, r.pix[0])
      up  == CanFlip(d) /\ ~r.tried /\ ~w.mem.fb[bo]
      down == ~CanFlip(d) /\ w.mem.fb[bo]
      m1  == DestroyBufferResources(IF down THEN RmFb(w.mem, bo) ELSE w.mem, r)
      r1  == [r EXCEPT !.tried = @ /\ ~down]
      res == CreateBufferResources([w EXCEPT !.mem = m1], d, r1, ch)
  IN  IF up \/ down THEN [w EXCEPT !.mem = res.mem, !.buf[b] = res.r] ELSE w

-----------------------------------------------------------------------------
(* Swaps *)

BoFromBuffer(w, b) == PixmapBo(w.mem, w.buf[b].pix[w.buf[b].cur])

\* dri2draw and draw2pix: the front of a window is the window's pixmap now.
Dri2Pix(w, d, b) ==
  IF w.buf[b].att = "front" THEN win[d] ELSE w.buf[b].pix[w.buf[b].cur]

ExchangeBufs(w, d, a, b) ==
  [w EXCEPT !.mem = PixmapExchange(@, Dri2Pix(w, d, a), Dri2Pix(w, d, b)),
            !.buf = [@ EXCEPT ![a].name = w.buf[b].name,
                              ![b].name = w.buf[a].name]]

\* Mutant: the back buffer moves on and keeps its name.
NextBuffer_StaleName(w, d, b, ch) ==
  LET r == w.buf[b]
      n == (r.cur + 1) % r.num
      p == Pick(FreePix(w))
      bo == Pick(FreeBo(w))
  IN  IF r.pix[n] # NoPix
      THEN [w EXCEPT !.buf[b].cur = n]
      ELSE [w EXCEPT !.buf[b] = [@ EXCEPT !.cur = n, !.pix[n] = p],
                     !.mem = AddFb(Register(CreatePix(w, d), p), bo)]

\* nextBuffer with allocNextBuffer; a failed allocation reduces numPixmaps.
NextBuffer(w, d, b, ch) ==
  LET r == w.buf[b]
      n == (r.cur + 1) % r.num
      p == Pick(FreePix(w))
      bo == Pick(FreeBo(w))
      old == PixmapBo(w.mem, r.pix[n])
  IN  IF NumBufs <= 2 THEN w
      ELSE IF r.pix[n] # NoPix
      THEN [w EXCEPT !.buf[b] = [@ EXCEPT !.cur = n, !.name = old],
                     !.mem.ok = @ /\ old # NoBo]
      ELSE IF CanCreatePix(w) /\ ch.fb /\ ch.name
      THEN [w EXCEPT !.buf[b] = [@ EXCEPT !.cur = n, !.pix[n] = p, !.name = bo],
                     !.mem = AddFb(Register(CreatePix(w, d), p), bo)]
      ELSE [w EXCEPT !.buf[b] = [@ EXCEPT !.cur = IF n > 0 THEN n - 1 ELSE 0,
                                          !.num = IF n > 0 THEN n ELSE 1],
                     !.mem.ok = @ /\ n > 0]

\* Mutant: pARMSOC->scanout is left alone.
SetScanoutBo_Unchanged(w, b) == w

SetScanoutBo(w, b) ==
  LET m == BoRef([w.mem EXCEPT !.ok = @ /\ w.mem.fb[b]], b)
  IN  IF b = NoBo THEN [w EXCEPT !.mem.ok = FALSE]
      ELSE [w EXCEPT !.mem = BoUnref(m, w.scanout), !.scanout = b]

\* The swap went through, and its window still exists.
\* Mutant: the failure flag is not looked at.
Succeeded_FailToo(c) == win[c.draw] # NoPix

Succeeded(c) == ~c.fail /\ win[c.draw] # NoPix

\* The end of ARMSOCDRI2SwapComplete.
\* Mutant: a command that failed leaves pending_flips as it is.
Release_FailStaysPending(w, k) ==
  LET c  == w.cmd[k]
      w1 == DestroyBuffer(DestroyBuffer(w, c.src), c.dst)
  IN  [w1 EXCEPT !.mem = BoUnref(BoUnref(@, c.oldSrc), c.oldDst),
                 !.pending = IF c.fail THEN @ ELSE @ - 1,
                 !.cmd[k] = NoCmdRec]

\* Mutant: the bo of the front is not released.
Release_KeepsFrontBo(w, k) ==
  LET c  == w.cmd[k]
      w1 == DestroyBuffer(DestroyBuffer(w, c.src), c.dst)
  IN  [w1 EXCEPT !.mem = BoUnref(@, c.oldSrc),
                 !.pending = @ - 1,
                 !.cmd[k] = NoCmdRec]

\* Mutant: the buffers are not released when the window is gone.
Release_OnlyIfWindow(w, k) ==
  LET c  == w.cmd[k]
      w1 == IF win[c.draw] = NoPix THEN w
            ELSE DestroyBuffer(DestroyBuffer(w, c.src), c.dst)
  IN  [w1 EXCEPT !.mem = BoUnref(BoUnref(@, c.oldSrc), c.oldDst),
                 !.pending = @ - 1,
                 !.cmd[k] = NoCmdRec]

Release(w, k) ==
  LET c  == w.cmd[k]
      w1 == DestroyBuffer(DestroyBuffer(w, c.src), c.dst)
  IN  [w1 EXCEPT !.mem = BoUnref(BoUnref(@, c.oldSrc), c.oldDst),
                 !.pending = @ - 1,
                 !.cmd[k] = NoCmdRec]

\* ARMSOCDRI2SwapComplete. DRI2SwapComplete of the core decrements swapsPending.
SwapComplete(w, k, ch) ==
  LET c     == w.cmd[k]
      d     == c.draw
      found == Succeeded(c)
      flip  == found /\ c.type = "flip" /\ ~c.fake
      w1 == IF flip THEN NextBuffer(ExchangeBufs(w, d, c.src, c.dst), d, c.src, ch)
            ELSE w
      w2 == IF found THEN [w1 EXCEPT !.priv[d].swaps = @ - 1] ELSE w1
      w3 == IF flip THEN SetScanoutBo(w2, BoFromBuffer(w2, c.dst)) ELSE w2
  IN  IF c.count > 1 THEN [w EXCEPT !.cmd[k].count = @ - 1]
      ELSE Release(w3, k)

\* canexchange; ch.clip is its verdict on the window's clip list.
CanExchange(w, d, s, t, ch) ==
  /\ win[d] # Root
  /\ w.mem.size[s] = w.mem.size[t]
  /\ w.mem.size[s] = w.mem.pdim[win[d]]
  /\ ~w.mem.fb[s] /\ ~w.mem.fb[t]
  /\ ch.clip

ExecuteSwap(w, k, ch) ==
  LET c == w.cmd[k]
      d == c.draw
      x == win[d] # NoPix /\ CanExchange(w, d, c.oldSrc, c.oldDst, ch)
      w1 == IF x THEN NextBuffer(ExchangeBufs(w, d, c.src, c.dst), d, c.src, ch)
            ELSE w
      t == IF win[d] = NoPix THEN c.type ELSE IF x THEN "exchange" ELSE "blit"
  IN  SwapComplete([w1 EXCEPT !.cmd[k].type = t], k, ch)

ReferenceBuffer(w, b) == [w EXCEPT !.buf[b].ref = @ + 1]

\* The part of ARMSOCDRI2ScheduleSwap before it decides how to swap, and
\* DRI2SwapBuffers of the core, which counts the swap first.
PrepareSwap(w, d, k) ==
  LET s == w.priv[d].back
      t == w.priv[d].front
      sbo == BoFromBuffer(w, s)
      tbo == BoFromBuffer(w, t)
  IN  [ReferenceBuffer(ReferenceBuffer(w, s), t) EXCEPT
         !.pending = @ + 1,
         !.priv[d].swaps = @ + 1,
         !.mem = BoRef(BoRef(@, sbo), tbo),
         !.cmd[k] = [NoCmdRec EXCEPT !.live = TRUE, !.draw = d, !.src = s,
                       !.dst = t, !.oldSrc = sbo, !.oldDst = tbo]]

DoFlip(w, d) ==
  LET s == BoFromBuffer(w, w.priv[d].back)
      t == BoFromBuffer(w, w.priv[d].front)
  IN  w.mem.fb[s] /\ w.mem.fb[t] /\ CanFlip(d) /\ w.mem.size[s] = w.mem.size[t]

\* drmmode_page_flip, accepted by the CRTCs of S.
\* Mutant: swapCount is the number of CRTCs that are on.
StartFlip_CountsAll(w, k, S) ==
  [w EXCEPT
     !.cmd[k] = [@ EXCEPT !.type = "flip", !.fail = S # crtcOn,
                          !.fake = crtcOn = {}, !.count = Cardinality(crtcOn)],
     !.hw = [c \in Crtc |-> IF c \in S THEN w.cmd[k].oldSrc ELSE @[c]]]

StartFlip(w, k, S) ==
  [w EXCEPT
     !.cmd[k] = [@ EXCEPT !.type = "flip", !.fail = S # crtcOn,
                          !.fake = crtcOn = {}, !.count = Cardinality(S)],
     !.hw = [c \in Crtc |-> IF c \in S THEN w.cmd[k].oldSrc ELSE @[c]]]

-----------------------------------------------------------------------------
(* The screen *)

Shown(w) == [c \in Crtc |-> IF w.hw[c] # NoBo /\ w.mem.fb[w.hw[c]]
                            THEN w.hw[c] ELSE NoBo]

\* drmmode_set_mode_major on the CRTCs of S, when the kernel takes the mode.
SetMode(w, S, ch) ==
  LET has == w.mem.fb[w.scanout]
      add == ~has /\ S # {} /\ ch.fb
  IN  [w EXCEPT !.mem = IF add THEN AddFb(@, w.scanout) ELSE @,
                !.hw = [c \in Crtc |-> IF c \in S /\ (has \/ add)
                                       THEN w.scanout ELSE w.hw[c]]]

\* resize_scanout_bo before it wraps the root pixmap. Without memory for a new
\* bo it shrinks the old one. ok: the return value is not FALSE.
ResizeScanout(w, s, ch) ==
  LET old == w.scanout
      new == Pick(FreeBo(w))
      m1  == AddFb(NewBo(w.mem, new, s), new)
      w1  == SetScanoutBo([w EXCEPT !.mem = m1], new)
      m2  == RmFb(w.mem, old)
      fit == s <= w.mem.cap[old]
      m3  == IF fit THEN ResizeBo(m2, old, s) ELSE m2
  IN  IF s = w.mem.size[old] THEN [ok |-> TRUE, w |-> w]
      ELSE IF FreeBo(w) # {}
      THEN IF ch.fb THEN [ok |-> TRUE, w |-> [w1 EXCEPT !.mem = BoUnref(@, new)]]
                    ELSE [ok |-> FALSE, w |-> w]
      ELSE [ok |-> fit /\ ch.fb,
            w  |-> [w EXCEPT !.mem = IF ch.fb THEN AddFb(m3, old) ELSE m3]]

\* drmmode_xf86crtc_resize. The root pixmap gets a new serial number.
ResizeScreen(w, s, ch) ==
  LET res == ResizeScanout(w, s, ch)
      w1  == [res.w EXCEPT
                !.mem = WrapScanout(@, Root, res.w.scanout),
                !.priv = [d \in Draw |->
                            [w.priv[d] EXCEPT !.fresh = @ /\ win[d] # Root]]]
  IN  IF res.ok THEN SetMode(w1, crtcOn, ch) ELSE res.w

-----------------------------------------------------------------------------
(* Actions *)

Init ==
  LET b == CHOOSE x \in Bo : TRUE
      m == [ref  |-> [x \in Bo |-> 0], fb |-> [x \in Bo |-> FALSE],
            size |-> [x \in Bo |-> InitSize], cap |-> [x \in Bo |-> InitSize],
            pref |-> [p \in Pix |-> 0], pbo |-> [p \in Pix |-> NoBo],
            ext  |-> [p \in Pix |-> 0], pdim |-> [p \in Pix |-> InitSize],
            ok   |-> TRUE]
  IN  /\ mem = AddFb(BoRef(NewPixmap(m, Root, b, InitSize), b), b)
      /\ scanout = b
      /\ buf = [x \in Buf |-> NoBufRec]
      /\ cmd = [k \in Cmd |-> NoCmdRec]
      /\ pending = 0
      /\ win = [d \in Draw |-> Root]
      /\ priv = [d \in Draw |-> NoPriv]
      /\ top = NoDraw
      /\ hw = [c \in Crtc |-> b]
      /\ crtcOn = Crtc
      /\ flipEv = [c \in Crtc |-> NoCmd]
      /\ vblEv = {}
      /\ phase = "up"

Apply(w) ==
  /\ mem' = w.mem
  /\ buf' = w.buf
  /\ cmd' = w.cmd
  /\ scanout' = w.scanout
  /\ pending' = w.pending
  /\ priv' = w.priv
  /\ hw' = Shown(w)

Running == mem.ok /\ phase = "up"

\* The core blocks a client whose swap is pending: the swap limit is 1.
Unthrottled(d) == win[d] # NoPix /\ priv[d].swaps < 1

\* DRI2GetBuffers of the back and the front of window d. The core reuses the
\* back while size and serial match, makes the front anew on every call, and
\* drops all buffers of the window on an error. It drops the old front last;
\* here it goes before the new one is made, which takes no memory of a bo.
GetBuffers(d) ==
  /\ Running /\ Unthrottled(d)
  /\ \E ch \in Choices :
       LET pv   == priv[d]
           keep == pv.fresh /\ pv.back # NoBuf
           bk   == IF keep THEN [w |-> ReuseBufferNotify(W, d, pv.back, ch),
                                 b |-> pv.back]
                   ELSE CreateBuffer(W, d, "back", ch)
           w1   == DestroyBuffer(bk.w, pv.front)
           fr   == IF bk.b = NoBuf THEN [w |-> w1, b |-> NoBuf]
                   ELSE CreateBuffer(w1, d, "front", ch)
           all  == fr.b # NoBuf
           w2   == IF keep THEN fr.w ELSE DestroyBuffer(fr.w, pv.back)
           w3   == IF all THEN w2 ELSE DestroyBuffer(w2, bk.b)
       IN  Apply([w3 EXCEPT !.priv[d] =
                    [@ EXCEPT !.fresh = TRUE,
                              !.back  = IF all THEN bk.b ELSE NoBuf,
                              !.front = fr.b]])
  /\ UNCHANGED <<win, top, crtcOn, flipEv, vblEv, phase>>

CanSwap(d) == /\ Running /\ Unthrottled(d)
              /\ priv[d].back # NoBuf /\ FreeCmd # {}

\* ARMSOCDRI2ScheduleSwap by page flip. The CRTCs of "bad" refuse, as do those
\* that still have a flip to complete. On an error the core takes back its
\* count of the swap, whatever the flip does on the other CRTCs.
SwapByFlip(d) ==
  /\ CanSwap(d) /\ DoFlip(W, d)
  /\ \E ch \in Choices, bad \in SUBSET (IF "flipfail" \in Env THEN crtcOn ELSE {}) :
       LET k  == Pick(FreeCmd)
           S  == {c \in crtcOn \ bad : flipEv[c] = NoCmd}
           w1 == StartFlip(PrepareSwap(W, d, k), k, S)
           w2 == IF S = {} THEN SwapComplete(w1, k, ch) ELSE w1
       IN  /\ Apply(IF S = crtcOn THEN w2
                    ELSE [w2 EXCEPT !.priv[d].swaps = @ - 1])
           /\ flipEv' = [c \in Crtc |-> IF c \in S THEN k ELSE flipEv[c]]
  /\ UNCHANGED <<win, top, crtcOn, vblEv, phase>>

\* ARMSOCDRI2ScheduleSwap at the next vblank.
SwapAtVblank(d) ==
  /\ CanSwap(d) /\ ~DoFlip(W, d)
  /\ LET k == Pick(FreeCmd) IN
       /\ Apply(PrepareSwap(W, d, k))
       /\ vblEv' = vblEv \cup {k}
  /\ UNCHANGED <<win, top, crtcOn, flipEv, phase>>

\* The same when drmWaitVBlank fails: "Just do it immediately."
SwapNow(d) ==
  /\ "vblfail" \in Env
  /\ CanSwap(d) /\ ~DoFlip(W, d)
  /\ \E ch \in Choices :
       LET k == Pick(FreeCmd)
       IN  Apply(ExecuteSwap(PrepareSwap(W, d, k), k, ch))
  /\ UNCHANGED <<win, top, crtcOn, flipEv, vblEv, phase>>

\* drmHandleEvent reads the flip event of CRTC c from the DRM fd.
ReadFlipEvent(c) ==
  /\ mem.ok /\ phase # "closed" /\ flipEv[c] # NoCmd
  /\ flipEv' = [flipEv EXCEPT ![c] = NoCmd]

\* It calls page_flip_handler with the event's user_data. The handler of
\* Present looks for it among its own events, finds nothing and returns.
FlipEvent(c) ==
  /\ ReadFlipEvent(c)
  /\ IF Handlers = "dri2"
     THEN \E ch \in Choices : Apply(SwapComplete(W, flipEv[c], ch))
     ELSE UNCHANGED <<mem, buf, cmd, scanout, pending, priv, hw>>
  /\ UNCHANGED <<win, top, crtcOn, vblEv, phase>>

\* drmHandleEvent reads the vblank event of command k, and calls
\* vblank_handler.
ReadVBlankEvent(k) ==
  /\ mem.ok /\ phase # "closed" /\ k \in vblEv
  /\ vblEv' = vblEv \ {k}

VBlankEvent(k) ==
  /\ ReadVBlankEvent(k)
  /\ IF Handlers = "dri2"
     THEN \E ch \in Choices : Apply(ExecuteSwap(W, k, ch))
     ELSE UNCHANGED <<mem, buf, cmd, scanout, pending, priv, hw>>
  /\ UNCHANGED <<win, top, crtcOn, flipEv, phase>>

\* The window manager lets d cover the screen, or nobody.
Restack(d) ==
  /\ Running /\ d # top
  /\ d \in {NoDraw} \cup {x \in Draw : win[x] = Root}
  /\ top' = d
  /\ UNCHANGED <<mem, buf, cmd, scanout, pending, win, priv, hw, crtcOn,
                 flipEv, vblEv, phase>>

\* A compositor gives d a pixmap of its own.
Redirect(d) ==
  /\ "redirect" \in Env /\ Running
  /\ win[d] = Root /\ CanCreatePix(W)
  /\ win' = [win EXCEPT ![d] = Pick(FreePix(W))]
  /\ mem' = CreatePix(W, d)
  /\ priv' = [priv EXCEPT ![d].fresh = FALSE]
  /\ top' = IF top = d THEN NoDraw ELSE top
  /\ UNCHANGED <<buf, cmd, scanout, pending, hw, crtcOn, flipEv, vblEv, phase>>

Unredirect(d) ==
  /\ Running
  /\ win[d] \notin {Root, NoPix}
  /\ win' = [win EXCEPT ![d] = Root]
  /\ mem' = DropPixmaps(mem, {win[d]})
  /\ priv' = [priv EXCEPT ![d].fresh = FALSE]
  /\ UNCHANGED <<buf, cmd, scanout, pending, top, hw, crtcOn, flipEv, vblEv, phase>>

\* A window goes away, and with it the core's references to its buffers.
DestroyDrawable(d) ==
  /\ "destroy" \in Env /\ Running
  /\ win[d] # NoPix
  /\ LET w1 == DestroyBuffer(DestroyBuffer(W, priv[d].back), priv[d].front)
     IN  Apply([w1 EXCEPT !.priv[d] = NoPriv,
                          !.mem = IF win[d] = Root THEN @
                                  ELSE DropPixmaps(@, {win[d]})])
  /\ win' = [win EXCEPT ![d] = NoPix]
  /\ top' = IF top = d THEN NoDraw ELSE top
  /\ UNCHANGED <<crtcOn, flipEv, vblEv, phase>>

\* A new window; its XID is not one that a pending command still names.
CreateWindow(d) ==
  /\ Running
  /\ win[d] = NoPix /\ \A k \in Cmd : cmd[k].draw # d
  /\ win' = [win EXCEPT ![d] = Root]
  /\ UNCHANGED <<mem, buf, cmd, scanout, pending, priv, top, hw, crtcOn,
                 flipEv, vblEv, phase>>

\* RandR switches CRTC c off, or on by drmmode_set_mode_major.
SwitchCrtc(c) ==
  /\ "crtc" \in Env /\ Running
  /\ \E ch \in Choices :
       LET w == IF c \in crtcOn THEN [W EXCEPT !.hw[c] = NoBo]
                ELSE SetMode(W, {c}, ch)
       IN  /\ Apply(w)
           /\ crtcOn' = IF w.hw[c] = NoBo THEN crtcOn \ {c} ELSE crtcOn \cup {c}
  /\ UNCHANGED <<win, top, flipEv, vblEv, phase>>

\* RandR resizes the screen. No window covers the new screen yet.
Resize(s) ==
  /\ "resize" \in Env /\ Running
  /\ s # mem.pdim[Root]
  /\ \E ch \in Choices : Apply(ResizeScreen(W, s, ch))
  /\ top' = NoDraw
  /\ UNCHANGED <<win, crtcOn, flipEv, vblEv, phase>>

\* ARMSOCCloseScreen, once the server has destroyed all windows. Its loop in
\* ARMSOCDRI2CloseScreen handles events until no flip is pending.
CloseScreen ==
  /\ Running
  /\ \A d \in Draw : win[d] = NoPix
  /\ phase' = "closing"
  /\ UNCHANGED <<mem, buf, cmd, scanout, pending, win, priv, top, hw, crtcOn,
                 flipEv, vblEv>>

\* That loop ends.
LeaveEventLoop == /\ mem.ok /\ phase = "closing" /\ pending <= 0
                  /\ phase' = "closed"

\* The rest of ARMSOCCloseScreen. The root pixmap is never destroyed.
FinishClose ==
  /\ LeaveEventLoop
  /\ Apply([W EXCEPT !.mem = BoUnref(@, scanout), !.scanout = NoBo])
  /\ UNCHANGED <<win, top, crtcOn, flipEv, vblEv>>

\* Requests of DRI2 clients.
ClientStep ==
  \/ \E d \in Draw : GetBuffers(d)
  \/ \E d \in Draw : SwapByFlip(d)
  \/ \E d \in Draw : SwapAtVblank(d)
  \/ \E d \in Draw : SwapNow(d)

\* Events the kernel sends.
KernelStep ==
  \/ \E c \in Crtc : FlipEvent(c)
  \/ \E k \in Cmd : VBlankEvent(k)

\* What the rest of the server does to windows and screen.
ServerStep ==
  \/ \E d \in Draw \cup {NoDraw} : Restack(d)
  \/ \E d \in Draw : Redirect(d)
  \/ \E d \in Draw : Unredirect(d)
  \/ \E d \in Draw : DestroyDrawable(d)
  \/ \E d \in Draw : CreateWindow(d)
  \/ \E c \in Crtc : SwitchCrtc(c)
  \/ \E s \in Size : Resize(s)
  \/ CloseScreen

Next == ClientStep \/ KernelStep \/ ServerStep \/ FinishClose

Spec == Init /\ [][Next]_vars

\* The kernel delivers every event it accepted, the server reads the DRM fd
\* whenever it is readable, and ARMSOCCloseScreen goes on when its loop ends.
\* The steps named here are enabled exactly when FlipEvent, VBlankEvent and
\* FinishClose are, and only these take them.
Fairness ==
  /\ \A c \in Crtc : WF_flipEv(ReadFlipEvent(c))
  /\ \A k \in Cmd : WF_vblEv(ReadVBlankEvent(k))
  /\ WF_phase(LeaveEventLoop)

FairSpec == Spec /\ Fairness

-----------------------------------------------------------------------------
(* Properties *)

TypeOK ==
  /\ mem \in Mem
  /\ buf \in [Buf -> BufRec]
  /\ cmd \in [Cmd -> CmdRec]
  /\ scanout \in Bo \cup {NoBo}
  /\ pending \in Int
  /\ win \in [Draw -> Pix \cup {NoPix}]
  /\ priv \in [Draw -> PrivRec]
  /\ top \in Draw \cup {NoDraw}
  /\ hw \in [Crtc -> Bo \cup {NoBo}]
  /\ crtcOn \subseteq Crtc
  /\ flipEv \in [Crtc -> Cmd \cup {NoCmd}]
  /\ vblEv \subseteq Cmd
  /\ phase \in {"up", "closing", "closed"}

\* No assert() of the driver fails.
AssertionsHold == mem.ok

Live == {k \in Cmd : cmd[k].live}

\* pending_flips counts the commands in flight, so that ARMSOCDRI2CloseScreen
\* waits for exactly those.
PendingCountsCommands == pending = Cardinality(Live)

\* A command is in flight for as long as an event for it is outstanding, and
\* its swapCount is the number of CRTCs that still have to report the flip.
EventsMatchCommands ==
  /\ \A c \in Crtc : flipEv[c] # NoCmd => cmd[flipEv[c]].live
  /\ \A k \in Live :
       LET n == Cardinality({c \in Crtc : flipEv[c] = k})
       IN  \/ k \in vblEv /\ n = 0 /\ cmd[k].type = "none"
           \/ k \notin vblEv /\ n > 0 /\ n = cmd[k].count
  /\ vblEv \subseteq Live

Holders(b) ==
    Cardinality({p \in Pix : mem.pref[p] > 0 /\ mem.pbo[p] = b})
  + Cardinality({x \in Buf : buf[x].ref > 0 /\ buf[x].bo = b})
  + Cardinality({k \in Live : cmd[k].oldSrc = b})
  + Cardinality({k \in Live : cmd[k].oldDst = b})
  + (IF scanout = b THEN 1 ELSE 0)

\* The reference count of a bo is the number of its holders: the pixmaps
\* around it, the DRI2 buffers, both sides of each swap in flight, the screen.
RefsCountHolders == \A b \in Bo : mem.ref[b] = Holders(b)

SlotsOf(p) ==
  {s \in Buf \X Slots : buf[s[1]].ref > 0 /\ buf[s[1]].pix[s[2]] = p}

\* Every pixmap a buffer points to is alive, and is counted once for each
\* pointer, both as a reference and as an external access.
PixmapsCountBuffers ==
  \A p \in Pix :
    /\ mem.ext[p] = Cardinality(SlotsOf(p))
    /\ mem.pref[p] = mem.ext[p] + (IF p = Root THEN 1
                                   ELSE Cardinality({d \in Draw : win[d] = p}))

\* A DRI2 buffer has one reference from the core and one for each use by a
\* command in flight.
BuffersCountUsers ==
  \A x \in Buf :
    buf[x].ref =   Cardinality({d \in Draw : priv[d].back = x})
                 + Cardinality({d \in Draw : priv[d].front = x})
                 + Cardinality({k \in Live : cmd[k].src = x})
                 + Cardinality({k \in Live : cmd[k].dst = x})

\* pARMSOC->scanout is the "scan-out buffer" (armsoc_driver.h): when no swap is
\* in flight it has an fb and every CRTC that is on shows it.
ScanoutIsShown ==
  phase = "up" /\ Live = {} =>
    mem.fb[scanout] /\ \A c \in crtcOn : hw[c] = scanout

\* When no swap is in flight the server draws to what is on the screen: the
\* screen pixmap is wrapped around pARMSOC->scanout.
RootIsScanout ==
  phase = "up" /\ Live = {} => mem.pbo[Root] = scanout

\* What an unthrottled client may draw to is neither on display nor the
\* contents of its window.
BackIsPrivate ==
  \A d \in Draw :
    priv[d].back # NoBuf /\ win[d] # NoPix /\ priv[d].swaps < 1 =>
      LET b == buf[priv[d].back].name
      IN  /\ \A c \in Crtc : hw[c] # b
          /\ mem.pbo[win[d]] # b

\* "Pixmap that corresponds to the DRI2BufferRec.name": the client draws to
\* the bo that its next swap will show, as long as no assertion has failed.
NameMatchesPixmap ==
  \A d \in Draw :
    mem.ok /\ priv[d].back # NoBuf =>
      buf[priv[d].back].name = BoFromBuffer(W, priv[d].back)

\* swapsPending of the core is the number of its swaps in flight, so that a
\* client is blocked exactly while it has one.
CoreCountsSwaps ==
  \A d \in Draw : win[d] # NoPix =>
    priv[d].swaps = Cardinality({k \in Live : cmd[k].draw = d /\ ~cmd[k].fail})

\* Why a client has more than two buffers: the page that its flip takes off the
\* display rests while it draws to another. Only a flip after which the rotation
\* falls back to fewer pixmaps may hand it that page.
PageRests ==
  [][\A k \in Live :
       LET b == cmd[k].src
       IN  /\ cmd[k].type = "flip" /\ Succeeded(cmd[k]) /\ ~cmd'[k].live
           /\ buf[b].num > 1 /\ buf'[b].num = buf[b].num
           => buf'[b].name # mem.pbo[Root]]_vars

\* Every swap that was scheduled is executed or given up.
SwapsComplete == \A k \in Cmd : cmd[k].live ~> ~cmd[k].live

\* The server gets through ARMSOCCloseScreen.
ScreenCloses == phase = "closing" ~> phase = "closed"
=============================================================================
