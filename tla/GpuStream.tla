------------------------------ MODULE GpuStream ------------------------------
(***************************************************************************)
(* 2D acceleration (viv2d_exa.c, viv2d_op.h) and its cache of released GPU *)
(* buffers (etnaviv_extra.c). Drawing is batched twice: the rectangles of  *)
(* one operation in v2d->op, and the commands of many in v2d->stream. The  *)
(* GPU runs the batches it was given in order, while the CPU reads and     *)
(* writes the same pixmaps between PrepareAccess and FinishAccess.         *)
(*                                                                         *)
(* EXA (external) calls Prepare, then the rectangles, then Done, and       *)
(* touches no pixmap meanwhile. libdrm and the kernel (external) keep the  *)
(* bos that a batch names alive until it has run, and let a caller wait    *)
(* for them; of bos that a batch draws to without naming they know nothing.*)
(***************************************************************************)
EXTENDS Integers, Sequences, FiniteSets, FiniteSetsExt

CONSTANTS
  Pixmap,
  Dumb,      (* the pixmaps that have a dumb bo, imported as a dma_buf      *)
  Tiny,      (* the 1x1 pixmaps, whose pictures repeat                      *)
  Bo,        (* addresses of GPU bos                                        *)
  NoBo,      (* NULL                                                        *)
  Origin,    (* x coordinates of source origins                             *)
  MaxRects,  (* VIV2D_MAX_RECTS                                             *)
  Env,       (* what a run allows, see Hazards                              *)
  MaxUses,   (* bound: use count of a pixmap when drawing starts            *)
  MaxJobs    (* bound: batches with the GPU when more are sent              *)

Hazards ==
  {"fill",   \* the stream fills up between Prepare and its rectangles
   "self",   \* a 1x1 pixmap is composited onto itself
   "xv"}     \* Xv converts an image into a pixmap

ASSUME StreamAssumption ==
  /\ Dumb \subseteq Pixmap /\ Tiny \subseteq Pixmap
  /\ NoBo \notin Bo
  /\ Origin \subseteq Int
  /\ MaxRects \in Nat \ {0}
  /\ Env \subseteq Hazards
  /\ MaxUses \in Nat /\ MaxJobs \in Nat

VARIABLES
  pix,     (* struct Viv2DPixmapPrivRec of each pixmap                      *)
  op,      (* v2d->op                                                       *)
  stream,  (* v2d->stream, the commands not yet sent                        *)
  jobs,    (* the batches with the GPU, first to run first                  *)
  cache,   (* unused_bos                                                    *)
  closed   (* CloseScreen was called                                        *)

vars == <<pix, op, stream, jobs, cache, closed>>

PixmapRec ==
  [live : BOOLEAN,
   bo : Bo \cup {NoBo},
   refcnt : Nat \cup {-1},
   cpu : {"no", "read", "write"}]  \* between PrepareAccess and FinishAccess

\* rd and wr are the bos named by relocations, reads and writes those that the
\* rectangles are drawn from and to.
Batch == [rd : SUBSET Bo, wr : SUBSET Bo,
          reads : SUBSET Bo, writes : SUBSET Bo]

\* Of a rectangle the origin is kept that its call gave; the code keeps only
\* prev, that of the last.
Op ==
  [kind : {"none", "solid", "copy", "comp", "mask"},
   src : SUBSET Bo, msk : SUBSET Bo, dst : Bo \cup {NoBo},
   rects : Seq(Origin \cup {-1}), prev : Origin \cup {-1}]

TypeOK ==
  /\ pix \in [Pixmap -> PixmapRec]
  /\ op \in Op
  /\ stream \in Batch
  /\ jobs \in Seq(Batch)
  /\ cache \in Seq(Bo)
  /\ closed \in BOOLEAN

Empty == [rd |-> {}, wr |-> {}, reads |-> {}, writes |-> {}]

NoOp == [kind |-> "none", src |-> {}, msk |-> {}, dst |-> NoBo,
         rects |-> <<>>, prev |-> -1]

NoPixmap == [live |-> FALSE, bo |-> NoBo, refcnt |-> 0, cpu |-> "no"]

Init ==
  /\ pix = [p \in Pixmap |-> NoPixmap]
  /\ op = NoOp
  /\ stream = Empty
  /\ jobs = <<>>
  /\ cache = <<>>
  /\ closed = FALSE

-----------------------------------------------------------------------------
(* The stream. A world g holds what a function can change at once.         *)

World == [pix |-> pix, stream |-> stream, jobs |-> jobs, cache |-> cache]

Become(g) ==
  /\ Len(g.jobs) > Len(jobs) => Len(jobs) < MaxJobs
  /\ pix' = g.pix
  /\ stream' = g.stream
  /\ jobs' = g.jobs
  /\ cache' = g.cache

\* The bos that a batch names.
Named(batch) == batch.rd \cup batch.wr

\* etna_cmd_stream_offset is not 0.
Pending(g) == g.stream # Empty

\* etna_bo_ready: bo->current_stream is NULL.
Ready(g, b) == b \notin Named(g.stream)

Submit(g) == [g EXCEPT !.jobs = Append(@, g.stream), !.stream = Empty]

Commit(g) == IF Pending(g) THEN Submit(g) ELSE g

\* fill: there is not enough room.
Reserve(g, fill) == IF fill THEN Submit(g) ELSE g

CanFill(fill) == fill => Pending(World)

\* Mutant: only what is written is named.
Name_Dst(g, reads, dst) == [g EXCEPT !.stream.wr = @ \cup {dst}]

\* Relocations of the source and destination of an operation.
Name(g, reads, dst) == [g EXCEPT !.stream.rd = @ \cup reads,
                                 !.stream.wr = @ \cup {dst}]

AddDraw(g, reads, dst) == [g EXCEPT !.stream.reads = @ \cup reads,
                                    !.stream.writes = @ \cup {dst}]

-----------------------------------------------------------------------------
(* The cache. A bo is free if none of its owners has it. Free bos are all  *)
(* alike, and one stands for them.                                         *)

CacheDel(g, b) == [g EXCEPT !.cache = Append(@, b)]

\* The queue is freed from its head up to the first bo in use.
CacheClean(g) ==
  LET busy == {i \in DOMAIN g.cache : ~Ready(g, g.cache[i])}
  IN  [g EXCEPT !.cache = IF busy = {} THEN <<>>
                          ELSE SubSeq(@, Min(busy), Len(@))]

\* etna_pipe_wait gives up after a second, which is only logged: of the jobs
\* nothing is known when it returns. Those that it did wait for are RunJob's
\* steps, as any others.
Wait(g) == CacheClean(g)

FreeBo(g) ==
  {b \in Bo : /\ \A p \in Pixmap : g.pix[p].bo # b
              /\ \A i \in DOMAIN g.cache : g.cache[i] # b
              /\ Ready(g, b)
              /\ \A i \in DOMAIN g.jobs : b \notin Named(g.jobs[i])}

NewBo(g) == CHOOSE b \in FreeBo(g) : TRUE

-----------------------------------------------------------------------------
(* CPU access                                                              *)

\* etna_bo_cpu_prep waits for the batches that write b and, to write, for
\* those that read it.
CpuPrep(g, b, how) ==
  LET fences == {i \in DOMAIN g.jobs :
                   \/ b \in g.jobs[i].wr
                   \/ how = "write" /\ b \in g.jobs[i].rd}
  IN  IF fences = {} THEN g
      ELSE [g EXCEPT !.jobs = SubSeq(@, Max(fences) + 1, Len(@))]

Sync(g, b) == IF Ready(g, b) THEN g ELSE Wait(Commit(g))

\* Mutant: the wait without the commit.
Access_NoCommit(g, p, how) ==
  LET b == g.pix[p].bo
  IN  IF g.pix[p].refcnt <= 0 THEN g
      ELSE [CpuPrep(g, b, how) EXCEPT !.pix[p].refcnt = -1]

Access(g, p, how) ==
  LET b == g.pix[p].bo
  IN  IF g.pix[p].refcnt <= 0 THEN g
      ELSE [CpuPrep(Sync(g, b), b, how) EXCEPT !.pix[p].refcnt = -1]

\* Mutant: the count goes down by one.
EndAccess_Counts(g, p) == [g EXCEPT !.pix[p].refcnt = @ - 1]

EndAccess(g, p) ==
  IF g.pix[p].refcnt = -1 THEN [g EXCEPT !.pix[p].refcnt = 0] ELSE g

\* Viv2DGetFirstPixel, through GetImage.
FirstPixel(g, p) == EndAccess(Access(g, p, "read"), p)

Accessed == {p \in Pixmap : pix[p].cpu # "no"}

Idle == ~closed /\ op.kind = "none" /\ Accessed = {}

PrepareAccess(p, how) ==
  /\ ~closed /\ op.kind = "none"
  /\ pix[p].live /\ pix[p].cpu = "no"
  /\ Become([Access(World, p, how) EXCEPT !.pix[p].cpu = how])
  /\ UNCHANGED <<op, closed>>

\* The fallback is over, for all its pixmaps.
FinishAccess ==
  /\ Accessed # {}
  /\ pix' = [p \in Pixmap |-> IF pix[p].cpu = "no" THEN pix[p]
                              ELSE [EndAccess(World, p).pix[p]
                                      EXCEPT !.cpu = "no"]]
  /\ UNCHANGED <<op, stream, jobs, cache, closed>>

-----------------------------------------------------------------------------
(* Pixmaps                                                                 *)

CreatePixmap(p) ==
  /\ Idle /\ ~pix[p].live /\ FreeBo(World) # {}
  /\ pix' = [pix EXCEPT ![p] = [NoPixmap EXCEPT !.live = TRUE,
                                                !.bo = NewBo(World)]]
  /\ UNCHANGED <<op, stream, jobs, cache, closed>>

\* DetachBo waits before it deletes what it imported; memory of the GPU's own
\* goes to the cache.
Release(g, p) ==
  LET b == g.pix[p].bo
  IN  IF p \in Dumb THEN Sync(g, b) ELSE CacheDel(g, b)

DestroyPixmap(p) ==
  /\ Idle /\ pix[p].live
  /\ Become([Release(World, p) EXCEPT !.pix[p] = NoPixmap])
  /\ UNCHANGED <<op, closed>>

\* ModifyPixmapHeader with another size. The use count stays.
ModifyPixmapHeader(p) ==
  /\ Idle /\ pix[p].live
  /\ LET g == Release(World, p)
     IN  FreeBo(g) # {} /\ Become([g EXCEPT !.pix[p].bo = NewBo(g)])
  /\ UNCHANGED <<op, closed>>

-----------------------------------------------------------------------------
(* Drawing                                                                 *)

CanDraw(p) == Idle /\ pix[p].live /\ pix[p].refcnt < MaxUses

Use(g, p) == [g EXCEPT !.pix[p].refcnt = @ + 1]

OpInit(kind, src, msk, dst) ==
  [NoOp EXCEPT !.kind = kind, !.src = src, !.msk = msk, !.dst = dst]

PrepareSolid(p, fill) ==
  LET dst == pix[p].bo
  IN  /\ CanDraw(p) /\ CanFill(fill)
      /\ Become(Name(Reserve(Use(World, p), fill), {}, dst))
      /\ op' = OpInit("solid", {}, {}, dst)
      /\ UNCHANGED closed

PrepareCopy(s, d, fill) ==
  LET src == {pix[s].bo}
      dst == pix[d].bo
  IN  /\ CanDraw(d) /\ pix[s].live /\ CanFill(fill)
      /\ Become(Name(Reserve(Use(World, d), fill), src, dst))
      /\ op' = OpInit("copy", src, {}, dst)
      /\ UNCHANGED closed

\* S and M are the source and mask pixmap: at most one each, none for a solid
\* picture. A 1x1 pixmap that repeats is read and drawn as a solid.
Pictures == {S \in SUBSET Pixmap : Cardinality(S) <= 1
                                   /\ \A s \in S : pix[s].live}

ReadPixels(g, P) ==
  IF P \cap Tiny = {} THEN g
  ELSE FirstPixel(g, CHOOSE p \in P : p \in Tiny)

Sources(P) == {pix[p].bo : p \in P \ Tiny}

PrepareComposite(S, M, masked, d, fill) ==
  LET g == ReadPixels(ReadPixels(Use(World, d), S), M)
      dst == pix[d].bo
  IN  /\ CanDraw(d)
      /\ ~masked => M = {}
      /\ d \in (S \cup M) \cap Tiny => "self" \in Env
      /\ fill => Pending(g)
      /\ IF masked
         THEN /\ ~fill
              /\ Become(g)
              /\ op' = OpInit("mask", Sources(S), Sources(M), dst)
         ELSE /\ Become(Name(Reserve(g, fill), Sources(S), dst))
              /\ op' = OpInit("comp", Sources(S), {}, dst)
      /\ UNCHANGED closed

\* The rectangles so far are streamed, with the registers as Prepare left
\* them.
DrawRects(g, fill) ==
  IF op.rects = <<>> THEN Reserve(g, fill)
  ELSE AddDraw(Reserve(g, fill), op.src, op.dst)

CanFillMidway(fill) == CanFill(fill) /\ (fill => "fill" \in Env)

Solid(fill) ==
  LET full == Len(op.rects) >= MaxRects
  IN  /\ op.kind = "solid"
      /\ CanFillMidway(fill) /\ (fill => full)
      /\ Become(IF full THEN DrawRects(World, fill) ELSE World)
      /\ op' = [op EXCEPT !.rects = Append(IF full THEN <<>> ELSE @, -1)]
      /\ UNCHANGED closed

\* Mutant: the group ends when the array is full, not with the origin.
NewGroup_Full(srcX) == Len(op.rects) >= MaxRects

NewGroup(srcX) == op.prev # srcX \/ Len(op.rects) >= MaxRects

\* Copy, and Composite without a mask. An origin below 0 counts as none, and
\* ends no group; the model stops where the code leaves its array.
Copy(srcX, fill) ==
  LET flush == NewGroup(srcX) /\ op.prev > -1
  IN  /\ op.kind \in {"copy", "comp"}
      /\ Len(op.rects) <= MaxRects
      /\ CanFillMidway(fill) /\ (fill => flush)
      /\ Become(IF flush THEN DrawRects(World, fill) ELSE World)
      /\ op' = [op EXCEPT !.rects = Append(IF flush THEN <<>> ELSE @, srcX),
                          !.prev = srcX]
      /\ UNCHANGED closed

\* Each pass of a masked Composite reserves, names and draws for itself.
\* fill is the pass that finds no room, if any.
Pass(g, n, fill, reads, dst) ==
  AddDraw(Name(Reserve(g, fill = n), reads, dst), reads, dst)

CompositeMasked(fill) ==
  LET tmp == NewBo(World)
      src == Pass(World, 1, fill, op.src, tmp)
      msk == Pass(src, 2, fill, op.msk, tmp)
      dst == Pass(msk, 3, fill, {tmp}, op.dst)
  IN  /\ op.kind = "mask" /\ FreeBo(World) # {}
      /\ fill = 1 => Pending(World)
      /\ Become(CacheDel(dst, tmp))
      /\ UNCHANGED <<op, closed>>

\* DoneSolid, DoneCopy and DoneComposite. Only DoneCopy does not ask whether a
\* rectangle is left.
Done(fill) ==
  LET last == op.kind = "copy" \/ op.rects # <<>>
  IN  /\ op.kind # "none"
      /\ CanFillMidway(fill) /\ (fill => last)
      /\ Become(IF last THEN DrawRects(World, fill) ELSE World)
      /\ op' = NoOp
      /\ UNCHANGED closed

\* An image of Xv is packed or has three planes.
Planes == {1, 3}

\* Viv2DPutTextureImage, through an intermediate bo. S is the pixmap of a
\* packed image, or those of the planes of one that is planar.
PutTextureImage(S, d, fill) ==
  LET tmp == NewBo(World)
      src == {pix[s].bo : s \in S}
      dst == pix[d].bo
      g == Reserve(World, fill)
      h == AddDraw(Name(g, src, tmp), src, tmp)
      v == AddDraw(Name(h, {tmp}, dst), {tmp}, dst)
  IN  /\ "xv" \in Env /\ Idle /\ pix[d].live /\ \A s \in S : pix[s].live
      /\ FreeBo(World) # {} /\ CanFill(fill)
      /\ Become(CacheDel(Commit(v), tmp))
      /\ UNCHANGED <<op, closed>>

-----------------------------------------------------------------------------
(* The server's main loop, the GPU and the end                             *)

\* Mutant: nothing is committed.
Flushed_WaitOnly(g) == Wait(g)

Flushed(g) == Commit(Wait(g))

\* The block handler, and the callback when output is written to clients.
Flush ==
  /\ Idle
  /\ Become(Flushed(World))
  /\ UNCHANGED <<op, closed>>

\* The GPU has run its first batch.
RunJob ==
  /\ jobs # <<>>
  /\ jobs' = Tail(jobs)
  /\ UNCHANGED <<pix, op, stream, cache, closed>>

CloseScreen ==
  /\ Idle
  /\ Become(CacheClean(Wait(Commit(World))))
  /\ closed' = TRUE
  /\ UNCHANGED op

Next ==
  \/ \E p \in Pixmap :
       \/ \E how \in {"read", "write"} : PrepareAccess(p, how)
       \/ CreatePixmap(p)
       \/ ModifyPixmapHeader(p)
       \/ DestroyPixmap(p)
       \/ \E fill \in BOOLEAN :
            \/ PrepareSolid(p, fill)
            \/ \E s \in Pixmap : PrepareCopy(s, p, fill)
            \/ \E S, M \in Pictures, masked \in BOOLEAN :
                 PrepareComposite(S, M, masked, p, fill)
            \/ \E n \in Planes, S \in SUBSET (Pixmap \ {p}) :
                 Cardinality(S) = n /\ PutTextureImage(S, p, fill)
  \/ FinishAccess
  \/ \E fill \in BOOLEAN :
       \/ Solid(fill)
       \/ \E srcX \in Origin : Copy(srcX, fill)
       \/ Done(fill)
  \/ \E fill \in 0..3 : CompositeMasked(fill)
  \/ Flush
  \/ RunJob
  \/ CloseScreen

Spec == Init /\ [][Next]_vars

-----------------------------------------------------------------------------
(* Properties                                                              *)

\* What the GPU has still to run, or to be sent.
Undone == {stream} \cup {jobs[i] : i \in DOMAIN jobs}

\* While the CPU has access to a pixmap, all drawing to it has been done:
\* PrepareAccess waits for the right batches, though it looks only at the use
\* count of the pixmap and at the stream its bo is in.
CpuSeesDrawing ==
  \A p \in Accessed : \A batch \in Undone : pix[p].bo \notin batch.writes

\* While the CPU writes to a pixmap, nothing is left that was to draw from it
\* as it was.
CpuSparesSources ==
  \A p \in Accessed : pix[p].cpu = "write" =>
    \A batch \in Undone : pix[p].bo \notin batch.reads

\* Each batch names every bo that it draws with. A bo that is destroyed, resized
\* or cleaned from the cache with drawing in the stream, or in an operation
\* begun, is then kept until that is done.
DrawsAreNamed ==
  \A batch \in Undone : batch.reads \cup batch.writes \subseteq Named(batch)

\* Every rectangle collected came with the source origin that the group will
\* be drawn with, and the array holds them all.
BatchSharesOrigin ==
  /\ Len(op.rects) <= MaxRects
  /\ op.kind \in {"copy", "comp"} =>
       \A i \in DOMAIN op.rects : op.rects[i] = op.prev

Cached(b) == \E i \in DOMAIN cache : cache[i] = b

\* A bo in the cache is freed, whatever is in the queue before it: the block
\* handler commits what the next one finds done.
CacheDrains == \A b \in Bo : Cached(b) ~> (~Cached(b) \/ closed)

\* EXA ends what it began, the main loop comes back to its block handler, and
\* the GPU runs what it is given.
FairSpec ==
  /\ Spec
  /\ WF_vars(\E fill \in BOOLEAN : Done(fill))
  /\ WF_vars(FinishAccess)
  /\ SF_vars(Flush)
  /\ WF_vars(RunJob)
=============================================================================
