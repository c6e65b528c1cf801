# A TLA+ verification of the armsoc/omap5 X.Org video driver

The driver (`src/src`) is an X server module. It drives the display controller
of an OMAP5 through kernel mode setting, shares buffers with OpenGL ES clients
through DRI2, and accelerates 2D with the Vivante GC320 core. This directory
holds TLA+ models of its state machines, the TLC runs that check them on small
instances, and proofs, checked by TLAPS, of what must hold for every instance.

`PROJECT.json` is the index: components, runs, the source lines each definition
stands for, findings, hazards and theorems.

## 1. The system

The X server is single threaded. A driver function runs to completion; what
interleaves is client requests, events of the kernel read from the DRM file
descriptor, and the server's own changes to windows and screens. So an action
of a model is a whole handler, and the concurrency is in their order.

| Component | Source | State it keeps | Operations |
|---|---|---|---|
| DRI2 swap engine | `armsoc_dri2.c` | DRI2 buffers (refcount, pixmaps, current pixmap, name), swap commands, `pending_flips` | CreateBuffer, DestroyBuffer, ReuseBufferNotify, ScheduleSwap, SwapComplete, ExecuteSwap, VBlankHandler, CloseScreen |
| Page flip and scanout | `drmmode_display.c` | `pARMSOC->scanout`, the shared `event_context` | page_flip, set_scanout_bo, resize_scanout_bo, xf86crtc_resize, set_mode_major, flip and vblank handlers |
| Buffer objects | `armsoc_dumb.c` | refcount, fb id, dimensions, original size, GEM name | new, reference, unreference, add_fb, rm_fb, resize, clear, map |
| Pixmaps | `armsoc_exa.c` | bo or plain memory behind a pixmap, external access count | CreatePixmap2, DestroyPixmap, ModifyPixmapHeader, Exchange, PrepareAccess, FinishAccess |
| DRM connection, screen life | `armsoc_driver.c` | `connection` (fd, open_count, master_count), vtSema, scanout | PreInit, ScreenInit, CloseScreen, EnterVT, LeaveVT, FreeScreen |
| Present | `armsoc_present.c` | queue of pending vblank requests, MSC counters of a CRTC | get_crtc, queue_vblank, flush, abort_vblank, drm_handler, MSC conversions |
| 2D acceleration | `viv2d/viv2d_exa.c`, `viv2d_op.h` | command stream, current operation with its rectangles, GPU bo of a pixmap, its use count | Prepare/Op/Done of Solid, Copy, Composite; PrepareAccess, FinishAccess; attach, detach; Flush |
| GPU bo cache | `viv2d/etnaviv_extra.c`, `queue.c` | queue of bos released but maybe in use | cache_new, cache_del, cache_clean |
| Modes, outputs, cursor, hotplug | `drmmode_display.c`, `drmmode_omap/` | mode, position and DPMS mode of a CRTC, last good mode, virtual size, udev monitor | set_mode_major and its revert, crtc_dpms, output_dpms, resize, adjust_frame, detection, uevents |
| Xv, DRI3, null EXA | `armsoc_xv.c`, `armsoc_dri3.c`, `armsoc_exa_null.c` | ports; none; none | image conversion; fd passing; software fallback |

How they interact:

* A DRI2 buffer wraps pixmaps, a pixmap wraps a bo, a bo may have a kernel
  framebuffer. The front buffer of a fullscreen window wraps the screen pixmap,
  and so the scanout bo. Three reference counts (buffer, pixmap, bo) and one
  access count hold this together.
* `ScheduleSwap` takes references on two buffers and two bos, counts itself in
  `pending_flips`, and hands its command to the kernel as the user data of a page
  flip on every CRTC or of one vblank event. The event brings it back.
* The DRM fd has one `drmEventContext` for all. DRI2 and Present both
  want its handlers.
* A RandR resize replaces the scanout under everything else. The end of a server
  generation waits for the swaps in flight.

What is hard, by component, and what makes it correct:

* *Swap engine*: events of several CRTCs per swap, partial failure of a
  flip, windows that vanish or change under a swap, bos that move between
  pixmaps. Correct means: each command is completed exactly once, every
  reference it took is given back, counts return to zero, the client is blocked
  exactly while its swap is pending, and it never draws to what is on display.
* *Scanout*: what the driver believes is on display is on display; the server
  draws to it; a flip in flight and a resize do not undo each other.
* *Bos and pixmaps*: no use after the last reference, fbs added and removed in
  pairs, no pixmap destroyed while a client has access to it.
* *DRM connection*: the process is master exactly while it owns the VT; the
  connection is opened and closed in pairs over screens and generations.
* *Present*: every queued event is delivered or aborted exactly once and to the
  right requester; MSC values are monotonic.
* *Modes*: after a failure on any of the paths of a mode set, the CRTC, the
  server's copy of its mode and the last good mode agree, no CRTC shows pixels
  outside the shared scanout, and a CRTC that counts as on shows its mode.
* *2D acceleration*: drawing happens as if each call drew at once, whatever is
  batched; the CPU never touches memory the GPU still works on; rectangles and
  stream words stay in their arrays.
* *GPU bo cache*: a bo is not freed while the unsent stream uses it, and is
  freed in the end.

## 2. Modules

| Module | Models | Extends |
|---|---|---|
| `BoPixmap` | bos and pixmaps as functions from memories to memories | |
| `Dri2Swap` | swap engine, page flip, scanout, resize, with the X server and the kernel as environment | `BoPixmap` |
| `MCDri2Swap` | bounds `Dri2Swap` for TLC: at most `MaxServerSteps` changes to windows and screen | `Dri2Swap` |
| `Dri2SwapProofs` | lemmas on memory operations (what each keeps well typed and leaves alone); the inductive invariant of `Dri2Swap` and its theorems | `Dri2Swap` |
| `Dri2UsersProofs` | counting lemmas; the theorems on buffer references and the core's swap counts | `Dri2SwapProofs` |
| `Dri2MemoryProofs` | the invariant of the memory of `Dri2Swap` and its theorems: assertions, references of bos and pixmaps, scanout | `Dri2UsersProofs` |
| `FlipPromise` | abstract: what page flipping promises the client of a fullscreen window | |
| `Dri2Pages` | `Dri2Swap` with one window to flip, that implements `FlipPromise` | `Dri2Swap`; (INSTANCE) `FlipPromise` |
| `Dri2DisplayProofs` | what is on display in `Dri2Swap`: names, private back buffers, the scanout shown; the refinement | `Dri2MemoryProofs`, `Dri2Pages` |
| `ScreenLife` | the DRM connection and the entry points of the driver that open, count, hand over and close it | |
| `ScreenLifeProofs` | the inductive invariant of `ScreenLife` and its theorems | `ScreenLife` |
| `GpuStream` | 2D acceleration: batches, use counts, CPU access, GPU bos and their cache | |
| `GpuStreamProofs` | the inductive invariant of `GpuStream` and its theorems | `GpuStream` |
| `PresentPromise` | abstract: what the driver promises of each vblank request | |
| `PresentQueue` | the queue of vblank requests, the kernel's events, MSC conversion; implements `PresentPromise` | (INSTANCE) `PresentPromise` |
| `PresentQueueProofs` | the inductive invariant of `PresentQueue`, its theorems and the refinement | `PresentQueue` |
| `Modes` | mode sets and their failures, DPMS, resizes, panning, hotplug, what Present takes for on | |
| `ModesProofs` | the inductive invariant of `Modes` and its theorems | `Modes` |

### 2.1 BoPixmap

A memory is a record of functions over the addresses of bos and pixmaps:
reference count, framebuffer, size, allocated size; pixmap reference count, its
bo, its external access count and its dimensions. Each function of
`armsoc_dumb.c` and `armsoc_exa.c` that changes one is an operator `Op(m, ...)`
that returns the memory after the call, so that a handler composes them in the
order of the code. An `assert()` of the code is a conjunct of `ok`: it becomes
false for ever when an assertion fails, or when something is used that is not
allocated.

Sizes are natural numbers, abstract in all but their order, which stands for the
memory they need (`armsoc_bo_resize` compares it with the original size).

### 2.2 Dri2Swap

| Variables | Code |
|---|---|
| `mem` | bos and pixmaps |
| `buf`, `cmd` | `struct ARMSOCDRI2BufferRec`, `struct ARMSOCDRISwapCmd` by address |
| `scanout`, `pending` | `pARMSOC->scanout`, `pARMSOC->pending_flips` |
| `win`, `priv`, `top` | X server: the pixmap of each window, DRI2 core's buffers and swap count of it, the window that `DRI2CanFlip` accepts |
| `hw`, `crtcOn`, `flipEv`, `vblEv` | kernel: bo on display per CRTC, CRTCs enabled, events it still owes |
| `phase` | server generation: up, in `ARMSOCCloseScreen`, closed |

`W` gathers what a driver function can change into one record. Each function of
the driver is an operator from such worlds to worlds (`CreateBuffer`,
`SwapComplete`, `ExecuteSwap`, ...), with the outcomes of its system calls as a
parameter `ch`. An action picks the outcomes, applies the handler to `W`, and says
what the environment does with it:

* client requests: `GetBuffers` (create, or reuse with `ReuseBufferNotify`),
  `SwapByFlip`, `SwapAtVblank`, `SwapNow` (three outcomes of `ScheduleSwap`);
* kernel events: `FlipEvent`, `VBlankEvent`;
* the server: `Restack`, `Redirect`, `Unredirect`, `DestroyDrawable`,
  `CreateWindow`, `SwitchCrtc`, `Resize`, `CloseScreen`, `FinishClose`.

The constant `Handlers` says whose handlers the event context holds. "dri2" is
what `drmmode_display.c` initialises and what the swap engine is written for;
"present" is what `armsoc_present_screen_init`, called last by `ARMSOCAccelInit`,
leaves. The properties of the engine are checked with the former; the run
`present_events` shows what the latter does to it.

The constant `Env` names what the environment of a run may do (destroy windows,
redirect, switch CRTCs, resize, let flips, vblank requests, framebuffers or names
fail), so a run can say under which conditions its property holds.

External parts (the X server's DRI2 core, composite and RandR, the kernel) are
modelled from how the driver uses them: the core reuses a back buffer while size
and serial number match, makes the front anew on each request, and limits a
window to one pending swap; the kernel has one outstanding flip per CRTC, refuses
another with EBUSY, and delivers each event it accepted once.

`FlipPromise` is what a client of a fullscreen window may believe: displays show pages,
it has a page to draw to that is not the screen's (`Get`), a swap puts that page on all displays
(`Flip`), and once it is there the two pages trade places, or the client goes on to another if it
has more than two (`Turn`); nothing else changes what is shown. `Dri2Pages` is `Dri2Swap` in which `DRI2CanFlip` accepts no window but `Flipper`, with the
mapping: pages are bos, `shown` is `hw`, `front` the bo of the screen pixmap, `draft` that of
the window's back buffer, and `busy` that a flip is in flight. Names, references, commands and
other windows disappear; the steps in which one CRTC of several has flipped are stutters.

### 2.3 ScreenLife

| Variables | Code |
|---|---|
| `conn` | `struct ARMSOCConnection connection`; whether the kernel has the process as master; whether an `assert` failed or KMS was used without being master |
| `scr` | per screen: `drmFD`, `vtSema`, `scanout`, the udev monitor, and whether it has the VT |
| `server` | what phase the X server is in, and which screens it has still to call in it |

Each function on the connection (`SetDRMMaster`, `DropDRMMaster`, `OpenDRM`,
`CloseDRM`) maps a connection to a connection; each entry point of the driver is
an action: `PreInit` with its failures, `ScreenInitSucceeds` and
`ScreenInitFails` (the label it jumps to as a parameter), `CloseScreen`, `VTLeave`,
`VTEnter`, `FreeScreen`, `AbortLeave`. The X server calls them screen after
screen, in the order of `xf86InitOutput`, `xf86VTSwitch`, `AbortDDX`: the order
among screens is left open, and a failure may come at any of them. The rest of the
driver uses KMS in `ScreenInit`, `EnterVT` and `CloseScreen`; `Kms` records
whether the kernel would have refused. The calls on udev fail or not as they like, and
`uevent_fini` keeps its pointer to what it frees; no property is about the monitor
(section 5).

### 2.4 GpuStream

| Variables | Code |
|---|---|
| `pix` | `Viv2DPixmapPrivRec`: GPU bo, `refcnt`, and how the CPU has access |
| `op` | `v2d->op`: the operation begun, its rectangles and the last source origin |
| `stream` | `v2d->stream`: which bos its relocations name, and which its rectangles read and write |
| `jobs` | batches the kernel has queued, in order |
| `cache` | `unused_bos` |

A world is a record of the four that one function can change, and each function
of `viv2d_op.h` and `etnaviv_extra.c` an operator on worlds. EXA's calls are actions:
the three Prepares, `Solid`, `Copy` (Composite without a mask does the
same), `CompositeMasked`, `Done`, `PrepareAccess`, `FinishAccess`, and the life
of pixmaps. `fill` says whether `_Viv2DStreamReserve` finds the stream full: the
model has no word counts, so any reservation may. `Wait` only cleans the cache: `etna_pipe_wait`
gives up after a second (`viv2d_op.h:167`), so it promises nothing of the jobs, and those it did
wait for are steps of `RunJob`. What the CPU does wait for is `etna_bo_cpu_prep`. Xv draws from one
pixmap or from those of three planes (`PutTextureImage`). `Env` holds what the passing
runs leave out, because it breaks their properties (section 5).

The GPU runs batches in order; libdrm and the kernel keep every bo alive that a
batch names. So what is to be shown is that batches name what they draw with,
and that the CPU waits for the right ones.

### 2.5 PresentQueue and PresentPromise

| Variables | Code |
|---|---|
| `queue`, `heap` | `armsoc_drm_queue`; the events allocated, by address |
| `req` | what became of each request, and the parameters of its `drmWaitVBlank` |
| `clock` | `vblank_offset`, `vblank_msc_prev`, `vblank_msc_high` of each CRTC |
| `call` | the request for which `armsoc_present_queue_vblank` is in its loop |
| `armed`, `readable`, `now` | kernel: requests waited for, events to read, frames shown |
| `reading` | the buffer of `drmHandleEvent` |

`PresentPromise` has two variables: how each request ended, and whether its vblank
is past. `PresentQueue` implements it with `outcome` as the core of Present
sees it and `due` as the requests whose event the kernel has sent. The default
build compiles neither flips nor the wait for a vblank, so the kernel's MSC read by
`armsoc_get_kernel_ust_msc` is always 0 (the model's `KernelMsc`).

`QueueVblank` goes up to the loop around `drmWaitVBlank`; `WaitVblank`,
`FlushEvents` (EBUSY) and `WaitVblankFails` are its rounds, between which
`Handle` runs the handlers of other events, as `armsoc_flush_drm_events` does. An
address matters: an event of the kernel is matched to an entry by it, so the
allocator picks any free one, and with "reuse" in `Env` also one that the
kernel still has. All 32 bit counters count modulo `Wrap`.

### 2.6 Modes

| Variables | Code |
|---|---|
| `crtc` | `xf86CrtcRec` and `drmmode_crtc_private_rec`: enabled, mode and x, last good mode and x, `dpms_mode` |
| `scanout`, `virtual`, `screen` | size, original size and fb of the scanout; `pScrn->virtualX`; `pScreen->width` |
| `out`, `kms` | kernel: DPMS property of each connector; what each CRTC shows |
| `conn`, `known`, `uevents` | monitors there are, those the driver told of, uevents unread, in order |
| `job` | the server's call in progress and the CRTCs it has still to set |
| `hit` | what failed so far: nothing, refused modes only, or more |

A mode is a width: what the code does with heights is the same again. CRTC c drives
output c. `SetModeMajor` is `drmmode_set_mode_major` for one CRTC, in four
disjuncts: no framebuffer, no memory, the mode is taken, the mode is refused
(with `drmmode_revert_mode`, which resizes the scanout and sets the last good
mode). The server's calls set CRTCs one after another; a call in progress is a
`job`, and only hotplug comes between its steps. A uevent is "ours" or "other" (another card,
or not `HOTPLUG=1`); `HandleUevents` reads one and probes only for the first kind, and with "uevent"
in `Env` not even then (no device, a failing `fstat`). What the server does around a
call (`xf86CrtcSetModeTransform` puts back the old fields if it fails,
`xf86DisableUnusedFunctions` turns off what is unused) is external. So is the
kernel: it refuses a mode that does not fit in the framebuffer, and turns off the
CRTCs that show a framebuffer when it is removed.

## 3. Runs

Bounds are in the `.cfg` files. `CHECK_DEADLOCK FALSE` appears where the system
may rightly stop: the screen has closed, or (as clients make no promise) nobody
asks for anything and the server steps are used up, or, in `triple_buffering`, an assertion has
ended the server (section 5).

| Run | Expect | Shows |
|---|---|---|
| `swap_accounting` | pass | With windows destroyed, redirected and resized, CRTCs switched, and flips, vblanks and fbs refused under the swaps: all counts and references are exact, no assertion fails, each swap ends, CloseScreen returns |
| `triple_buffering` | pass | Four buffers, two CRTCs, a window that may be covered and uncovered: every request and event is a step of `FlipPromise` or changes nothing in it, and every flip ends; the rotation of back buffers and its fallback when one cannot be had; what the client draws to is private, its name is right, a page taken off the display is not the next one drawn to, and scanout, screen pixmap and display agree between swaps |
| `present_events` | violation of `SwapsComplete` | With the handlers Present installs no DRI2 swap is ever completed |
| `stale_front` | violation of `NameMatchesPixmap` | Two windows that cover the screen in turn: the second one's flip leaves the first with a buffer name that is not its pixmap's |
| `screen_life` | pass | Three screens, each PreInit, ScreenInit and EnterVT failing or not, three generations, VT switches, aborts: the counts of the connection keep its asserts true and every KMS call under master |
| `vt_switch` | violation of `MasterReleasedWhenAway` | One screen, one VT switch: LeaveVT does not give up DRM master |
| `gpu_sync` | pass | Two pixmaps, one of them imported, 1x1 and repeating: the CPU sees all drawing, GPU bos are kept as long as they are drawn with, rectangles merge only under one origin |
| `gpu_cache` | pass | With Xv's intermediate bos: what is released to the cache is freed in the end |
| `gpu_source` | violation of `CpuSparesSources` | A CPU write goes ahead of a copy that has still to read the pixmap |
| `present_queue` | pass | Three requests, room for one event in the kernel, failing allocations and calls, aborts, events that outlive their screen: the queue is the requests waited for, none is answered early or lost, and `PresentPromise` is implemented, liveness included |
| `modes` | pass | Two CRTCs on one scanout set, panned, blanked, switched off, resized, with every failure of `Hazards` and a monitor that comes and goes: fields agree with the last mode taken, what is shown fits, what counts as on shows its mode |
| `modes_dpms` | violation of `ShownIsOn` | A CRTC switched off and on again, or set by a resize while blanked, shows its mode and counts as off for Present |

*Bounds.* Two CRTCs are the least for swaps that complete in parts and fail in
parts; two commands let one be in flight while another is scheduled; buffers, pixmaps
and bos are as many as the run can hold at once, so the allocator fails
only where the run wants it to. Server steps are bounded by `MaxServerSteps`,
because each combination of three of them (destroy under a flip and close; resize,
redirect and swap) already reaches every pair of hazards; requests and events
are not bounded. Windows and CRTCs are symmetric in the safety runs without
liveness.

`triple_buffering` has no bound on steps: with one window and requests only, the model is finite.
Four buffers give the back three pixmaps, the least with which it neither stays nor comes back
at once when it moves on. Beside a second window names go wrong (section 5).

*Fairness.* `FairSpec` (and `FairOneSpec` of `Dri2Pages`, which adds the same) asks for weak fairness of exactly three things: the
kernel delivers each flip event and each vblank event it accepted (the server's main
loop, and the loop in `ARMSOCDRI2CloseScreen`, read the DRM fd whenever it is
readable), and the server, once its loop has ended, finishes `CloseScreen`. Nothing
is assumed of clients, of the window manager or of RandR.

`GpuStream`'s `FairSpec` asks for weak fairness of `Done` and `FinishAccess` (EXA
ends what it began before it returns to its caller), of `RunJob` (the GPU), and strong
fairness of `Flush`: the block handler runs each time the main loop goes to wait, so it
comes again and again, but other operations may be in between.

*Bounds of the other runs.* `screen_life`: three screens are the least that
leave two running when one fails; three generations include one between the
first and the last. `gpu_*`: two pixmaps give every pairing of source and
destination, a third bo serves as the intermediate one or as that of a pixmap
resized while its old one waits; an image of Xv is then always packed (planar ones, which take four
pixmaps, are in the proofs only). `MaxJobs` of 2 lets the CPU need one batch and
not the other; `MaxUses` of 1 keeps the use count finite (only its sign is
tested); `MaxRects` of 2 makes an array full both by number and by origin. In
`gpu_cache`, which checks liveness, `MaxJobs` and `MaxRects` are 1.

`present_queue`: two addresses and `Space` of 1 are the least that make a request
wait for room while another is with the kernel and a third, aborted, is still owed; three
requests need an address again that an earlier one had. `Wrap` of 10 with `MaxFrame` of
3 lets the offset be moved by every request and just keeps the counters from going
round, as 2^32 frames of 60 a second do for over two years; the passing run says nothing of
a wrap (section 5). Its
`FairSpec` is weakly fair to the frames of a CRTC (requests are made of CRTCs that are on),
to the kernel sending what is due, to the server reading the DRM fd, and to the
two loops inside a call; nothing is assumed of clients or of failures.

`modes`: two CRTCs are the least that share a scanout, two widths the least
to resize between; one monitor that comes and goes, with one uevent unread, is seen late,
in time, or not at all. The model is finite without further bounds.

*What the properties say.* `PendingCountsCommands`, `EventsMatchCommands`,
`RefsCountHolders`, `PixmapsCountBuffers`, `BuffersCountUsers` and
`CoreCountsSwaps` each equate a count the code keeps with the number of things it
stands for, computed from the rest of the state. `BackIsPrivate`,
`NameMatchesPixmap`, `ScanoutIsShown` and `RootIsScanout` relate the driver's
belief to the display and to what clients hold. `SwapsComplete` and
`ScreenCloses` are the liveness of the engine. `PageRests` is what the rotation of back buffers is
for: the page that a flip takes off the display, which a CRTC or a client may still be reading, is not
the next one drawn to, unless no further pixmap could be had.

In `Modes`, `FieldsAreGood` is about the fields of the server and the driver,
`ShownFits` about the kernel, and `OnShowsItsMode` joins the two; `hit` says how
much may have failed for the last to be promised. In `PresentQueue`, `EntriesOwnEvents` is the memory discipline of the queue,
`PendingAreOwed` that no request waits for an event nobody will send, and
`AnswersNotEarly` that the MSC arithmetic, offset and all, never tells an MSC
before the one asked for.

## 4. Proofs

`Dri2SwapProofs` proves, for any finite sets of addresses, windows and CRTCs, any
number of buffers from 2, any `Env` and either choice of `Handlers`:

* `TypeCorrect`: `Spec => []TypeOK`;
* `PendingCorrect`: `Spec => []PendingCountsCommands`;
* `EventsCorrect`: with the handlers of DRI2, `Spec => []EventsMatchCommands`.

The assumptions are those of the constants (`MemAssumption`, `SwapAssumption`):
the null addresses are not addresses, the sets are finite, there is at least one bo, the
initial size is a size.

The invariant is

    IInv == TypeInv /\ EventsBelong /\ NoneLost /\ PendingCountsCommands

`TypeInv` strengthens `TypeOK` by what the handlers rely on to stay well typed: the
number of pixmaps of a buffer is in bounds, a command that is not live is the
zeroed one. `EventsBelong` says that every event outstanding names a live command
of its kind; `NoneLost` that a live command has an event, and that swapCount is
the number of flips still to complete, as long as the handlers are those of
DRI2. None of the three properties is inductive alone: that `pending` drops by
one with each freed command needs that an event never names a command already
freed, and that needs the count of outstanding flips.

The proof is layered as the model is. Each operator on worlds has a lemma that says
what it does to swap commands (`SameSwaps`: nothing) and to types (`World`).
Each action has a lemma that classifies its step as one of six kinds (swaps
unchanged, a flip starts, a vblank wait starts, no event, a flip event ends or is
counted, a vblank event ends). `EventsBelong`, `NoneLost` and the pending
count are then proved once per kind, not once per action. `IInv` was
checked by TLC as an invariant of `swap_accounting` and `present_events` before it
was proved.

`Dri2UsersProofs` proves, for the same constants (no bound on windows, CRTCs, addresses,
failures):

* `SwapsCorrect`: `Spec => []CoreCountsSwaps`;
* `BufferRefsCorrect`: `Spec => []BuffersCountUsers`.

A count is compared with `Times(f, v)`, how often `v` is a value of the function `f`:
backs and fronts by window, sources and targets by command. A handler changes such a
function at one argument, and `TimesUpdate` says what that does to the count, so each step
is arithmetic. The invariant is `UsersInv`, on top of `IInv`:

* `BuffersUsed`: `BuffersCountUsers` in that form;
* `SwapsCounted`: the core's count of a window is its live swaps not marked failed,
  and zero once the window is gone;
* `DeadClear`: a command that is free names no buffers. The counts go over all
  commands, live or not, and rely on it.

`Dri2MemoryProofs` proves that memory is used correctly:

* `NoAssertionFails`, `BoRefsCorrect`, `PixmapRefsCorrect`, `RootShown`:
  `Spec /\ []BoLeft => []P` for `AssertionsHold`, `RefsCountHolders`,
  `PixmapsCountBuffers` and `RootIsScanout`;
* `SafeWithPlenty`: the four together, from `Spec` alone if `PlentyOfBos`.

The hypotheses are what the code needs, and section 5 says what happens without each:

* `NumBufs = 2`, as the option's default has it. With three, a window that leaves fullscreen
  has its buffer rebuilt with pixmaps still in it.
* `"name" \notin Env`, and a free bo in every state (`BoLeft`): `ReuseBufferNotify` does not
  look at the result of `CreateBufferResources`. If either fails there, the buffer
  goes on with a pixmap that is gone.
* `BoLeft` speaks of behaviours; `PlentyOfBos` is a condition on constants that implies it
  (`OneLeft`): more bos than pixmaps, DRI2 buffers, the two sides of each command, CRTCs and
  the scanout can hold at once. It bounds what there can be and restricts no
  behaviour. `swap_accounting` satisfies `BoLeft` with fewer, as TLC shows.

Everything else may fail or happen in any order: flips, vblank requests and framebuffers
refused, windows destroyed and redirected, CRTCs switched and the screen resized during
swaps, any number of windows and CRTCs.

None of the four is inductive. The invariant `MemSafe` has these parts:

* `Sound`: assertions have held; the count of a bo is `Held`, the sum over pixmaps, buffers,
  both sides of the commands and the scanout (`BosCounted`), and likewise for pixmaps
  (`PixCounted`); living pixmaps have bos, no two the same (`PixSound`); a buffer in use
  wraps a living pixmap, which a back buffer has for itself (`BufSound`).
* `WinSound`: the back and front the core holds for a window are a back and a front. The front
  wraps the window's pixmap or the screen's, and only what is exchanged with the screen
  pixmap has an fb. This is what keeps `armsoc_bo_add_fb` from finding an fb
  already there, and `rm_fb` from finding none.
* `CmdSound`: while a swap is in flight its window's buffers are those it names, with the
  bos it took references on still behind them, so `SwapComplete` exchanges what
  `ScheduleSwap` sent to the display.
* `ScreenSound`: the screen pixmap has the bo of the scanout, which has an fb.
* `HeldApart`, `WinApart`, `OneEach`: no two windows share buffers or a pixmap other
  than the screen's, and no window has two swaps that count.

`MemInv` states this for worlds, with the set of windows and commands it holds of as
parameters: within a handler it is broken for the window and the swap at work and
holds of the others. Each operator on worlds has a lemma that says what it keeps of
it, each handler composes them, and each action has a lemma `...Safe`; `MemStep`
collects those. `UsersInv` is needed at two places: a buffer loses its last reference only
if no window and no swap names it, and a throttled window has exactly the swap
in flight. `Kept` is what remains between calls: living pixmaps keep
their bos, living bos their fbs. TLC checked `MemSafe`, `UsersInv` and `BoLeft` as
invariants with the constants of `swap_accounting` before they were proved.

`Dri2DisplayProofs` proves what clients and the user see of all this. Of the hypotheses
above each theorem keeps those on `NumBufs`, names and `BoLeft`, and adds some:

* `NamesCorrect`: `NameMatchesPixmap`, if windows are on the screen pixmap, the screen keeps
  its size (`"redirect", "resize" \notin Env`), and no window but one is flipped
  (`[]OneFlips(d)`);
* `BackCorrect`: `BackIsPrivate`, if also CRTCs are not switched and take their flips
  (`"crtc", "flipfail" \notin Env`);
* `ScanoutCorrect`: `ScanoutIsShown`, if also windows are not destroyed (`"destroy" \notin
  Env`);
* `ShownWithPlenty`: the three from `Spec` alone, if `PlentyOfBos` and either the NoFlip
  option is set or there is one window.

* `DoubleBuffering`: with the hypotheses of `ScanoutCorrect`, two buffers among them, the steps of `Dri2Pages`
  are those of `FlipPromise` in which pages only trade places (`OneSpec /\ []BoLeft => Pages!Safe`). That every flip ends is the run's part of
  `FlipsAsPromised`.

The hypotheses follow what the code gets wrong without them: `stale_front` for a second
window, section 5 for the rest. `OneFlips(d)` says that `DRI2CanFlip` accepts no window but d;
other windows may swap by blit. The set of CRTCs is arbitrary, the empty one included (then
flips are fake). Vblank requests and `drmModeAddFB` may fail throughout.

The argument has two halves. First, one lemma per action says what the step does to what is
shown, for any number of windows. Most steps are `Calm`: a buffer in use keeps name and bo or
has just been given the name of its bo, CRTCs go on with theirs as long as it has an fb, no
back buffer gets on a CRTC, no flip begins, and one that ends without success shows nothing. The
others are the start of a flip (`Begun`: the accepting CRTCs show the back's bo), its
completion (`FlipDone`: back and screen trade bos and names) and the switching of a CRTC.
`StepShows` collects them. Then three invariants, each resting on those before it:

* `NameInv(d)`: back buffers have the names of their bos, and the front of d has the name
  of the screen's. The second part makes the trade of names in `ExchangeBufs` right, and is what
  the second window of `stale_front` breaks: its flip gives the screen pixmap another bo, and the
  first window's front keeps the old name.
* `BackInv`: while a flip is in flight the CRTCs show its bo; a back buffer on a CRTC is being
  flipped to by its own window; every event outstanding is that of a flip. A swap is only
  scheduled when none of its window is in flight, hence when every CRTC is free
  (`AllFree`), so that a flip starts on all CRTCs or on none.
* `ShowInv`: the CRTCs show the bo of the flip in flight, or that of the screen pixmap if there is
  none. That a swap frees no bo on a CRTC, nor its fb, comes from `CmdSound` and
  `ScreenSound` of `MemSafe`.

For the refinement `Steady` gathers what these invariants say of a world; `QuietPages`,
`FlipPages` and `TurnPages` map the three kinds of steps to `Get` or a stutter, `Flip` and
`Turn`, and `PagesStep` joins them. `CmdSound` is what makes `draft` the page on display while a
flip is in flight.

`ScreenLifeProofs` proves, for any finite set of screens and any number of
generations:

* `TypeCorrect`, `AssertsCorrect`, `KmsCorrect`: types, no failing `assert`, no
  KMS call without being master;
* `CoversCorrect`, `MasterCorrect`: until a fatal error `master_count` covers
  all that hold it, and is positive only if the kernel agrees;
* `OpensCorrect`, with `BadBufs = {}`: `open_count` is the number of screens with
  the connection.

The assumption is `LifeAssumption` (the set of screens is finite), and the
condition named, which is a hypothesis of its theorem. The invariant is

    IInv == TypeOK /\ (\A s \in Screen : ScreenShape(s)) /\ Counts

`ScreenShape` says what each phase and the place of a screen in it imply for its
fields (in "leaving", a screen has the VT exactly if it has still to be
called). `Counts` joins the connection to the screens. The properties are not
inductive alone: `CloseDRM` asserts that `master_count` is zero when the last screen
lets go, which needs that the count covers exactly the others. Counting is done
with cardinalities; a lemma (`HeldStep`) says that a step that changes one screen
changes the sum of the three by the difference of that screen's bits, and each
action's proof is arithmetic from there. TLC checked `IInv` first, also with
`BadBufs` of one and of all screens.

`PresentQueueProofs` proves, for any number of requests, any addresses, CRTCs,
`Space`, `Wrap` and `Ahead`, whatever fails, and also with "reuse":

* `TypeCorrect`, `QueueCorrect`, `EventsOwned`, `OwedCorrect`: types,
  `QueueIsPending`, `EntriesOwnEvents`, `PendingAreOwed`;
* `PromiseSafe`: without "reuse", `Spec => Promise!Safe`, the safety part of the
  refinement;
* `AnswersCorrect`: without "reuse" and for `Modest(F)`, `AnswersNotEarly`.

The three invariants are inductive together with `Places` (a request not made is in
nobody's hands; the request of the loop is not with the kernel; what was sent
has a frame) and `Down` (with the screen closed nothing is queued). `QueueIsPending`
needs `EntriesOwnEvents`, since the handler finds the request through the event at
the address; that needs that two entries never share an address. The refinement
needs one more invariant, `Fresh`, which is where "reuse" would break it: an
address that a kernel event carries is that of no other request's entry. Then an
answer goes to the request whose event was sent.

`AnswersCorrect` rests on `MscInv`. A request further ahead than `MAX_VBLANK_OFFSET`
moves the clock of its CRTC while earlier ones wait; what was asked of the kernel for
those stays right because the clock, modulo `Wrap`, is only ever moved forward
(`AskForm`), so that the MSC it makes of a request's sequence is at least the
target (`ReqInv`), and the kernel sends no event before that sequence
(`PastIsAfter`). `Modest(F)` says that no counter goes round on the way: a request
is less than half of `Wrap` ahead, and at most F if it moves the clock, and
`MaxFrame + MaxRequest * F` is below `Wrap`. The run satisfies `Modest(2)`. The bound is
needed and exact: with one frame more than it allows TLC finds an early answer
(section 5). Where no request is that far ahead F is 0 and only the frames count: with
the real `Wrap` of 2^32 they last over two years at 60 Hz.

`GpuStreamProofs` proves, for any sets of pixmaps, bos and origins and any bounds:

* `TypeCorrect`;
* `CpuCorrect`: without any of the three conditions of `Env`, `CpuSeesDrawing`;
* `OriginsCorrect`: with origins that are natural numbers, `BatchSharesOrigin`.

The invariant is a predicate `Good` on worlds, kept by each operator of the model
by a lemma of its own, with `Steady` (what the variables outside the world
satisfy) and `OpGood` (the operation begun knows bos that the stream names
and a destination in use). `Good` says that live pixmaps do not share
bos, that a pixmap the CPU has has no uses, that batches name what they draw with,
and, the heart of `CpuCorrect`, that a pixmap to whose bo an undone batch
writes has a positive use count: it is what lets `PrepareAccess` skip the wait when the
count is zero. The part on names rests on a condition the code does not give, that no
reservation fills the stream between Prepare and the rectangles ("fill"): it serves
`CpuCorrect`, whose hypothesis it is, and `DrawsAreNamed` itself is left to the run.

`ModesProofs` proves, for any number of CRTCs, any widths and every failure:

* `TypeCorrect`, `FieldsCorrect` (`FieldsAreGood`), `ShownCorrect` (`ShownFits`);
* `ModeIsShown` (`OnShowsItsMode`): a
  second invariant, `PInv`, on top of the first. While nothing failed,
  every CRTC in use fits in the scanout, which is as large as the screen, so
  that the kernel refuses nothing (`ScreenFits`); a CRTC that is on and has not
  still to be set shows its last good mode (`GoodShown`); a failed set
  restores what it changed (`SavedKept`).

`FieldsAreGood` speaks of the time between calls; `FieldsOK` and `JobOK` say
what holds within one: only the CRTC of a set may have fields the kernel did not
take, the server has saved good ones, and a set that reports success has made
them good. `SetStep` proves once what each of the four ends of
`set_mode_major` keeps.

*Only model-checked*: liveness (`SwapsComplete`, `ScreenCloses`, `CacheDrains`, the second
halves of `PromiseKept` and `FlipsAsPromised`), which TLAPS 1.4.5 cannot do: it has no rules for
fairness and `ENABLED`; and `DrawsAreNamed` and `PageRests`. Every other property that a passing run
checks has a theorem; what those leave to TLC is `Dri2Swap`'s memory and display with more than two buffers
(`triple_buffering`, where `BackIsPrivate`, `NameMatchesPixmap`, `ScanoutIsShown`,
`RootIsScanout`, `PageRests` and `FlipsAsPromised` are checked with four), and the cases that the hypotheses of the theorems exclude.

## 5. Observations

Besides the five findings the runs record (`present_events`, `stale_front`,
`vt_switch`, `gpu_source`, `modes_dpms`), checking by hand with other choices
of the constants showed the following; each is one constant away from a run above.

* `name` failures while a window changes between flippable and not: the ignored
  result of `CreateBufferResources` in `ReuseBufferNotify` leaves a buffer with a
  destroyed pixmap (`PixmapsCountBuffers`, `RefsCountHolders` fail).
* `destroy`, `redirect` or `crtc` during a flip: `ScanoutIsShown` fails. The
  flip went to the display; its completion does not make its bo the scanout,
  because the window is gone, or makes it the scanout although a mode set shows the
  older one.
* "resize" during a flip, for good: the event of the flip makes the old bo the
  scanout again (`drmmode_display.c:1533`, `:1553`; `ScanoutIsShown` fails).
* With three buffers, a window that leaves fullscreen while `currentPixmap` is not 0
  is rebuilt (`armsoc_dri2.c:435`) and fails `assert(buf->currentPixmap == 0)` at
  `:244` (`AssertionsHold` in `triple_buffering`, which
  checks what holds up to there).
* With three buffers or more, a back buffer that is rebuilt with `currentPixmap` 0 keeps
  in `pPixmaps` the pointers to its further pixmaps, which `DestroyBufferResources`
  (`armsoc_dri2.c:322`) has destroyed, and destroys them again at the next rebuild: with a second
  window in `triple_buffering`, that window's pixmap by then (`NameMatchesPixmap` fails).
* Flips refused by one of two CRTCs: the other shows the back buffer, the swap is
  reported failed, and the client draws to it (`BackIsPrivate`; one window is enough). This is the code's own TODO MIDEGL-1461.
* A resize in place whose `drmModeAddFB` fails leaves the scanout without an fb; the next
  resize then fails the assertion of `armsoc_bo_rm_fb`.
* With more than two buffers an exchange also advances to a next pixmap, which gets an fb
  although the window does not flip (with redirected windows, which `triple_buffering` leaves out). The
  comment at `armsoc_dri2.c:607` has further buffers for flips only.
* A PreInit that fails on fewer than two DRI buffers (`armsoc_driver.c:932`)
  returns without dropping master or closing the connection: with a screen in
  `BadBufs`, `OpensMatchScreens` fails. (The asserts hold even so, as is proved.)
* If `udev_monitor_new_from_netlink` fails in a later generation, `uevent_handler`
  is the freed one of the generation before, and the next `uevent_fini` frees it again
  (`drmmode_display.c:1847`; in `screen_life`, `monitor` gets to "reused").
* `drmmode_handle_uevents` reads a uevent before it knows that it can answer it: if `fstat` fails there,
  or receiving gives no device, a monitor that came or went stays unknown until the next
  uevent or probe (with "uevent" in `Env`, `known` and `conn` differ with no uevent unread; without it
  they agree then, since every probe asks for all connectors).
* "fill" in `Env`: when the stream is flushed between Prepare and the rectangles,
  they go into a batch that names no bo (`DrawsAreNamed` fails), and
  PrepareAccess does not find the pixmap in the stream (`CpuSeesDrawing` fails).
  Prepare reserves room for the registers, not for the rectangles.
* "self": compositing a repeating 1x1 pixmap onto itself resets its use count
  just raised, and a later access does not wait (`CpuSeesDrawing` fails).
* "xv": `PutTextureImage` raises no use count, with the same effect.
* "reuse" in `PresentQueue`: the event of an aborted request finds the entry of a
  new one at the same address (`armsoc_present.c:745`; the comment at `:733` says
  "Looks for the matching sequence number", but an address is compared). The new request is
  answered early (`AnswersNotEarly`, `PromiseKept` fail), and can be told
  of twice when its own call then fails. The proofs show that the queue itself
  stays sound even so.
* When a frame and the offset of the clock add up to `Wrap` (`MaxFrame` of 4 in the run),
  the MSC that is told goes down (`AnswersNotEarly` fails).
  `armsoc_kernel_msc_to_crtc_msc` compares with the last sequence it saw
  (`armsoc_present.c:245`), and in the default build every `get_ust_msc` shows it the
  sequence 0 in between, so that the sum may come from less than half of `Wrap` away and
  the wrap is not seen.
* `revert_mode` resizes the scanout all CRTCs share and sets only its own again:
  the others go dark and stay in use. The resize handler knows better ("Framebuffer needs to be reset on
  all CRTCs", `drmmode_display.c:1585`). Reverting at x > 0 makes the scanout as
  wide as the mode alone, and the kernel refuses the position. Both are why
  `OnShowsItsMode` asks for `OnlyDisplay` once a mode was refused.
* A resize that finds no memory removes the fb in order to resize in place
  (`drmmode_display.c:1466-1488`); if it cannot, it reports failure, with the screen dark and
  `virtualX` at the new size (`:1451`). `xf86crtc_resize` ignores the result of each
  `set_mode_major` (`:1594`).
* An origin of -1 or less looks like the start of an operation: groups merge that
  have different origins, and the array of rectangles can be overrun
  (`BatchSharesOrigin` fails).

## 6. Not modelled, and why

* Pixels, formats, blending, the arithmetic of Xv: data no property here is about.
* The scanout's GPU bo (`v2d->bo`): it is imported once, at init, and what becomes of
  it after a flip or resize depends on EXA's order of calls at exit and on libdrm_etnaviv's
  handling of a bo imported twice, which this repository does not show. By reading:
  `Viv2DAttachBo` binds it to whatever pixmap has the scanout, so after a resize
  the screen pixmap still has the GPU bo of the old scanout.
* Flips and vblank waits of Present: compiled out by default.
* The hardware cursor: the OMAP interface selects none, so each function returns at once.
* Output properties, EDID, masks of possible CRTCs and clones, gamma, rotation: set once or
  per call, with no state that outlives it. Heights of modes: as widths.
* DRI3 and the null EXA: one request at a time, no state of their own.
* `Viv2DReattach`, for DRI3 and user memory; `UploadToScreen`, `DownloadFromScreen`
  and the buckets of the cache, which the default build compiles out.
* `armsoc_bo_set_dmabuf`: its body is compiled out.
* `viv2d/etnaviv.c`: not built. Register headers: tables.
* Detaching a drawable from DRI2 while its window lives, reuse of an XID while a swap
  that names it is pending: need a longer life of drawables than the model gives them.
* Crashes and restarts: the driver persists nothing; a new server starts from `Init`.

## 7. What is left

1. *The scanout's GPU bo*: `GpuStream` with `v2d->bo` and `Dri2Swap`'s changes of the
   scanout, reduced to the calls that reach both.
2. *Abstract specifications*: one for windows that swap by blit; drawing that happens at once, refined by `GpuStream` as far as the CPU can see.
3. *Proofs*: memory and display for more than two buffers and windows that stay as they
   are; `NamesCorrect` for windows with pixmaps of their own.
