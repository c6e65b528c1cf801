---------------------------- MODULE PresentQueue ----------------------------
(***************************************************************************)
(* The vblank requests of the Present extension (armsoc_present.c), in the *)
(* default build: ARMSOC_PRESENT_FLIP and ARMSOC_PRESENT_WAIT_VBLANK are   *)
(* not defined.                                                            *)
(*                                                                         *)
(* A request gets an event on the heap and an entry in armsoc_drm_queue    *)
(* that points to it; the kernel gets the address of the event, and sends  *)
(* it back when the vblank has passed. The server is one thread, but       *)
(* queue_vblank reads events itself when the kernel has no room for more.  *)
(*                                                                         *)
(* The core of Present (external) asks only for an MSC that is ahead, and  *)
(* without flips calls nothing of the driver from an event's notification. *)
(* All 32 bit counters are modelled with Wrap values.                      *)
(***************************************************************************)
EXTENDS Integers, Sequences, FiniteSets

CONSTANTS
  MaxRequest,  (* bound: requests are numbered from 1 by the core's event_id *)
  Addr,        (* addresses an event may be allocated at                     *)
  NoAddr,      (* NULL                                                       *)
  Crtc,
  NoCrtc,
  Space,       (* events the kernel keeps for the DRM file                   *)
  Wrap,        (* 2^32                                                       *)
  MaxOffset,   (* MAX_VBLANK_OFFSET                                          *)
  Ahead,       (* how far ahead of the current MSC the core asks             *)
  MaxFrame,    (* bound: the frame a CRTC counts to                          *)
  Env          (* what a run allows, see Hazards                             *)

Hazards ==
  {"nomem",   \* an allocation fails
   "ioctl",   \* drmWaitVBlank, poll or read fails
   "reuse"}   \* an event is allocated where one was that the kernel still has

Request == 1..MaxRequest

ASSUME PresentAssumption ==
  /\ MaxRequest \in Nat /\ MaxFrame \in Nat
  /\ NoAddr \notin Addr /\ NoCrtc \notin Crtc
  /\ Space \in Nat \ {0}
  /\ Wrap \in Nat /\ Wrap >= 4
  /\ MaxOffset \in Nat
  /\ Ahead \subseteq Nat \ {0}
  /\ Env \subseteq Hazards

VARIABLES
  req,       (* each request: what became of it, and its parameters          *)
  queue,     (* armsoc_drm_queue: the requests that have an entry; its data  *)
             (* is req[r].addr. Its order plays no part, see Handle          *)
  heap,      (* the event_id in the event at each address, 0 if free         *)
  armed,     (* requests whose vblank the kernel waits for                   *)
  readable,  (* events in the DRM file                                       *)
  reading,   (* the buffer of drmHandleEvent                                 *)
  call,      (* the request queue_vblank is looping for, or 0                *)
  clock,     (* vblank_offset, msc_prev and msc_high of each CRTC            *)
  now,       (* frames each CRTC has shown                                   *)
  up         (* between armsoc_present_screen_init and CloseScreen           *)

vars == <<req, queue, heap, armed, readable, reading, call, clock, now, up>>

Outcome == {"none", "pending", "answered", "aborted", "refused"}

RequestRec ==
  [outcome : Outcome,
   crtc : Crtc \cup {NoCrtc},
   addr : Addr \cup {NoAddr},
   target : Nat,         \* the MSC asked for
   seq : 0..Wrap - 1,    \* vbl.request.sequence
   frame : Int,          \* when the kernel sent its event, -1 before
   msc : Int]            \* what present_event_notify was told, -1 before

ClockRec == [offset : Int, prev : 0..Wrap - 1, high : Nat]

TypeOK ==
  /\ req \in [Request -> RequestRec]
  /\ queue \subseteq Request
  /\ heap \in [Addr -> Request \cup {0}]
  /\ armed \subseteq Request
  /\ readable \in Seq(Request) /\ reading \in Seq(Request)
  /\ call \in Request \cup {0}
  /\ clock \in [Crtc -> ClockRec]
  /\ now \in [Crtc -> Nat]
  /\ up \in BOOLEAN

NewRequest ==
  [outcome |-> "none", crtc |-> NoCrtc, addr |-> NoAddr,
   target |-> 0, seq |-> 0, frame |-> -1, msc |-> -1]

Init ==
  /\ req = [r \in Request |-> NewRequest]
  /\ queue = {} /\ heap = [a \in Addr |-> 0]
  /\ armed = {} /\ readable = <<>> /\ reading = <<>>
  /\ call = 0
  /\ clock = [c \in Crtc |-> [offset |-> 0, prev |-> 0, high |-> 0]]
  /\ now = [c \in Crtc |-> 0]
  /\ up = FALSE

-----------------------------------------------------------------------------
(* The conversions between the kernel's sequence and the core's MSC        *)

\* The value that bits have as int32_t.
Signed(x) == LET u == x % Wrap IN IF 2 * u >= Wrap THEN u - Wrap ELSE u

\* Mutant: the offset is not added.
See_NoOffset(k, sequence) ==
  LET s == sequence % Wrap
  IN  [k EXCEPT !.prev = s,
                !.high = IF 4 * Signed(s - k.prev) < -Wrap THEN @ + Wrap ELSE @]

\* The clock once it has seen a sequence of the kernel.
See(k, sequence) ==
  LET s == (sequence + k.offset) % Wrap
  IN  [k EXCEPT !.prev = s,
                !.high = IF 4 * Signed(s - k.prev) < -Wrap THEN @ + Wrap ELSE @]

\* armsoc_kernel_msc_to_crtc_msc returns this for the clock it leaves behind.
Msc(k) == k.high + k.prev

\* armsoc_get_kernel_ust_msc, in this build without a question to the kernel.
KernelMsc == 0

\* The clock once the current MSC was asked for; Msc of it is the answer.
GetUstMsc(k) == See(k, KernelMsc)

\* The clock once it is moved to where an MSC that is far off is now.
Smack(k, expect) ==
  LET diff == expect - Msc(k)
      off == Signed(k.offset + diff)
  IN  IF -MaxOffset <= diff /\ diff <= MaxOffset THEN k
      ELSE [k EXCEPT !.offset = IF -MaxOffset < off /\ off < MaxOffset THEN 0
                                ELSE off]

\* Mutant: the difference is taken the other way round.
KernelSeq_Swapped(k, expect) == k.offset - expect

KernelSeq(k, expect) == (expect - k.offset) % Wrap

\* What drmWaitVBlank of a sequence waits for: half the sequences are past.
IsPast(seq, frame) == 2 * ((frame - seq) % Wrap) <= Wrap

-----------------------------------------------------------------------------
(* The queue                                                               *)

SeqElems(s) == {s[i] : i \in DOMAIN s}

\* Kernel events that carry an address and have not been handled.
Owed == armed \cup SeqElems(readable) \cup SeqElems(reading)

FreeAddr ==
  {a \in Addr : /\ heap[a] = 0
                /\ "reuse" \in Env \/ \A r \in Owed : req[r].addr # a}

Idle == up /\ call = 0 /\ reading = <<>>

\* The entry whose event has this id.
Entries(id) == {r \in queue : heap[req[r].addr] = id}

\* Mutant: the entry goes, its event stays allocated.
AbortEvent_KeepsEvent(id) ==
  /\ queue' = queue \ Entries(id)
  /\ heap' = heap

\* armsoc_drm_abort_event: entry and event are freed.
AbortEvent(id) ==
  /\ queue' = queue \ Entries(id)
  /\ heap' = [a \in Addr |-> IF \E r \in Entries(id) : req[r].addr = a THEN 0
                             ELSE heap[a]]

End(r, outcome) == req' = [req EXCEPT ![r].outcome = outcome]

-----------------------------------------------------------------------------
(* Calls of the core                                                       *)

\* xorg_list_add, with the address of the event as its data.
QueueAlloc(r) == queue' = queue \cup {r}

\* The core asks in the order of its event ids.
IsNext(r) == req[r].outcome = "none" /\ \A s \in 1..r - 1 : req[s].outcome # "none"

\* present_pixmap or present_notify_msc: get_ust_msc, then queue_vblank up to
\* the loop around drmWaitVBlank.
QueueVblank(r, c, d) ==
  LET seen == GetUstMsc(clock[c])
      expect == Msc(seen) + d
      moved == Smack(GetUstMsc(seen), expect)
  IN  /\ Idle /\ IsNext(r)
      /\ \E a \in FreeAddr :
           /\ heap' = [heap EXCEPT ![a] = r]
           /\ req' = [req EXCEPT ![r] =
                [@ EXCEPT !.outcome = "pending", !.crtc = c, !.addr = a,
                          !.target = expect, !.seq = KernelSeq(moved, expect)]]
      /\ QueueAlloc(r)
      /\ clock' = [clock EXCEPT ![c] = moved]
      /\ call' = r
      /\ UNCHANGED <<armed, readable, reading, now, up>>

\* There is no memory for the event, or for the entry: the event is freed.
QueueVblankFails(r, c) ==
  /\ Idle /\ IsNext(r) /\ "nomem" \in Env
  /\ End(r, "refused")
  /\ clock' = [clock EXCEPT ![c] = GetUstMsc(@)]
  /\ UNCHANGED <<queue, heap, armed, readable, reading, call, now, up>>

HasSpace == Cardinality(armed) + Len(readable) < Space

WaitVblank ==
  /\ call # 0 /\ reading = <<>> /\ HasSpace
  /\ armed' = armed \cup {call}
  /\ call' = 0
  /\ UNCHANGED <<req, queue, heap, readable, reading, clock, now, up>>

\* Mutant: having made room, the loop ends as if the call had been taken.
FlushEvents_EndsLoop ==
  /\ call # 0 /\ reading = <<>> /\ ~HasSpace /\ readable # <<>>
  /\ reading' = readable
  /\ readable' = <<>>
  /\ call' = 0
  /\ UNCHANGED <<req, queue, heap, armed, clock, now, up>>

\* EBUSY: armsoc_flush_drm_events reads what there is. If there is nothing it
\* is 0, and the loop goes round.
FlushEvents ==
  /\ call # 0 /\ reading = <<>> /\ ~HasSpace /\ readable # <<>>
  /\ reading' = readable
  /\ readable' = <<>>
  /\ UNCHANGED <<req, queue, heap, armed, call, clock, now, up>>

\* Another error than EBUSY, or the flush has one.
WaitVblankFails ==
  /\ call # 0 /\ reading = <<>> /\ "ioctl" \in Env
  /\ AbortEvent(call)
  /\ End(call, "refused")
  /\ call' = 0
  /\ UNCHANGED <<armed, readable, reading, clock, now, up>>

\* Mutant: the entry is left for the event to find.
AbortVblank_ForgetsEntry(r) ==
  /\ Idle /\ req[r].outcome = "pending"
  /\ End(r, "aborted")
  /\ UNCHANGED <<queue, heap, armed, readable, reading, call, clock, now, up>>

\* The window is gone, or the pixmap was replaced.
AbortVblank(r) ==
  /\ Idle /\ req[r].outcome = "pending"
  /\ AbortEvent(r)
  /\ End(r, "aborted")
  /\ UNCHANGED <<armed, readable, reading, call, clock, now, up>>

-----------------------------------------------------------------------------
(* Events                                                                  *)

Tick(c) ==
  /\ now[c] < MaxFrame
  /\ now' = [now EXCEPT ![c] = @ + 1]
  /\ UNCHANGED <<req, queue, heap, armed, readable, reading, call, clock, up>>

SendEvent(r) ==
  /\ r \in armed /\ IsPast(req[r].seq, now[req[r].crtc])
  /\ armed' = armed \ {r}
  /\ readable' = Append(readable, r)
  /\ req' = [req EXCEPT ![r].frame = now[req[r].crtc]]
  /\ UNCHANGED <<queue, heap, reading, call, clock, now, up>>

\* The DRM file is readable: drmHandleEvent.
ReadEvents ==
  /\ Idle /\ readable # <<>>
  /\ reading' = readable
  /\ readable' = <<>>
  /\ UNCHANGED <<req, queue, heap, armed, call, clock, now, up>>

\* Mutant: an event is taken to be for the first entry.
Matches_First(event) == queue

\* The entries whose data is the address in an event.
Matches(event) == {r \in queue : req[r].addr = req[event].addr}

\* armsoc_drm_handler for the first event read. It calls
\* armsoc_present_vblank_handler with the data of an entry that matches; the
\* model takes any, there is at most one (EntriesOwnEvents). The core ignores
\* an event_id that it does not wait for.
Handle ==
  /\ reading # <<>>
  /\ reading' = Tail(reading)
  /\ LET event == Head(reading)
         a == req[event].addr
     IN  IF Matches(event) = {} THEN UNCHANGED <<req, queue, heap, clock>>
         ELSE \E r \in Matches(event) :
                LET id == heap[a]
                    seen == See(clock[req[r].crtc], req[event].frame)
                IN  /\ clock' = [clock EXCEPT ![req[r].crtc] = seen]
                    /\ queue' = queue \ {r}
                    /\ req' = [req EXCEPT ![id] =
                         IF @.outcome = "pending"
                         THEN [@ EXCEPT !.outcome = "answered", !.msc = Msc(seen)]
                         ELSE @]
                    /\ heap' = [heap EXCEPT ![a] = 0]
  /\ UNCHANGED <<armed, readable, call, now, up>>

-----------------------------------------------------------------------------
(* Server generations                                                      *)

\* armsoc_present_screen_init makes the list anew, whatever was in it.
ScreenInit ==
  /\ ~up
  /\ up' = TRUE
  /\ queue' = {}
  /\ UNCHANGED <<req, heap, armed, readable, reading, call, clock, now>>

\* All windows are gone, and their requests with them. Events that the kernel
\* still has are read in the next generation.
CloseScreen ==
  /\ Idle /\ \A r \in Request : req[r].outcome # "pending"
  /\ up' = FALSE
  /\ UNCHANGED <<req, queue, heap, armed, readable, reading, call, clock, now>>

Next ==
  \/ ScreenInit
  \/ CloseScreen
  \/ \E r \in Request :
       \/ \E c \in Crtc : QueueVblankFails(r, c)
       \/ \E c \in Crtc, d \in Ahead : QueueVblank(r, c, d)
       \/ AbortVblank(r)
       \/ SendEvent(r)
  \/ WaitVblank
  \/ FlushEvents
  \/ WaitVblankFails
  \/ \E c \in Crtc : Tick(c)
  \/ ReadEvents
  \/ Handle

Spec == Init /\ [][Next]_vars

\* CRTCs that have requests are on, the kernel sends what is due, the server
\* reads the DRM file and gets out of drmHandleEvent and the loop around
\* drmWaitVBlank whenever it can.
FairSpec ==
  /\ Spec
  /\ \A c \in Crtc : WF_vars(Tick(c))
  /\ \A r \in Request : WF_vars(SendEvent(r))
  /\ WF_vars(ReadEvents) /\ WF_vars(FlushEvents)
  /\ WF_vars(Handle) /\ WF_vars(WaitVblank)

-----------------------------------------------------------------------------
(* Properties                                                              *)

\* The list holds the requests that the core waits for and no other: nothing
\* is left in it when the screen closes, and armsoc_present_screen_init drops
\* nothing.
QueueIsPending == queue = {r \in Request : req[r].outcome = "pending"}

\* An event is allocated as long as one entry points to it, and each entry has
\* its own: no entry is left with a freed event, and no event is leaked.
EntriesOwnEvents ==
  /\ \A r \in queue : req[r].addr \in Addr /\ heap[req[r].addr] = r
  /\ \A a \in Addr : heap[a] # 0 => heap[a] \in queue /\ req[heap[a]].addr = a

\* The kernel has an event for every request the core waits for, or
\* queue_vblank is still asking for one, so that none waits for ever.
PendingAreOwed ==
  \A r \in queue \ {call} : r \in Owed

\* "report back to the Present extension when the specified MSC has past": the
\* MSC that the core is told is not before the one it asked for, though the
\* offset of the clock may have been moved since.
AnswersNotEarly ==
  \A r \in Request : req[r].outcome = "answered" => req[r].msc >= req[r].target

\* Each request is answered, aborted or refused once, and answered only after
\* the vblank that the kernel was asked for on its behalf.
Promise == INSTANCE PresentPromise WITH
  outcome <- [r \in Request |-> req[r].outcome],
  due <- {r \in Request : req[r].frame # -1}

PromiseKept == Promise!Spec
=============================================================================
