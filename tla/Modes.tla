------------------------------- MODULE Modes --------------------------------
(***************************************************************************)
(* Modes, DPMS, the screen's size and hotplug (drmmode_display.c), and     *)
(* what Present takes for a CRTC that is on (armsoc_present.c).            *)
(*                                                                         *)
(* All CRTCs show one scanout. The kernel takes a mode only if it fits in  *)
(* the framebuffer, and turns off the CRTCs that show a framebuffer when   *)
(* that is removed. A mode is its width alone: the code does with heights  *)
(* what it does with widths. CRTC c drives output c; rotation is always    *)
(* RR_Rotate_0; no DRI2 buffer keeps the old scanout (Dri2Swap has those). *)
(* The OMAP interface has no hardware cursor, so that the cursor functions *)
(* return at once.                                                         *)
(*                                                                         *)
(* The server (external) is one thread: what it calls in one go is a job,  *)
(* and nothing but hotplug comes between the steps of a job.               *)
(***************************************************************************)
EXTENDS Integers, Sequences

CONSTANTS
  NumCrtc,
  Size,        (* widths of modes and screens                                *)
  InitSize,    (* width of the screen at start                               *)
  None,        (* no setting                                                 *)
  Pluggable,   (* CRTCs whose monitor comes and goes                         *)
  MaxUevents,  (* bound: uevents not read                                    *)
  Env          (* what a run allows, see Hazards                             *)

Hazards ==
  {"set",      \* the kernel refuses a mode, sets another, or cannot be asked
   "again",    \* and refuses the last good one as well
   "nomem",    \* no memory for a list, a buffer or a framebuffer
   "dpms",     \* the kernel does not turn a CRTC off
   "uevent"}   \* a uevent gives no device, or fstat of the card fails

Crtc == 1..NumCrtc

ASSUME ModesAssumption ==
  /\ NumCrtc \in Nat \ {0}
  /\ Size \subseteq Nat \ {0} /\ InitSize \in Size
  /\ None \notin [mode : Size, x : Nat]
  /\ Pluggable \subseteq Crtc /\ MaxUevents \in Nat
  /\ Env \subseteq Hazards

VARIABLES
  crtc,      (* each CRTC as the server and the driver have it               *)
  kms,       (* the setting each CRTC shows of the scanout's fb, or None     *)
  out,       (* the DPMS property of each connector is On                    *)
  scanout,   (* the scanout: its size, its original size, whether it has fb  *)
  virtual,   (* pScrn->virtualX                                              *)
  screen,    (* pScreen->width                                               *)
  job,       (* what the server has called and is not done                   *)
  conn,      (* the modes of the monitor at each connector; none if none     *)
  known,     (* the modes the driver has told of                             *)
  uevents,   (* uevents not read, oldest first                               *)
  hit        (* what was met of them: none, "set" alone, or more             *)

settings == <<crtc, kms, out, scanout, virtual>>
monitors == <<conn, known, uevents>>
vars == <<settings, screen, job, monitors, hit>>

Setting == [mode : Size, x : Nat]

CrtcRec ==
  [enabled : BOOLEAN,
   cur : Setting \cup {None},    \* mode and x
   good : Setting \cup {None},   \* last_good_mode and last_good_x
   dpms : {"on", "off"}]

Bo == [size : Size, room : Size, fb : BOOLEAN]

Job ==
  [kind : {"none", "set", "resize", "dpms", "pan"},
   of : Crtc \cup {0},            \* the CRTC of a set
   todo : SUBSET Crtc,           \* CRTCs to call set_mode_major of
   want : Setting \cup {None},   \* with this, or with what they have
   saved : CrtcRec \cup {None},  \* what the server puts back on failure
   ret : BOOLEAN]

NoJob == [kind |-> "none", of |-> 0, todo |-> {}, want |-> None, saved |-> None,
          ret |-> FALSE]

\* A uevent is ours if it is of our card and says HOTPLUG=1.
Uevent == {"ours", "other"}

TypeOK ==
  /\ crtc \in [Crtc -> CrtcRec]
  /\ kms \in [Crtc -> Setting \cup {None}]
  /\ out \in [Crtc -> BOOLEAN]
  /\ scanout \in Bo
  /\ virtual \in Size /\ screen \in Size
  /\ job \in Job
  /\ conn \in [Crtc -> SUBSET Size] /\ known \in [Crtc -> SUBSET Size]
  /\ uevents \in Seq(Uevent) /\ Len(uevents) <= MaxUevents
  /\ hit \in {"none", "set", "more"}

Quiet == job = NoJob

NewCrtc == [enabled |-> FALSE, cur |-> None, good |-> None, dpms |-> "on"]

Init ==
  /\ crtc = [c \in Crtc |-> NewCrtc]
  /\ kms = [c \in Crtc |-> None]
  /\ out = [c \in Crtc |-> FALSE]
  /\ scanout = [size |-> InitSize, room |-> InitSize, fb |-> TRUE]
  /\ virtual = InitSize /\ screen = InitSize
  /\ job = NoJob
  /\ conn = [c \in Crtc |-> Size] /\ known = conn
  /\ uevents = <<>>
  /\ hit = "none"

Meet(hazards) ==
  hit' = CASE hazards = {} -> hit
           [] hazards = {"set"} /\ hit # "more" -> "set"
           [] OTHER -> "more"

Fits(s, size) == s.x + s.mode <= size

AllDark == [c \in Crtc |-> None]

Enabled == {c \in Crtc : crtc[c].enabled}

-----------------------------------------------------------------------------
(* The scanout                                                             *)

\* What resize_scanout_bo may make of a scanout: whether it succeeds, the
\* scanout, whether the fb that was shown is gone, and the hazards met.
Outcome(ok, bo, dark, met) == [ok |-> ok, bo |-> bo, dark |-> dark, met |-> met]

\* Mutant: the fb is not removed first, and goes on being shown.
ResizeInPlace_KeepsFb(bo, size) ==
  IF size <= bo.room THEN {Outcome(TRUE, [bo EXCEPT !.size = size], FALSE, {"nomem"})}
  ELSE {Outcome(FALSE, bo, FALSE, {"nomem"})}

\* No new buffer: the scanout is resized in place, within the size it was
\* created with. Its fb must be removed before, which asserts that it has one.
ResizeInPlace(bo, size) ==
  LET small == [bo EXCEPT !.size = size]
  IN  IF ~bo.fb THEN {}
      ELSE IF size <= bo.room
      THEN {Outcome(TRUE, small, TRUE, {"nomem"}),
            Outcome(FALSE, [small EXCEPT !.fb = FALSE], TRUE, {"nomem"})}
      ELSE {Outcome(FALSE, [bo EXCEPT !.fb = fb], TRUE, {"nomem"}) : fb \in BOOLEAN}

\* The bo is left as it is if a new one cannot be cleared or get an fb, or if
\* its own fb cannot be removed.
ResizeScanoutBo(bo, size) ==
  IF size = bo.size THEN {Outcome(TRUE, bo, FALSE, {})}
  ELSE {Outcome(TRUE, [size |-> size, room |-> size, fb |-> TRUE], TRUE, {})}
       \cup (IF "nomem" \in Env
             THEN {Outcome(FALSE, bo, FALSE, {"nomem"})} \cup ResizeInPlace(bo, size)
             ELSE {})

-----------------------------------------------------------------------------
(* drmmode_set_mode_major, for the next CRTC of the job                    *)

NextCrtc == CHOOSE c \in job.todo : \A d \in job.todo : c <= d

Want(c) == IF job.want = None THEN crtc[c].cur ELSE job.want

\* The call returns to its caller, of which only CrtcSet looks at the result.
Return(c, ret) ==
  job' = IF job.kind = "set" THEN [job EXCEPT !.todo = {}, !.ret = ret]
         ELSE IF job.todo = {c} THEN NoJob
         ELSE [job EXCEPT !.todo = @ \ {c}]

\* crtc_dpms and xf86DPMSSet around the call: dpms_mode before it, the outputs
\* of the CRTC after it.
Dpms(c) == IF job.kind = "dpms" THEN "on" ELSE crtc[c].dpms
OutputsOn(c) == [out EXCEPT ![c] = @ \/ job.kind = "dpms"]

WithFb == [scanout EXCEPT !.fb = TRUE]

\* The scanout has no fb and cannot get one.
NoFramebuffer(c) ==
  /\ ~scanout.fb /\ "nomem" \in Env
  /\ Return(c, FALSE)
  /\ crtc' = [crtc EXCEPT ![c].dpms = Dpms(c)]
  /\ out' = OutputsOn(c)
  /\ Meet({"nomem"})
  /\ UNCHANGED <<kms, scanout, virtual, screen, monitors>>

\* Mutant: what was asked for is left in the CRTC.
Cleanup_KeepsWanted(c) ==
  crtc' = [crtc EXCEPT ![c].dpms = Dpms(c), ![c].cur = Want(c)]

\* The cleanup of a call that fails.
Cleanup(c) ==
  crtc' = [crtc EXCEPT ![c].dpms = Dpms(c),
                       ![c].cur = IF crtc[c].good # None THEN crtc[c].good ELSE Want(c)]

\* The list of outputs cannot be allocated, or the rotation not set up.
NoMemory(c) ==
  /\ "nomem" \in Env
  /\ Return(c, FALSE)
  /\ Cleanup(c)
  /\ scanout' = WithFb
  /\ out' = OutputsOn(c)
  /\ Meet({"nomem"})
  /\ UNCHANGED <<kms, virtual, screen, monitors>>

ModeTaken(c) ==
  /\ Fits(Want(c), scanout.size)
  /\ Return(c, TRUE)
  /\ kms' = [kms EXCEPT ![c] = Want(c)]
  /\ crtc' = [crtc EXCEPT ![c].cur = Want(c), ![c].good = Want(c), ![c].dpms = Dpms(c)]
  /\ out' = [out EXCEPT ![c] = TRUE]
  /\ scanout' = WithFb
  /\ UNCHANGED <<virtual, screen, monitors, hit>>

\* What the CRTCs may show when a setting was not taken: the kernel may have set
\* it, or another mode, and not tell.
NotTaken(c, want) ==
  {kms} \cup IF "set" \in Env
             THEN {[kms EXCEPT ![c] = s] :
                     s \in {s \in [mode : Size, x : {want.x}] : Fits(s, scanout.size)}}
             ELSE {}

\* drmmode_revert_mode, with no last good mode.
NothingToRevert(c, k) ==
  /\ crtc[c].good = None
  /\ kms' = k /\ scanout' = WithFb
  /\ out' = OutputsOn(c)
  /\ UNCHANGED virtual

\* Mutant: the screen gets the last good position for its size.
RevertMode_WrongField(c, k, r, again) ==
  /\ crtc[c].good # None
  /\ virtual' = crtc[c].good.x
  /\ scanout' = r.bo
  /\ kms' = k
  /\ out' = out

\* drmmode_revert_mode: the scanout is made as large as the last good mode. The
\* result of the call that sets it is ignored.
RevertMode(c, k, r, again) ==
  LET good == crtc[c].good
      left == IF r.dark THEN AllDark ELSE k
  IN  /\ good # None
      /\ virtual' = good.mode
      /\ scanout' = r.bo
      /\ kms' = IF r.ok /\ again = {} /\ Fits(good, r.bo.size)
                THEN [left EXCEPT ![c] = good] ELSE left
      /\ out' = [out EXCEPT ![c] = @ \/ r.ok \/ job.kind = "dpms"]

ModeRefused(c) ==
  \E k \in NotTaken(c, Want(c)), met \in SUBSET ({"set"} \cap Env) :
    /\ met = {} => k = kms /\ ~Fits(Want(c), scanout.size)
    /\ Return(c, FALSE)
    /\ Cleanup(c)
    /\ \/ NothingToRevert(c, k) /\ Meet(met)
       \/ /\ crtc[c].good # None
          /\ \E r \in ResizeScanoutBo(WithFb, crtc[c].good.mode),
                again \in SUBSET ({"again"} \cap Env) :
               /\ RevertMode(c, k, r, again)
               /\ Meet(met \cup r.met \cup again)
    /\ UNCHANGED <<screen, monitors>>

SetModeMajor ==
  /\ job.todo # {}
  /\ \/ NoFramebuffer(NextCrtc)
     \/ NoMemory(NextCrtc)
     \/ ModeTaken(NextCrtc)
     \/ ModeRefused(NextCrtc)

-----------------------------------------------------------------------------
(* Calls of the server                                                     *)

\* xf86CrtcSetModeTransform sets the CRTC up before it calls the driver.
CrtcSet(c, s) ==
  /\ Quiet /\ s.mode \in known[c] /\ Fits(s, screen)
  /\ crtc' = [crtc EXCEPT ![c].enabled = TRUE, ![c].cur = s]
  /\ job' = [kind |-> "set", of |-> c, todo |-> {c}, want |-> s,
             saved |-> crtc[c], ret |-> FALSE]
  /\ UNCHANGED <<kms, out, scanout, virtual, screen, monitors, hit>>

\* drmmode_crtc_dpms with DPMSModeOff for some CRTCs, of which the kernel does
\* not turn off those in stuck.
CrtcDpmsOff(crtcs, S, stuck) ==
  /\ crtc' = [c \in Crtc |-> IF c \in S THEN [crtcs[c] EXCEPT !.dpms = "off"] ELSE crtcs[c]]
  /\ kms' = [c \in Crtc |-> IF c \in S \ stuck THEN None ELSE kms[c]]
  /\ out' = [c \in Crtc |-> out[c] /\ c \notin S]
  /\ Meet(IF stuck = {} THEN {} ELSE {"dpms"})

\* CRTCs that the kernel may not turn off.
MayStick == IF "dpms" \in Env THEN Crtc ELSE {}

\* xf86DisableUnusedFunctions
DisableUnused(crtcs) ==
  LET unused == {c \in Crtc : ~crtcs[c].enabled}
  IN  \E stuck \in SUBSET (MayStick \cap unused) : CrtcDpmsOff(crtcs, unused, stuck)

\* The set went well, or the server puts back what it had.
CrtcSetEnds ==
  /\ job.kind = "set" /\ job.todo = {}
  /\ job' = NoJob
  /\ \/ job.ret /\ DisableUnused(crtc)
     \/ /\ ~job.ret
        /\ crtc' = [crtc EXCEPT ![job.of] = job.saved]
        /\ UNCHANGED <<kms, out, hit>>
  /\ UNCHANGED <<scanout, virtual, screen, monitors>>

CrtcOff(c) ==
  /\ Quiet /\ crtc[c].enabled
  /\ DisableUnused([crtc EXCEPT ![c].enabled = FALSE, ![c].cur = None])
  /\ UNCHANGED <<scanout, virtual, screen, job, monitors>>

\* Mutant: only the CRTCs that are not at the origin.
ToReset_Moved == {c \in Enabled : crtc[c].cur.x # 0}

\* "Framebuffer needs to be reset on all CRTCs, not just those that have
\* repositioned"
ToReset == Enabled

\* drmmode_xf86crtc_resize up to the loop. The server checks that the CRTCs fit.
Resize(size) ==
  /\ Quiet /\ \A c \in Enabled : Fits(crtc[c].cur, size)
  /\ virtual' = size
  /\ \E r \in ResizeScanoutBo(scanout, size) :
       /\ scanout' = r.bo
       /\ kms' = IF r.dark THEN AllDark ELSE kms
       /\ Meet(r.met)
       /\ screen' = IF r.ok THEN size ELSE screen
       /\ job' = IF r.ok /\ ToReset # {}
                 THEN [NoJob EXCEPT !.kind = "resize", !.todo = ToReset] ELSE NoJob
  /\ UNCHANGED <<crtc, out, monitors>>

\* xf86DPMSSet: the server's blanking, and its end.
DpmsOff ==
  /\ Quiet
  /\ \E stuck \in SUBSET (MayStick \cap Enabled) : CrtcDpmsOff(crtc, Enabled, stuck)
  /\ UNCHANGED <<scanout, virtual, screen, job, monitors>>

DpmsOn ==
  /\ Quiet /\ Enabled # {}
  /\ job' = [NoJob EXCEPT !.kind = "dpms", !.todo = Enabled]
  /\ UNCHANGED <<settings, screen, monitors, hit>>

\* drmmode_adjust_frame, within the screen's virtual size.
AdjustFrame(c, x) ==
  /\ Quiet /\ crtc[c].enabled /\ Fits([crtc[c].cur EXCEPT !.x = x], virtual)
  /\ job' = [NoJob EXCEPT !.kind = "pan", !.todo = {c},
                          !.want = [crtc[c].cur EXCEPT !.x = x]]
  /\ UNCHANGED <<settings, screen, monitors, hit>>

-----------------------------------------------------------------------------
(* Hotplug                                                                 *)

Plug(c) ==
  /\ c \in Pluggable /\ Len(uevents) < MaxUevents
  /\ \E modes \in {{}, Size} \ {conn[c]} : conn' = [conn EXCEPT ![c] = modes]
  /\ uevents' = Append(uevents, "ours")
  /\ UNCHANGED <<settings, screen, job, known, hit>>

\* The monitor's filter lets all of subsystem drm through: other cards, and
\* changes that are not hotplug.
OtherUevent ==
  /\ Len(uevents) < MaxUevents
  /\ uevents' = Append(uevents, "other")
  /\ UNCHANGED <<settings, screen, job, conn, known, hit>>

\* drmmode_output_detect and drmmode_output_get_modes ask the kernel.
OutputDetect(c) == conn[c]

\* RRGetInfo probes every output.
ProbeOutputModes == known' = [c \in Crtc |-> OutputDetect(c)]

\* A uevent is read once, whether or not the server comes to probe for it.
HandleUevents ==
  /\ Quiet /\ uevents # <<>>
  /\ uevents' = Tail(uevents)
  /\ \/ Head(uevents) = "ours" /\ ProbeOutputModes
     \/ (Head(uevents) = "other" \/ "uevent" \in Env) /\ UNCHANGED known
  /\ UNCHANGED <<settings, screen, job, conn, hit>>

-----------------------------------------------------------------------------
(* What Present asks of a CRTC                                             *)

CrtcOn(c) == crtc[c].enabled /\ crtc[c].dpms = "on"

-----------------------------------------------------------------------------
Next ==
  \/ SetModeMajor
  \/ \E c \in Crtc :
       \/ \E m \in Size, x \in 0..screen : CrtcSet(c, [mode |-> m, x |-> x])
       \/ CrtcOff(c)
       \/ \E x \in 0..virtual : AdjustFrame(c, x)
       \/ Plug(c)
  \/ CrtcSetEnds
  \/ \E size \in Size : Resize(size)
  \/ DpmsOff
  \/ DpmsOn
  \/ OtherUevent
  \/ HandleUevents

Spec == Init /\ [][Next]_vars

-----------------------------------------------------------------------------
(* Properties                                                              *)

\* Whatever failed, a CRTC in use has the mode and position that the kernel
\* took last: "restore the last good mode".
FieldsAreGood ==
  Quiet => \A c \in Enabled : crtc[c].cur = crtc[c].good

\* The one display of a screen, at its origin.
OnlyDisplay(c) ==
  /\ \A d \in Crtc \ {c} : crtc[d].good = None
  /\ crtc[c].good.x = 0

\* A CRTC that is on shows its mode, whatever was resized, panned, blanked and
\* switched off. It still does if the kernel refused a mode or set another,
\* when it is the only display of the screen.
OnShowsItsMode ==
  Quiet => \A c \in Crtc :
    CrtcOn(c) /\ (hit = "none" \/ (hit = "set" /\ OnlyDisplay(c))) =>
      kms[c] = crtc[c].cur /\ out[c]

\* No CRTC shows pixels outside the screen that it shares with the others, and
\* a scanout without fb is shown by none.
ShownFits ==
  \A c \in Crtc : kms[c] # None => scanout.fb /\ Fits(kms[c], scanout.size)

\* "If the CRTC is off, treat it as not covering": a CRTC that is not taken to be
\* on shows nothing.
ShownIsOn == Quiet => \A c \in Crtc : kms[c] # None => CrtcOn(c)
=============================================================================
