----------------------------- MODULE ScreenLife -----------------------------
(***************************************************************************)
(* The life of the screens of one server and the DRM connection they       *)
(* share (armsoc_driver.c): opening and counting the connection, becoming  *)
(* and ceasing to be DRM master, PreInit with its clean-up, ScreenInit     *)
(* with its failure ladder, switching the virtual terminal away and back,  *)
(* closing a server generation, and a fatal error.                         *)
(*                                                                         *)
(* The X server (external) calls one entry point of the driver at a time,  *)
(* screen after screen: server.todo holds the screens it has still to call *)
(* in the present phase. The kernel (external) keeps at most one master.   *)
(***************************************************************************)
EXTENDS Integers, FiniteSets

CONSTANTS
  Screen,     (* the screens of the configuration, by index                 *)
  BadBufs,    (* those whose DRI2MaxBuffers option is below 2               *)
  MaxGen      (* bound: server generations                                  *)

ASSUME LifeAssumption ==
  /\ IsFiniteSet(Screen) /\ Screen \subseteq Nat
  /\ BadBufs \subseteq Screen
  /\ MaxGen \in Nat

VARIABLES
  conn,    (* `connection`, with what the kernel and assert() say of it     *)
  scr,     (* the screens' struct ARMSOCRec and what the server knows of    *)
           (* them                                                          *)
  server   (* what the X server is doing                                    *)

vars == <<conn, scr, server>>

Connection ==
  [fd : BOOLEAN,           \* connection.fd >= 0
   open_count : Nat,
   master_count : Nat,
   kernel : BOOLEAN,       \* the kernel has this process as DRM master
   denied : BOOLEAN,       \* KMS was used by a process that is not master
   asserts : BOOLEAN]      \* every assert() so far held

ScreenRec ==
  [life : {"new", "live", "failed", "freed"},
   drmFD : BOOLEAN,        \* pARMSOC->drmFD >= 0
   vtSema : BOOLEAN,       \* pScrn->vtSema
   scanout : BOOLEAN,      \* pARMSOC->scanout is not NULL
   entered : BOOLEAN,      \* EnterVT was called, and LeaveVT not since
   monitor : {"none", "live", "dangling", "reused"}] \* uevent_handler

Phase ==
  {"probe", "delete", "init", "run", "leaving", "away", "entering",
   "closing", "abort", "dead"}

TypeOK ==
  /\ conn \in Connection
  /\ scr \in [Screen -> ScreenRec]
  /\ server \in [phase : Phase, todo : SUBSET Screen, gen : Nat]

Init ==
  /\ conn = [fd |-> FALSE, open_count |-> 0, master_count |-> 0,
             kernel |-> FALSE, denied |-> FALSE, asserts |-> TRUE]
  /\ scr = [s \in Screen |->
              [life |-> "new", drmFD |-> FALSE, vtSema |-> FALSE,
               scanout |-> FALSE, entered |-> FALSE, monitor |-> "none"]]
  /\ server = [phase |-> "probe", todo |-> Screen, gen |-> 1]

-----------------------------------------------------------------------------
(* The connection                                                          *)

Assert(c, b) == [c EXCEPT !.asserts = @ /\ b]

\* A KMS request, which only a master may make.
Kms(c) == [c EXCEPT !.denied = @ \/ ~c.kernel]

\* Whether drmSetMaster is called and refused; granted is the kernel's answer.
MasterRefused(c, granted) == c.master_count = 0 /\ ~granted

\* Mutant: only the call that asks the kernel is counted.
SetDRMMaster_CountsFirst(c, granted) ==
  IF c.master_count # 0 \/ ~granted THEN c
  ELSE [c EXCEPT !.kernel = TRUE, !.master_count = 1]

SetDRMMaster(c, granted) ==
  LET a == Assert(c, c.fd)
  IN  IF MasterRefused(c, granted) THEN a
      ELSE [a EXCEPT !.kernel = @ \/ c.master_count = 0,
                     !.master_count = @ + 1]

\* Mutant: the kernel is told at every call.
DropDRMMaster_Always(c) ==
  [c EXCEPT !.kernel = FALSE, !.master_count = @ - 1]

\* Mutant: the kernel is told one call too early.
DropDRMMaster_Early(c) ==
  [c EXCEPT !.kernel = @ /\ c.master_count > 2, !.master_count = @ - 1]

\* drmDropMaster fails for a process that is not master.
DropDRMMaster(c) ==
  LET a == Assert(c, c.fd /\ c.master_count > 0)
  IN  IF ~a.asserts \/ (c.master_count = 1 /\ ~c.kernel) THEN a
      ELSE [a EXCEPT !.kernel = @ /\ c.master_count # 1,
                     !.master_count = @ - 1]

\* opened: the card opens and lets its interface version be set, which makes
\* the process its master.
CanOpenDRM(c, opened) == c.fd \/ opened

\* Mutant: the first screen does not count itself.
OpenDRM_FirstUncounted(c, opened) ==
  IF c.fd
  THEN [c EXCEPT !.open_count = @ + 1, !.master_count = @ + 1]
  ELSE [c EXCEPT !.fd = opened, !.kernel = opened,
                 !.master_count = IF opened THEN 1 ELSE 0]

OpenDRM(c, opened) ==
  IF c.fd
  THEN [Assert(c, c.open_count > 0) EXCEPT !.open_count = @ + 1,
                                           !.master_count = @ + 1]
  ELSE LET a == Assert(c, c.open_count = 0 /\ c.master_count = 0)
       IN  IF opened
           THEN [a EXCEPT !.fd = TRUE, !.kernel = TRUE,
                          !.open_count = 1, !.master_count = 1]
           ELSE a

\* Mutant: whoever closes first closes the descriptor.
CloseDRM_First(c) ==
  [c EXCEPT !.open_count = @ - 1, !.fd = FALSE, !.kernel = FALSE]

\* Closing the last descriptor also ends being master.
CloseDRM(c) ==
  IF c.open_count = 1
  THEN [Assert(c, c.master_count = 0) EXCEPT !.open_count = 0,
                                             !.fd = FALSE, !.kernel = FALSE]
  ELSE [c EXCEPT !.open_count = @ - 1]

-----------------------------------------------------------------------------
(* The X server                                                            *)

Live == {s \in Screen : scr[s].life = "live"}

\* A failed assert() ended it.
Alive == conn.asserts

\* It calls the screens in the order of their index.
IsNext(s) == Alive /\ s \in server.todo /\ \A t \in server.todo : s <= t

Goto(phase, todo) == server' = [server EXCEPT !.phase = phase, !.todo = todo]

\* After the call for s; todo is for the phase that follows.
Called(s, phase, todo) ==
  IF server.todo = {s} THEN Goto(phase, todo)
  ELSE Goto(server.phase, server.todo \ {s})

\* FatalError aborts: screens that own their VT are told to leave it.
Fatal(screens) ==
  LET own == {s \in Live : screens[s].vtSema}
  IN  Goto(IF own = {} THEN "dead" ELSE "abort", own)

-----------------------------------------------------------------------------
(* PreInit and FreeScreen                                                  *)

\* How PreInit ends: before or in OpenDRM, through fail2, at the check of
\* DRI2MaxBuffers, or well.
PreInitEnd(s) ==
  {"early", "open", "fail2"} \cup (IF s \in BadBufs THEN {"bufs"} ELSE {"ok"})

PreInit(s, how) ==
  /\ server.phase = "probe" /\ IsNext(s)
  /\ how = "open" => ~CanOpenDRM(conn, FALSE)
  /\ LET c == OpenDRM(conn, how # "open") IN
     /\ conn' = CASE how = "early" -> conn
                  [] how = "fail2" -> CloseDRM(DropDRMMaster(c))
                  [] OTHER -> c
     /\ scr' = [scr EXCEPT ![s].drmFD = how \in {"bufs", "ok"},
                           ![s].life = IF how = "ok" THEN "live"
                                       ELSE "failed"]
  /\ LET failed == {t \in Screen : scr'[t].life = "failed"}
     IN  Called(s, IF failed # {} THEN "delete" ELSE "init",
                   IF failed # {} THEN failed ELSE Screen)

\* The record of a screen whose PreInit failed is freed, and what it held
\* with it.
FreeScreen(s) ==
  /\ server.phase = "delete" /\ IsNext(s)
  /\ scr' = [scr EXCEPT ![s].life = "freed", ![s].drmFD = FALSE]
  /\ Called(s, IF Live = {} THEN "dead" ELSE "init", Live)
  /\ UNCHANGED conn

-----------------------------------------------------------------------------
(* EnterVT and LeaveVT                                                     *)

\* Mutant: the modes are set without becoming master.
EnterVT_NoMaster(c, granted) == Kms(c)

EnterVT(c, granted) ==
  LET m == SetDRMMaster(c, granted)
  IN  IF MasterRefused(c, granted) THEN m ELSE Kms(m)

LeaveVT(c) == DropDRMMaster(c)

VTLeave(s) ==
  /\ server.phase = "leaving" /\ IsNext(s)
  /\ conn' = LeaveVT(conn)
  /\ scr' = [scr EXCEPT ![s].entered = FALSE]
  /\ Called(s, "away", {})

\* modes: xf86SetDesiredModes succeeds.
VTEnter(s, granted, modes) ==
  /\ server.phase = "entering" /\ IsNext(s)
  /\ conn' = EnterVT(conn, granted)
  /\ scr' = [scr EXCEPT ![s].entered = ~MasterRefused(conn, granted)]
  /\ IF modes /\ ~MasterRefused(conn, granted) THEN Called(s, "run", {})
     ELSE Fatal(scr)

SwitchAway ==
  /\ Alive /\ server.phase = "run"
  /\ Goto("leaving", Live)
  /\ UNCHANGED <<conn, scr>>

SwitchBack ==
  /\ Alive /\ server.phase = "away"
  /\ Goto("entering", Live)
  /\ UNCHANGED <<conn, scr>>

-----------------------------------------------------------------------------
(* ScreenInit, CloseScreen and the end of the server                       *)

\* How far ScreenInit gets: the labels stand for the failure ladder, whose
\* rungs fail2 to fail5 undo what they did and leave nothing behind.
InitEnd == {"fail1", "fail6", "fail7", "ok"}

\* fail1, where every failure after SetDRMMaster ends, calls drmDropMaster
\* itself, whatever master_count says.
Fail1(c) == [c EXCEPT !.kernel = FALSE]

\* Any of the udev calls may fail, and leaves uevent_handler as it was.
UeventInit(monitor, works) == IF works THEN "live" ELSE monitor

ScreenInitFails(s, how, granted) ==
  LET m == SetDRMMaster(conn, granted)
      b == Kms(Assert(m, ~scr[s].scanout))
      e == EnterVT(b, granted)
      enters == how = "fail6" /\ ~MasterRefused(conn, granted)
  IN  /\ conn' = IF MasterRefused(conn, granted) THEN m
                 ELSE CASE how = "fail1" -> Fail1(b)
                        [] how = "fail6" -> Fail1(e)
                        [] how = "fail7" -> Fail1(LeaveVT(e))
      /\ scr' = [scr EXCEPT ![s].vtSema = enters, ![s].entered = enters]
      /\ Fatal(scr')

ScreenInitSucceeds(s, granted, works) ==
  LET m == SetDRMMaster(conn, granted)
      b == Kms(Assert(m, ~scr[s].scanout))
  IN  /\ ~MasterRefused(conn, granted)
      /\ conn' = EnterVT(b, granted)
      /\ scr' = [scr EXCEPT ![s].scanout = TRUE, ![s].vtSema = TRUE,
                            ![s].entered = TRUE,
                            ![s].monitor = UeventInit(@, works)]
      /\ Called(s, "run", {})

ScreenInit(s, how, granted, works) ==
  /\ server.phase = "init" /\ IsNext(s)
  /\ IF how = "ok" THEN ScreenInitSucceeds(s, granted, works)
     ELSE ScreenInitFails(s, how, granted)

\* uevent_fini keeps the pointer to the handler that it frees, and uses one
\* it freed before if no later uevent_init replaced it.
UeventFini(monitor) ==
  CASE monitor = "none" -> "none"
    [] monitor = "live" -> "dangling"
    [] OTHER -> "reused"

CloseScreen(s) ==
  /\ server.phase = "closing" /\ IsNext(s)
  /\ LET a == Assert(conn, scr[s].scanout)
     IN  conn' = IF scr[s].vtSema THEN LeaveVT(a) ELSE a
  /\ scr' = [scr EXCEPT ![s].scanout = FALSE, ![s].vtSema = FALSE,
                        ![s].entered = FALSE,
                        ![s].monitor = UeventFini(@)]
  /\ IF server.todo = {s} /\ server.gen < MaxGen
     THEN server' = [phase |-> "init", todo |-> Live, gen |-> server.gen + 1]
     ELSE Called(s, "dead", {})

\* A generation ends when its last client leaves, on this VT or on another.
EndGeneration ==
  /\ Alive /\ server.phase \in {"run", "away"}
  /\ Goto("closing", Live)
  /\ UNCHANGED <<conn, scr>>

AbortLeave(s) ==
  /\ server.phase = "abort" /\ IsNext(s)
  /\ conn' = LeaveVT(conn)
  /\ scr' = [scr EXCEPT ![s].entered = FALSE]
  /\ Called(s, "dead", {})

Dead == server.phase = "dead" /\ UNCHANGED vars

Next ==
  \/ \E s \in Screen :
       \/ \E how \in PreInitEnd(s) : PreInit(s, how)
       \/ FreeScreen(s)
       \/ \E how \in InitEnd, granted, works \in BOOLEAN :
            ScreenInit(s, how, granted, works)
       \/ VTLeave(s)
       \/ \E granted, modes \in BOOLEAN : VTEnter(s, granted, modes)
       \/ CloseScreen(s)
       \/ AbortLeave(s)
  \/ SwitchAway
  \/ SwitchBack
  \/ EndGeneration
  \/ Dead

Spec == Init /\ [][Next]_vars

-----------------------------------------------------------------------------
(* Properties                                                              *)

\* No assert() of the driver fails, in any order of PreInits that fail,
\* switches of the VT, generations that end on this VT or another and fatal
\* errors. vtSema stays set while the VT is away, so CloseScreen then leaves a
\* second time; only the counts that PreInit and ScreenInit took and never
\* drop keep the assert of DropDRMMaster true.
AssertsHold == conn.asserts

\* Every mode is set, and every scanout allocated, by a process that is DRM
\* master at that moment.
KmsHasMaster == ~conn.denied

\* open_count is the number of screens that have the connection open, so the
\* descriptor is closed with the last of them and not before.
OpensMatchScreens ==
  /\ conn.open_count = Cardinality({s \in Screen : scr[s].drmFD})
  /\ conn.fd <=> conn.open_count > 0

\* Until a fatal error, each screen holds master once for the open connection,
\* once for its scanout and once for the VT it has entered. A screen closed
\* while it had the VT leaves one count behind, hence at least.
CountCoversHolders ==
  server.phase \notin {"abort", "dead"} =>
    conn.master_count >= Cardinality({s \in Screen : scr[s].drmFD})
                         + Cardinality({s \in Screen : scr[s].scanout})
                         + Cardinality({s \in Screen : scr[s].entered})

\* Until a fatal error, a positive count means that the kernel has us as
\* master: SetDRMMaster, which then asks nothing of the kernel, tells the
\* truth.
CountMeansMaster ==
  server.phase \notin {"abort", "dead"} =>
    (conn.master_count > 0 => conn.kernel)

\* LeaveVT gives the display up: while another VT is in front, the process is
\* not the card's master, and the console or another server can be.
MasterReleasedWhenAway == server.phase = "away" => ~conn.kernel
=============================================================================
