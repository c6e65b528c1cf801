----------------------------- MODULE Dri2Pages ------------------------------
(***************************************************************************)
(* Dri2Swap with one window that may be flipped, among others that may     *)
(* not, seen as the pages of FlipPromise.                                  *)
(***************************************************************************)
EXTENDS Dri2Swap

CONSTANT Flipper  (* the window *)

ASSUME FlipperAssumption == Flipper \in Draw

\* DRI2CanFlip accepts no window but d.
OneFlips(d) == \A e \in Draw \ {d} : ~CanFlip(e)

\* Nothing comes to cover the screen that would have a second window flipped.
OneNext == Next /\ OneFlips(Flipper)'

OneSpec == Init /\ [][OneNext]_vars

FairOneSpec == OneSpec /\ Fairness

\* A page is a bo; the page that the client draws to is that of its back.
Draft(d) == LET b == priv[d].back
            IN  IF b = NoBuf THEN NoBo ELSE BoFromBuffer(W, b)

\* Command k waits for flips.
Flying(w, k) == w.cmd[k].live /\ w.cmd[k].type = "flip"

Pages == INSTANCE FlipPromise WITH
  Page <- Bo, NoPage <- NoBo, Display <- Crtc, More <- NumBufs > 2,
  shown <- hw, front <- mem.pbo[Root], draft <- Draft(Flipper),
  busy <- \E k \in Cmd : Flying(W, k)

\* A client of a fullscreen window draws to a bo that is on no CRTC and not the
\* screen's, until its swap puts that bo on all CRTCs; when page_flip_handler
\* has heard from the last of them, the bo of the screen and that of the back
\* trade places, and with more than two buffers the back moves on to another.
\* Nothing else changes what the CRTCs show or the screen's bo, and every flip
\* ends.
FlipsAsPromised == Pages!Spec
=============================================================================
