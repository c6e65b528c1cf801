----------------------------- MODULE MCDri2Swap -----------------------------
(***************************************************************************)
(* Small instances of Dri2Swap. Windows and screen change at most          *)
(* MaxServerSteps times in a behaviour; requests and events are unbounded. *)
(***************************************************************************)
EXTENDS Dri2Swap, TLC

CONSTANT MaxServerSteps

VARIABLE left  \* server steps left

MCInit == Init /\ left = MaxServerSteps

MCNext ==
  \/ (ClientStep \/ KernelStep \/ FinishClose) /\ left' = left
  \/ left > 0 /\ ServerStep /\ left' = left - 1

MCSpec == MCInit /\ [][MCNext]_<<vars, left>>

MCFairSpec == MCSpec /\ Fairness

\* Windows and CRTCs are interchangeable; addresses are not, since the model
\* of the allocators picks among the free ones.
Symmetry == Permutations(Draw) \cup Permutations(Crtc)
=============================================================================
