--------------------------- MODULE PresentPromise ---------------------------
(***************************************************************************)
(* What the driver promises the Present extension of each vblank request:  *)
(* it is told once how the request ended, and that its vblank came only    *)
(* when it did.                                                            *)
(***************************************************************************)
CONSTANT Request

VARIABLES
  outcome,  (* how each request ended, if it did *)
  due       (* the requests whose vblank is past *)

vars == <<outcome, due>>

Ended == {"answered", "aborted", "refused"}

Init ==
  /\ outcome = [r \in Request |-> "none"]
  /\ due = {}

Move(r, from, to) ==
  /\ outcome[r] = from
  /\ outcome' = [outcome EXCEPT ![r] = to]
  /\ due' = due

\* The request may be refused at once.
Ask(r) == \E to \in {"pending", "refused"} : Move(r, "none", to)

Answer(r) == r \in due /\ Move(r, "pending", "answered")

GiveUp(r) == \E to \in {"aborted", "refused"} : Move(r, "pending", to)

\* The vblank passes, of a request that was aborted too.
Pass(r) ==
  /\ outcome[r] # "none"
  /\ due' = due \cup {r}
  /\ UNCHANGED outcome

Next == \E r \in Request : Ask(r) \/ Answer(r) \/ GiveUp(r) \/ Pass(r)

Safe == Init /\ [][Next]_vars

Spec ==
  /\ Safe
  /\ \A r \in Request : outcome[r] = "pending" ~> outcome[r] \in Ended
=============================================================================
