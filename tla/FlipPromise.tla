---------------------------- MODULE FlipPromise -----------------------------
(***************************************************************************)
(* What page flipping promises the client of a fullscreen window: it draws *)
(* to a page that is not on display, a swap puts that page on every        *)
(* display, and once it is there the page it replaces is the client's. A   *)
(* client that has more than two draws to any of them but the screen's. No *)
(* other step changes a display or the page of the screen.                 *)
(***************************************************************************)
CONSTANTS
  Page, NoPage, Display,
  More  (* the client has pages in reserve *)

VARIABLES
  shown,  (* the page each display shows              *)
  front,  (* the page of the screen                   *)
  draft,  (* the page the client draws to, if it has  *)
  busy    (* a flip is in flight: the client must wait *)

vars == <<shown, front, draft, busy>>

Init ==
  /\ front \in Page /\ draft = NoPage /\ busy = FALSE
  /\ shown = [c \in Display |-> front]

\* The client is given a page to draw to, or loses the one it has.
Get ==
  /\ ~busy
  /\ draft' \in {NoPage} \cup (Page \ {front})
  /\ UNCHANGED <<shown, front, busy>>

\* All displays take the page, as soon as the swap is asked for.
Flip ==
  /\ ~busy /\ draft # NoPage
  /\ shown' = [c \in Display |-> draft]
  /\ busy' = TRUE
  /\ UNCHANGED <<front, draft>>

\* The two pages trade places, or the client takes one in reserve.
Turn ==
  /\ busy
  /\ front' = draft
  /\ \/ draft' = front
     \/ More /\ draft' \in Page \ {front'}
  /\ busy' = FALSE
  /\ UNCHANGED shown

Next == Get \/ Flip \/ Turn

\* What is on display, and what is the client's, changes in no other way.
Safe == Init /\ [][Next]_vars

\* And a client that waits is let on.
Spec == Safe /\ (busy ~> ~busy)
=============================================================================
