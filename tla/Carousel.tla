------------------------------ MODULE Carousel ------------------------------
(***************************************************************************)
(* What the application controller promises the person who tilts the cube: *)
(* the applications registered first form a ring of pages, the one         *)
(* registered last is an overlay raised on top of the current page, and    *)
(* dismissing the overlay uncovers the page it was raised on.              *)
(***************************************************************************)
EXTENDS Integers

CONSTANT Pages   \* number of applications in the ring

VARIABLES
  page,      \* index of the page on top of the ring
  overlay    \* TRUE while the overlay covers it

cvars == <<page, overlay>>

CarouselInit ==
  /\ page = 0
  /\ overlay = FALSE

(* One tilt turns the ring by one page, in either direction. *)
Turn ==
  /\ ~overlay
  /\ page' \in {(page + 1) % Pages, (page + Pages - 1) % Pages}
  /\ UNCHANGED overlay

Raise ==
  /\ ~overlay
  /\ overlay' = TRUE
  /\ UNCHANGED page

Dismiss ==
  /\ overlay
  /\ overlay' = FALSE
  /\ UNCHANGED page

CarouselNext == Turn \/ Raise \/ Dismiss

CarouselSpec == CarouselInit /\ [][CarouselNext]_cvars
=============================================================================
