--------------------------- MODULE SeatRefinement ---------------------------
(***************************************************************************)
(* The transactions of SeatRegistrations implement SeatService: seen from  *)
(* what is committed, every request takes, gives up or stops waiting for a *)
(* seat in one step, and the waitlist ordered by updatedAt is the queue.   *)
(***************************************************************************)
EXTENDS SeatRegistrations, Places

Waitlist == InOrder(Waiting, older)

Service == INSTANCE SeatService WITH
              People <- Users, Limits <- Capacities,
              seats <- Going, queue <- Waitlist, limit <- capacity

(* Registration is a first-come-first-served service of a fixed number of  *)
(* seats, whatever requests run at the same time.                          *)
ImplementsSeatService == Service!Spec
=============================================================================
