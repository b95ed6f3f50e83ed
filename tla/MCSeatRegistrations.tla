------------------------ MODULE MCSeatRegistrations ------------------------
(***************************************************************************)
(* SeatRegistrations, and the service it implements, on a few users and    *)
(* requests.                                                               *)
(***************************************************************************)
EXTENDS SeatRefinement, TLC

Symmetry == Permutations(Users) \union Permutations(Requests)
=============================================================================
