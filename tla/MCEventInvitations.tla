------------------------- MODULE MCEventInvitations -------------------------
(***************************************************************************)
(* EventInvitations with two inviters of one invitee, and two requests     *)
(* that may time out, on a pool of two connections.                        *)
(***************************************************************************)
EXTENDS EventInvitations
CONSTANTS i1, i2, u1, r1, r2

TwoInviters == {i1, i2}
OneInvitee == {u1}
OneOfEach == {i1, u1}
TwoRequests == {r1, r2}
AllOps == {"accept", "decline", "create"}
=============================================================================
