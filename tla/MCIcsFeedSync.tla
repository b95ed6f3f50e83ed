--------------------------- MODULE MCIcsFeedSync ---------------------------
(***************************************************************************)
(* IcsFeedSync with two syncs and two disconnections at a time.            *)
(***************************************************************************)
EXTENDS IcsFeedSync
=============================================================================
