---------------------------- MODULE MCImageStore ----------------------------
(***************************************************************************)
(* ImageStore with one decode slot, as in the code, and a queue of one:    *)
(* two followed changes and an upload of some other row fill both.         *)
(***************************************************************************)
EXTENDS ImageStore
=============================================================================
