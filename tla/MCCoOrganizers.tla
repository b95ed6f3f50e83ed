--------------------------- MODULE MCCoOrganizers ---------------------------
(***************************************************************************)
(* CoOrganizers with a few organizations, answers and edits.               *)
(***************************************************************************)
EXTENDS CoOrganizers, TLC

Symmetry ==
    Permutations(Organizations) \union Permutations(Answers) \union Permutations(Edits)
=============================================================================
