------------------------ MODULE MCOrganizationRoles ------------------------
(* OrganizationRoles for TLC.                                              *)
EXTENDS OrganizationRoles, TLC

Symmetry == Permutations(Users) \union Permutations(Invitations) \union Permutations(Requests)

(* Beside each other the two rows are only answered: there they meet.      *)
SecondRow ==
    (\A n \in Invitations : invitation[n] # Unused)
       => \A t \in Requests : req[t].phase = "idle" \/ req[t].op = "answer"
=============================================================================
