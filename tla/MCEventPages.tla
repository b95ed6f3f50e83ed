---------------------------- MODULE MCEventPages ----------------------------
(* Two people and two organizations: the first person has events of their  *)
(* own, the second administers the second organization, and the first one  *)
(* now and then.                                                           *)
EXTENDS EventPages, TLC

CONSTANTS u1, u2, o1, o2

MCUsers == {u1, u2}
MCGuests == {u2}
MCOrgs == {o1, o2}
Role(r) == u1 :> (o1 :> "none" @@ o2 :> "none") @@ u2 :> (o1 :> r @@ o2 :> "ADMIN")
MCMemberships == {Role("MEMBER"), Role("ADMIN")}
MCStatuses == {"none", "INVITED", "GOING", "BANNED"}
=============================================================================
