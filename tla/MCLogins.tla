------------------------------ MODULE MCLogins ------------------------------
(***************************************************************************)
(* Logins with two people at two browsers.  The first has one e-mail at    *)
(* both providers, the second two; they share a phone number, as when an   *)
(* old number was given to somebody else.                                  *)
(***************************************************************************)
EXTENDS Logins, TLC
CONSTANTS p1, p2, b1, b2, e1, e2, e3, n1
TwoPeople == {p1, p2}
Emails == [k \in {"VIPPS", "GOOGLE"} \X {p1, p2} |->
             IF k[2] = p1 THEN e1 ELSE IF k[1] = "VIPPS" THEN e2 ELSE e3]
TwoBrowsers == {b1, b2}
FirstAtOne == {[b \in {b1, b2} |-> IF b = b1 THEN p1 ELSE p] : p \in {p1, p2}}
OnePhone == [p \in {p1, p2} |-> n1]
=============================================================================
