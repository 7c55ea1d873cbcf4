------------------------- MODULE MCLicenceConditions -------------------------
(* Values for the constants of LicenceConditions. *)
EXTENDS LicenceConditions, TLC

CONSTANTS dropped, added   \* a condition of the first version only, of the second only
CONSTANTS b1, b2
CONSTANTS u1, u2

TwoSets == <<{dropped}, {added}>>
Symmetry == {p @@ q : p \in Permutations(Users), q \in Permutations(Bespoke)}
=============================================================================
