--------------------------- MODULE MCLicenceRecord ---------------------------
(* Values for the constants of LicenceRecord. *)
EXTENDS LicenceRecord

AllOps == {"start", "print", "reset"}
=============================================================================
