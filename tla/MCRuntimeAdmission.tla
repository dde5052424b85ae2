------------------------- MODULE MCRuntimeAdmission -------------------------
(* Small instances of RuntimeAdmission for TLC. *)
EXTENDS RuntimeAdmission

AllRoutes == Route

=============================================================================
