------------------------------ MODULE MCSession ------------------------------
(* A finite instance of LocEngSession.                                       *)
EXTENDS LocEngSession

CONSTANTS almanac, ephemeris

AidingKinds == {almanac, ephemeris}
=============================================================================
