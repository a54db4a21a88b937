-------------------------------- MODULE MCInit --------------------------------
(* A finite instance of LocEngInit: both servers, all sensor properties.     *)
EXTENDS LocEngInit
=============================================================================
