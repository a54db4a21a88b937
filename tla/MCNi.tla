-------------------------------- MODULE MCNi --------------------------------
(* A finite instance of NetworkInitiated.  Of the user's answers only       *)
(* IGNORE is treated apart, so one other answer is enough.                  *)
EXTENDS NetworkInitiated

CONSTANTS f1, f2

UserResponses == {"ACCEPT", "IGNORE"}
AcceptOnly    == {"ACCEPT"}
Callers       == {f1, f2}
=============================================================================
