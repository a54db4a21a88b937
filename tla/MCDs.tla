-------------------------------- MODULE MCDs --------------------------------
(* A finite instance of DSStateMachine.                                      *)
EXTENDS DSStateMachine

CONSTANTS c1, c2

TwoClients == {c1, c2}
=============================================================================
