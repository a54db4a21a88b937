------------------------------- MODULE MCAgps -------------------------------
(* A finite instance of AgpsStateMachine: two ATL clients of the modem, the  *)
(* BIT daemon and one Wi-Fi positioning daemon.                              *)
EXTENDS AgpsStateMachine

CONSTANTS atl1, atl2, bit, quipc

AllClients  == {atl1, atl2, bit, quipc}
AtlClients  == {atl1, atl2}
WifiDaemons == {quipc}
=============================================================================
