-------------------------------- MODULE MCDmn --------------------------------
(* A finite instance of DmnConn: the GPS daemon and one Wi-Fi daemon.        *)
EXTENDS DmnConn

CONSTANTS gpsone, quipc

TwoDaemons == {gpsone, quipc}
=============================================================================
