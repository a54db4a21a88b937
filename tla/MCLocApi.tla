------------------------------- MODULE MCLocApi -------------------------------
(* A finite instance of LocApiBase: three adapters for an array of two, one of *)
(* them asking for an event the context excludes.                              *)
EXTENDS LocApiBase, TLC

CONSTANTS eng, geofence, ext, position, request, sv

Adapters == {eng, geofence, ext}
Events == {position, request, sv}
Masks == eng :> {position, request} @@ geofence :> {position, sv} @@ ext :> {request}
Handlers == {eng, ext}
Excludes == {sv}
=============================================================================
