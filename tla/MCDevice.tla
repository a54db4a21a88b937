------------------------------- MODULE MCDevice -------------------------------
(* The lights and the camera wrapper in one run.  They share no state; which   *)
(* of them moves is chosen at the start, and the other rests.                  *)
EXTENDS MCLights, MCCamera

VARIABLE moving   \* "lights" or "cameras"

allVars == <<lightsVars, vars, moving>>

DeviceInit == LightsInit /\ Init /\ moving \in {"lights", "cameras"}

LightsMove  == moving = "lights" /\ UNCHANGED <<vars, moving>>
CamerasMove == moving = "cameras" /\ UNCHANGED <<lightsVars, moving>>

DeviceSpec ==
  DeviceInit /\ [][(LightsMove /\ LightsNext) \/ (CamerasMove /\ Next)]_allVars
=============================================================================
