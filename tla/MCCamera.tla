------------------------------- MODULE MCCamera -------------------------------
(* A finite instance of CameraWrapper: the back and the front camera, and      *)
(* an address for the string of each.                                          *)
EXTENDS CameraWrapper, TLC

CONSTANTS a, b

Strs == {a, b}

\* Bound: once two cameras were open at a time, where nothing is promised of
\* parameters, a run goes on only while both have their defaults.
DefaultsWhenOverlapped ==
  overlapped => \A c \in Camera : given[c] = Default /\ read[c] = Default
=============================================================================
