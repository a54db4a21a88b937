------------------------------- MODULE MCLights -------------------------------
(* A finite instance of Lights: two threads, and states that are dark, lit   *)
(* steadily, lit with flash times, and blinking in two parts.                  *)
EXTENDS Lights

CONSTANTS binder1, binder2

Flakies == {Red}

Threads == {binder1, binder2}

Lit(r, g, b, mode, on, off) ==
  [color |-> <<r, g, b>>, flashMode |-> mode, flashOnMS |-> on, flashOffMS |-> off]

States == {Lit(0, 0, 0, "none", 0, 0),
           Lit(255, 255, 255, "none", 0, 0),
           Lit(255, 0, 128, "timed", 1, 1)}
=============================================================================
