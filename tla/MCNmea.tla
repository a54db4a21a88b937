-------------------------------- MODULE MCNmea --------------------------------
(* A finite instance of LocEngNmea.  Reports in view: every pattern of GPS,  *)
(* GLONASS and other satellites up to MaxViewed of them, and longer ones for *)
(* a third page and for the limit of twelve satellites in use.               *)
EXTENDS LocEngNmea

CONSTANTS MaxViewed

\* The satellite of number k in each system; PRN 120 is of neither.
Prn(system, k) == CASE system = "GPS" -> k [] system = "GLONASS" -> 64 + k [] OTHER -> 120

Views ==
  UNION {{[k \in 1..n |-> Prn(f[k], k)] : f \in [1..n -> {"GPS", "GLONASS", "OTHER"}]} :
           n \in 0..MaxViewed}

InUse(prns) == {prns[k] : k \in DOMAIN prns} \cap GPS

Reports ==
  {[prns |-> v, used |-> {}, dop |-> FALSE] : v \in Views}
  \cup {[prns |-> <<1, 65, 2, 3>>, used |-> u, dop |-> d] :
          u \in {{1}, {2, 3}}, d \in BOOLEAN}
  \cup {[prns |-> v, used |-> InUse(v), dop |-> TRUE] :
          v \in {[k \in 1..9 |-> k], [k \in 1..13 |-> k],
                 [k \in 1..18 |-> IF k % 2 = 0 THEN 64 + k ELSE k]}}
=============================================================================
