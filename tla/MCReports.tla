------------------------------ MODULE MCReports ------------------------------
(* The delivery of what the modem reports and the sentences made of it, in one *)
(* run.  They share no state; which of them moves is chosen at the start, and  *)
(* the other rests.                                                            *)
EXTENDS MCLocApi, MCNmea

VARIABLE moving   \* "adapters" or "sentences"

allVars == <<vars, nmeaVars, moving>>

ReportsInit ==
  /\ Init /\ NmeaInit
  /\ moving \in {"adapters", "sentences"}
  /\ moving = "adapters" => ~generateNmea /\ ~intermediateFix

AdaptersMove  == moving = "adapters" /\ UNCHANGED <<nmeaVars, moving>>
SentencesMove == moving = "sentences" /\ UNCHANGED <<vars, moving>>

ReportsSpec ==
  ReportsInit /\ [][(AdaptersMove /\ Next) \/ (SentencesMove /\ NmeaNext)]_allVars
=============================================================================
