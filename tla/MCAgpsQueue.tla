----------------------------- MODULE MCAgpsQueue -----------------------------
(* A NIF machine and the message queue under it in one run.  They share no     *)
(* state; which of them moves is chosen at the start, and the other rests.     *)
EXTENDS MCAgps, MCMsgTask

VARIABLE moving   \* "nif" or "queue"

allVars == <<vars, msgTaskVars, moving>>

AgpsQueueInit ==
  /\ Init /\ MsgTaskInit
  /\ moving \in {"nif", "queue"}
  /\ moving = "queue" => ~mEnforceSingleSubscriber

NifMoves   == moving = "nif" /\ UNCHANGED <<msgTaskVars, moving>>
QueueMoves == moving = "queue" /\ UNCHANGED <<vars, moving>>

\* The fairness is that of FairSpec and of FairMsgTaskSpec.
AgpsQueueSpec ==
  /\ AgpsQueueInit
  /\ [][(NifMoves /\ Next) \/ (QueueMoves /\ MsgTaskNext)]_allVars
  /\ WF_vars(NifMoves /\ Worker /\ UNCHANGED mEnforceSingleSubscriber)
  /\ WF_vars(NifMoves /\ Service /\ UNCHANGED mEnforceSingleSubscriber)
  /\ WF_msgTaskVars(QueueMoves /\ loopMain)
=============================================================================
