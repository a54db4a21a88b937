------------------------------- MODULE Mailbox -------------------------------
(***************************************************************************)
(* What the rest of the HAL relies on when it calls sendMsg: one worker    *)
(* handles the messages it was sent one at a time, in the order in which   *)
(* they were accepted, until it is told to stop; it then throws away those *)
(* that still wait.  MsgTask (MsgTask.cpp over msg_q.c) implements this,   *)
(* and AgpsStateMachine and DSStateMachine stand on it: there one action   *)
(* is one message.                                                         *)
(***************************************************************************)
EXTENDS Naturals, Sequences

CONSTANTS Msg, NoMsg

VARIABLES
  pending,  \* accepted, not yet taken
  current,  \* the message being handled
  handled,  \* handled, in order
  open      \* whether messages are still accepted

mailbox == <<pending, current, handled, open>>

Init ==
  /\ pending = <<>>
  /\ current = NoMsg
  /\ handled = <<>>
  /\ open = TRUE

Accept(m) ==
  /\ open
  /\ pending' = Append(pending, m)
  /\ UNCHANGED <<current, handled, open>>

Take ==
  /\ pending # <<>> /\ current = NoMsg
  /\ current' = Head(pending)
  /\ pending' = Tail(pending)
  /\ UNCHANGED <<handled, open>>

Finish ==
  /\ current # NoMsg
  /\ handled' = Append(handled, current)
  /\ current' = NoMsg
  /\ UNCHANGED <<pending, open>>

Close ==
  /\ open
  /\ open' = FALSE
  /\ UNCHANGED <<pending, current, handled>>

Discard ==
  /\ ~open /\ current = NoMsg
  /\ pending' = <<>>
  /\ UNCHANGED <<current, handled, open>>

Next == (\E m \in Msg : Accept(m)) \/ Take \/ Finish \/ Close \/ Discard

Spec == Init /\ [][Next]_mailbox
=============================================================================
