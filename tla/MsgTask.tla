------------------------------- MODULE MsgTask -------------------------------
(***************************************************************************)
(* The worker thread of the HAL: class MsgTask (core/MsgTask.cpp) over the *)
(* blocking queue of utils/msg_q.c, a linked list under a mutex with a     *)
(* condition variable and an `unblocked' flag that ends the wait.          *)
(*                                                                         *)
(* What runs between a lock and the next unlock or wait is one action.     *)
(* The senders are the framework's threads, the modem's callback threads,  *)
(* the timers and, while it handles a message, the worker itself.  The     *)
(* condition variable may wake up for no reason.                           *)
(***************************************************************************)
EXTENDS Naturals, SequencesExt

CONSTANTS
  Sender,    \* the threads that call sendMsg
  Self,      \* the worker as a sender of its own queue, or not a sender
  NoMsg,     \* no message
  MaxSends   \* bound on messages per sender

ASSUME MsgTaskAssumption ==
  /\ MaxSends \in Nat
  /\ NoMsg \notin Sender \X (1..MaxSends)

VARIABLES
  msg_list,   \* the linked list, in the order of removal
  unblocked,  \* msg_q.unblocked
  worker,     \* where loopMain is
  msg,        \* the message loopMain is handling
  handled,    \* messages handled, in order
  sent,       \* calls of sendMsg by each thread
  leaked,     \* messages msg_q_snd refused and nobody deletes
  flushed     \* messages msg_q_destroy deleted unhandled

msgTaskVars == <<msg_list, unblocked, worker, msg, handled, sent, leaked, flushed>>

Message == Sender \X (1..MaxSends)

\* "rcv": about to call msg_q_rcv; "waiting": in pthread_cond_wait; "woken":
\* woken, about to take the mutex again; "proc": handling a message;
\* "failed": msg_q_rcv returned an error; "gone": the queue is freed.
WorkerState == {"rcv", "waiting", "woken", "proc", "failed", "gone"}

MsgTaskTypeOK ==
  /\ msg_list \in Seq(Message)
  /\ unblocked \in BOOLEAN
  /\ worker \in WorkerState
  /\ msg \in Message \cup {NoMsg}
  /\ handled \in Seq(Message)
  /\ sent \in [Sender -> 0..MaxSends]
  /\ leaked \subseteq Message
  /\ flushed \subseteq Message

MsgTaskInit ==
  /\ msg_list = <<>>
  /\ unblocked = FALSE
  /\ worker = "rcv"
  /\ msg = NoMsg
  /\ handled = <<>>
  /\ sent = [t \in Sender |-> 0]
  /\ leaked = {}
  /\ flushed = {}

\* Faulty variant: nobody is woken.
unsignalled == worker

\* pthread_cond_signal or pthread_cond_broadcast: a sleeping worker wakes up.
signalled == IF worker = "waiting" THEN "woken" ELSE worker

\* sendMsg, ignoring what msg_q_snd returns.  Nobody sends once the queue is
\* freed: the program keeps its only MsgTask for ever (LocDualContext).
sendMsg(t) ==
  /\ worker # "gone"
  /\ t = Self => worker = "proc"
  /\ sent[t] < MaxSends
  /\ sent' = [sent EXCEPT ![t] = @ + 1]
  /\ IF unblocked
     THEN /\ leaked' = leaked \cup {<<t, sent'[t]>>}
          /\ UNCHANGED <<msg_list, worker>>
     ELSE /\ msg_list' = Append(msg_list, <<t, sent'[t]>>)
          /\ worker' = signalled
          /\ UNCHANGED leaked
  /\ UNCHANGED <<unblocked, msg, handled, flushed>>

\* Faulty variant: the newest message first.
removeNewest ==
  IF msg_list = <<>>
  THEN worker' = "failed" /\ UNCHANGED <<msg_list, msg>>
  ELSE worker' = "proc" /\ msg' = Last(msg_list) /\ msg_list' = Front(msg_list)

\* linked_list_remove, as msg_q_rcv returns it to loopMain.
remove ==
  IF msg_list = <<>>
  THEN worker' = "failed" /\ UNCHANGED <<msg_list, msg>>
  ELSE /\ worker' = "proc"
       /\ msg' = Head(msg_list)
       /\ msg_list' = Tail(msg_list)

\* The test of the wait loop in msg_q_rcv.
waitOrRemove ==
  IF msg_list = <<>> /\ ~unblocked
  THEN worker' = "waiting" /\ UNCHANGED <<msg_list, msg>>
  ELSE remove

\* msg_q_rcv from its entry: an unblocked queue gives nothing more out.
Receive ==
  /\ worker = "rcv"
  /\ IF unblocked
     THEN worker' = "failed" /\ UNCHANGED <<msg_list, msg>>
     ELSE waitOrRemove
  /\ UNCHANGED <<unblocked, handled, sent, leaked, flushed>>

\* msg_q_rcv from the return of pthread_cond_wait.
Resume ==
  /\ worker = "woken"
  /\ waitOrRemove
  /\ UNCHANGED <<unblocked, handled, sent, leaked, flushed>>

\* A spurious wake-up.
Spurious ==
  /\ worker = "waiting"
  /\ worker' = "woken"
  /\ UNCHANGED <<msg_list, unblocked, msg, handled, sent, leaked, flushed>>

\* Faulty variant: the deleted message is still at hand.
HandleDangling ==
  /\ worker = "proc"
  /\ worker' = "rcv"
  /\ handled' = Append(handled, msg)
  /\ UNCHANGED <<msg_list, msg, unblocked, sent, leaked, flushed>>

\* msg->proc() has returned; the message is deleted.
Handle ==
  /\ worker = "proc"
  /\ worker' = "rcv"
  /\ handled' = Append(handled, msg)
  /\ msg' = NoMsg
  /\ UNCHANGED <<msg_list, unblocked, sent, leaked, flushed>>

\* loopMain on an error: msg_q_destroy flushes the list and frees the queue.
Destroy ==
  /\ worker = "failed"
  /\ worker' = "gone"
  /\ flushed' = flushed \cup ToSet(msg_list)
  /\ msg_list' = <<>>
  /\ UNCHANGED <<unblocked, msg, handled, sent, leaked>>

\* Faulty variant: a sleeping worker is not told.
UnblockQuiet ==
  /\ worker # "gone" /\ ~unblocked
  /\ unblocked' = TRUE
  /\ UNCHANGED <<msg_list, worker, msg, handled, sent, leaked, flushed>>

\* ~MsgTask, that is msg_q_unblock.
Unblock ==
  /\ worker # "gone" /\ ~unblocked
  /\ unblocked' = TRUE
  /\ worker' = signalled
  /\ UNCHANGED <<msg_list, msg, handled, sent, leaked, flushed>>

loopMain == Receive \/ Resume \/ Handle \/ Destroy

MsgTaskNext == loopMain \/ Spurious \/ Unblock \/ \E t \in Sender : sendMsg(t)

MsgTaskSpec == MsgTaskInit /\ [][MsgTaskNext]_msgTaskVars

\* The worker is a thread that is scheduled and a handler that returns.
FairMsgTaskSpec == MsgTaskSpec /\ WF_msgTaskVars(loopMain)

-----------------------------------------------------------------------------
(* Properties.                                                             *)

\* No lost wake-up: the worker sleeps only on an empty queue that is still
\* in use, whatever the order of sends, unblocking and spurious wake-ups.
NoLostWakeup == worker = "waiting" => msg_list = <<>> /\ ~unblocked

\* The task stops only when it was told to, never on an empty queue alone.
StopsOnlyWhenTold == worker \in {"failed", "gone"} => unblocked

\* Every message sent is in exactly one place: waiting, being handled,
\* handled, deleted unhandled at the end, or refused.
Places == <<ToSet(msg_list), {msg} \ {NoMsg}, ToSet(handled), flushed, leaked>>

Accounted ==
  /\ UNION ToSet(Places) = {m \in Message : m[2] <= sent[m[1]]}
  /\ \A i, j \in DOMAIN Places : i # j => Places[i] \cap Places[j] = {}

\* Messages of one thread are handled in the order it sent them.
InOrder ==
  \A i, j \in DOMAIN handled :
    i < j /\ handled[i][1] = handled[j][1] => handled[i][2] < handled[j][2]

\* What the task does with messages, in one: it ends when told, loses none,
\* handles none twice and keeps the order of each sender.
MessagesKept == StopsOnlyWhenTold /\ Accounted /\ InOrder

\* The worker never goes to sleep for good on a message, and once unblocked
\* it ends, whatever is left in the queue.
Drains ==
  /\ \A m \in Message : m \in ToSet(msg_list) ~> m \notin ToSet(msg_list)
  /\ unblocked ~> worker = "gone"

\* MsgTask implements the mailbox.
Box == INSTANCE Mailbox WITH
  Msg <- Message, pending <- msg_list, current <- msg, open <- ~unblocked

MailboxSpec == Box!Spec
=============================================================================
