------------------------------ MODULE CoreProofs ------------------------------
(***************************************************************************)
(* Theorems about the two halves of the HAL's core, MsgTask and            *)
(* LocApiBase, for any senders, adapters, masks and sizes of the array.    *)
(* The worker of the one runs the messages of the other; their models      *)
(* share no state, and each has its own invariant.                         *)
(***************************************************************************)
EXTENDS MsgTask, LocApiBase, TLAPS

-------------------------------------------------------------------------------
(* The worker and its queue: type correctness, the absence of lost         *)
(* wake-ups, that every message is kept in its order, and that MsgTask     *)
(* implements Mailbox.                                                     *)
(*                                                                         *)
(* The inductive invariant adds to the checked ones that the worker holds  *)
(* a message exactly while it handles one: without it Handle could append  *)
(* NoMsg to what was handled, and Destroy discard while a message is still *)
(* in hand.  For MessagesKept, OrderInv strengthens the order of what was  *)
(* handled to what is handled, in hand and queued, and PlaceInv says where *)
(* each message can be at each point of the worker.                        *)

\* The worker holds a message exactly while it handles it.
HoldsOne == worker = "proc" <=> msg # NoMsg

TaskInv == MsgTaskTypeOK /\ NoLostWakeup /\ StopsOnlyWhenTold /\ HoldsOne

\* The lists' operators on the messages: what is appended and taken is a
\* message, and NoMsg is none.
LEMMA ListFacts ==
  /\ NoMsg \notin Message
  /\ \A s \in Seq(Message), m \in Message : Append(s, m) \in Seq(Message)
  /\ \A s \in Seq(Message) : s # <<>> => Head(s) \in Message /\ Tail(s) \in Seq(Message)
BY MsgTaskAssumption DEF Message

\* The initial state satisfies the invariant.
LEMMA TaskInitHolds == MsgTaskInit => TaskInv
<1> SUFFICES ASSUME MsgTaskInit PROVE TaskInv
  OBVIOUS
<1>1. sent \in [Sender -> 0..MaxSends]
  BY MsgTaskAssumption DEF MsgTaskInit
<1>2. msg_list \in Seq(Message) /\ handled \in Seq(Message)
  BY DEF MsgTaskInit
<1>3. leaked \subseteq Message /\ flushed \subseteq Message
  BY DEF MsgTaskInit
<1>4. MsgTaskTypeOK
  BY <1>1, <1>2, <1>3 DEF MsgTaskInit, MsgTaskTypeOK, WorkerState
<1> QED BY <1>4 DEF MsgTaskInit, TaskInv, NoLostWakeup, StopsOnlyWhenTold, HoldsOne

\* sendMsg: the message is one of the thread's, and a sleeping worker is woken
\* by the message that ends the emptiness of the list.
LEMMA SendStep ==
  ASSUME TaskInv, NEW t \in Sender, sendMsg(t)
  PROVE  TaskInv'
<1>1. <<t, sent'[t]>> \in Message /\ sent' \in [Sender -> 0..MaxSends]
  BY MsgTaskAssumption DEF TaskInv, MsgTaskTypeOK, sendMsg, Message
<1>2. MsgTaskTypeOK'
  BY <1>1, ListFacts DEF TaskInv, MsgTaskTypeOK, sendMsg, signalled, WorkerState
<1>3. NoLostWakeup' /\ StopsOnlyWhenTold' /\ HoldsOne'
  BY DEF TaskInv, NoLostWakeup, StopsOnlyWhenTold, HoldsOne, sendMsg, signalled
<1> QED BY <1>2, <1>3 DEF TaskInv

\* The two places where msg_q_rcv looks at the list.
LEMMA ReceiveStep ==
  ASSUME TaskInv, Receive \/ Resume
  PROVE  TaskInv'
<1>1. msg = NoMsg
  BY DEF TaskInv, HoldsOne, Receive, Resume
<1>2. MsgTaskTypeOK'
  BY ListFacts DEF TaskInv, MsgTaskTypeOK, Receive, Resume, waitOrRemove, remove, WorkerState
<1>3. NoLostWakeup' /\ StopsOnlyWhenTold'
  BY DEF TaskInv, NoLostWakeup, StopsOnlyWhenTold, Receive, Resume, waitOrRemove, remove
<1>4. HoldsOne'
  BY <1>1, ListFacts DEF TaskInv, MsgTaskTypeOK, HoldsOne, Receive, Resume, waitOrRemove, remove
<1> QED BY <1>2, <1>3, <1>4 DEF TaskInv

\* The other steps of the worker and of the condition variable.
LEMMA OtherStep ==
  ASSUME TaskInv, Spurious \/ Handle \/ Destroy \/ Unblock
  PROVE  TaskInv'
<1>1. MsgTaskTypeOK'
  <2>1. CASE Spurious BY <2>1 DEF TaskInv, MsgTaskTypeOK, Spurious, WorkerState
  <2>2. CASE Handle
    BY <2>2, ListFacts DEF TaskInv, MsgTaskTypeOK, HoldsOne, Handle, WorkerState
  <2>3. CASE Destroy
    <3>1. ToSet(msg_list) \subseteq Message
      BY DEF TaskInv, MsgTaskTypeOK, ToSet
    <3> QED BY <2>3, <3>1 DEF TaskInv, MsgTaskTypeOK, Destroy, WorkerState
  <2>4. CASE Unblock BY <2>4 DEF TaskInv, MsgTaskTypeOK, Unblock, signalled, WorkerState
  <2> QED BY <2>1, <2>2, <2>3, <2>4
<1>2. NoLostWakeup' /\ StopsOnlyWhenTold' /\ HoldsOne'
  BY DEF TaskInv, NoLostWakeup, StopsOnlyWhenTold, HoldsOne, Spurious, Handle, Destroy, Unblock, signalled
<1> QED BY <1>1, <1>2 DEF TaskInv

\* The invariant holds in every reachable state.
LEMMA TaskInductive == MsgTaskSpec => []TaskInv
<1>1. TaskInv /\ [MsgTaskNext]_msgTaskVars => TaskInv'
  <2> SUFFICES ASSUME TaskInv, [MsgTaskNext]_msgTaskVars PROVE TaskInv'
    OBVIOUS
  <2>1. CASE UNCHANGED msgTaskVars
    BY <2>1 DEF msgTaskVars, TaskInv, MsgTaskTypeOK, NoLostWakeup, StopsOnlyWhenTold, HoldsOne
  <2>2. CASE \E t \in Sender : sendMsg(t)
    BY <2>2, SendStep
  <2>3. CASE Receive \/ Resume
    BY <2>3, ReceiveStep
  <2>4. CASE Spurious \/ Handle \/ Destroy \/ Unblock
    BY <2>4, OtherStep
  <2> QED BY <2>1, <2>2, <2>3, <2>4 DEF MsgTaskNext, loopMain
<1> QED BY TaskInitHolds, <1>1, PTL DEF MsgTaskSpec

-------------------------------------------------------------------------------
(* Where each message is, and in which order.                              *)

\* Of two messages of one thread, a was sent first.
Before(a, b) == a[1] = b[1] => a[2] < b[2]

Ordered(s) == \A i, j \in DOMAIN s : i < j => Before(s[i], s[j])

Queued == ToSet(msg_list)
InHand == {msg} \ {NoMsg}
Done == ToSet(handled)
SentSoFar == {m \in Message : m[2] <= sent[m[1]]}

\* What was handled is before what is at hand, and that before what waits; so
\* that no message is in two of these places.
OrderInv ==
  /\ Ordered(handled) /\ Ordered(msg_list)
  /\ \A a \in Done, b \in InHand \cup Queued : Before(a, b)
  /\ \A a \in InHand, b \in Queued : Before(a, b)

PlaceInv ==
  /\ Queued \cup InHand \cup Done \cup flushed \cup leaked = SentSoFar
  /\ flushed \cap (Queued \cup InHand \cup Done \cup leaked) = {}
  /\ leaked \cap (Queued \cup InHand \cup Done) = {}

KeptInv == TaskInv /\ OrderInv /\ PlaceInv

\* A message put at the end of an ordered sequence that is before it.
LEMMA AppendOrdered ==
  ASSUME NEW s \in Seq(Message), NEW m \in Message, Ordered(s), \A a \in ToSet(s) : Before(a, m)
  PROVE  Ordered(Append(s, m)) /\ ToSet(Append(s, m)) = ToSet(s) \cup {m}
<1>1. /\ DOMAIN Append(s, m) = 1 .. Len(s) + 1 /\ DOMAIN s = 1 .. Len(s) /\ Len(s) \in Nat
      /\ \A i \in 1 .. Len(s) : Append(s, m)[i] = s[i] /\ s[i] \in ToSet(s)
      /\ Append(s, m)[Len(s) + 1] = m
  BY DEF ToSet
<1>2. Ordered(Append(s, m))
  <2> SUFFICES ASSUME NEW i \in 1 .. Len(s) + 1, NEW j \in 1 .. Len(s) + 1, i < j
               PROVE  Before(Append(s, m)[i], Append(s, m)[j])
    BY <1>1 DEF Ordered
  <2>1. i \in 1 .. Len(s)
    BY <1>1
  <2>2. CASE j = Len(s) + 1 BY <1>1, <2>1, <2>2
  <2>3. CASE j \in 1 .. Len(s) BY <1>1, <2>1, <2>3 DEF Ordered
  <2> QED BY <1>1, <2>2, <2>3
<1>3. ToSet(Append(s, m)) \subseteq ToSet(s) \cup {m}
  BY <1>1 DEF ToSet
<1>4. m \in ToSet(Append(s, m))
  BY <1>1 DEF ToSet
<1>5. ToSet(s) \subseteq ToSet(Append(s, m))
  BY <1>1 DEF ToSet
<1> QED BY <1>2, <1>3, <1>4, <1>5

\* The first message of an ordered sequence is before the others.
LEMMA TailOrdered ==
  ASSUME NEW s \in Seq(Message), s # <<>>, Ordered(s)
  PROVE  /\ Ordered(Tail(s)) /\ ToSet(s) = {Head(s)} \cup ToSet(Tail(s))
         /\ \A b \in ToSet(Tail(s)) : Before(Head(s), b)
<1>1. /\ Len(s) \in Nat \ {0} /\ DOMAIN s = 1 .. Len(s) /\ DOMAIN Tail(s) = 1 .. Len(s) - 1
      /\ Head(s) = s[1] /\ \A i \in 1 .. Len(s) - 1 : Tail(s)[i] = s[i + 1]
  OBVIOUS
<1>2. Ordered(Tail(s))
  BY <1>1 DEF Ordered
<1>3. ToSet(Tail(s)) \subseteq ToSet(s) /\ Head(s) \in ToSet(s)
  BY <1>1 DEF ToSet
<1>4. ASSUME NEW m \in ToSet(s) PROVE m = Head(s) \/ m \in ToSet(Tail(s))
  <2>1. PICK i \in 1 .. Len(s) : m = s[i]
    BY <1>1 DEF ToSet
  <2>2. CASE i = 1 BY <1>1, <2>1, <2>2
  <2>3. CASE i # 1
    <3>1. i - 1 \in 1 .. Len(s) - 1 /\ Tail(s)[i - 1] = m
      BY <1>1, <2>1, <2>3
    <3> QED BY <1>1, <3>1 DEF ToSet
  <2> QED BY <2>2, <2>3
<1>5. ASSUME NEW b \in ToSet(Tail(s)) PROVE Before(Head(s), b)
  <2>1. PICK i \in 1 .. Len(s) - 1 : b = s[i + 1]
    BY <1>1 DEF ToSet
  <2> QED BY <1>1, <2>1 DEF Ordered
<1> QED BY <1>2, <1>3, <1>4, <1>5

\* The invariant is the property of the runs.
LEMMA KeptInvMeans == KeptInv => MessagesKept
<1> SUFFICES ASSUME KeptInv PROVE Accounted /\ InOrder
  BY DEF KeptInv, TaskInv, MessagesKept
<1>1. InOrder
  BY DEF KeptInv, OrderInv, Ordered, Before, InOrder
<1>2. \A m : m \in Message => ~Before(m, m)
  BY MsgTaskAssumption DEF Message, Before
<1>3. Done \subseteq Message /\ InHand \subseteq Message /\ Queued \subseteq Message
  BY DEF KeptInv, PlaceInv, SentSoFar
<1>4. Done \cap (InHand \cup Queued) = {} /\ InHand \cap Queued = {}
  BY <1>2, <1>3 DEF KeptInv, OrderInv
<1>5. Places = <<Queued, InHand, Done, flushed, leaked>>
  BY DEF Places, Queued, InHand, Done
<1>6. \A i, j \in DOMAIN Places : i # j => Places[i] \cap Places[j] = {}
  <2>1. DOMAIN Places = 1..5
    BY <1>5
  <2> SUFFICES ASSUME NEW i \in 1..5, NEW j \in 1..5, i # j PROVE Places[i] \cap Places[j] = {}
    BY <2>1
  <2> QED BY <1>4, <1>5 DEF KeptInv, PlaceInv
<1>7. UNION ToSet(Places) = Queued \cup InHand \cup Done \cup flushed \cup leaked
  <2>1. ToSet(Places) = {Queued, InHand, Done, flushed, leaked}
    BY <1>5 DEF ToSet
  <2> QED BY <2>1
<1> QED BY <1>1, <1>6, <1>7 DEF KeptInv, PlaceInv, Accounted, SentSoFar

LEMMA InitKept == MsgTaskInit => KeptInv
<1> SUFFICES ASSUME MsgTaskInit PROVE KeptInv
  OBVIOUS
<1>1. Queued = {} /\ InHand = {} /\ Done = {}
  BY DEF MsgTaskInit, Queued, InHand, Done, ToSet
<1>2. SentSoFar = {}
  BY MsgTaskAssumption DEF MsgTaskInit, SentSoFar, Message
<1>3. PlaceInv
  BY <1>1, <1>2 DEF MsgTaskInit, PlaceInv
<1>4. OrderInv
  BY <1>1 DEF MsgTaskInit, OrderInv, Ordered
<1> QED BY TaskInitHolds, <1>3, <1>4 DEF KeptInv

\* sendMsg: the new message is the last of its thread, in the list or refused.
LEMMA SendKept ==
  ASSUME KeptInv, NEW t \in Sender, sendMsg(t)
  PROVE  OrderInv' /\ PlaceInv'
<1> DEFINE m == <<t, sent[t] + 1>>
<1>1. sent \in [Sender -> Nat] /\ sent' = [sent EXCEPT ![t] = @ + 1] /\ m \in Message
  BY MsgTaskAssumption DEF KeptInv, TaskInv, MsgTaskTypeOK, sendMsg, Message
<1>2. SentSoFar' = SentSoFar \cup {m} /\ m \notin SentSoFar
  <2>1. \A a \in Message : a[1] \in Sender /\ a[2] \in Nat /\ a = <<a[1], a[2]>>
    BY MsgTaskAssumption DEF Message
  <2>2. \A a \in Message : a \in SentSoFar' <=> a[2] <= sent'[a[1]]
    BY DEF SentSoFar
  <2>3. \A a \in Message : a[2] <= sent'[a[1]] <=> a[2] <= sent[a[1]] \/ a = m
    <3> SUFFICES ASSUME NEW a \in Message
                 PROVE  a[2] <= sent'[a[1]] <=> a[2] <= sent[a[1]] \/ a = m
      OBVIOUS
    <3>1. CASE a[1] = t
      <4>1. sent'[a[1]] = sent[t] + 1 /\ sent[t] \in Nat /\ (a = m <=> a[2] = sent[t] + 1)
        BY <1>1, <2>1, <3>1
      <4> QED BY <2>1, <3>1, <4>1
    <3>2. CASE a[1] # t
      BY <1>1, <2>1, <3>2
    <3> QED BY <3>1, <3>2
  <2>4. SentSoFar' \subseteq Message /\ SentSoFar \subseteq Message
    BY DEF SentSoFar
  <2>5. m \notin SentSoFar
    BY <1>1 DEF SentSoFar
  <2> QED BY <1>1, <2>2, <2>3, <2>4, <2>5 DEF SentSoFar
<1>3. \A a \in SentSoFar : Before(a, m)
  BY <1>1, MsgTaskAssumption DEF SentSoFar, Before, Message
<1>4. UNCHANGED <<InHand, Done, flushed, handled>>
  BY DEF sendMsg, InHand, Done
<1>5. m = <<t, sent'[t]>>
  BY <1>1
<1>6. CASE unblocked
  <2>1. leaked' = leaked \cup {m} /\ UNCHANGED <<msg_list, Queued>>
    BY <1>5, <1>6 DEF sendMsg, Queued
  <2>2. OrderInv'
    BY <1>4, <2>1 DEF KeptInv, OrderInv, Ordered
  <2>3. PlaceInv'
    BY <1>2, <1>4, <2>1 DEF KeptInv, PlaceInv
  <2> QED BY <2>2, <2>3
<1>7. CASE ~unblocked
  <2>1. msg_list' = Append(msg_list, m) /\ UNCHANGED leaked
    BY <1>5, <1>7 DEF sendMsg
  <2>2. Queued \subseteq SentSoFar /\ InHand \subseteq SentSoFar /\ Done \subseteq SentSoFar
    BY DEF KeptInv, PlaceInv
  <2>3. Ordered(msg_list') /\ Queued' = Queued \cup {m}
    BY <1>1, <1>3, <2>1, <2>2, AppendOrdered DEF KeptInv, TaskInv, MsgTaskTypeOK, OrderInv, Queued
  <2>4. OrderInv'
    BY <1>3, <1>4, <2>2, <2>3 DEF KeptInv, OrderInv, Ordered
  <2>5. PlaceInv'
    BY <1>2, <1>4, <2>1, <2>3 DEF KeptInv, PlaceInv
  <2> QED BY <2>4, <2>5
<1> QED BY <1>6, <1>7

\* The first message moves from the list into the hand.
LEMMA ReceiveKept ==
  ASSUME KeptInv, Receive \/ Resume
  PROVE  OrderInv' /\ PlaceInv'
<1>1. UNCHANGED <<handled, Done, flushed, leaked, sent, SentSoFar>>
  BY DEF Receive, Resume, Done, SentSoFar
<1>2. CASE UNCHANGED <<msg_list, msg>>
  <2>1. UNCHANGED <<Queued, InHand>>
    BY <1>2 DEF Queued, InHand
  <2> QED BY <1>1, <1>2, <2>1 DEF KeptInv, OrderInv, PlaceInv, Ordered
<1>3. CASE ~ UNCHANGED <<msg_list, msg>>
  <2>1. /\ msg_list # <<>> /\ msg' = Head(msg_list) /\ msg_list' = Tail(msg_list)
        /\ msg = NoMsg
    BY <1>3 DEF KeptInv, TaskInv, HoldsOne, Receive, Resume, waitOrRemove, remove
  <2>2. /\ Ordered(msg_list') /\ Queued = {msg'} \cup Queued'
        /\ \A b \in Queued' : Before(msg', b)
    BY <2>1, TailOrdered DEF KeptInv, TaskInv, MsgTaskTypeOK, OrderInv, Queued
  <2>3. InHand = {} /\ InHand' = {msg'}
    BY <2>1, ListFacts DEF InHand, KeptInv, TaskInv, MsgTaskTypeOK
  <2>4. OrderInv'
    BY <1>1, <2>2, <2>3 DEF KeptInv, OrderInv, Ordered
  <2>5. PlaceInv'
    BY <1>1, <2>2, <2>3 DEF KeptInv, PlaceInv
  <2> QED BY <2>4, <2>5
<1> QED BY <1>2, <1>3

\* The message at hand is the next one handled.
LEMMA HandleKept ==
  ASSUME KeptInv, Handle
  PROVE  OrderInv' /\ PlaceInv'
<1>1. UNCHANGED <<msg_list, Queued, flushed, leaked, sent, SentSoFar>>
  BY DEF Handle, Queued, SentSoFar
<1>2. msg \in Message /\ InHand = {msg} /\ InHand' = {} /\ handled' = Append(handled, msg)
  BY DEF Handle, KeptInv, TaskInv, MsgTaskTypeOK, HoldsOne, InHand
<1>3. Ordered(handled') /\ Done' = Done \cup {msg}
  BY <1>2, AppendOrdered DEF KeptInv, TaskInv, MsgTaskTypeOK, OrderInv, Done
<1>4. OrderInv'
  BY <1>1, <1>2, <1>3 DEF KeptInv, OrderInv, Ordered
<1>5. PlaceInv'
  BY <1>1, <1>2, <1>3 DEF KeptInv, PlaceInv
<1> QED BY <1>4, <1>5

\* What waits when the worker ends is deleted.
LEMMA DestroyKept ==
  ASSUME KeptInv, Destroy
  PROVE  OrderInv' /\ PlaceInv'
<1>1. UNCHANGED <<handled, Done, InHand, leaked, sent, SentSoFar>>
  BY DEF Destroy, Done, InHand, SentSoFar
<1>2. msg_list' = <<>> /\ Queued' = {} /\ flushed' = flushed \cup Queued
  BY DEF Destroy, Queued, ToSet
<1>3. OrderInv'
  BY <1>1, <1>2 DEF KeptInv, OrderInv, Ordered
<1>4. Queued \cap (InHand \cup Done) = {}
  <2>1. \A m \in Message : ~Before(m, m)
    BY MsgTaskAssumption DEF Message, Before
  <2>2. Queued \subseteq Message
    BY DEF KeptInv, PlaceInv, SentSoFar
  <2> QED BY <2>1, <2>2 DEF KeptInv, OrderInv
<1>5. PlaceInv'
  BY <1>1, <1>2, <1>4 DEF KeptInv, PlaceInv
<1> QED BY <1>3, <1>5

LEMMA InductiveKept == MsgTaskSpec => []KeptInv
<1>1. KeptInv /\ TaskInv' /\ [MsgTaskNext]_msgTaskVars => KeptInv'
  <2> SUFFICES ASSUME KeptInv, TaskInv', [MsgTaskNext]_msgTaskVars PROVE OrderInv' /\ PlaceInv'
    BY DEF KeptInv
  <2>1. CASE UNCHANGED msgTaskVars \/ Spurious \/ Unblock
    BY <2>1 DEF msgTaskVars, Spurious, Unblock, KeptInv, OrderInv, PlaceInv, Ordered, Queued, InHand, Done,
       SentSoFar
  <2>2. CASE \E t \in Sender : sendMsg(t)
    BY <2>2, SendKept
  <2>3. CASE Receive \/ Resume
    BY <2>3, ReceiveKept
  <2>4. CASE Handle
    BY <2>4, HandleKept
  <2>5. CASE Destroy
    BY <2>5, DestroyKept
  <2> QED BY <2>1, <2>2, <2>3, <2>4, <2>5 DEF MsgTaskNext, loopMain
<1> QED BY InitKept, <1>1, TaskInductive, PTL DEF MsgTaskSpec

\* Type correctness: every message the worker takes out of the queue is one
\* that some thread put in, and the worker's place is one of its six.
THEOREM TaskTypeCorrect == MsgTaskSpec => []MsgTaskTypeOK
BY TaskInductive, PTL DEF TaskInv

\* msg_q_snd and msg_q_unblock always wake a sleeping worker: it never sleeps
\* on a message or on an unblocked queue.
THEOREM NeverSleepsOnWork == MsgTaskSpec => []NoLostWakeup
BY TaskInductive, PTL DEF TaskInv

\* loopMain leaves its loop only after msg_q_unblock, never on an empty list.
THEOREM StopsWhenTold == MsgTaskSpec => []StopsOnlyWhenTold
BY TaskInductive, PTL DEF TaskInv

\* No message is lost, handled twice or out of the order of its thread,
\* whatever the sends, wake-ups and the end of the queue.
THEOREM KeepsMessages == MsgTaskSpec => []MessagesKept
BY InductiveKept, KeptInvMeans, PTL

\* MsgTask implements Mailbox: the handling is one message at a time, in the
\* order of acceptance; the waiting, waking and unblocking are stutters.
THEOREM ImplementsMailbox == MsgTaskSpec => MailboxSpec
<1>1. MsgTaskInit => Box!Init
  BY DEF MsgTaskInit, Box!Init
<1>2. TaskInv /\ [MsgTaskNext]_msgTaskVars => [Box!Next]_Box!mailbox
  <2> SUFFICES ASSUME TaskInv, [MsgTaskNext]_msgTaskVars PROVE [Box!Next]_Box!mailbox
    OBVIOUS
  <2>1. CASE UNCHANGED msgTaskVars
    BY <2>1 DEF msgTaskVars, Box!mailbox
  <2>2. ASSUME NEW t \in Sender, sendMsg(t) PROVE [Box!Next]_Box!mailbox
    <3>1. <<t, sent'[t]>> \in Message
      BY <2>2, MsgTaskAssumption DEF TaskInv, MsgTaskTypeOK, sendMsg, Message
    <3> QED BY <2>2, <3>1 DEF sendMsg, Box!Next, Box!Accept, Box!mailbox
  <2>3. CASE Receive \/ Resume
    BY <2>3 DEF TaskInv, HoldsOne, Receive, Resume, waitOrRemove, remove,
       Box!Next, Box!Take, Box!mailbox
  <2>4. CASE Spurious
    BY <2>4 DEF Spurious, Box!mailbox
  <2>5. CASE Handle
    BY <2>5 DEF TaskInv, HoldsOne, Handle, Box!Next, Box!Finish
  <2>6. CASE Destroy
    BY <2>6 DEF TaskInv, HoldsOne, StopsOnlyWhenTold, Destroy, Box!Next, Box!Discard
  <2>7. CASE Unblock
    BY <2>7 DEF Unblock, Box!Next, Box!Close
  <2> QED BY <2>1, <2>2, <2>3, <2>4, <2>5, <2>6, <2>7 DEF MsgTaskNext, loopMain
<1> QED BY <1>1, <1>2, TaskInductive, PTL DEF MsgTaskSpec, MailboxSpec, Box!Spec

-------------------------------------------------------------------------------
(* The adapters and what is registered for them.                           *)
(*                                                                         *)
(* ArrayInv describes the array at each step of a removal, from which      *)
(* everything else follows.  RegInv: an event that an adapter asks for is  *)
(* registered, or waits in an open, or in the negotiation of the handle,   *)
(* or will be in the open that ends a removal.  LeftInv: what is           *)
(* registered or waits in an open is asked for by an adapter in the array, *)
(* or was left behind.  WalkInv: what a delivery has passed so far was     *)
(* called once.                                                            *)

QueueMsg == [type: {"open", "ssr"}, mask: SUBSET Event]
QueueInv == queue \in Seq(QueueMsg)

WalkType == [kind: {"none", "all", "first"}, step: {"test", "call", "end"},
             at: 1 .. MAX_ADAPTERS + 1, start: SUBSET Adapter, heard: [Adapter -> Nat],
             disturbed: BOOLEAN]

\* The adapters in the array.
InArray == {a \in Adapter : \E i \in Slot : mLocAdapters[i] = a}

ArrayInv ==
  /\ removal.step = "none" <=> removal = NoRemoval
  /\ dropped \subseteq alive
  /\ InArray = alive \ dropped
  /\ removal.step = "hole" =>
       /\ removal.at <= removal.last
       /\ \A i \in Slot : mLocAdapters[i] = NULL <=> i = removal.at \/ removal.last < i
       /\ \A i, j \in Slot : mLocAdapters[i] = mLocAdapters[j] /\ mLocAdapters[i] # NULL => i = j
  /\ removal.step = "double" =>
       /\ removal.at <= removal.last
       /\ mLocAdapters[removal.at] = mLocAdapters[removal.last]
       /\ \A i \in Slot : mLocAdapters[i] = NULL <=>
            removal.last < i \/ (i = removal.at /\ i = removal.last)
       /\ \A i, j \in Slot \ {removal.last} :
            mLocAdapters[i] = mLocAdapters[j] /\ mLocAdapters[i] # NULL => i = j

SsrQueued == \E i \in DOMAIN queue : queue[i].type = "ssr"
Covered(e) == e \in registered \/ \E i \in DOMAIN queue : queue[i].type = "open" /\ e \in queue[i].mask

RegInv ==
  /\ negotiated => modemUp
  /\ modemUp /\ ~negotiated => SsrQueued
  /\ modemUp /\ removal = NoRemoval =>
       \/ SsrQueued
       \/ \A a \in alive \ dropped : \A e \in MaskOf[a] \ Excluded : Covered(e)

Meant(e) == e \in registered \/ \E i \in DOMAIN queue : e \in queue[i].mask
Asked(e) == \E i \in Slot : mLocAdapters[i] # NULL /\ e \in MaskOf[mLocAdapters[i]]

LeftInv ==
  /\ registered \cap Excluded = {}
  /\ \A e : Meant(e) => Asked(e) \/ e \in removed \cup early

\* A delivery that no removal has met: the slots before walk.at were called.
Passed(a) == \E i \in Slot : i < walk.at /\ mLocAdapters[i] = a

WalkInv ==
  /\ crashed => walk.disturbed
  /\ walk.kind = "none" => walk.step = "end"
  /\ walk.step = "call" => walk.at \in Slot
  /\ ~walk.disturbed /\ walk.step # "end" =>
       /\ removal = NoRemoval
       /\ \A i \in Slot : i < walk.at => mLocAdapters[i] # NULL
       /\ walk.start \subseteq InArray
       /\ walk.kind = "all" =>
            \A a \in Adapter : walk.heard[a] = IF Passed(a) THEN 1 ELSE 0
       /\ walk.kind = "first" =>
            \A a \in Adapter : walk.heard[a] = 0 /\ (Passed(a) => a \notin Handler)
       /\ walk.step = "call" => mLocAdapters[walk.at] # NULL
  /\ DeliveredOnce

ApiInv == TypeOK /\ QueueInv /\ ArrayInv /\ RegInv /\ LeftInv /\ WalkInv

-------------------------------------------------------------------------------
\* Between two changes the array has no holes and no adapter twice.
Tidy ==
  removal = NoRemoval =>
    /\ \A i \in Slot : mLocAdapters[i] # NULL => \A j \in 1..i : mLocAdapters[j] # NULL
    /\ \A i, j \in Slot : mLocAdapters[i] = mLocAdapters[j] /\ mLocAdapters[i] # NULL => i = j

LEMMA TypeIsTidy == TypeOK => Tidy
BY DEF TypeOK, Tidy, Seen

\* Then a walk sees all of it.
LEMMA SeesAll == TypeOK /\ removal = NoRemoval => Listed = InArray
<1> SUFFICES ASSUME TypeOK, removal = NoRemoval PROVE Listed = InArray
  OBVIOUS
<1>1. \A i \in Slot : i \in Seen <=> mLocAdapters[i] # NULL
  BY TypeIsTidy DEF Tidy, Seen, Slot
<1>2. Seen \subseteq Slot /\ \A i \in Slot : mLocAdapters[i] \in Adapter \cup {NULL}
  BY DEF Seen, TypeOK
<1>3. Listed = InArray
  BY <1>1, <1>2, LocApiAssumption DEF Listed, InArray
<1> QED BY <1>3

\* What the queue's operators do to its messages.
LEMMA QueueFacts ==
  ASSUME QueueInv
  PROVE  /\ \A m \in QueueMsg :
              /\ Append(queue, m) \in Seq(QueueMsg)
              /\ \A i \in DOMAIN Append(queue, m) :
                   (i \in DOMAIN queue /\ Append(queue, m)[i] = queue[i]) \/ Append(queue, m)[i] = m
              /\ \A i \in DOMAIN queue :
                   i \in DOMAIN Append(queue, m) /\ Append(queue, m)[i] = queue[i]
              /\ \E i \in DOMAIN Append(queue, m) : Append(queue, m)[i] = m
         /\ queue # <<>> =>
              /\ Head(queue) \in QueueMsg /\ Tail(queue) \in Seq(QueueMsg)
              /\ 1 \in DOMAIN queue /\ queue[1] = Head(queue)
              /\ \A i \in DOMAIN Tail(queue) :
                   i + 1 \in DOMAIN queue /\ Tail(queue)[i] = queue[i + 1]
              /\ \A i \in DOMAIN queue :
                   queue[i] = Head(queue) \/ \E j \in DOMAIN Tail(queue) : Tail(queue)[j] = queue[i]
<1> USE DEF QueueInv
<1>1. ASSUME NEW m \in QueueMsg
      PROVE  /\ Append(queue, m) \in Seq(QueueMsg)
             /\ \A i \in DOMAIN Append(queue, m) :
                  (i \in DOMAIN queue /\ Append(queue, m)[i] = queue[i]) \/ Append(queue, m)[i] = m
             /\ \A i \in DOMAIN queue :
                  i \in DOMAIN Append(queue, m) /\ Append(queue, m)[i] = queue[i]
             /\ \E i \in DOMAIN Append(queue, m) : Append(queue, m)[i] = m
  <2>1. Append(queue, m) \in Seq(QueueMsg) /\ Len(Append(queue, m)) = Len(queue) + 1
        /\ Append(queue, m)[Len(queue) + 1] = m
    OBVIOUS
  <2>2. DOMAIN queue = 1..Len(queue) /\ DOMAIN Append(queue, m) = 1..(Len(queue) + 1)
    BY <2>1
  <2>3. \A i \in 1..Len(queue) : Append(queue, m)[i] = queue[i]
    OBVIOUS
  <2>4. Len(queue) \in Nat
    OBVIOUS
  <2> QED BY <2>1, <2>2, <2>3, <2>4
<1>2. ASSUME queue # <<>>
      PROVE  /\ Head(queue) \in QueueMsg /\ Tail(queue) \in Seq(QueueMsg)
             /\ 1 \in DOMAIN queue /\ queue[1] = Head(queue)
             /\ \A i \in DOMAIN Tail(queue) :
                  i + 1 \in DOMAIN queue /\ Tail(queue)[i] = queue[i + 1]
             /\ \A i \in DOMAIN queue :
                  queue[i] = Head(queue) \/ \E j \in DOMAIN Tail(queue) : Tail(queue)[j] = queue[i]
  <2>1. Head(queue) \in QueueMsg /\ Tail(queue) \in Seq(QueueMsg) /\ queue[1] = Head(queue)
    BY <1>2
  <2>2. Len(queue) \in Nat \ {0} /\ Len(Tail(queue)) = Len(queue) - 1
    BY <1>2
  <2>3. DOMAIN queue = 1..Len(queue) /\ DOMAIN Tail(queue) = 1..(Len(queue) - 1)
    BY <2>1, <2>2
  <2>4. \A i \in 1..(Len(queue) - 1) : Tail(queue)[i] = queue[i + 1]
    BY <1>2
  <2>5. \A i \in 1..Len(queue) : i # 1 =>
          i - 1 \in 1..(Len(queue) - 1) /\ Tail(queue)[i - 1] = queue[i]
    BY <2>2, <2>4
  <2>6. \A i \in DOMAIN queue :
          queue[i] = Head(queue) \/ \E j \in DOMAIN Tail(queue) : Tail(queue)[j] = queue[i]
    BY <2>1, <2>3, <2>5
  <2>7. \A i \in DOMAIN Tail(queue) : i + 1 \in DOMAIN queue /\ Tail(queue)[i] = queue[i + 1]
    BY <2>2, <2>3, <2>4
  <2>8. 1 \in DOMAIN queue
    BY <2>2, <2>3
  <2> QED BY <2>1, <2>6, <2>7, <2>8
<1> QED BY <1>1, <1>2

\* The queued opens ask for events.
LEMMA PendingEvents ==
  ASSUME NEW messages \in Seq(QueueMsg)
  PROVE  Pending(messages) \subseteq Event
<1>1. \A i \in DOMAIN messages : messages[i] \in QueueMsg
  OBVIOUS
<1>2. \A i \in DOMAIN messages : messages[i].mask \subseteq Event
  BY <1>1 DEF QueueMsg
<1> QED BY <1>2 DEF Pending

LEMMA ApiInitHolds == Init => ApiInv
<1> SUFFICES ASSUME Init PROVE ApiInv
  OBVIOUS
<1>1. TypeOK
  <2>1. 1 \in Slot /\ 1 \in 1..MAX_ADAPTERS + 1 /\ 0 \in 0..MaxChanges /\ 0 \in 0..MaxRestarts
    BY LocApiAssumption DEF Slot
  <2>2. removal \in [step: {"none", "hole", "double"}, at: Slot, last: Slot]
    BY <2>1 DEF Init, NoRemoval
  <2>3. walk \in WalkType
    BY <2>1 DEF Init, NoWalk, WalkType
  <2>4. \A i \in Slot : mLocAdapters[i] = NULL
    BY DEF Init
  <2>5. mLocAdapters \in [Slot -> Adapter \cup {NULL}] /\ DOMAIN queue = {}
    BY DEF Init
  <2>6. /\ alive \subseteq Adapter /\ dropped \subseteq Adapter /\ registered \subseteq Event
        /\ removed \subseteq Event /\ early \subseteq Event
    BY DEF Init
  <2> QED BY <2>1, <2>2, <2>3, <2>4, <2>5, <2>6 DEF Init, TypeOK, WalkType
<1>2. QueueInv
  BY DEF Init, QueueInv
<1>3. ArrayInv
  <2>1. InArray = {}
    BY LocApiAssumption DEF Init, InArray
  <2>2. removal.step = "none" /\ removal = NoRemoval
    BY DEF Init, NoRemoval
  <2> QED BY <2>1, <2>2 DEF Init, ArrayInv
<1>4. RegInv
  BY DEF Init, RegInv
<1>5. LeftInv
  BY DEF Init, LeftInv, Meant
<1>6. WalkInv
  BY DEF Init, WalkInv, NoWalk, DeliveredOnce
<1> QED BY <1>1, <1>2, <1>3, <1>4, <1>5, <1>6 DEF ApiInv

-------------------------------------------------------------------------------
\* Additions and the three steps of a removal keep the array in order.
LEMMA ArrayStep ==
  ASSUME ApiInv, Next
  PROVE  ArrayInv' /\ Tidy'
<1> USE DEF ApiInv
<1>0. /\ \A i \in Slot : mLocAdapters[i] \in Adapter \cup {NULL}
      /\ NULL \notin Adapter
      /\ Slot \subseteq Nat
      /\ Tidy
  BY LocApiAssumption, TypeIsTidy DEF TypeOK, Slot
<1>1. ASSUME NEW a \in Adapter, addAdapter(a) PROVE ArrayInv' /\ Tidy'
  <2>1. removal = NoRemoval /\ removal' = NoRemoval /\ alive' = alive \cup {a}
        /\ a \notin alive /\ a \notin InArray
    BY <1>1 DEF addAdapter, ArrayInv
  <2>2. CASE FirstFree = {}
    <3>1. mLocAdapters' = mLocAdapters /\ dropped' = dropped \cup {a}
      BY <1>1, <2>2 DEF addAdapter
    <3>2. InArray' = InArray
      BY <3>1 DEF InArray
    <3> QED BY <1>0, <2>1, <3>1, <3>2 DEF ArrayInv, Tidy, NoRemoval
  <2>3. CASE FirstFree # {}
    <3>1. PICK i \in FirstFree : mLocAdapters' = [mLocAdapters EXCEPT ![i] = a]
      BY <1>1, <2>3 DEF addAdapter
    <3>2. /\ i \in Slot /\ mLocAdapters[i] = NULL
          /\ \A j \in 1..i-1 : mLocAdapters[j] # NULL
      BY DEF FirstFree
    <3>3. mLocAdapters'[i] = a /\ \A j \in Slot : j # i => mLocAdapters'[j] = mLocAdapters[j]
      BY <3>1, <3>2 DEF TypeOK
    <3>4. \A j \in Slot : mLocAdapters[j] # a
      BY <2>1 DEF InArray
    <3>5. InArray' = InArray \cup {a}
      BY <1>0, <3>2, <3>3 DEF InArray
    <3>6. dropped' = dropped
      BY <1>1, <2>3 DEF addAdapter
    <3>7. ArrayInv'
      BY <2>1, <3>5, <3>6 DEF ArrayInv, NoRemoval
    <3>8. \A k \in Slot : mLocAdapters'[k] # NULL => \A j \in 1..k : mLocAdapters'[j] # NULL
      <4> SUFFICES ASSUME NEW k \in Slot, mLocAdapters'[k] # NULL, NEW j \in 1..k
                   PROVE  mLocAdapters'[j] # NULL
        OBVIOUS
      <4>1. j \in Slot /\ a # NULL
        BY <1>0, LocApiAssumption DEF Slot
      <4>2. CASE j = i
        BY <3>3, <4>1, <4>2
      <4>3. CASE j # i /\ k = i
        BY <3>2, <3>3, <4>1, <4>3 DEF Slot
      <4>4. CASE j # i /\ k # i
        BY <1>0, <2>1, <3>3, <4>1, <4>4 DEF Tidy
      <4> QED BY <4>2, <4>3, <4>4
    <3>9. \A j, k \in Slot :
            mLocAdapters'[j] = mLocAdapters'[k] /\ mLocAdapters'[j] # NULL => j = k
      BY <1>0, <2>1, <3>3, <3>4 DEF Tidy
    <3> QED BY <3>7, <3>8, <3>9 DEF Tidy
  <2> QED BY <2>2, <2>3
<1>2. ASSUME NEW a \in Adapter, RemoveBegins(a) PROVE ArrayInv' /\ Tidy'
  <2>1. removal = NoRemoval /\ alive' = alive \ {a} /\ dropped' = dropped \ {a}
        /\ Listed = InArray
    BY <1>2, SeesAll DEF RemoveBegins
  <2>2. CASE a \notin Listed
    <3>1. mLocAdapters' = mLocAdapters /\ removal' = removal
      BY <1>2, <2>2 DEF RemoveBegins
    <3>2. InArray' = InArray
      BY <3>1 DEF InArray
    <3> QED BY <1>0, <2>1, <2>2, <3>1, <3>2 DEF ArrayInv, Tidy, NoRemoval
  <2>3. CASE a \in Listed
    <3>1. PICK i \in Seen, last \in Seen :
            /\ mLocAdapters[i] = a
            /\ \A j \in Seen : j <= last
            /\ mLocAdapters' = [mLocAdapters EXCEPT ![i] = NULL]
            /\ removal' = [step |-> "hole", at |-> i, last |-> last]
      BY <1>2, <2>3 DEF RemoveBegins
    <3>2. \A k \in Slot : k \in Seen <=> mLocAdapters[k] # NULL
      BY <1>0, <2>1 DEF Tidy, Seen, Slot
    <3>3. i \in Slot /\ last \in Slot /\ i <= last
      BY <3>1 DEF Seen
    <3>4. mLocAdapters'[i] = NULL /\ \A j \in Slot : j # i => mLocAdapters'[j] = mLocAdapters[j]
      BY <3>1, <3>3 DEF TypeOK
    <3>5. \A k \in Slot : k <= last => mLocAdapters[k] # NULL
      <4>1. \A k \in 1..last : mLocAdapters[k] # NULL
        BY <3>1 DEF Seen
      <4> QED BY <4>1 DEF Slot
    <3>6. \A k \in Slot : last < k => mLocAdapters[k] = NULL
      BY <1>0, <3>1, <3>2, <3>3
    <3>7. \A k \in Slot : mLocAdapters'[k] = NULL <=> k = i \/ last < k
      <4> SUFFICES ASSUME NEW k \in Slot PROVE mLocAdapters'[k] = NULL <=> k = i \/ last < k
        OBVIOUS
      <4>1. CASE k = i
        BY <3>3, <3>4, <4>1
      <4>2. CASE k # i
        <5>1. mLocAdapters'[k] = mLocAdapters[k]
          BY <3>4, <4>2
        <5>2. k <= last \/ last < k
          BY <1>0, <3>3
        <5>3. k <= last => ~ (last < k)
          BY <1>0, <3>3
        <5> QED BY <3>5, <3>6, <4>2, <5>1, <5>2, <5>3
      <4> QED BY <4>1, <4>2
    <3>8. InArray' = InArray \ {a}
      BY <1>0, <2>1, <3>1, <3>3, <3>4 DEF InArray, Tidy
    <3>9. \A j, k \in Slot :
            mLocAdapters'[j] = mLocAdapters'[k] /\ mLocAdapters'[j] # NULL => j = k
      BY <1>0, <2>1, <3>4 DEF Tidy
    <3>10. InArray' = alive' \ dropped' /\ dropped' \subseteq alive'
      BY <2>1, <3>8 DEF ArrayInv
    <3> QED BY <3>1, <3>3, <3>7, <3>9, <3>10 DEF ArrayInv, Tidy, NoRemoval
  <2> QED BY <2>2, <2>3
<1>3. CASE RemoveMoves
  <2> DEFINE at == removal.at
             last == removal.last
  <2>1. /\ at \in Slot /\ last \in Slot /\ at <= last
        /\ \A i \in Slot : mLocAdapters[i] = NULL <=> i = at \/ last < i
        /\ \A i, j \in Slot : mLocAdapters[i] = mLocAdapters[j] /\ mLocAdapters[i] # NULL => i = j
    BY <1>3 DEF RemoveMoves, ArrayInv, TypeOK
  <2>2. mLocAdapters' = [mLocAdapters EXCEPT ![at] = mLocAdapters[last]]
        /\ UNCHANGED <<alive, dropped>>
    BY <1>3 DEF RemoveMoves
  <2>3. removal'.step = "double" /\ removal'.at = at /\ removal'.last = last
    BY <1>3 DEF RemoveMoves, TypeOK
  <2>4. /\ mLocAdapters'[at] = mLocAdapters[last]
        /\ \A i \in Slot : i # at => mLocAdapters'[i] = mLocAdapters[i]
    BY <2>1, <2>2 DEF TypeOK
  <2> HIDE DEF at, last
  <2>5. mLocAdapters'[last] = mLocAdapters[last]
    BY <2>1, <2>4
  <2>6. InArray' = InArray
    BY <1>0, <2>1, <2>4, <2>5 DEF InArray
  <2>7. \A i \in Slot : mLocAdapters'[i] = NULL <=> last < i \/ (i = at /\ i = last)
    <3> SUFFICES ASSUME NEW i \in Slot
                 PROVE  mLocAdapters'[i] = NULL <=> last < i \/ (i = at /\ i = last)
      OBVIOUS
    <3>1. CASE i = at
      <4>1. mLocAdapters'[i] = NULL <=> last = at
        <5>1. mLocAdapters[last] = NULL <=> last = at \/ last < last
          BY <2>1
        <5> QED BY <1>0, <2>1, <2>4, <3>1, <5>1
      <4> QED BY <1>0, <2>1, <3>1, <4>1
    <3>2. CASE i # at
      BY <2>1, <2>4, <3>2
    <3> QED BY <3>1, <3>2
  <2>8. \A i, j \in Slot \ {last} :
          mLocAdapters'[i] = mLocAdapters'[j] /\ mLocAdapters'[i] # NULL => i = j
    BY <2>1, <2>4
  <2> QED BY <2>1, <2>2, <2>3, <2>4, <2>5, <2>6, <2>7, <2>8 DEF ArrayInv, Tidy, NoRemoval
<1>4. CASE RemoveEnds
  <2> DEFINE at == removal.at
             last == removal.last
  <2>1. /\ at \in Slot /\ last \in Slot /\ at <= last
        /\ mLocAdapters[at] = mLocAdapters[last]
        /\ \A i \in Slot : mLocAdapters[i] = NULL <=> last < i \/ (i = at /\ i = last)
        /\ \A i, j \in Slot \ {last} :
             mLocAdapters[i] = mLocAdapters[j] /\ mLocAdapters[i] # NULL => i = j
    BY <1>4 DEF RemoveEnds, ArrayInv, TypeOK
  <2>2. mLocAdapters' = [mLocAdapters EXCEPT ![last] = NULL]
        /\ UNCHANGED <<alive, dropped>> /\ removal' = NoRemoval
    BY <1>4 DEF RemoveEnds, cleared
  <2>3. /\ mLocAdapters'[last] = NULL
        /\ \A i \in Slot : i # last => mLocAdapters'[i] = mLocAdapters[i]
    BY <2>1, <2>2 DEF TypeOK
  <2> HIDE DEF at, last
  <2>4. InArray' = InArray
    BY <1>0, <2>1, <2>3 DEF InArray
  <2>5. \A i \in Slot : mLocAdapters'[i] # NULL <=> i < last
    BY <1>0, <2>1, <2>3
  <2>6. \A i \in Slot : mLocAdapters'[i] # NULL => \A j \in 1..i : mLocAdapters'[j] # NULL
    <3> SUFFICES ASSUME NEW i \in Slot, mLocAdapters'[i] # NULL, NEW j \in 1..i
                 PROVE  mLocAdapters'[j] # NULL
      OBVIOUS
    <3>1. i < last /\ {i, last} \subseteq Nat
      BY <1>0, <2>1, <2>5
    <3>2. j \in Slot /\ j < last
      BY <3>1, LocApiAssumption DEF Slot
    <3> QED BY <2>5, <3>2
  <2>7. \A i, j \in Slot :
          mLocAdapters'[i] = mLocAdapters'[j] /\ mLocAdapters'[i] # NULL => i = j
    BY <2>1, <2>3
  <2> QED BY <2>2, <2>4, <2>6, <2>7 DEF ArrayInv, Tidy, NoRemoval
<1>5. CASE Worker \/ Modem
  <2>1. UNCHANGED <<mLocAdapters, removal, alive, dropped>>
    BY <1>5 DEF Worker, Modem, LocOpenMsg, LocSsrMsg, Report, Request, Deliver, Test, Call,
       handleEngineDownEvent, handleEngineUpEvent
  <2> QED BY <1>0, <2>1 DEF ArrayInv, Tidy, InArray
<1> QED BY <1>1, <1>2, <1>3, <1>4, <1>5 DEF Next, Owner

\* Type correctness, of the queue too.
LEMMA ApiTypeStep ==
  ASSUME ApiInv, Next
  PROVE  TypeOK' /\ QueueInv'
<1> USE DEF ApiInv
<1>0. /\ \A e \in SUBSET Event : OpenMsg(e) \in QueueMsg
      /\ SsrMsg \in QueueMsg
      /\ Listed \subseteq Adapter
      /\ \A a \in Adapter : MaskOf[a] \subseteq Event
      /\ walk \in WalkType
  <2>1. Listed \subseteq Adapter
    <3>1. \A i \in Seen : i \in Slot /\ mLocAdapters[i] # NULL
      <4>1. \A i \in Slot : i \in 1..i
        BY LocApiAssumption DEF Slot
      <4> QED BY <4>1 DEF Seen
    <3> QED BY <3>1 DEF TypeOK, Listed
  <2>2. walk \in WalkType
    BY DEF TypeOK, WalkType
  <2> QED BY <2>1, <2>2, LocApiAssumption DEF OpenMsg, SsrMsg, QueueMsg
<1>1. ASSUME mLocAdapters' \in [Slot -> Adapter \cup {NULL}],
             alive' \subseteq Adapter, dropped' \subseteq Adapter,
             removal' \in [step: {"none", "hole", "double"}, at: Slot, last: Slot],
             queue' \in Seq(QueueMsg), registered' \subseteq Event,
             modemUp' \in BOOLEAN, negotiated' \in BOOLEAN,
             walk' \in WalkType,
             crashed' \in BOOLEAN, removed' \subseteq Event, early' \subseteq Event,
             changes' \in 0..MaxChanges, restarts' \in 0..MaxRestarts
      PROVE  TypeOK' /\ QueueInv'
  <2>1. \A i \in DOMAIN queue' : queue'[i] \in QueueMsg
    BY <1>1
  <2>2. removal' = NoRemoval =>
          \A i \in Slot : mLocAdapters'[i] # NULL =>
            /\ i \in Seen'
            /\ \A j \in Slot : mLocAdapters'[j] = mLocAdapters'[i] => j = i
    BY ArrayStep DEF Tidy, Seen
  <2> QED BY <1>1, <2>1, <2>2 DEF TypeOK, QueueInv, QueueMsg, WalkType
<1>2. ASSUME NEW a \in Adapter, addAdapter(a) PROVE TypeOK' /\ QueueInv'
  <2>1. mLocAdapters' \in [Slot -> Adapter \cup {NULL}]
    BY <1>2 DEF TypeOK, addAdapter
  <2>2. queue' \in Seq(QueueMsg)
    BY <1>0, <1>2, QueueFacts DEF addAdapter, QueueInv
  <2>3. changes' \in 0..MaxChanges
    BY <1>2, LocApiAssumption DEF TypeOK, addAdapter
  <2>4. alive' \subseteq Adapter /\ dropped' \subseteq Adapter
    BY <1>2 DEF TypeOK, addAdapter
  <2> HIDE DEF ApiInv
  <2> QED BY <1>0, <1>1, <1>2, <2>1, <2>2, <2>3, <2>4 DEF ApiInv, TypeOK, addAdapter, left
<1>3. ASSUME NEW a \in Adapter, RemoveBegins(a) PROVE TypeOK' /\ QueueInv'
  <2>1. mLocAdapters' \in [Slot -> Adapter \cup {NULL}]
    BY <1>3 DEF TypeOK, RemoveBegins
  <2>2. removal' \in [step: {"none", "hole", "double"}, at: Slot, last: Slot]
    BY <1>3 DEF TypeOK, RemoveBegins, Seen
  <2>3. changes' \in 0..MaxChanges
    BY <1>3, LocApiAssumption DEF TypeOK, RemoveBegins
  <2>4. walk' \in WalkType
    <3>1. (walk.disturbed \/ walk.step # "end") \in BOOLEAN
      OBVIOUS
    <3>2. \A d \in BOOLEAN : [walk EXCEPT !.disturbed = d] \in WalkType
      BY <1>0 DEF WalkType
    <3>3. \/ walk' = walk
          \/ walk' = [walk EXCEPT !.disturbed = (walk.disturbed \/ walk.step # "end")]
      BY <1>3 DEF RemoveBegins
    <3> QED BY <1>0, <3>1, <3>2, <3>3
  <2>5. alive' \subseteq Adapter /\ dropped' \subseteq Adapter
    BY <1>3 DEF TypeOK, RemoveBegins
  <2>6. removed' \subseteq Event /\ early' \subseteq Event
    BY <1>0, <1>3 DEF TypeOK, RemoveBegins, left
  <2> QED BY <1>1, <1>3, <2>1, <2>2, <2>3, <2>4, <2>5, <2>6 DEF TypeOK, QueueInv, RemoveBegins
<1>4. CASE RemoveMoves \/ RemoveEnds
  <2>1. mLocAdapters' \in [Slot -> Adapter \cup {NULL}]
    BY <1>4 DEF TypeOK, RemoveMoves, RemoveEnds, cleared
  <2>2. removal' \in [step: {"none", "hole", "double"}, at: Slot, last: Slot]
    BY <1>4, LocApiAssumption DEF TypeOK, RemoveMoves, RemoveEnds, NoRemoval, Slot
  <2>3. getEvtMask' \subseteq Event
    <3>1. \A i \in Seen' : i \in Slot /\ mLocAdapters'[i] # NULL
      <4>1. \A i \in Slot : i \in 1..i
        BY LocApiAssumption DEF Slot
      <4> QED BY <4>1 DEF Seen
    <3>2. Listed' \subseteq Adapter
      BY <2>1, <3>1 DEF Listed
    <3> QED BY <3>2, LocApiAssumption DEF getEvtMask
  <2>4. queue' \in Seq(QueueMsg)
    BY <1>0, <1>4, <2>3, QueueFacts DEF RemoveMoves, RemoveEnds, QueueInv
  <2>5. registered' \subseteq Event /\ removed' \subseteq Event /\ early' \subseteq Event
    <3>1. Pending(queue) \subseteq Event
      BY PendingEvents DEF QueueInv
    <3> QED BY <1>4, <3>1 DEF TypeOK, RemoveMoves, RemoveEnds, forget, left
  <2> QED BY <1>0, <1>1, <1>4, <2>1, <2>2, <2>4, <2>5 DEF TypeOK, RemoveMoves, RemoveEnds
<1>5. CASE Worker
  <2>1. queue' \in Seq(QueueMsg)
    BY <1>5, QueueFacts DEF Worker, LocOpenMsg, LocSsrMsg
  <2>2. getEvtMask \subseteq Event
    BY <1>0 DEF getEvtMask
  <2>3. registered' \subseteq Event
    BY <1>5, <2>2, QueueFacts DEF TypeOK, QueueMsg, Worker, LocOpenMsg, LocSsrMsg, open, reopened
  <2>4. negotiated' \in BOOLEAN /\ UNCHANGED <<mLocAdapters, alive, dropped, removal, modemUp, walk,
                                              crashed, changes, restarts>>
    BY <1>5 DEF TypeOK, Worker, LocOpenMsg, LocSsrMsg
  <2>5. removed' \subseteq Event /\ early' \subseteq Event
    <3>1. Pending(queue') \subseteq Event
      BY <2>1, PendingEvents
    <3> QED BY <1>5, <3>1 DEF TypeOK, Worker, LocOpenMsg, LocSsrMsg, forget, left
  <2> QED BY <1>0, <1>1, <2>1, <2>3, <2>4, <2>5 DEF TypeOK
<1>6. ASSUME NEW kind \in {"all", "first"}, Starts(kind)
      PROVE  walk' \in WalkType
  <2>1. NoWalk \in WalkType /\ (removal # NoRemoval) \in BOOLEAN
    BY LocApiAssumption DEF NoWalk, WalkType
  <2>2. ASSUME NEW d \in BOOLEAN, NEW from \in SUBSET Adapter
        PROVE  [NoWalk EXCEPT !.kind = kind, !.step = "test", !.start = from, !.disturbed = d]
                 \in WalkType
    BY <2>1 DEF WalkType
  <2> QED BY <1>0, <1>6, <2>1, <2>2 DEF Starts
<1>7. CASE Report \/ Request
  BY <1>1, <1>6, <1>7 DEF Report, Request, Deliver, TypeOK, QueueInv, left
<1>8. CASE handleEngineDownEvent
  <2>1. restarts' \in 0..MaxRestarts
    BY <1>8, LocApiAssumption DEF handleEngineDownEvent, TypeOK
  <2>2. removed' \subseteq Event /\ early' \subseteq Event
    BY <1>8, PendingEvents DEF handleEngineDownEvent, forget, QueueInv
  <2> QED BY <1>1, <1>6, <1>8, <2>1, <2>2 DEF handleEngineDownEvent, TypeOK, QueueInv
<1>9. CASE handleEngineUpEvent
  <2>1. queue' \in Seq(QueueMsg)
    BY <1>0, <1>9, QueueFacts DEF handleEngineUpEvent
  <2> QED BY <1>1, <1>6, <1>9, <2>1 DEF handleEngineUpEvent, TypeOK, left
<1>10. CASE Test
  <2>1. walk' \in WalkType
    <3>1. \A st \in {"call", "end"} : [walk EXCEPT !.step = st] \in WalkType
      BY <1>0 DEF WalkType
    <3> QED BY <1>10, <3>1 DEF Test
  <2> QED BY <1>1, <1>10, <2>1 DEF Test, TypeOK, QueueInv, left
<1>11. CASE Call
  <2>1. walk.at \in Slot /\ walk.at + 1 \in 1 .. MAX_ADAPTERS + 1
    BY <1>11, LocApiAssumption DEF Call, WalkInv, Slot
  <2>2. ASSUME NEW a \in Adapter
        PROVE  [walk.heard EXCEPT ![a] = @ + 1] \in [Adapter -> Nat]
    BY DEF TypeOK
  <2>3. mLocAdapters[walk.at] \in Adapter \cup {NULL}
    BY <2>1 DEF TypeOK
  <2>4. walk' \in WalkType
    <3>1. CASE mLocAdapters[walk.at] = NULL
      BY <1>0, <1>11, <3>1 DEF Call
    <3>2. CASE mLocAdapters[walk.at] # NULL
      <4> DEFINE a == mLocAdapters[walk.at]
      <4>1. PICK h \in [Adapter -> Nat], st \in {"end", "test"} :
              walk' = [walk EXCEPT !.heard = h, !.at = walk.at + 1, !.step = st]
        <5>1. walk.heard \in [Adapter -> Nat] /\ [walk.heard EXCEPT ![a] = @ + 1] \in [Adapter -> Nat]
          BY <2>2, <2>3, <3>2 DEF TypeOK
        <5> DEFINE h == IF walk.kind = "all" \/ handles(a) THEN [walk.heard EXCEPT ![a] = @ + 1]
                                                          ELSE walk.heard
                   st == IF walk.kind = "first" /\ handles(a) THEN "end" ELSE "test"
        <5>2. h \in [Adapter -> Nat] /\ st \in {"end", "test"}
          BY <5>1
        <5>3. walk' = [walk EXCEPT !.heard = h, !.at = walk.at + 1, !.step = st]
          BY <1>11, <3>2 DEF Call
        <5> QED BY <5>2, <5>3
      <4> QED BY <1>0, <2>1, <4>1 DEF WalkType
    <3> QED BY <3>1, <3>2
  <2>5. crashed' \in BOOLEAN
    BY <1>11 DEF Call
  <2>6. UNCHANGED <<mLocAdapters, alive, dropped, removal, queue, registered, modemUp,
                    negotiated, removed, early, changes, restarts>>
    BY <1>11 DEF Call, left
  <2> QED BY <1>1, <2>4, <2>5, <2>6 DEF TypeOK, QueueInv
<1> QED BY <1>2, <1>3, <1>4, <1>5, <1>7, <1>8, <1>9, <1>10, <1>11 DEF Next, Owner, Modem

\* What is registered and what is on its way.
LEMMA RegStep ==
  ASSUME ApiInv, Next
  PROVE  RegInv'
<1> USE DEF ApiInv
<1>0. /\ \A e \in SUBSET Event : OpenMsg(e) \in QueueMsg
      /\ \A e : OpenMsg(e).type = "open" /\ OpenMsg(e).mask = e
      /\ SsrMsg \in QueueMsg /\ SsrMsg.type = "ssr"
      /\ \A a \in Adapter : MaskOf[a] \subseteq Event
  BY LocApiAssumption DEF OpenMsg, SsrMsg, QueueMsg
<1>1. ASSUME NEW a \in Adapter, addAdapter(a) PROVE RegInv'
  <2>1. removal = NoRemoval /\ removal' = NoRemoval /\ alive' = alive \cup {a}
        /\ UNCHANGED <<registered, modemUp, negotiated>>
    BY <1>1 DEF addAdapter
  <2>2. CASE FirstFree = {}
    <3>1. UNCHANGED <<mLocAdapters, queue>> /\ dropped' = dropped \cup {a}
      BY <1>1, <2>2 DEF addAdapter
    <3>2. alive' \ dropped' \subseteq alive \ dropped
      BY <2>1, <3>1
    <3> QED BY <2>1, <3>1, <3>2 DEF RegInv, SsrQueued, Covered
  <2>3. CASE FirstFree # {}
    <3>1. queue' = Append(queue, OpenMsg(MaskOf[a])) /\ dropped' = dropped
      BY <1>1, <2>3 DEF addAdapter
    <3>2. SsrQueued => SsrQueued'
      BY <1>0, <3>1, QueueFacts DEF SsrQueued
    <3>3. \A e : Covered(e) => Covered(e)'
      BY <1>0, <2>1, <3>1, QueueFacts DEF Covered
    <3>4. \A e \in MaskOf[a] : Covered(e)'
      BY <1>0, <3>1, QueueFacts DEF Covered
    <3> QED BY <2>1, <3>1, <3>2, <3>3, <3>4 DEF RegInv
  <2> QED BY <2>2, <2>3
<1>2. ASSUME NEW a \in Adapter, RemoveBegins(a) PROVE RegInv'
  <2>1. UNCHANGED <<queue, registered, modemUp, negotiated>>
        /\ removal = NoRemoval /\ Listed = InArray
        /\ alive' = alive \ {a} /\ dropped' = dropped \ {a}
    BY <1>2, SeesAll DEF RemoveBegins
  <2>2. CASE a \in Listed
    <3>1. removal' # NoRemoval
      BY <1>2, <2>2 DEF RemoveBegins, NoRemoval
    <3> QED BY <2>1, <3>1 DEF RegInv, SsrQueued
  <2>3. CASE a \notin Listed
    <3>1. UNCHANGED <<mLocAdapters, removal>> /\ alive' \ dropped' \subseteq alive \ dropped
      BY <1>2, <2>1, <2>3 DEF RemoveBegins
    <3> QED BY <2>1, <3>1 DEF RegInv, SsrQueued, Covered
  <2> QED BY <2>2, <2>3
<1>3. CASE RemoveMoves
  <2>1. UNCHANGED <<queue, registered, modemUp, negotiated>> /\ removal' # NoRemoval
    BY <1>3 DEF RemoveMoves, TypeOK, NoRemoval
  <2> QED BY <2>1 DEF RegInv, SsrQueued
<1>4. CASE RemoveEnds
  <2>0. /\ removal.at \in Slot /\ removal.last \in Slot /\ removal.at <= removal.last
        /\ mLocAdapters[removal.at] = mLocAdapters[removal.last]
        /\ \A i \in Slot : mLocAdapters[i] = NULL <=>
             removal.last < i \/ (i = removal.at /\ i = removal.last)
    BY <1>4 DEF RemoveEnds, ArrayInv, TypeOK
  <2>1. /\ mLocAdapters' = [mLocAdapters EXCEPT ![removal.last] = NULL]
        /\ UNCHANGED <<alive, dropped, modemUp, negotiated>> /\ removal' = NoRemoval
    BY <1>4 DEF RemoveEnds, cleared
  <2>2. InArray' = alive' \ dropped' /\ Listed' = InArray'
    <3>1. (TypeOK /\ removal = NoRemoval => Listed = InArray)'
      BY SeesAll, PTL
    <3> QED BY <2>1, <3>1, ApiTypeStep, ArrayStep DEF ArrayInv
  <2>3. CASE lastOne
    <3>1. \A i \in Slot : mLocAdapters'[i] = NULL
      BY <2>0, <2>1, <2>3 DEF TypeOK, lastOne, Slot
    <3>2. InArray' = {}
      BY <3>1, LocApiAssumption DEF InArray
    <3>3. queue' = queue
      BY <1>4, <2>3 DEF RemoveEnds
    <3>4. SsrQueued' <=> SsrQueued
      BY <3>3 DEF SsrQueued
    <3> QED BY <2>1, <2>2, <3>2, <3>3, <3>4 DEF RegInv
  <2>4. CASE ~lastOne
    <3>1. queue' = Append(queue, OpenMsg(getEvtMask')) /\ registered' = registered
      BY <1>4, <2>4 DEF RemoveEnds
    <3>2. getEvtMask' = (UNION {MaskOf[a] : a \in alive' \ dropped'}) \ Excluded
      BY <2>2 DEF getEvtMask
    <3>3. getEvtMask' \in SUBSET Event
      BY <1>0, <2>1, <3>2 DEF TypeOK
    <3>4. \A e \in getEvtMask' : Covered(e)'
      BY <1>0, <3>1, <3>3, QueueFacts DEF Covered
    <3>5. SsrQueued => SsrQueued'
      BY <1>0, <3>1, <3>3, QueueFacts DEF SsrQueued
    <3>6. ASSUME NEW a \in alive' \ dropped', NEW e \in MaskOf[a] \ Excluded PROVE Covered(e)'
      <4>0. MaskOf[a] \in {MaskOf[b] : b \in alive' \ dropped'}
        OBVIOUS
      <4>1. e \in UNION {MaskOf[b] : b \in alive' \ dropped'}
        BY <4>0
      <4>2. e \in (UNION {MaskOf[b] : b \in alive' \ dropped'}) \ Excluded
        BY <4>1
      <4>3. e \in getEvtMask'
        BY <3>2, <4>2
      <4> QED BY <3>4, <4>3
    <3> QED BY <2>1, <3>5, <3>6 DEF RegInv
  <2> QED BY <2>3, <2>4
<1>5. CASE LocOpenMsg
  <2>1. queue # <<>> /\ Head(queue).type = "open" /\ queue' = Tail(queue)
        /\ registered' = open(Head(queue).mask)
        /\ UNCHANGED <<mLocAdapters, alive, dropped, removal, modemUp, negotiated>>
    BY <1>5 DEF LocOpenMsg
  <2>2. SsrQueued <=> SsrQueued'
    BY <2>1, QueueFacts DEF SsrQueued
  <2>3. ASSUME modemUp, negotiated, NEW e, e \notin Excluded, Covered(e) PROVE Covered(e)'
    <3>1. registered' = registered \cup (Head(queue).mask \ Excluded)
      BY <2>1, <2>3 DEF open
    <3>2. ASSUME NEW i \in DOMAIN queue, queue[i].type = "open", e \in queue[i].mask
          PROVE  Covered(e)'
      <4>1. queue[i] = Head(queue) \/ \E j \in DOMAIN queue' : queue'[j] = queue[i]
        BY <2>1, QueueFacts
      <4>2. CASE queue[i] = Head(queue)
        BY <2>3, <3>1, <3>2, <4>2 DEF Covered
      <4>3. CASE \E j \in DOMAIN queue' : queue'[j] = queue[i]
        BY <3>2, <4>3 DEF Covered
      <4> QED BY <4>1, <4>2, <4>3
    <3> QED BY <2>3, <3>1, <3>2 DEF Covered
  <2>4. queue[1].type = "open" /\ 1 \in DOMAIN queue
    BY <2>1, QueueFacts
  <2> QED BY <2>1, <2>2, <2>3, <2>4 DEF RegInv
<1>6. CASE LocSsrMsg
  <2>1. queue # <<>> /\ queue' = Tail(queue) /\ negotiated' = modemUp
        /\ registered' = (IF modemUp THEN getEvtMask ELSE {})
        /\ UNCHANGED <<mLocAdapters, alive, dropped, removal, modemUp>>
    BY <1>6 DEF LocSsrMsg, reopened
  <2>3. removal = NoRemoval => getEvtMask = (UNION {MaskOf[a] : a \in alive \ dropped}) \ Excluded
    BY SeesAll DEF getEvtMask, ArrayInv
  <2>4. modemUp /\ removal = NoRemoval =>
          \A a \in alive \ dropped : \A e \in MaskOf[a] \ Excluded : Covered(e)'
    <3>1. ASSUME modemUp, removal = NoRemoval, NEW a \in alive \ dropped,
                 NEW e \in MaskOf[a] \ Excluded
          PROVE  e \in registered'
      <4>0. MaskOf[a] \in {MaskOf[b] : b \in alive \ dropped}
        OBVIOUS
      <4>1. e \in UNION {MaskOf[b] : b \in alive \ dropped}
        BY <4>0
      <4>2. e \in (UNION {MaskOf[b] : b \in alive \ dropped}) \ Excluded
        BY <4>1
      <4>3. e \in getEvtMask
        BY <2>3, <3>1, <4>2
      <4> QED BY <2>1, <3>1, <4>3
    <3> QED BY <3>1 DEF Covered
  <2>5. \A i \in DOMAIN queue' : i + 1 \in DOMAIN queue /\ queue'[i] = queue[i + 1]
    BY <2>1, QueueFacts
  <2> QED BY <2>1, <2>4, <2>5 DEF RegInv
<1>7. CASE Report \/ Request \/ Test \/ Call
  BY <1>7 DEF Report, Request, Deliver, Test, Call, RegInv, SsrQueued, Covered
<1>8. CASE handleEngineDownEvent
  BY <1>8 DEF handleEngineDownEvent, RegInv
<1>9. CASE handleEngineUpEvent
  <2>1. SsrQueued'
    BY <1>0, <1>9, QueueFacts DEF handleEngineUpEvent, SsrQueued
  <2>2. \A i \in DOMAIN queue' : (i \in DOMAIN queue /\ queue'[i] = queue[i]) \/ queue'[i] = SsrMsg
    BY <1>0, <1>9, QueueFacts DEF handleEngineUpEvent
  <2>3. UNCHANGED <<removal, registered, negotiated>> /\ modemUp'
    BY <1>9 DEF handleEngineUpEvent
  <2> QED BY <1>0, <2>1, <2>2, <2>3 DEF RegInv
<1> QED BY <1>1, <1>2, <1>3, <1>4, <1>5, <1>6, <1>7, <1>8, <1>9
        DEF Next, Owner, Worker, Modem

\* What is registered or on its way is asked for, or left behind.
LEMMA LeftStep ==
  ASSUME ApiInv, Next
  PROVE  LeftInv'
<1> USE DEF ApiInv
<1>0. /\ \A e : OpenMsg(e).mask = e
      /\ SsrMsg.mask = {}
      /\ \A e \in SUBSET Event : OpenMsg(e) \in QueueMsg
      /\ SsrMsg \in QueueMsg
      /\ \A a \in Adapter : MaskOf[a] \subseteq Event
      /\ \A i \in Slot : i \in 1..i
  BY LocApiAssumption DEF OpenMsg, SsrMsg, QueueMsg, Slot
<1>listed. /\ \A e \in getEvtMask : Asked(e) /\ e \notin Excluded
           /\ \A e \in getEvtMask' : Asked(e)' /\ e \notin Excluded
  <2>1. \A i \in Seen : i \in Slot /\ mLocAdapters[i] # NULL
    BY <1>0 DEF Seen
  <2>2. \A i \in Seen' : i \in Slot /\ mLocAdapters'[i] # NULL
    BY <1>0 DEF Seen
  <2>3. \A e \in getEvtMask : \E i \in Seen : e \in MaskOf[mLocAdapters[i]] /\ e \notin Excluded
    BY DEF getEvtMask, Listed
  <2>4. \A e \in getEvtMask' : \E i \in Seen' : e \in MaskOf[mLocAdapters'[i]] /\ e \notin Excluded
    BY DEF getEvtMask, Listed
  <2> QED BY <2>1, <2>2, <2>3, <2>4 DEF Asked
<1>1. ASSUME UNCHANGED <<mLocAdapters, queue, registered, left>> PROVE LeftInv'
  BY <1>1 DEF LeftInv, Meant, Asked, left
<1>2. ASSUME NEW a \in Adapter, addAdapter(a) PROVE LeftInv'
  <2>1. CASE FirstFree = {}
    BY <1>1, <1>2, <2>1 DEF addAdapter
  <2>2. CASE FirstFree # {}
    <3>1. PICK i \in Slot : mLocAdapters[i] = NULL /\ mLocAdapters' = [mLocAdapters EXCEPT ![i] = a]
      BY <1>2, <2>2 DEF addAdapter, FirstFree
    <3>2. mLocAdapters'[i] = a /\ a # NULL /\ \A j \in Slot : j # i => mLocAdapters'[j] = mLocAdapters[j]
      BY <3>1, LocApiAssumption DEF TypeOK
    <3>3. (\A e : Asked(e) => Asked(e)') /\ \A e \in MaskOf[a] : Asked(e)'
      BY <3>1, <3>2 DEF Asked
    <3>4. queue' = Append(queue, OpenMsg(MaskOf[a])) /\ UNCHANGED <<registered, left>>
      BY <1>2, <2>2 DEF addAdapter
    <3>5. \A e : Meant(e)' => Meant(e) \/ e \in MaskOf[a]
      BY <1>0, <3>4, QueueFacts DEF Meant
    <3> QED BY <3>3, <3>4, <3>5 DEF LeftInv, left
  <2> QED BY <2>1, <2>2
<1>3. ASSUME NEW a \in Adapter, RemoveBegins(a) PROVE LeftInv'
  <2>1. CASE a \notin Listed
    BY <1>1, <1>3, <2>1 DEF RemoveBegins
  <2>2. CASE a \in Listed
    <3>1. PICK i \in Slot : mLocAdapters[i] = a /\ mLocAdapters' = [mLocAdapters EXCEPT ![i] = NULL]
      BY <1>3, <2>2 DEF RemoveBegins, Seen
    <3>2. UNCHANGED <<queue, registered, early>> /\ removed' = removed \cup MaskOf[a]
      BY <1>3, <2>2 DEF RemoveBegins
    <3>3. \A e : Asked(e) => Asked(e)' \/ e \in MaskOf[a]
      BY <3>1 DEF Asked, TypeOK
    <3> QED BY <3>2, <3>3 DEF LeftInv, Meant
  <2> QED BY <2>1, <2>2
<1>4. CASE RemoveMoves
  <2>1. /\ removal.at \in Slot /\ removal.last \in Slot
        /\ mLocAdapters[removal.at] = NULL
        /\ mLocAdapters' = [mLocAdapters EXCEPT ![removal.at] = mLocAdapters[removal.last]]
        /\ UNCHANGED <<queue, registered, left>>
    BY <1>4 DEF RemoveMoves, ArrayInv, TypeOK
  <2>2. \A i \in Slot : mLocAdapters[i] # NULL => mLocAdapters'[i] = mLocAdapters[i]
    BY <2>1 DEF TypeOK
  <2>3. \A e : Asked(e) => Asked(e)'
    BY <2>2 DEF Asked
  <2> QED BY <2>1, <2>3 DEF LeftInv, Meant, left
<1>5. CASE RemoveEnds
  <2>1. /\ removal.at \in Slot /\ removal.last \in Slot /\ removal.at <= removal.last
        /\ mLocAdapters[removal.at] = mLocAdapters[removal.last]
        /\ \A i \in Slot : mLocAdapters[i] = NULL <=>
             removal.last < i \/ (i = removal.at /\ i = removal.last)
        /\ mLocAdapters' = [mLocAdapters EXCEPT ![removal.last] = NULL]
    BY <1>5 DEF RemoveEnds, ArrayInv, TypeOK, cleared
  <2>2. CASE lastOne
    <3>1. queue' = queue /\ registered' = {} /\ early' = Pending(queue)
      BY <1>5, <2>2 DEF RemoveEnds, forget
    <3>2. \A e : Meant(e)' => e \in early'
      BY <3>1 DEF Meant, Pending
    <3> QED BY <3>1, <3>2 DEF LeftInv
  <2>3. CASE ~lastOne
    <3>1. queue' = Append(queue, OpenMsg(getEvtMask')) /\ UNCHANGED <<registered, left>>
      BY <1>5, <2>3 DEF RemoveEnds
    <3>2. \A i \in Slot : mLocAdapters[i] # NULL =>
            \E j \in Slot : j # removal.last /\ mLocAdapters[j] = mLocAdapters[i]
      BY <2>1
    <3>3. \A j \in Slot : j # removal.last => mLocAdapters'[j] = mLocAdapters[j]
      BY <2>1 DEF TypeOK
    <3>4. \A e : Asked(e) => Asked(e)'
      BY <3>2, <3>3 DEF Asked
    <3>5. getEvtMask' \in SUBSET Event
      <4>1. \A e \in getEvtMask' : Asked(e)'
        BY <1>listed
      <4>2. \A i \in Slot : mLocAdapters'[i] \in Adapter \cup {NULL}
        BY <2>1 DEF TypeOK
      <4> QED BY <1>0, <4>1, <4>2 DEF Asked
    <3>6. \A e : Meant(e)' => Meant(e) \/ e \in getEvtMask'
      BY <1>0, <3>1, <3>5, QueueFacts DEF Meant
    <3> QED BY <1>listed, <3>1, <3>4, <3>6 DEF LeftInv, left
  <2> QED BY <2>2, <2>3
<1>6. CASE LocOpenMsg
  <2>1. queue # <<>> /\ queue' = Tail(queue) /\ registered' = open(Head(queue).mask)
        /\ UNCHANGED <<mLocAdapters, left>>
    BY <1>6 DEF LocOpenMsg
  <2>2. registered' \subseteq registered \cup (Head(queue).mask \ Excluded)
    BY <2>1 DEF open
  <2>3. \A e : Meant(e)' => Meant(e)
    BY <2>1, <2>2, QueueFacts DEF Meant
  <2>4. \A e : Asked(e) <=> Asked(e)'
    BY <2>1 DEF Asked
  <2> QED BY <2>1, <2>2, <2>3, <2>4 DEF LeftInv, left
<1>7. CASE LocSsrMsg
  <2>1. registered' = (IF modemUp THEN getEvtMask ELSE {}) /\ early' = Pending(queue')
        /\ mLocAdapters' = mLocAdapters
    BY <1>7 DEF LocSsrMsg, reopened, forget
  <2>2. \A e : Meant(e)' => e \in getEvtMask \/ e \in early'
    BY <2>1 DEF Meant, Pending
  <2>3. \A e : Asked(e) <=> Asked(e)'
    BY <2>1 DEF Asked
  <2> QED BY <1>listed, <2>1, <2>2, <2>3 DEF LeftInv
<1>8. CASE Report \/ Request \/ Test \/ Call
  BY <1>1, <1>8 DEF Report, Request, Deliver, Test, Call
<1>9. CASE handleEngineDownEvent
  <2>1. queue' = queue /\ registered' = {} /\ early' = Pending(queue)
    BY <1>9 DEF handleEngineDownEvent, forget
  <2>2. \A e : Meant(e)' => e \in early'
    BY <2>1 DEF Meant, Pending
  <2> QED BY <2>1, <2>2 DEF LeftInv
<1>10. CASE handleEngineUpEvent
  <2>1. queue' = Append(queue, SsrMsg) /\ UNCHANGED <<mLocAdapters, registered, left>>
    BY <1>10 DEF handleEngineUpEvent
  <2>2. \A e : Meant(e)' => Meant(e)
    BY <1>0, <2>1, QueueFacts DEF Meant
  <2>3. \A e : Asked(e) <=> Asked(e)'
    BY <2>1 DEF Asked
  <2> QED BY <2>1, <2>2, <2>3 DEF LeftInv, left
<1> QED BY <1>2, <1>3, <1>4, <1>5, <1>6, <1>7, <1>8, <1>9, <1>10
        DEF Next, Owner, Worker, Modem

\* A delivery: an addition comes after what it has passed, a removal marks it.
LEMMA WalkStep ==
  ASSUME ApiInv, Next
  PROVE  WalkInv'
<1> USE DEF ApiInv
<1>0. /\ \A i \in Slot : mLocAdapters[i] \in Adapter \cup {NULL}
      /\ NULL \notin Adapter
      /\ Slot \subseteq Nat
      /\ Tidy
      /\ walk \in WalkType
  BY LocApiAssumption, TypeIsTidy DEF TypeOK, Slot, WalkType
<1>1. ASSUME UNCHANGED <<walk, crashed, mLocAdapters, removal>> PROVE WalkInv'
  <2>1. InArray' = InArray /\ \A a : Passed(a)' <=> Passed(a)
    BY <1>1 DEF InArray, Passed
  <2> QED BY <1>1, <2>1 DEF WalkInv, DeliveredOnce
<1>2. ASSUME NEW a \in Adapter, addAdapter(a) PROVE WalkInv'
  <2>1. UNCHANGED <<walk, crashed, removal>>
    BY <1>2 DEF addAdapter
  <2>2. CASE FirstFree = {}
    BY <1>1, <1>2, <2>1, <2>2 DEF addAdapter
  <2>3. CASE FirstFree # {}
    <3>1. PICK i \in FirstFree : mLocAdapters' = [mLocAdapters EXCEPT ![i] = a]
      BY <1>2, <2>3 DEF addAdapter
    <3>2. i \in Slot /\ mLocAdapters[i] = NULL
      BY DEF FirstFree
    <3>3. \A j \in Slot : mLocAdapters[j] # NULL => mLocAdapters'[j] = mLocAdapters[j]
      BY <3>1, <3>2 DEF TypeOK
    <3>4. InArray \subseteq InArray'
      BY <1>0, <3>3 DEF InArray
    <3>5. CASE walk.disturbed \/ walk.step = "end"
      BY <2>1, <3>5 DEF WalkInv, DeliveredOnce
    <3>6. CASE ~walk.disturbed /\ walk.step # "end"
      <4>1. \A j \in Slot : j < walk.at => mLocAdapters[j] # NULL /\ mLocAdapters'[j] = mLocAdapters[j]
        BY <3>3, <3>6 DEF WalkInv
      <4>2. \A b : Passed(b)' <=> Passed(b)
        BY <2>1, <4>1 DEF Passed
      <4>3. walk.step = "call" => mLocAdapters'[walk.at] # NULL
        BY <3>3, <3>6 DEF WalkInv
      <4> QED BY <2>1, <3>4, <3>6, <4>1, <4>2, <4>3 DEF WalkInv, DeliveredOnce
    <3> QED BY <3>5, <3>6
  <2> QED BY <2>2, <2>3
<1>3. ASSUME NEW a \in Adapter, RemoveBegins(a) PROVE WalkInv'
  <2>1. crashed' = crashed
    BY <1>3 DEF RemoveBegins
  <2>2. CASE a \notin Listed
    BY <1>1, <1>3, <2>1, <2>2 DEF RemoveBegins
  <2>3. CASE a \in Listed
    <3>1. walk' = [walk EXCEPT !.disturbed = (walk.disturbed \/ walk.step # "end")]
      BY <1>3, <2>3 DEF RemoveBegins
    <3>2. /\ walk'.disturbed = (walk.disturbed \/ walk.step # "end")
          /\ walk'.kind = walk.kind /\ walk'.step = walk.step /\ walk'.at = walk.at
          /\ walk'.start = walk.start /\ walk'.heard = walk.heard
      BY <1>0, <3>1 DEF WalkType
    <3> QED BY <2>1, <3>2 DEF WalkInv, DeliveredOnce
  <2> QED BY <2>2, <2>3
<1>4. CASE RemoveMoves \/ RemoveEnds
  <2>1. UNCHANGED <<walk, crashed>> /\ removal # NoRemoval
    BY <1>4 DEF RemoveMoves, RemoveEnds, NoRemoval
  <2> QED BY <2>1 DEF WalkInv, DeliveredOnce
<1>5. CASE Worker
  BY <1>1, <1>5 DEF Worker, LocOpenMsg, LocSsrMsg
<1>6. ASSUME NEW kind \in {"all", "first"}, Starts(kind), ~crashed',
             UNCHANGED <<mLocAdapters, removal>>
      PROVE  WalkInv'
  <2>1. /\ walk'.kind = kind /\ walk'.step = "test" /\ walk'.at = 1 /\ walk'.start = Listed
        /\ walk'.heard = [a \in Adapter |-> 0] /\ walk'.disturbed = (removal # NoRemoval)
    BY <1>6 DEF Starts, NoWalk
  <2>2. \A i \in Slot : ~(i < 1)
    BY DEF Slot
  <2>3. \A a : ~Passed(a)'
    BY <2>1, <2>2 DEF Passed
  <2>4. ~walk'.disturbed => removal' = NoRemoval /\ walk'.start = InArray'
    BY <1>6, <2>1, SeesAll DEF InArray
  <2> QED BY <1>6, <2>1, <2>2, <2>3, <2>4 DEF WalkInv, DeliveredOnce
<1>7. CASE Report \/ Request \/ handleEngineDownEvent \/ handleEngineUpEvent
  BY <1>6, <1>7 DEF Report, Request, Deliver, handleEngineDownEvent, handleEngineUpEvent, going
<1>8. CASE Test
  <2>1. /\ ~crashed' /\ UNCHANGED <<mLocAdapters, removal>>
        /\ walk.step = "test" /\ walk.kind # "none"
        /\ walk' = [walk EXCEPT !.step = IF more THEN "call" ELSE "end"]
    BY <1>8 DEF Test, going, WalkInv
  <2>2. /\ walk'.step = (IF more THEN "call" ELSE "end")
        /\ walk'.kind = walk.kind /\ walk'.at = walk.at /\ walk'.start = walk.start
        /\ walk'.heard = walk.heard /\ walk'.disturbed = walk.disturbed
    BY <1>0, <2>1 DEF WalkType
  <2>3. InArray' = InArray /\ \A a : Passed(a)' <=> Passed(a)
    BY <2>1, <2>2 DEF InArray, Passed
  <2>4. CASE more
    <3>1. walk.at \in Slot /\ mLocAdapters[walk.at] # NULL
      BY <1>0, <2>4, LocApiAssumption DEF more, WalkType, Slot
    <3> QED BY <2>1, <2>2, <2>3, <2>4, <3>1 DEF WalkInv, DeliveredOnce
  <2>5. CASE ~more /\ walk.disturbed
    BY <2>1, <2>2, <2>5 DEF WalkInv, DeliveredOnce
  <2>6. CASE ~more /\ ~walk.disturbed
    <3>1. /\ removal = NoRemoval /\ walk.start \subseteq InArray
          /\ walk.kind = "all" => \A a \in Adapter : walk.heard[a] = IF Passed(a) THEN 1 ELSE 0
          /\ walk.kind = "first" =>
               \A a \in Adapter : walk.heard[a] = 0 /\ (Passed(a) => a \notin Handler)
      BY <2>1, <2>6 DEF WalkInv
    <3>2. \A i \in Slot : mLocAdapters[i] # NULL => i < walk.at
      <4> SUFFICES ASSUME NEW i \in Slot, mLocAdapters[i] # NULL, walk.at <= i PROVE FALSE
        BY <1>0 DEF WalkType, Slot
      <4>1. walk.at \in 1..i /\ walk.at <= MAX_ADAPTERS
        BY <1>0, LocApiAssumption DEF WalkType, Slot
      <4>2. mLocAdapters[walk.at] # NULL
        BY <1>0, <3>1, <4>1 DEF Tidy
      <4> QED BY <2>6, <4>1, <4>2 DEF more
    <3>3. \A a \in InArray : a \in Adapter /\ Passed(a)
      BY <1>0, <3>2 DEF InArray, Passed
    <3>4. walk.kind = "all" => \A a \in walk.start : walk.heard[a] = 1
      BY <3>1, <3>3
    <3>5. walk.kind = "first" => walk.start \cap Handler = {} /\ \A a \in Adapter : walk.heard[a] = 0
      BY <3>1, <3>3
    <3> QED BY <2>1, <2>2, <2>6, <3>4, <3>5 DEF WalkInv, DeliveredOnce
  <2> QED BY <2>4, <2>5, <2>6
<1>9. CASE Call
  <2> DEFINE a == mLocAdapters[walk.at]
  <2>1. walk.step = "call" /\ walk.at \in Slot /\ a \in Adapter \cup {NULL} /\ walk.kind # "none"
        /\ UNCHANGED <<mLocAdapters, removal>>
    BY <1>0, <1>9 DEF Call, WalkInv
  <2>2. CASE a = NULL
    <3>1. walk.disturbed
      BY <2>1, <2>2 DEF WalkInv
    <3>2. walk' = walk
      BY <1>9, <2>2 DEF Call
    <3> QED BY <2>1, <3>1, <3>2 DEF WalkInv, DeliveredOnce
  <2>3. CASE a # NULL
    <3>1. /\ ~crashed'
          /\ walk' = [walk EXCEPT
               !.heard = IF walk.kind = "all" \/ handles(a)
                         THEN [walk.heard EXCEPT ![a] = @ + 1] ELSE walk.heard,
               !.at = walk.at + 1,
               !.step = IF walk.kind = "first" /\ handles(a) THEN "end" ELSE "test"]
      BY <1>9, <2>3 DEF Call
    <3>2. /\ walk'.heard = IF walk.kind = "all" \/ a \in Handler
                           THEN [walk.heard EXCEPT ![a] = @ + 1] ELSE walk.heard
          /\ walk'.at = walk.at + 1
          /\ walk'.step = IF walk.kind = "first" /\ a \in Handler THEN "end" ELSE "test"
          /\ walk'.kind = walk.kind /\ walk'.start = walk.start /\ walk'.disturbed = walk.disturbed
      BY <1>0, <3>1 DEF WalkType, handles
    <3>3. a \in Adapter /\ walk.heard \in [Adapter -> Nat] /\ walk.kind \in {"all", "first"}
      BY <1>0, <2>1, <2>3 DEF WalkType
    <3>4. CASE walk.disturbed
      BY <2>1, <3>1, <3>2, <3>4 DEF WalkInv, DeliveredOnce
    <3>5. CASE ~walk.disturbed
      <4>1. /\ removal = NoRemoval
            /\ \A i \in Slot : i < walk.at => mLocAdapters[i] # NULL
            /\ walk.start \subseteq InArray
            /\ walk.kind = "all" => \A b \in Adapter : walk.heard[b] = IF Passed(b) THEN 1 ELSE 0
            /\ walk.kind = "first" =>
                 \A b \in Adapter : walk.heard[b] = 0 /\ (Passed(b) => b \notin Handler)
        BY <2>1, <3>5 DEF WalkInv
      <4>2. InArray' = InArray
        BY <2>1 DEF InArray
      <4>3. \A i \in Slot : i < walk.at + 1 <=> i < walk.at \/ i = walk.at
        <5>1. walk.at \in Nat
          BY <1>0, <2>1
        <5> QED BY <1>0, <5>1
      <4>4. \A b : Passed(b)' <=> Passed(b) \/ b = a
        BY <2>1, <3>2, <4>3 DEF Passed
      <4>5. ~Passed(a)
        <5> SUFFICES ASSUME NEW i \in Slot, i < walk.at, mLocAdapters[i] = a PROVE FALSE
          BY DEF Passed
        <5>1. i = walk.at
          BY <1>0, <2>1, <2>3, <4>1 DEF Tidy
        <5>2. i \in Nat
          BY <1>0
        <5> QED BY <5>1, <5>2
      <4>6. CASE walk.kind = "all"
        <5>1. \A b \in Adapter : walk'.heard[b] = IF b = a THEN walk.heard[b] + 1 ELSE walk.heard[b]
          BY <3>2, <3>3, <4>6
        <5>2. \A b \in Adapter : walk'.heard[b] = IF Passed(b)' THEN 1 ELSE 0
          BY <4>1, <4>4, <4>5, <4>6, <5>1
        <5> QED BY <2>1, <2>3, <3>1, <3>2, <4>1, <4>2, <4>3, <4>6, <5>2 DEF WalkInv, DeliveredOnce
      <4>7. CASE walk.kind = "first" /\ a \in Handler
        <5>1. walk'.heard = [walk.heard EXCEPT ![a] = @ + 1] /\ walk'.step = "end"
          BY <3>2, <4>7
        <5>2. \A b \in Adapter : walk'.heard[b] = IF b = a THEN 1 ELSE 0
          BY <3>3, <4>1, <4>7, <5>1
        <5>3. /\ \E b \in Handler : walk'.heard[b] = 1
              /\ \A b, c \in Adapter : walk'.heard[b] > 0 /\ walk'.heard[c] > 0 => b = c
          BY <3>3, <4>7, <5>2
        <5> QED BY <3>1, <3>2, <4>7, <5>1, <5>3 DEF WalkInv, DeliveredOnce
      <4>8. CASE walk.kind = "first" /\ a \notin Handler
        <5>1. walk'.heard = walk.heard /\ walk'.step = "test"
          BY <3>2, <4>8
        <5>2. \A b \in Adapter : walk'.heard[b] = 0 /\ (Passed(b)' => b \notin Handler)
          BY <4>1, <4>4, <4>8, <5>1
        <5> QED BY <2>1, <2>3, <3>1, <3>2, <4>1, <4>2, <4>3, <4>8, <5>1, <5>2
                DEF WalkInv, DeliveredOnce
      <4> QED BY <3>3, <4>6, <4>7, <4>8
    <3> QED BY <3>4, <3>5
  <2> QED BY <2>2, <2>3
<1> QED BY <1>2, <1>3, <1>4, <1>5, <1>7, <1>8, <1>9 DEF Next, Owner, Modem

LEMMA Invariant == Spec => []ApiInv
<1>1. ApiInv /\ Next => ApiInv'
  BY ArrayStep, ApiTypeStep, RegStep, LeftStep, WalkStep DEF ApiInv
<1>2. ApiInv /\ UNCHANGED vars => ApiInv'
  <2> SUFFICES ASSUME ApiInv, UNCHANGED vars PROVE ApiInv'
    OBVIOUS
  <2>1. UNCHANGED <<mLocAdapters, alive, dropped, removal, queue, registered, modemUp,
                    negotiated, walk, crashed, removed, early, changes, restarts>>
    BY DEF vars, left
  <2>2. InArray' = InArray /\ (\A a : Passed(a)' <=> Passed(a)) /\ Seen' = Seen
    BY <2>1 DEF InArray, Passed, Seen
  <2>3. TypeOK'
    BY <2>1, <2>2 DEF ApiInv, TypeOK
  <2>4. ArrayInv' /\ QueueInv'
    BY <2>1, <2>2 DEF ApiInv, ArrayInv, QueueInv
  <2>5. RegInv'
    BY <2>1, <2>2 DEF ApiInv, RegInv, SsrQueued, Covered
  <2>6. LeftInv'
    BY <2>1 DEF ApiInv, LeftInv, Meant, Asked
  <2>7. WalkInv'
    BY <2>1, <2>2 DEF ApiInv, WalkInv, DeliveredOnce
  <2> QED BY <2>3, <2>4, <2>5, <2>6, <2>7 DEF ApiInv
<1> QED BY ApiInitHolds, <1>1, <1>2, PTL DEF Spec

-------------------------------------------------------------------------------
\* Every value keeps its type, and between two changes the array of adapters has
\* no holes and no adapter twice (addAdapter, removeAdapter).
THEOREM ApiTypeCorrect == Spec => []TypeOK
<1>1. ApiInv => TypeOK
  BY DEF ApiInv
<1> QED BY Invariant, <1>1, PTL

\* However the owner's changes, the modem's restarts and the queued messages
\* mix: once the queue is empty the modem reports at least what the adapters in
\* the array ask for, and beyond that only events of adapters removed since it
\* last forgot all events, or of opens that were queued when it did (addAdapter,
\* removeAdapter, LocOpenMsg, LocSsrMsg).
THEOREM RegistrationIsBounded == Spec => []RegistrationBounded
<1>1. ApiInv => RegistrationBounded
  <2> SUFFICES ASSUME ApiInv PROVE RegistrationBounded
    OBVIOUS
  <2>1. removal = NoRemoval => Listed = InArray /\ InArray = alive \ dropped
    BY SeesAll DEF ApiInv, ArrayInv
  <2>2. queue = <<>> => DOMAIN queue = {}
    OBVIOUS
  <2>3. EventsAreRegistered
    BY <2>1, <2>2 DEF ApiInv, RegInv, SsrQueued, Covered, EventsAreRegistered
  <2>4. NothingElseIsRegistered
    <3> SUFFICES ASSUME removal = NoRemoval, NEW e \in registered, Asked(e)
                 PROVE  e \in getEvtMask
      BY DEF ApiInv, LeftInv, Meant, NothingElseIsRegistered
    <3>1. PICK i \in Slot : mLocAdapters[i] # NULL /\ e \in MaskOf[mLocAdapters[i]]
      BY DEF Asked
    <3>2. mLocAdapters[i] \in Listed
      BY <2>1, <3>1 DEF ApiInv, TypeOK, InArray
    <3>3. e \notin Excluded
      BY DEF ApiInv, LeftInv
    <3> QED BY <3>1, <3>2, <3>3 DEF getEvtMask
  <2> QED BY <2>3, <2>4 DEF RegistrationBounded
<1> QED BY Invariant, <1>1, PTL

\* A delivery that no removal ran into reaches every adapter once, or the first
\* that handles it; the null pointer is called only by one that a removal met
\* (TO_ALL_LOCADAPTERS, TO_1ST_HANDLING_LOCADAPTERS).
THEOREM DeliveredSound == Spec => []DeliveredOnce
<1>1. ApiInv => DeliveredOnce
  BY DEF ApiInv, WalkInv
<1> QED BY Invariant, <1>1, PTL
===============================================================================
