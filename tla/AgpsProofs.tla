----------------------------- MODULE AgpsProofs -----------------------------
(***************************************************************************)
(* What holds of one NIF state machine for every set of clients, every     *)
(* interleaving with the answers of the connectivity service, every number *)
(* of modem restarts and every content of freed memory.                    *)
(***************************************************************************)
EXTENDS AgpsStateMachine, TLAPS

-----------------------------------------------------------------------------
(* Type correctness.                                                       *)

\* Initially every variable has its type.
LEMMA TypeInit == Init => TypeOK
  <1> SUFFICES ASSUME Init PROVE TypeOK
    OBVIOUS
  <1>1. unheard \in BOOLEAN /\ mEnforceSingleSubscriber \in BOOLEAN
    BY DEF Init
  <1>2. /\ mStatePtr \in AgpsState
        /\ active \subseteq Subscriber
        /\ inactive \subseteq WaitForClose
        /\ active \cap inactive = {}
        /\ client \in [Subscriber -> ClientState]
        /\ lastCall \in {"none", "REQUEST", "RELEASE"}
        /\ conn \in {"closed", "opening", "open"}
        /\ answers \in Seq(Answer)
        /\ restarts \in 0..MaxRestarts
    BY NifAssumption DEF Init, AgpsState, ClientState
  <1> QED
    BY <1>1, <1>2 DEF TypeOK

\* The types are preserved by every step.
LEMMA TypeStep == TypeOK /\ [Next]_vars => TypeOK'
  <1> SUFFICES ASSUME TypeOK, [Next]_vars PROVE TypeOK'
    OBVIOUS
  <1> USE NifAssumption
  <1>0. mEnforceSingleSubscriber' \in BOOLEAN
    BY DEF TypeOK, Next, vars
  <1>tail. answers # <<>> => Tail(answers) \in Seq(Answer)
    BY DEF TypeOK
  <1>queue. /\ answers # <<>> => Tail(answers) \in Seq(Answer)
            /\ \A a \in Answer : Append(answers, a) \in Seq(Answer)
            /\ \A a \in Answer : answers # <<>> =>
                                   Append(Tail(answers), a) \in Seq(Answer)
    BY <1>tail DEF TypeOK
  <1>1. ASSUME NEW s \in Subscriber, Subscribe(s) PROVE TypeOK'
    <2>1. client' \in [Subscriber -> ClientState]
      BY <1>1 DEF Subscribe, singleTaken, waitForCloseComplete, Notify, TypeOK, ClientState, mSubscribers
    <2>2. /\ mStatePtr' \in AgpsState
          /\ active' \subseteq Subscriber
          /\ inactive' \subseteq WaitForClose
          /\ active' \cap inactive' = {}
          /\ restarts' \in 0..MaxRestarts
      BY <1>1 DEF Subscribe, singleTaken, waitForCloseComplete, TypeOK, AgpsState, mSubscribers
    <2>3. /\ lastCall' \in {"none", "REQUEST", "RELEASE"}
          /\ conn' \in {"closed", "opening", "open"}
          /\ answers' \in Seq(Answer)
          /\ unheard' \in BOOLEAN
      BY <1>1, <1>queue DEF Subscribe, singleTaken, waitForCloseComplete, sendRsrcRequest, service, NifRequested, Opens, NifReleased, TypeOK, Answer
    <2> QED
      BY <1>0, <2>1, <2>2, <2>3 DEF TypeOK
  <1>2. ASSUME NEW s \in Subscriber, UnsubscribeUnknown(s) PROVE TypeOK'
    BY <1>0, <1>2 DEF UnsubscribeUnknown, service, Notify, TypeOK, ClientState
  <1>3. ASSUME NEW s \in Subscriber, UnsubscribeNow(s) PROVE TypeOK'
    <2>1. client' \in [Subscriber -> ClientState]
      BY <1>3 DEF UnsubscribeNow, waitForCloseComplete, Notify, TypeOK, ClientState, mSubscribers
    <2>2. /\ mStatePtr' \in AgpsState
          /\ active' \subseteq Subscriber
          /\ inactive' \subseteq WaitForClose
          /\ active' \cap inactive' = {}
          /\ restarts' \in 0..MaxRestarts
      BY <1>3 DEF UnsubscribeNow, waitForCloseComplete, OnUnsubscribe, TypeOK, AgpsState, mSubscribers
    <2>3. /\ lastCall' \in {"none", "REQUEST", "RELEASE"}
          /\ conn' \in {"closed", "opening", "open"}
          /\ answers' \in Seq(Answer)
          /\ unheard' \in BOOLEAN
      BY <1>3, <1>queue DEF UnsubscribeNow, waitForCloseComplete, sendRsrcRequest, service, NifRequested, Opens, NifReleased, TypeOK, Answer
    <2> QED
      BY <1>0, <2>1, <2>2, <2>3 DEF TypeOK
  <1>4. ASSUME NEW s \in Subscriber, UnsubscribeWaiting(s) PROVE TypeOK'
    <2>1. client' \in [Subscriber -> ClientState]
      BY <1>4 DEF UnsubscribeWaiting, waitForCloseComplete, Notify, TypeOK, ClientState, mSubscribers
    <2>2. /\ mStatePtr' \in AgpsState
          /\ active' \subseteq Subscriber
          /\ inactive' \subseteq WaitForClose
          /\ active' \cap inactive' = {}
          /\ restarts' \in 0..MaxRestarts
      BY <1>4 DEF UnsubscribeWaiting, waitForCloseComplete, OnUnsubscribe, TypeOK, AgpsState, mSubscribers
    <2>3. /\ lastCall' \in {"none", "REQUEST", "RELEASE"}
          /\ conn' \in {"closed", "opening", "open"}
          /\ answers' \in Seq(Answer)
          /\ unheard' \in BOOLEAN
      BY <1>4, <1>queue DEF UnsubscribeWaiting, waitForCloseComplete, sendRsrcRequest, service, NifRequested, Opens, NifReleased, TypeOK, Answer
    <2> QED
      BY <1>0, <2>1, <2>2, <2>3 DEF TypeOK
  <1>5. CASE Granted
    <2>1. client' \in [Subscriber -> ClientState]
      BY <1>5 DEF Granted, Notify, TypeOK, ClientState, mSubscribers
    <2>2. /\ mStatePtr' \in AgpsState
          /\ active' \subseteq Subscriber
          /\ inactive' \subseteq WaitForClose
          /\ active' \cap inactive' = {}
          /\ restarts' \in 0..MaxRestarts
      BY <1>5 DEF Granted, OnGranted, TypeOK, AgpsState, mSubscribers
    <2>3. /\ lastCall' \in {"none", "REQUEST", "RELEASE"}
          /\ conn' \in {"closed", "opening", "open"}
          /\ answers' \in Seq(Answer)
          /\ unheard' \in BOOLEAN
      BY <1>5, <1>queue DEF Granted, TypeOK, Answer
    <2> QED
      BY <1>0, <2>1, <2>2, <2>3 DEF TypeOK
  <1>6. CASE Released
    <2>1. client' \in [Subscriber -> ClientState]
      BY <1>6 DEF Released, DropAll, CloseComplete, Ignored, Notify, TypeOK, ClientState, mSubscribers
    <2>2. /\ mStatePtr' \in AgpsState
          /\ active' \subseteq Subscriber
          /\ inactive' \subseteq WaitForClose
          /\ active' \cap inactive' = {}
          /\ restarts' \in 0..MaxRestarts
      BY <1>6 DEF Released, DropAll, CloseComplete, Ignored, OnReleased, AfterClose, TypeOK, AgpsState, mSubscribers
    <2>3. /\ lastCall' \in {"none", "REQUEST", "RELEASE"}
          /\ conn' \in {"closed", "opening", "open"}
          /\ answers' \in Seq(Answer)
          /\ unheard' \in BOOLEAN
      BY <1>6, <1>queue DEF Released, DropAll, CloseComplete, NifRequested, Opens, Ignored, TypeOK, Answer
    <2> QED
      BY <1>0, <2>1, <2>2, <2>3 DEF TypeOK
  <1>7. CASE Denied
    <2>1. client' \in [Subscriber -> ClientState]
      BY <1>7 DEF Denied, DropAll, CloseComplete, Ignored, Notify, TypeOK, ClientState, mSubscribers
    <2>2. /\ mStatePtr' \in AgpsState
          /\ active' \subseteq Subscriber
          /\ inactive' \subseteq WaitForClose
          /\ active' \cap inactive' = {}
          /\ restarts' \in 0..MaxRestarts
      BY <1>7 DEF Denied, DropAll, CloseComplete, Ignored, OnDenied, AfterClose, TypeOK, AgpsState, mSubscribers
    <2>3. /\ lastCall' \in {"none", "REQUEST", "RELEASE"}
          /\ conn' \in {"closed", "opening", "open"}
          /\ answers' \in Seq(Answer)
          /\ unheard' \in BOOLEAN
      BY <1>7, <1>queue DEF Denied, DropAll, CloseComplete, NifRequested, Opens, Ignored, TypeOK, Answer
    <2> QED
      BY <1>0, <2>1, <2>2, <2>3 DEF TypeOK
  <1>8. CASE NifOpens \/ NifFails \/ NifLost
    BY <1>0, <1>8, <1>queue DEF NifOpens, NifFails, NifLost, Opens, TypeOK, Answer
  <1>9. CASE EngineUp
    BY <1>0, <1>9 DEF EngineUp, service, Notify, TypeOK, ClientState
  <1>10. CASE UNCHANGED vars
    BY <1>10 DEF vars, service, TypeOK
  <1> QED
    BY <1>1, <1>2, <1>3, <1>4, <1>5, <1>6, <1>7, <1>8, <1>9, <1>10
       DEF Next, Client, Worker, Service

\* Every reachable state is well typed, whatever the clients, the service and
\* freed memory do.
THEOREM TypeCorrect == Spec => []TypeOK
  BY TypeInit, TypeStep, PTL DEF Spec
-----------------------------------------------------------------------------
(* The inductive invariant.                                                *)

\* Subscribers that wait for the close are found on wifi_nif only, and one of
\* them is inactive only while the NIF is being released.  Without this the
\* machine could sit in Released or Acquired with an inactive subscriber that
\* addSubscriber then refuses to list again.
WaitersShape ==
  /\ mSubscribers \cap WaitForClose # {} => mEnforceSingleSubscriber
  /\ inactive # {} => mStatePtr = "Releasing"

\* The lists and the calls.
ListInv ==
  /\ TypeOK
  /\ WaitersShape
  /\ OneAtATime
  /\ ReleasedMeansEmpty
  /\ CallsMatchState

\* Initially nobody is subscribed and nothing has been asked.
LEMMA ListInit == Init => ListInv
  BY TypeInit DEF Init, ListInv, WaitersShape, OneAtATime, ReleasedMeansEmpty,
     CallsMatchState, mSubscribers

\* Every step preserves the invariant of the lists and the calls.
LEMMA ListStep == ListInv /\ [Next]_vars => ListInv'
  <1> SUFFICES ASSUME ListInv, [Next]_vars
               PROVE  (WaitersShape /\ OneAtATime /\ ReleasedMeansEmpty
                         /\ CallsMatchState)'
    BY TypeStep DEF ListInv
  <1>e. mEnforceSingleSubscriber' = mEnforceSingleSubscriber
    BY DEF Next, vars
  <1> USE NifAssumption DEF ListInv
  <1>1. ASSUME NEW s \in Subscriber, Subscribe(s) PROVE (WaitersShape /\ OneAtATime /\ ReleasedMeansEmpty /\ CallsMatchState)'
    BY <1>1, <1>e DEF Subscribe, singleTaken, waitForCloseComplete, sendRsrcRequest, WaitersShape, OneAtATime,
       ReleasedMeansEmpty, CallsMatchState, TypeOK, mSubscribers, AgpsState
  <1>2. ASSUME NEW s \in Subscriber, UnsubscribeUnknown(s) PROVE (WaitersShape /\ OneAtATime /\ ReleasedMeansEmpty /\ CallsMatchState)'
    BY <1>2, <1>e DEF UnsubscribeUnknown, WaitersShape, OneAtATime,
       ReleasedMeansEmpty, CallsMatchState, TypeOK, mSubscribers, AgpsState
  <1>3. ASSUME NEW s \in Subscriber, UnsubscribeNow(s) PROVE (WaitersShape /\ OneAtATime /\ ReleasedMeansEmpty /\ CallsMatchState)'
    BY <1>3, <1>e DEF UnsubscribeNow, waitForCloseComplete, OnUnsubscribe, ReleasesNif, sendRsrcRequest, WaitersShape, OneAtATime,
       ReleasedMeansEmpty, CallsMatchState, TypeOK, mSubscribers, AgpsState
  <1>4. ASSUME NEW s \in Subscriber, UnsubscribeWaiting(s) PROVE (WaitersShape /\ OneAtATime /\ ReleasedMeansEmpty /\ CallsMatchState)'
    BY <1>4, <1>e DEF UnsubscribeWaiting, waitForCloseComplete, OnUnsubscribe, ReleasesNif, sendRsrcRequest, WaitersShape, OneAtATime,
       ReleasedMeansEmpty, CallsMatchState, TypeOK, mSubscribers, AgpsState
  <1>5. CASE Granted
    BY <1>5, <1>e DEF Granted, OnGranted, WaitersShape, OneAtATime,
       ReleasedMeansEmpty, CallsMatchState, TypeOK, mSubscribers, AgpsState
  <1>6. CASE Released
    BY <1>6, <1>e DEF Released, OnReleased, AfterClose, DropAll, CloseComplete, Ignored, WaitersShape, OneAtATime,
       ReleasedMeansEmpty, CallsMatchState, TypeOK, mSubscribers, AgpsState
  <1>7. CASE Denied
    BY <1>7, <1>e DEF Denied, OnDenied, AfterClose, DropAll, CloseComplete, Ignored, WaitersShape, OneAtATime,
       ReleasedMeansEmpty, CallsMatchState, TypeOK, mSubscribers, AgpsState
  <1>8. CASE NifOpens \/ NifFails \/ NifLost
    BY <1>8, <1>e DEF NifOpens, NifFails, NifLost, WaitersShape, OneAtATime,
       ReleasedMeansEmpty, CallsMatchState, TypeOK, mSubscribers, AgpsState
  <1>9. CASE EngineUp
    BY <1>9, <1>e DEF EngineUp, WaitersShape, OneAtATime,
       ReleasedMeansEmpty, CallsMatchState, TypeOK, mSubscribers, AgpsState
  <1>10. CASE UNCHANGED vars
    BY <1>10, <1>e DEF vars, WaitersShape, OneAtATime,
       ReleasedMeansEmpty, CallsMatchState, TypeOK, mSubscribers, AgpsState
  <1> QED
    BY <1>1, <1>2, <1>3, <1>4, <1>5, <1>6, <1>7, <1>8, <1>9, <1>10
       DEF Next, Client, Worker, Service
\* Every step preserves what the clients believe, given the invariant of the
\* lists before it.
LEMMA BeliefStep == ListInv /\ ClientBelief /\ [Next]_vars => ClientBelief'
  <1> SUFFICES ASSUME ListInv, ClientBelief, [Next]_vars PROVE ClientBelief'
    OBVIOUS
  <1> USE NifAssumption DEF ListInv
  <1>1. ASSUME NEW s \in Subscriber, Subscribe(s) PROVE ClientBelief'
    BY <1>1 DEF Subscribe, singleTaken, waitForCloseComplete, Notify, ClientBelief, Forgotten, TypeOK,
       WaitersShape, OneAtATime, ReleasedMeansEmpty, mSubscribers, AgpsState
  <1>2. ASSUME NEW s \in Subscriber, UnsubscribeUnknown(s) PROVE ClientBelief'
    BY <1>2 DEF UnsubscribeUnknown, Notify, ClientBelief, Forgotten, TypeOK,
       WaitersShape, OneAtATime, ReleasedMeansEmpty, mSubscribers, AgpsState
  <1>3. ASSUME NEW s \in Subscriber, UnsubscribeNow(s) PROVE ClientBelief'
    BY <1>3 DEF UnsubscribeNow, waitForCloseComplete, OnUnsubscribe, Notify, ClientBelief, Forgotten, TypeOK,
       WaitersShape, OneAtATime, ReleasedMeansEmpty, mSubscribers, AgpsState
  <1>4. ASSUME NEW s \in Subscriber, UnsubscribeWaiting(s) PROVE ClientBelief'
    BY <1>4 DEF UnsubscribeWaiting, waitForCloseComplete, OnUnsubscribe, Notify, ClientBelief, Forgotten, TypeOK,
       WaitersShape, OneAtATime, ReleasedMeansEmpty, mSubscribers, AgpsState
  <1>5. CASE Granted
    BY <1>5 DEF Granted, OnGranted, Notify, ClientBelief, Forgotten, TypeOK,
       WaitersShape, OneAtATime, ReleasedMeansEmpty, mSubscribers, AgpsState
  <1>6. CASE Released
    BY <1>6 DEF Released, OnReleased, AfterClose, Notify, DropAll, CloseComplete, Ignored, ClientBelief, Forgotten, TypeOK,
       WaitersShape, OneAtATime, ReleasedMeansEmpty, mSubscribers, AgpsState
  <1>7. CASE Denied
    BY <1>7 DEF Denied, OnDenied, AfterClose, Notify,
       DropAll, CloseComplete, Ignored, ClientBelief, Forgotten, TypeOK,
       WaitersShape, OneAtATime, ReleasedMeansEmpty, mSubscribers, AgpsState
  <1>8. CASE NifOpens \/ NifFails \/ NifLost
    BY <1>8 DEF NifOpens, NifFails, NifLost, ClientBelief, Forgotten, TypeOK,
       WaitersShape, OneAtATime, ReleasedMeansEmpty, mSubscribers, AgpsState
  <1>9. CASE EngineUp
    BY <1>9 DEF EngineUp, Notify, ClientBelief, Forgotten, TypeOK,
       WaitersShape, OneAtATime, ReleasedMeansEmpty, mSubscribers, AgpsState
  <1>10. CASE UNCHANGED vars
    BY <1>10 DEF vars, ClientBelief, Forgotten, TypeOK,
       WaitersShape, OneAtATime, ReleasedMeansEmpty, mSubscribers, AgpsState
  <1> QED
    BY <1>1, <1>2, <1>3, <1>4, <1>5, <1>6, <1>7, <1>8, <1>9, <1>10
       DEF Next, Client, Worker, Service

\* The inductive invariant as a whole.
IInv == ListInv /\ ClientBelief

\* The inductive invariant holds throughout every behaviour.
LEMMA Inductive == Spec => []IInv
  <1>1. Init => IInv
    BY ListInit DEF IInv, Init, ClientBelief
  <1>2. IInv /\ [Next]_vars => IInv'
    BY ListStep, BeliefStep DEF IInv
  <1> QED
    BY <1>1, <1>2, PTL DEF Spec

-----------------------------------------------------------------------------
(* The results.                                                            *)

\* The error AgpsReleasedState::onRsrcEvent logs for a non-empty list cannot
\* occur on a NIF served by agps_status_cb.
THEOREM ReleasedIsEmpty == Spec => []ReleasedMeansEmpty
  BY Inductive, PTL DEF IInv, ListInv

\* A granted client is an active subscriber of an acquired NIF, a waiting one
\* is where the next answer finds it, a closing one is listed in Releasing.
THEOREM BeliefIsTrue == Spec => []ClientBelief
  BY Inductive, PTL DEF IInv

\* sendRsrcRequest never suppresses the call a state change calls for.
THEOREM CallsAgree == Spec => []CallsMatchState
  BY Inductive, PTL DEF IInv, ListInv

\* wifi_nif never has two subscribers.
THEOREM WifiIsExclusive == Spec => []OneAtATime
  BY Inductive, PTL DEF IInv, ListInv

\* State, list and calls of a NIF agree, the three results above in one.
THEOREM NifSound == Spec => []NifConsistent
  BY Inductive, PTL DEF IInv, ListInv, NifConsistent

\* Only a modem restart leaves a NIF requested or held for nobody.
THEOREM RestartStrands == Spec => OnlyRestartStrands
  <1>1. ListInv /\ [Next]_vars => [HeldForNobody' => HeldForNobody \/ EngineUp]_vars
    <2> SUFFICES ASSUME ListInv, Next, HeldForNobody', ~EngineUp
                 PROVE  HeldForNobody
      OBVIOUS
    <2> USE NifAssumption DEF ListInv, HeldForNobody, TypeOK, AgpsState, mSubscribers
    <2>1. ASSUME NEW s \in Subscriber, Subscribe(s) PROVE HeldForNobody
      BY <2>1 DEF Subscribe, singleTaken, waitForCloseComplete, ReleasedMeansEmpty, WaitersShape
    <2>2. ASSUME NEW s \in Subscriber, UnsubscribeUnknown(s) PROVE HeldForNobody
      BY <2>2 DEF UnsubscribeUnknown
    <2>3. ASSUME NEW s \in Subscriber, UnsubscribeNow(s) PROVE HeldForNobody
      BY <2>3 DEF UnsubscribeNow, waitForCloseComplete, OnUnsubscribe
    <2>4. ASSUME NEW s \in Subscriber, UnsubscribeWaiting(s) PROVE HeldForNobody
      BY <2>4 DEF UnsubscribeWaiting, waitForCloseComplete, OnUnsubscribe
    <2>5. CASE Granted
      BY <2>5 DEF Granted, OnGranted
    <2>6. CASE Released
      BY <2>6 DEF Released, OnReleased, AfterClose, DropAll, CloseComplete, Ignored
    <2>7. CASE Denied
      BY <2>7 DEF Denied, OnDenied, AfterClose, DropAll, CloseComplete, Ignored
    <2>8. CASE NifOpens \/ NifFails \/ NifLost
      BY <2>8 DEF NifOpens, NifFails, NifLost
    <2> QED
      BY <2>1, <2>2, <2>3, <2>4, <2>5, <2>6, <2>7, <2>8
         DEF Next, Client, Worker, Service
  <1> QED
    BY <1>1, Inductive, PTL DEF IInv, Spec, OnlyRestartStrands
=============================================================================
