-------------------------- MODULE AgpsStateMachine --------------------------
(***************************************************************************)
(* One AGPS network interface (NIF): class AgpsStateMachine and its        *)
(* subscribers (loc_eng_agps.cpp, loc_eng_agps.h), together with           *)
(*   - the clients that subscribe (ATL clients in the modem, the BIT       *)
(*     daemon, the Wi-Fi positioning daemons), which may ask, repeat a     *)
(*     request, cancel and release at any moment;                          *)
(*   - the connectivity service of the framework behind agps_status_cb     *)
(*     (external), whose answers come back through the HAL's message       *)
(*     queue and so may be overtaken by later client requests;             *)
(*   - a restart of the modem (loc_eng_handle_engine_up), which drops the  *)
(*     subscriber list.                                                    *)
(* All handlers run on the one worker thread "Loc_hal_worker": an action   *)
(* is one message.                                                         *)
(***************************************************************************)
EXTENDS AgpsStates, Naturals, Sequences

CONSTANTS
  Subscriber,       \* client identities (Subscriber::ID)
  WaitForClose,     \* those whose waitForCloseComplete() is true
  ModemClient,      \* those living in the modem: they vanish when it restarts
  FreedReads,       \* identities a freed Subscriber may spell when read again
  MaxAnswers,       \* bound on answers of the service waiting in the queue
  MaxRestarts       \* bound on modem restarts

ASSUME NifAssumption ==
  /\ WaitForClose \subseteq Subscriber
  /\ ModemClient \subseteq Subscriber
  /\ FreedReads \subseteq Subscriber
  /\ MaxAnswers \in Nat
  /\ MaxRestarts \in Nat

VARIABLES
  mEnforceSingleSubscriber, \* TRUE for wifi_nif, FALSE for the other NIFs
  mStatePtr, \* the current state
  active,    \* subscribers on mSubscribers whose isInactive() is false
  inactive,  \* subscribers on mSubscribers whose isInactive() is true
  client,    \* what each client knows: its last request or last notification
  lastCall,  \* last action passed to agps_status_cb
  conn,      \* the data connection in the connectivity service
  answers,   \* the service's answers still in the message queue, oldest first
  unheard,   \* the grant of the last request named no access point
  restarts   \* modem restarts so far

service == <<conn, answers, unheard>>
vars    == <<mEnforceSingleSubscriber, mStatePtr, active, inactive, client,
             lastCall, service, restarts>>

mSubscribers == active \cup inactive
ClientState  == {"idle", "asked", "granted", "closing"}
Answer       == {"GRANTED", "RELEASED", "DENIED"}

\* Types, and the shape of the list: one entry per client, and only clients
\* that wait for the close can be inactive on it.
TypeOK ==
  /\ mEnforceSingleSubscriber \in BOOLEAN
  /\ mStatePtr \in AgpsState
  /\ active \subseteq Subscriber
  /\ inactive \subseteq WaitForClose
  /\ active \cap inactive = {}
  /\ client \in [Subscriber -> ClientState]
  /\ lastCall \in {"none", "REQUEST", "RELEASE"}
  /\ conn \in {"closed", "opening", "open"}
  /\ answers \in Seq(Answer)
  /\ unheard \in BOOLEAN
  /\ restarts \in 0..MaxRestarts

\* loc_eng_agps_init creates agnss_nif and internet_nif open to any number of
\* subscribers and wifi_nif for one at a time.
Init ==
  /\ mEnforceSingleSubscriber \in BOOLEAN
  /\ mStatePtr = "Released"
  /\ active = {}
  /\ inactive = {}
  /\ client = [s \in Subscriber |-> "idle"]
  /\ lastCall = "none"
  /\ conn = "closed"
  /\ answers = <<>>
  /\ unheard = FALSE
  /\ restarts = 0

-----------------------------------------------------------------------------
(* Towards the connectivity service.                                       *)

\* loc_eng_agps_open, with the answers queued before it: a grant that names no
\* access point returns before it sends a message, and nobody hears of it.
Opens(queued) ==
  /\ conn' = "open"
  /\ \/ answers' = Append(queued, "GRANTED") /\ unheard' = FALSE
     \/ answers' = queued /\ unheard' = TRUE

\* agps_status_cb as the service takes it: a request starts an attempt, or is
\* granted at once on a connection already up; a release is always confirmed.
NifRequested(queued) ==
  \/ conn = "open" /\ Opens(queued)
  \/ conn # "open" /\ conn' = "opening" /\ answers' = queued /\ unheard' = FALSE

NifReleased ==
  /\ conn' = "closed"
  /\ answers' = Append(answers, "RELEASED")
  /\ UNCHANGED unheard

\* sendRsrcRequest: the call is made only if it agrees with the list, a
\* release with no active subscriber and a request with at least one.
sendRsrcRequest(action, act) ==
  IF (act = {}) = (action = "RELEASE")
  THEN /\ lastCall' = action
       /\ IF action = "REQUEST" THEN NifRequested(answers) ELSE NifReleased
  ELSE UNCHANGED <<lastCall, service>>

\* notifySubscribers: every client in `who' hears `news'.
Notify(who, news) ==
  client' = [s \in Subscriber |-> IF s \in who THEN news ELSE client[s]]

\* Subscriber::waitForCloseComplete.
waitForCloseComplete(s) == s \in WaitForClose

\* The test of subscribeRsrc that turns a request away.
singleTaken == mEnforceSingleSubscriber /\ mSubscribers # {}

-----------------------------------------------------------------------------
(* Messages from clients.                                                  *)

\* subscribeRsrc.  A NIF with a single subscriber denies a second request,
\* whoever sends it, and tells only the sender.  addSubscriber finds a
\* subscriber already listed, active or not, and then adds nothing.
\* LocEngReqRelWifi, the only source of subscribers that wait for the close,
\* always goes to wifi_nif; the other requests name the NIF they want.
Subscribe(s) ==
  /\ waitForCloseComplete(s) => mEnforceSingleSubscriber
  /\ Len(answers) < MaxAnswers
  /\ UNCHANGED <<inactive, restarts>>
  /\ IF singleTaken
     THEN /\ Notify({s}, "idle")
          /\ UNCHANGED <<mStatePtr, active, lastCall, service>>
     ELSE /\ active' = active \cup ({s} \ inactive)
          /\ Notify({s}, IF mStatePtr = "Acquired" THEN "granted" ELSE "asked")
          /\ IF mStatePtr = "Released"
             THEN /\ mStatePtr' = "Pending"
                  /\ sendRsrcRequest("REQUEST", active')
             ELSE UNCHANGED <<mStatePtr, lastCall, service>>

\* unsubscribeRsrc of a subscriber that is not listed: ATL is told the close
\* failed, nothing changes here.
UnsubscribeUnknown(s) ==
  /\ s \notin mSubscribers
  /\ Notify({s}, "idle")
  /\ UNCHANGED <<mStatePtr, active, inactive, lastCall, service, restarts>>

\* unsubscribeRsrc of a listed subscriber that is notified and deleted at
\* once.  notifySubscribers searches again after deleting it, comparing the
\* rest of the list with the identity read from the freed memory.
UnsubscribeNow(s) ==
  /\ Len(answers) < MaxAnswers
  /\ s \in mSubscribers /\ ~waitForCloseComplete(s)
  /\ UNCHANGED <<restarts>>
  /\ IF mStatePtr = "Released"
     THEN /\ Notify({s}, "idle")
          /\ UNCHANGED <<mStatePtr, active, inactive, lastCall, service>>
     ELSE \E junk \in {s} \cup FreedReads :
            LET gone == {s} \cup ({junk} \cap mSubscribers) IN
            /\ active' = active \ gone
            /\ inactive' = inactive \ gone
            /\ Notify(gone, "idle")
            /\ mStatePtr' = OnUnsubscribe(mStatePtr, mSubscribers \ gone, active')
            /\ IF ReleasesNif(mStatePtr, mStatePtr')
               THEN sendRsrcRequest("RELEASE", active')
               ELSE UNCHANGED <<lastCall, service>>

\* unsubscribeRsrc of a listed subscriber that waits for the close: it stays
\* listed, inactive, and hears of the release later.
UnsubscribeWaiting(s) ==
  /\ Len(answers) < MaxAnswers
  /\ s \in mSubscribers /\ waitForCloseComplete(s)
  /\ UNCHANGED restarts
  /\ IF mStatePtr = "Released"
     THEN UNCHANGED <<mStatePtr, active, inactive, client, lastCall, service>>
     ELSE /\ active' = active \ {s}
          /\ inactive' = inactive \cup {s}
          /\ Notify({s}, "closing")
          /\ mStatePtr' = OnUnsubscribe(mStatePtr, mSubscribers, active')
          /\ IF ReleasesNif(mStatePtr, mStatePtr')
             THEN sendRsrcRequest("RELEASE", active')
             ELSE UNCHANGED <<lastCall, service>>

-----------------------------------------------------------------------------
(* Messages from the connectivity service, in the order it sent them.      *)

\* LocEngAtlOpenSuccess.
Granted ==
  /\ answers # <<>> /\ Head(answers) = "GRANTED"
  /\ answers' = Tail(answers)
  /\ mStatePtr' = OnGranted(mStatePtr)
  /\ IF mStatePtr = "Pending" THEN Notify(active, "granted") ELSE UNCHANGED client
  /\ UNCHANGED <<active, inactive, lastCall, conn, unheard, restarts>>

\* Everybody is told and removed: Acquired on RELEASED, Pending on DENIED.
DropAll ==
  /\ Notify(mSubscribers, "idle")
  /\ active' = {}
  /\ inactive' = {}
  /\ UNCHANGED <<lastCall, conn, unheard>>
  /\ answers' = Tail(answers)

\* Releasing: those that waited are told and removed; if somebody subscribed
\* in the meantime the NIF is requested again.
CloseComplete ==
  /\ Notify(inactive, "idle")
  /\ inactive' = {}
  /\ UNCHANGED active
  /\ IF active # {}
     THEN lastCall' = "REQUEST" /\ NifRequested(Tail(answers))
     ELSE /\ UNCHANGED <<lastCall, conn, unheard>>
          /\ answers' = Tail(answers)

Ignored ==
  /\ answers' = Tail(answers)
  /\ UNCHANGED <<active, inactive, client, lastCall, conn, unheard>>

\* LocEngAtlClosed.
Released ==
  /\ answers # <<>> /\ Head(answers) = "RELEASED"
  /\ mStatePtr' = OnReleased(mStatePtr, active)
  /\ \/ mStatePtr = "Acquired" /\ DropAll
     \/ mStatePtr = "Releasing" /\ CloseComplete
     \/ mStatePtr \in {"Released", "Pending"} /\ Ignored
  /\ UNCHANGED restarts

\* LocEngAtlOpenFailed.
Denied ==
  /\ answers # <<>> /\ Head(answers) = "DENIED"
  /\ mStatePtr' = OnDenied(mStatePtr, active)
  /\ \/ mStatePtr = "Pending" /\ DropAll
     \/ mStatePtr = "Releasing" /\ CloseComplete
     \/ mStatePtr \in {"Released", "Acquired"} /\ Ignored
  /\ UNCHANGED restarts

-----------------------------------------------------------------------------
(* The surroundings.                                                       *)

\* The attempt succeeds, the attempt fails, an open connection is lost.
NifOpens ==
  /\ conn = "opening" /\ Len(answers) < MaxAnswers
  /\ Opens(answers)
  /\ UNCHANGED <<mStatePtr, active, inactive, client, lastCall, restarts>>

NifFails ==
  /\ conn = "opening" /\ Len(answers) < MaxAnswers
  /\ conn' = "closed" /\ answers' = Append(answers, "DENIED")
  /\ UNCHANGED <<mStatePtr, active, inactive, client, lastCall, unheard, restarts>>

NifLost ==
  /\ conn = "open" /\ Len(answers) < MaxAnswers
  /\ conn' = "closed" /\ answers' = Append(answers, "RELEASED")
  /\ UNCHANGED <<mStatePtr, active, inactive, client, lastCall, unheard, restarts>>

\* loc_eng_handle_engine_up: agnss_nif and internet_nif (not wifi_nif) flush
\* their lists; mStatePtr and the connection stay as they are.  The modem's
\* own clients are gone with the modem; the daemons are not told.
EngineUp ==
  /\ restarts < MaxRestarts
  /\ restarts' = restarts + 1
  /\ IF mEnforceSingleSubscriber
     THEN UNCHANGED <<active, inactive>>
     ELSE active' = {} /\ inactive' = {}
  /\ Notify(ModemClient, "idle")
  /\ UNCHANGED <<mStatePtr, lastCall, service>>

Worker  == Granted \/ Released \/ Denied
Service == NifOpens \/ NifFails

Client(s) ==
  Subscribe(s) \/ UnsubscribeUnknown(s) \/ UnsubscribeNow(s) \/ UnsubscribeWaiting(s)

Next ==
  /\ UNCHANGED mEnforceSingleSubscriber
  /\ \/ \E s \in Subscriber : Client(s)
     \/ Worker \/ Service \/ NifLost
     \/ EngineUp

Spec == Init /\ [][Next]_vars

\* The worker keeps running the messages it is sent and the service answers
\* every attempt; nothing is assumed of clients, lost connections or restarts.
FairSpec ==
  /\ Spec
  /\ WF_vars(Worker /\ UNCHANGED mEnforceSingleSubscriber)
  /\ WF_vars(Service /\ UNCHANGED mEnforceSingleSubscriber)

-----------------------------------------------------------------------------
(* Properties.                                                             *)

\* A daemon that a modem restart dropped from the list without a word.
Forgotten(s) == restarts > 0 /\ s \notin ModemClient

\* In Released the subscriber list is empty: AgpsReleasedState::onRsrcEvent
\* logs an error otherwise and has no way to recover.
ReleasedMeansEmpty == mStatePtr = "Released" => mSubscribers = {}

\* What a client believes is what the machine holds for it: a granted client
\* is an active subscriber of an acquired NIF, a client still waiting is an
\* active subscriber that the next answer will reach, and a client waiting
\* for the close is listed while the NIF is being released.  Answers that
\* were overtaken by other requests do not break this.
ClientBelief ==
  \A s \in Subscriber :
    /\ client[s] = "granted" =>
         (mStatePtr = "Acquired" /\ s \in active) \/ Forgotten(s)
    /\ client[s] = "asked" =>
         (mStatePtr \in {"Pending", "Releasing"} /\ s \in active) \/ Forgotten(s)
    /\ client[s] = "closing" => mStatePtr = "Releasing" /\ s \in inactive

\* The guard in sendRsrcRequest never swallows a call: while the machine
\* waits for or holds the NIF its last call was the request, and while it
\* waits for the close its last call was the release.
CallsMatchState ==
  /\ mStatePtr \in {"Pending", "Acquired"} => lastCall = "REQUEST"
  /\ mStatePtr = "Releasing" => lastCall = "RELEASE"

\* A NIF requested or held that no active subscriber wants.
HeldForNobody == mStatePtr \in {"Pending", "Acquired"} /\ active = {}

\* Only a modem restart, which flushes the list and keeps the state, can
\* leave a NIF requested or held for nobody.
OnlyRestartStrands == [][HeldForNobody' => HeldForNobody \/ EngineUp]_vars

\* With a single subscriber the list never holds two, and a subscriber that
\* waits for the close is told of it before anybody else is admitted.
OneAtATime ==
  mEnforceSingleSubscriber =>
    /\ \A s, t \in mSubscribers : s = t
    /\ active = {} \/ inactive = {}

\* State, list and calls agree.
NifConsistent == ReleasedMeansEmpty /\ CallsMatchState /\ OneAtATime

\* A client waiting for an answer gets one, unless a restart forgot it, or the
\* connection it waits for came up without the name of an access point: that
\* grant is dropped, and Pending listens neither to it nor to the loss of the
\* connection later.
Answered ==
  \A s \in Subscriber :
    client[s] = "asked" ~> (client[s] # "asked" \/ Forgotten(s) \/ unheard)
=============================================================================
