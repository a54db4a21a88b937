--------------------------- MODULE DSStateMachine ---------------------------
(***************************************************************************)
(* The data-call state machine ds_nif: class DSStateMachine and its        *)
(* DSSubscribers (loc_eng_agps.cpp).  It is an AgpsStateMachine whose      *)
(* requests may fail at once: openAndStartDataCall can answer "busy", and  *)
(* is then retried by a timer a few times, or can be refused, and the      *)
(* client then falls back to an ordinary ATL request on agnss_nif.         *)
(*                                                                         *)
(* Around it: the clients in the modem, the worker's message queue, the    *)
(* timers of loc_timer_start, the data service client (external) and       *)
(* agnss_nif, of which only the membership matters here (its own machine   *)
(* is AgpsStateMachine).  An action is one message run by the worker, one  *)
(* callback, or one step of the surroundings.                              *)
(***************************************************************************)
EXTENDS AgpsStates, Naturals, SequencesExt

CONSTANTS
  Client,                      \* connection handles of the modem's clients
  NoHandle,                    \* connHandle = -1
  MAX_START_DATA_CALL_RETRIES, \* 4 in the code
  MaxRequests,                 \* bound on requests the clients send
  MaxRestarts                  \* bound on modem restarts

ASSUME DsAssumption ==
  /\ NoHandle \notin Client
  /\ MAX_START_DATA_CALL_RETRIES \in Nat
  /\ MaxRequests \in Nat
  /\ MaxRestarts \in Nat

VARIABLES
  mStatePtr,    \* the current state
  mSubscribers, \* the linked list, newest first
  inactive,     \* those on it that called setInactive
  mRetries,     \* start attempts answered "busy"
  timers,       \* timers armed and not yet fired
  msgs,         \* the worker's message queue
  dataCall,     \* the data call in the data service
  agnss,        \* clients subscribed to agnss_nif
  client,       \* what each client last asked or was told
  requests,     \* requests sent so far
  restarts      \* modem restarts so far

machine == <<mStatePtr, mSubscribers, inactive, mRetries>>
outside == <<agnss, client, requests, restarts>>
vars    == <<machine, timers, msgs, dataCall, outside>>

listed == ToSet(mSubscribers)
active == listed \ inactive

Message == [kind : {"SUPL_ES", "ATL", "RELEASE"}, id : Client \cup {NoHandle}]
           \cup [kind : {"OPENED", "CLOSED"}]

TypeOK ==
  /\ mStatePtr \in AgpsState
  /\ mSubscribers \in Seq(Client) /\ IsInjective(mSubscribers)
  /\ inactive \subseteq listed
  /\ mRetries \in 0..MAX_START_DATA_CALL_RETRIES
  /\ timers \in 0..MaxRequests
  /\ \A i \in DOMAIN msgs : msgs[i] \in Message
  /\ dataCall \in {"down", "starting", "up", "second"}
  /\ agnss \subseteq Client
  /\ client \in [Client -> {"idle", "asked", "granted", "closing"}]
  /\ requests \in 0..MaxRequests
  /\ restarts \in 0..MaxRestarts

Init ==
  /\ mStatePtr = "Released"
  /\ mSubscribers = <<>>
  /\ inactive = {}
  /\ mRetries = 0
  /\ timers = 0
  /\ msgs = <<>>
  /\ dataCall = "down"
  /\ agnss = {}
  /\ client = [c \in Client |-> "idle"]
  /\ requests = 0
  /\ restarts = 0

-----------------------------------------------------------------------------
(* Helpers of the handlers.                                                *)

Msg(kind, c) == [kind |-> kind, id |-> c]
Event(kind)  == [kind |-> kind]

\* What a client hears: an answer counts only while it is waiting for one.
Hears(who, from, news) ==
  client' = [c \in Client |-> IF c \in who /\ client[c] = from THEN news ELSE client[c]]

\* Faulty variant: the list is not searched first.
addSubscriberAgain(c) == mSubscribers' = <<c>> \o mSubscribers

\* addSubscriber: at the head, unless the client is listed, even inactive.
addSubscriber(c) ==
  mSubscribers' = IF c \in listed THEN mSubscribers ELSE <<c>> \o mSubscribers

\* The subscribers of a list that are not `gone', in its order: what the search
\* from the head finds, and what is left when they are removed.
without(list, gone) ==
  LET walk[i \in 0..Len(list)] ==
        IF i = 0 THEN <<>>
        ELSE IF list[i] \in gone THEN walk[i - 1] ELSE Append(walk[i - 1], list[i])
  IN  walk[Len(list)]

\* The first active subscriber from the head, or -1.
connHandle(list, gone) ==
  IF without(list, gone) = <<>> THEN NoHandle ELSE Head(without(list, gone))

\* informStatus(RSRC_DENIED): a message to this same worker.
fallback(c) == Msg("ATL", c)

\* openAndStartDataCall as the data service takes it: one attempt while it has
\* a call already would be a second one, whatever it answers.
openAndStartDataCall(ret) ==
  dataCall' = IF dataCall # "down" THEN "second"
              ELSE IF ret = "SUCCESS" THEN "starting" ELSE dataCall

\* Faulty variant: the retries are not counted.
startDataCallUncounted(ret, list, gone, rest) ==
  /\ openAndStartDataCall(ret)
  /\ timers' = IF ret = "ENGINE_BUSY" THEN timers + 1 ELSE timers
  /\ msgs' = IF ret = "UNSUPPORTED" THEN Append(rest, fallback(connHandle(list, gone)))
                                  ELSE rest
  /\ UNCHANGED mRetries

\* sendRsrcRequest(GPS_REQUEST_AGPS_DATA_CONN) with the answer `ret' of
\* openAndStartDataCall, for the list as the handler leaves it.  A retry is
\* armed with loc_timer_start; too many of them, or a refusal, denies the
\* request to the first active subscriber and to nobody else.
startDataCall(ret, list, gone, rest) ==
  /\ openAndStartDataCall(ret)
  /\ IF ret = "ENGINE_BUSY" /\ mRetries < MAX_START_DATA_CALL_RETRIES
     THEN mRetries' = mRetries + 1 /\ timers' = timers + 1 /\ msgs' = rest
     ELSE /\ UNCHANGED timers
          /\ IF ret \in {"SUCCESS", "OTHER"}
             THEN UNCHANGED mRetries /\ msgs' = rest
             ELSE mRetries' = 0 /\ msgs' = Append(rest, fallback(connHandle(list, gone)))

\* sendRsrcRequest(GPS_RELEASE_AGPS_DATA_CONN): stopDataCall, which the data
\* service confirms if there was a call to stop.
stopDataCall(rest) ==
  /\ dataCall' = "down"
  /\ msgs' = IF dataCall = "down" THEN rest ELSE Append(rest, Event("CLOSED"))
  /\ UNCHANGED <<mRetries, timers>>

\* UNSUPPORTED stands for -1 too; any other error is only logged.
Answer == {"SUCCESS", "ENGINE_BUSY", "UNSUPPORTED", "OTHER"}

Running(kind) == msgs # <<>> /\ Head(msgs).kind = kind

-----------------------------------------------------------------------------
(* Messages run by the worker.                                             *)

\* LocEngRequestSuplEs::proc, then RSRC_SUBSCRIBE in each state.  In Released
\* a failed start leaves the state and keeps the subscriber on the list.
RequestSuplEs ==
  /\ Running("SUPL_ES")
  /\ LET c == Head(msgs).id IN
       /\ addSubscriber(c)
       /\ IF mStatePtr = "Released"
          THEN \E ret \in Answer :
                 /\ startDataCall(ret, mSubscribers', inactive, Tail(msgs))
                 /\ mStatePtr' = IF ret = "SUCCESS" THEN "Pending" ELSE mStatePtr
          ELSE msgs' = Tail(msgs) /\ UNCHANGED <<mStatePtr, mRetries, timers, dataCall>>
       /\ IF mStatePtr = "Acquired" THEN Hears({c}, "asked", "granted")
                                    ELSE UNCHANGED client
  /\ UNCHANGED <<inactive, agnss, requests, restarts>>

\* LocEngRequestATL::proc of a fallback: the client subscribes to agnss_nif.
RequestATL ==
  /\ Running("ATL")
  /\ agnss' = agnss \cup ({Head(msgs).id} \ {NoHandle})
  /\ msgs' = Tail(msgs)
  /\ UNCHANGED <<machine, timers, dataCall, client, requests, restarts>>

\* LocEngReleaseATL::proc: the first NIF that lists the client takes the
\* release.  In ds_nif the client is told at once (setInactive), and in
\* Released it is told and nothing else happens.
ReleaseATL ==
  /\ Running("RELEASE")
  /\ LET c == Head(msgs).id
         unsubscribes == c \notin agnss /\ c \in listed /\ mStatePtr # "Released"
     IN
       /\ agnss' = agnss \ {c}
       /\ Hears({c}, "closing", "idle")
       /\ inactive' = IF unsubscribes THEN inactive \cup {c} ELSE inactive
       /\ mStatePtr' = IF unsubscribes
                       THEN OnUnsubscribe(mStatePtr, listed, listed \ inactive')
                       ELSE mStatePtr
       /\ IF ReleasesNif(mStatePtr, mStatePtr')
          THEN stopDataCall(Tail(msgs))
          ELSE msgs' = Tail(msgs) /\ UNCHANGED <<mRetries, timers, dataCall>>
  /\ UNCHANGED <<mSubscribers, requests, restarts>>

\* LocEngSuplEsOpened::proc.
SuplEsOpened ==
  /\ Running("OPENED")
  /\ mStatePtr' = OnGranted(mStatePtr)
  /\ IF mStatePtr = "Pending" THEN Hears(active, "asked", "granted")
                              ELSE UNCHANGED client
  /\ msgs' = Tail(msgs)
  /\ UNCHANGED <<mSubscribers, inactive, mRetries, timers, dataCall, agnss,
                 requests, restarts>>

\* LocEngSuplEsClosed::proc in Releasing: the inactive are removed; if some
\* client subscribed meanwhile the call is started again, and the state is
\* Pending whatever the attempt returned.
ClosedInReleasing ==
  /\ mStatePtr = "Releasing"
  /\ inactive' = {}
  /\ mSubscribers' = without(mSubscribers, inactive)
  /\ mStatePtr' = AfterClose(active)
  /\ IF active # {}
     THEN \E ret \in Answer : startDataCall(ret, mSubscribers', {}, Tail(msgs))
     ELSE msgs' = Tail(msgs) /\ UNCHANGED <<mRetries, timers, dataCall>>

\* In Pending and Acquired the list is emptied, inactive subscribers too.
\* onRsrcEvent turns a RELEASED that Pending ignores into DENIED, and every
\* subscriber falls back; in Acquired the modem only sees closeDataCall.
ClosedWhileHeld ==
  /\ mStatePtr \in {"Pending", "Acquired"}
  /\ mStatePtr' = "Released"
  /\ mSubscribers' = <<>>
  /\ inactive' = {}
  /\ IF mStatePtr = "Pending"
     THEN /\ mRetries' = 0
          /\ msgs' = Tail(msgs) \o [i \in DOMAIN mSubscribers |-> fallback(mSubscribers[i])]
     ELSE msgs' = Tail(msgs) /\ UNCHANGED mRetries
  /\ UNCHANGED <<timers, dataCall>>

SuplEsClosed ==
  /\ Running("CLOSED")
  /\ \/ ClosedInReleasing
     \/ ClosedWhileHeld
     \/ /\ mStatePtr = "Released"
        /\ msgs' = Tail(msgs) /\ UNCHANGED <<machine, timers, dataCall>>
  /\ UNCHANGED outside

-----------------------------------------------------------------------------
(* Other threads and processes.                                            *)

\* delay_callback and retryCallback, on the timer's own thread.  The timer
\* takes a spurious wake-up for a stop and then calls nobody.
TimerFires ==
  /\ timers > 0
  /\ timers' = timers - 1
  /\ \/ UNCHANGED msgs
     \/ active # {} /\ msgs' = Append(msgs, Msg("SUPL_ES", connHandle(mSubscribers, inactive)))
  /\ UNCHANGED <<machine, dataCall, outside>>

Ask(c) ==
  /\ client[c] = "idle" /\ requests < MaxRequests
  /\ client' = [client EXCEPT ![c] = "asked"]
  /\ requests' = requests + 1
  /\ msgs' = Append(msgs, Msg("SUPL_ES", c))
  /\ UNCHANGED <<machine, timers, dataCall, agnss, restarts>>

Cancel(c) ==
  /\ client[c] \in {"asked", "granted"}
  /\ client' = [client EXCEPT ![c] = "closing"]
  /\ msgs' = Append(msgs, Msg("RELEASE", c))
  /\ UNCHANGED <<machine, timers, dataCall, agnss, requests, restarts>>

\* The data service: the call comes up, or does not, or is lost.
CallOpens ==
  /\ dataCall = "starting"
  /\ dataCall' = "up" /\ msgs' = Append(msgs, Event("OPENED"))
  /\ UNCHANGED <<machine, timers, outside>>

CallEnds ==
  /\ dataCall # "down"
  /\ dataCall' = "down" /\ msgs' = Append(msgs, Event("CLOSED"))
  /\ UNCHANGED <<machine, timers, outside>>

\* agnss_nif grants a fallback, or denies it and forgets the client.
AgnssAnswers(c) ==
  /\ c \in agnss
  /\ \/ client[c] = "asked" /\ Hears({c}, "asked", "granted") /\ UNCHANGED agnss
     \/ Hears({c}, "asked", "idle") /\ agnss' = agnss \ {c}
  /\ UNCHANGED <<machine, timers, msgs, dataCall, requests, restarts>>

\* loc_eng_handle_engine_up drops the subscribers of agnss_nif, not of ds_nif;
\* the clients went down with the modem.
EngineUp ==
  /\ restarts < MaxRestarts
  /\ restarts' = restarts + 1
  /\ agnss' = {}
  /\ client' = [c \in Client |-> "idle"]
  /\ UNCHANGED <<machine, timers, msgs, dataCall, requests>>

Worker == RequestSuplEs \/ RequestATL \/ ReleaseATL \/ SuplEsOpened \/ SuplEsClosed

Next ==
  \/ Worker
  \/ TimerFires
  \/ \E c \in Client : Ask(c) \/ Cancel(c) \/ AgnssAnswers(c)
  \/ CallOpens \/ CallEnds
  \/ EngineUp

Spec == Init /\ [][Next]_vars

\* The worker runs its messages and armed timers end.
FairSpec == Spec /\ WF_vars(Worker) /\ WF_vars(TimerFires)

-----------------------------------------------------------------------------
(* Properties.                                                             *)

\* The state agrees with the list: a call is awaited or held only for a
\* client that still wants it, Releasing waits on behalf of somebody, and no
\* inactive subscriber is left behind in Released, where nothing would ever
\* remove it.
StateMatchesList ==
  /\ mStatePtr \in {"Pending", "Acquired"} => active # {}
  /\ mStatePtr = "Releasing" => inactive # {}
  /\ mStatePtr = "Released" => inactive = {}

\* A fallback or a retry is always made for somebody: connHandle never
\* reaches requestATL or requestSuplES as -1.
NoAnonymousRequest ==
  \A i \in DOMAIN msgs : msgs[i].kind \in {"SUPL_ES", "ATL"} => msgs[i].id # NoHandle

\* Once the messages of the data service are run, a call that is up is one
\* the machine has acquired, and one that is starting is one it awaits.
TracksCall ==
  (\A i \in DOMAIN msgs : msgs[i].kind \notin {"OPENED", "CLOSED"}) =>
    /\ dataCall = "up" => mStatePtr = "Acquired"
    /\ dataCall = "starting" => mStatePtr = "Pending"

\* State, list, requests and call agree.
CallConsistent == StateMatchesList /\ NoAnonymousRequest /\ TracksCall

\* The data service is asked to start a call only when it has none, starting or
\* up, and has reported the end of the last one to a machine that has taken
\* notice: the retry timers, the repeated requests and the restart in Releasing
\* never ask for a second call, and no late report reaches the new one.
StartsFromDown ==
  [][dataCall' \in {"starting", "second"} /\ dataCall' # dataCall =>
       /\ dataCall = "down"
       /\ \A i \in DOMAIN msgs' : msgs'[i].kind \notin {"OPENED", "CLOSED"}]_vars

\* The retries end: clients that send finitely many requests to a data
\* service that is busy for ever leave no timer running for ever.
RetriesEnd == <>[](timers = 0)
=============================================================================
