-------------------------- MODULE NetworkInitiated --------------------------
(***************************************************************************)
(* Network initiated requests (loc_eng_ni.cpp).  The modem asks for the    *)
(* user's consent; the worker stores the request, starts a thread that     *)
(* waits for the answer or a timeout, and shows the request to the         *)
(* framework, which answers from threads of its own, late or repeatedly if *)
(* the user does.  A modem restart drops the request.                      *)
(*                                                                         *)
(* These threads share loc_eng_ni_data, of which only respRecvd and resp   *)
(* are always touched under tLock.  What runs under the lock is one        *)
(* action; a handler that tests a field without it is cut there.           *)
(* Requests are numbered; a number also stands for the pass-through data   *)
(* the modem allocated for that request.                                   *)
(***************************************************************************)
EXTENDS Naturals, FiniteSets

CONSTANTS
  MaxRequests,  \* bound on requests of the modem
  MaxRestarts,  \* bound on modem restarts
  Response,     \* answers of the user
  Caller        \* threads of the framework that may be in loc_eng_ni_respond

ASSUME NiAssumption ==
  /\ MaxRequests \in Nat
  /\ MaxRestarts \in Nat
  /\ Response \cap {"NORESP", "UNSET", "nothing"} = {}

Request == 1..MaxRequests
NULL    == 0
Answer  == Response \cup {"NORESP", "UNSET"}
NotShown == MaxRequests + 1

VARIABLES
  rawRequest,  \* the request in session
  reqID,       \* the notification id in use
  resp,        \* the answer
  respRecvd,   \* that there is one
  thread,      \* ni_thread_proc of each request
  out,         \* the answer each thread is about to send, and for what
  requests,    \* requests of the modem so far
  shown,       \* notification id under which each request was shown
  said,        \* the answers the user gave to each request
  responding,  \* the answer each caller of loc_eng_ni_respond is about to leave,
               \* and the request it was let through for
  reset,       \* the worker inside loc_eng_ni_reset_on_engine_restart
  informed,    \* what the modem was told of each request
  frees,       \* how often each pass-through data was freed
  restarts,    \* modem restarts so far
  exposed,     \* requests another one's answer may reach: they met a flag, a
               \* thread or an id of another request, or a late answer
  torn         \* requests whose thread ended in the middle of the reset

ni     == <<rawRequest, reqID, resp, respRecvd>>
user   == <<shown, said, responding>>
ghosts == <<exposed, torn>>
vars   == <<ni, thread, out, requests, user, reset, informed, frees, restarts, ghosts>>

NoAnswer == [request |-> NULL, resp |-> "UNSET"]

TypeOK ==
  /\ rawRequest \in Request \cup {NULL}
  /\ reqID \in 0..MaxRequests
  /\ resp \in Answer /\ respRecvd \in BOOLEAN
  /\ thread \in [Request -> {"none", "started", "waiting", "unlocked", "ended"}]
  /\ out \in [Request -> [request : Request \cup {NULL}, resp : Answer]]
  /\ requests \in 0..MaxRequests
  /\ shown \in [Request -> 0..NotShown]
  /\ said \in [Request -> SUBSET Response]
  /\ responding \in [Caller -> [request : Request \cup {NULL}, resp : Answer]]
  /\ reset \in [step : {"idle", "free", "clear", "signal"}, saw : Request \cup {NULL}]
  /\ informed \in [Request -> Answer \cup {"nothing"}]
  /\ frees \in [Request -> 0..3]
  /\ restarts \in 0..MaxRestarts
  /\ exposed \subseteq Request /\ torn \subseteq Request

Idle == [step |-> "idle", saw |-> NULL]

\* loc_eng_ni_init.
Init ==
  /\ rawRequest = NULL /\ reqID = 0 /\ resp = "UNSET" /\ respRecvd = FALSE
  /\ thread = [r \in Request |-> "none"]
  /\ out = [r \in Request |-> NoAnswer]
  /\ requests = 0
  /\ shown = [r \in Request |-> NotShown]
  /\ said = [r \in Request |-> {}]
  /\ responding = [f \in Caller |-> NoAnswer]
  /\ reset = Idle
  /\ informed = [r \in Request |-> "nothing"]
  /\ frees = [r \in Request |-> 0]
  /\ restarts = 0
  /\ exposed = {} /\ torn = {}

free(r) == frees' = IF r = NULL THEN frees ELSE [frees EXCEPT ![r] = @ + 1]

-----------------------------------------------------------------------------
(* The worker.                                                             *)

\* A request that finds another one in session.
turnAway(r) == free(r) /\ UNCHANGED rawRequest

\* A request that begins among the remains of others: an answer is already
\* there, another thread still runs, or its id was shown before (ids are counted
\* up late, and not at all by a thread that was never created).
amongRemains ==
  \/ respRecvd
  \/ \E p \in Request : thread[p] \in {"started", "waiting", "unlocked"}
  \/ \E p \in Request : shown[p] = reqID

\* loc_eng_ni_request_handler.  While a request is in session another one is
\* freed and forgotten.  A thread that could not be created is only logged.
RequestHandler ==
  /\ reset.step = "idle"
  /\ requests < MaxRequests
  /\ requests' = requests + 1
  /\ LET r == requests' IN
     IF rawRequest # NULL
     THEN turnAway(r) /\ UNCHANGED <<thread, shown, exposed>>
     ELSE /\ rawRequest' = r
          /\ shown' = [shown EXCEPT ![r] = reqID]
          /\ \E created \in BOOLEAN :
               thread' = [thread EXCEPT ![r] = IF created THEN "started" ELSE "none"]
          /\ exposed' = exposed \cup (IF amongRemains THEN {r} ELSE {})
          /\ UNCHANGED frees
  /\ UNCHANGED <<reqID, resp, respRecvd, out, said, responding, reset, informed, restarts, torn>>

\* loc_eng_ni_reset_on_engine_restart: the test and the release of the data
\* are outside the lock.
ResetTest ==
  /\ reset.step = "idle" /\ restarts < MaxRestarts
  /\ restarts' = restarts + 1
  /\ reset' = IF rawRequest = NULL THEN Idle ELSE [step |-> "free", saw |-> rawRequest]
  /\ UNCHANGED <<ni, thread, out, requests, user, informed, frees, ghosts>>

\* free(rawRequest): the field is read without the lock, so the value may be
\* the one the test saw or the one the field has now.
ResetFree ==
  /\ reset.step = "free"
  /\ \E r \in {reset.saw, rawRequest} : free(r)
  /\ reset' = [reset EXCEPT !.step = "clear"]
  /\ UNCHANGED <<ni, thread, out, requests, user, informed, restarts, ghosts>>

ResetClear ==
  /\ reset.step = "clear"
  /\ rawRequest' = NULL
  /\ reset' = [reset EXCEPT !.step = "signal"]
  /\ UNCHANGED <<reqID, resp, respRecvd, thread, out, requests, user, informed, frees,
                 restarts, ghosts>>

\* The flag is raised whether or not the thread still waits for it.
ResetSignal ==
  /\ reset.step = "signal"
  /\ respRecvd' = TRUE
  /\ reset' = Idle
  /\ UNCHANGED <<rawRequest, reqID, resp, thread, out, requests, user, informed, frees,
                 restarts, ghosts>>

informNiResponse(answer) ==
  informed' = IF answer.request = NULL THEN informed
              ELSE [informed EXCEPT ![answer.request] = answer.resp]

\* Faulty variant: the data is freed after the call and by the destructor.
InformNiResponseTwice(t) ==
  /\ reset.step = "idle"
  /\ thread[t] = "ended" /\ out[t] # NoAnswer
  /\ informNiResponse(out[t])
  /\ frees' = IF out[t].request = NULL THEN frees ELSE [frees EXCEPT ![out[t].request] = @ + 2]
  /\ out' = [out EXCEPT ![t] = NoAnswer]
  /\ UNCHANGED <<ni, thread, requests, user, reset, restarts, ghosts>>

\* LocEngInformNiResponse::proc and its destructor, which frees the data.
InformNiResponse(t) ==
  /\ reset.step = "idle"
  /\ thread[t] = "ended" /\ out[t] # NoAnswer
  /\ informNiResponse(out[t])
  /\ free(out[t].request)
  /\ out' = [out EXCEPT ![t] = NoAnswer]
  /\ UNCHANGED <<ni, thread, requests, user, reset, restarts, ghosts>>

-----------------------------------------------------------------------------
(* ni_thread_proc of request t.                                            *)

\* The data the message is given: the field is read again after the test, and
\* a reset, which clears it without the lock, may have come between.
payload == {rawRequest} \cup (IF reset.step = "clear" THEN {NULL} ELSE {})

\* The end of the critical section: the flag is reset, and the answer kept
\* for whatever request is in session now.
conclude(t, answer) ==
  /\ respRecvd' = FALSE
  /\ resp' = answer
  /\ IF rawRequest # NULL /\ answer # "IGNORE"
     THEN \E r \in payload : out' = [out EXCEPT ![t] = [request |-> r, resp |-> answer]]
     ELSE UNCHANGED out
  /\ torn' = torn \cup (IF reset.step \in {"free", "clear"} THEN {rawRequest} \ {NULL} ELSE {})
  /\ rawRequest' = NULL
  /\ thread' = [thread EXCEPT ![t] = "unlocked"]
  /\ UNCHANGED <<reqID, requests, user, reset, informed, frees, restarts, exposed>>

\* It takes the lock; an answer that is already there is taken as its own.
Begin(t) ==
  /\ thread[t] = "started"
  /\ IF respRecvd
     THEN conclude(t, resp)
     ELSE /\ thread' = [thread EXCEPT ![t] = "waiting"]
          /\ UNCHANGED <<ni, out, requests, user, reset, informed, frees, restarts, ghosts>>

\* Faulty variant: the time-out does not leave the loop.
TimedOutWaiting(t) ==
  /\ thread[t] = "waiting"
  /\ resp' = "NORESP"
  /\ UNCHANGED <<rawRequest, reqID, respRecvd, thread, out, requests, user, reset, informed,
                 frees, restarts, ghosts>>

\* It is woken by the answer, or the time is over, answer or no answer.
Woken(t)    == thread[t] = "waiting" /\ respRecvd /\ conclude(t, resp)
TimedOut(t) == thread[t] = "waiting" /\ conclude(t, "NORESP")

\* Faulty variant: the thread starts over instead of ending.
FinishAgain(t) ==
  /\ thread[t] = "unlocked"
  /\ thread' = [thread EXCEPT ![t] = "started"]
  /\ reqID' = reqID + 1
  /\ UNCHANGED <<rawRequest, resp, respRecvd, out, requests, user, reset, informed, frees,
                 restarts, ghosts>>

\* Outside the lock: the id is counted up and the answer sent.
Finish(t) ==
  /\ thread[t] = "unlocked"
  /\ thread' = [thread EXCEPT ![t] = "ended"]
  /\ reqID' = reqID + 1
  /\ UNCHANGED <<rawRequest, resp, respRecvd, out, requests, user, reset, informed, frees,
                 restarts, ghosts>>

-----------------------------------------------------------------------------
(* The framework.                                                          *)

\* Faulty variant: the id is not compared.
RespondAny(f, r, answer) ==
  /\ responding[f] = NoAnswer
  /\ shown[r] # NotShown
  /\ said' = [said EXCEPT ![r] = @ \cup {answer}]
  /\ responding' = [responding EXCEPT ![f] =
       IF rawRequest # NULL THEN [request |-> rawRequest, resp |-> answer] ELSE NoAnswer]
  /\ UNCHANGED <<ni, thread, out, requests, shown, reset, informed, frees, restarts, ghosts>>

\* loc_eng_ni_respond: the user answers a request shown, possibly late, again
\* or differently; the id and the session are tested without the lock.
RespondTest(f, r, answer) ==
  /\ responding[f] = NoAnswer
  /\ shown[r] # NotShown
  /\ said' = [said EXCEPT ![r] = @ \cup {answer}]
  /\ responding' = [responding EXCEPT ![f] =
       IF shown[r] = reqID /\ rawRequest # NULL
       THEN [request |-> rawRequest, resp |-> answer] ELSE NoAnswer]
  /\ UNCHANGED <<ni, thread, out, requests, shown, reset, informed, frees, restarts, ghosts>>

\* Under the lock.  The request the caller was let through for may have left
\* the session, and another be in it.
RespondSet(f) ==
  /\ responding[f] # NoAnswer
  /\ resp' = responding[f].resp
  /\ respRecvd' = TRUE
  /\ exposed' = exposed \cup ({rawRequest} \ {NULL, responding[f].request})
  /\ responding' = [responding EXCEPT ![f] = NoAnswer]
  /\ UNCHANGED <<rawRequest, reqID, thread, out, requests, shown, said, reset, informed,
                 frees, restarts, torn>>

NiThread(t) == Begin(t) \/ Woken(t) \/ TimedOut(t) \/ Finish(t)

Next ==
  \/ RequestHandler
  \/ ResetTest \/ ResetFree \/ ResetClear \/ ResetSignal
  \/ \E t \in Request : InformNiResponse(t) \/ NiThread(t)
  \/ \E f \in Caller :
       RespondSet(f) \/ \E r \in Request, answer \in Response : RespondTest(f, r, answer)

Spec == Init /\ [][Next]_vars

\* The threads run, and pthread_cond_timedwait returns in the end.
FairSpec ==
  /\ Spec
  /\ \A t \in Request : WF_vars(NiThread(t)) /\ WF_vars(InformNiResponse(t))

-----------------------------------------------------------------------------
(* Properties.                                                             *)

\* What the modem is told of a request is an answer the user gave to it, or
\* that there was none.
Consented(r) == informed[r] \in {"nothing", "NORESP"} \cup said[r]

\* Only a request that began among the remains of others, or that a late answer
\* for another one hit, can be told an answer that is not its own: neither
\* repeated and contradicting answers nor restarts do it, and the harm does not
\* outlast the requests it met.
ConsentUnlessExposed == \A r \in Request \ exposed : Consented(r)

\* The data of r is with an answer on its way to the modem.
Carried(r) == \E t \in Request : out[t].request = r

\* The data of a request is freed once at most, and never while an answer still
\* carries it, unless its thread ended in the middle of the reset.
FreedOnce ==
  \A r \in Request \ torn : frees[r] <= 1 /\ (frees[r] = 1 => ~Carried(r))

\* Data that is neither in session nor on its way has been freed; only the
\* answer IGNORE drops it.
FreedInTheEnd ==
  \A r \in Request \ (torn \cup exposed) :
    r <= requests /\ frees[r] = 0 => rawRequest = r \/ Carried(r) \/ "IGNORE" \in said[r]

\* A request that was turned away because another was in session is neither
\* shown nor answered, even when restarts and late answers interfere.
TurnedAway(r) == shown[r] = NotShown => informed[r] = "nothing"
NeverAnswersTheIgnored == \A r \in Request : TurnedAway(r)

\* The data of each request is accounted for, through restarts as well, and
\* what was turned away leaves no trace.
DataAccounted == FreedOnce /\ FreedInTheEnd /\ NeverAnswersTheIgnored

\* A request in session does not stay there for ever, unless its thread could
\* not be created.
RequestEnds ==
  \A r \in Request : rawRequest = r ~> (rawRequest # r \/ thread[r] = "none")

\* On a modem restart "we need the thread to exit without calling sending data"
\* (ni_thread_proc): no answer carries data that has been freed.
SendsLiveData == \A r \in Request : frees[r] > 0 => ~Carried(r)
=============================================================================
