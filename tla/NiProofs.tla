-------------------------------- MODULE NiProofs --------------------------------
(***************************************************************************)
(* Theorems about NetworkInitiated for any number of requests and restarts *)
(* and any answers of the user.                                            *)
(*                                                                         *)
(* Three chains of facts carry the checked invariants.  ResetInv and       *)
(* FreeInv follow the data of a request from the one place that may free   *)
(* it to the next, restarts included.  ConsentInv says what protects a     *)
(* request that is not exposed: no other was shown under the id in use, no *)
(* other thread runs, and every answer on its way is its own.  CountInv    *)
(* bounds that id: it counts the threads that have ended.                  *)
(***************************************************************************)
EXTENDS NetworkInitiated, FiniteSetTheorems, TLAPS

\* The id in use is the number of threads that have ended.
Ended == {t \in Request : thread[t] = "ended"}
CountInv == reqID = Cardinality(Ended)

\* Nothing is known of a request before it is made.
FreshInv ==
  \A r \in Request : requests < r =>
    /\ thread[r] = "none" /\ shown[r] = NotShown
    /\ frees[r] = 0 /\ informed[r] = "nothing"
    /\ rawRequest # r /\ reset.saw # r
    /\ \A t \in Request : out[t].request # r

\* Only what was shown is in session or answered, and ids grow.
ShownInv ==
  /\ rawRequest # NULL => shown[rawRequest] # NotShown
  /\ \A r \in Request : shown[r] # NotShown => shown[r] <= reqID
  /\ \A t \in Request : out[t].request # NULL =>
       shown[out[t].request] # NotShown /\ thread[t] \in {"unlocked", "ended"}
  /\ NeverAnswersTheIgnored

\* What the worker finds at each step of a reset.
ResetInv ==
  /\ reset.step \in {"free", "clear"} =>
       /\ reset.saw # NULL /\ rawRequest \in {NULL, reset.saw}
       /\ reset.saw \notin torn => rawRequest = reset.saw
  /\ reset.step = "signal" => rawRequest = NULL

\* The data of a request is owned by the request in session, or by the answer
\* that is on its way; a reset may free it beside an answer, once, and then
\* the request is torn.
FreeInv ==
  /\ \A r \in Request : frees[r] <= 2
  /\ \A r \in Request : rawRequest = r =>
       /\ reset.step # "clear" => frees[r] = 0
       /\ \A t \in Request : out[t].request # r
  /\ \A t \in Request : out[t].request # NULL =>
       /\ frees[out[t].request] <= 1
       /\ out[t].request \notin torn => frees[out[t].request] = 0
       /\ \A u \in Request : out[u].request = out[t].request => u = t
  /\ reset.step = "free" => frees[reset.saw] = 0
  /\ reset.step = "clear" =>
       frees[reset.saw] <= 1 /\ (reset.saw \notin torn => frees[reset.saw] = 1)
  /\ \A r \in Request \ torn : frees[r] <= 1

\* Threads, ids and answers around a request that is not exposed are its own.
ConsentInv ==
  /\ \A r \in Request \ exposed : rawRequest = r =>
       /\ \A t \in Request : thread[t] \in {"started", "waiting"} => t = r
       /\ \A t \in Request : thread[t] # "unlocked"
       /\ \A q \in Request : shown[q] = reqID <=> q = r
       /\ respRecvd => resp \in said[r]
  /\ \A f \in Caller : responding[f].request \in Request \ exposed =>
       responding[f].resp \in said[responding[f].request]
  /\ \A t \in Request : out[t].request \in Request \ exposed =>
       out[t].resp \in {"NORESP"} \cup said[out[t].request]
  /\ ConsentUnlessExposed

IInv == TypeOK /\ CountInv /\ FreshInv /\ ShownInv /\ ResetInv /\ FreeInv /\ FreedInTheEnd /\ ConsentInv

-------------------------------------------------------------------------------
\* The numbers and the fixed values are what the definitions take them for.
LEMMA Values ==
  /\ NULL \notin Request /\ NotShown \notin 0..MaxRequests
  /\ NoAnswer \in [request : Request \cup {NULL}, resp : Answer]
  /\ NoAnswer.request = NULL
  /\ Response \subseteq Answer /\ "NORESP" \in Answer
  /\ "nothing" \notin Answer
BY NiAssumption DEF Request, NULL, NotShown, NoAnswer, Answer

\* There are finitely many threads, so a thread that ends is one more.
LEMMA OneMore ==
  ASSUME NEW S \in SUBSET Request, NEW t \in Request, t \notin S
  PROVE  /\ Cardinality(S) \in 0..MaxRequests
         /\ Cardinality(S \cup {t}) = Cardinality(S) + 1
         /\ Cardinality(S \cup {t}) \in 0..MaxRequests
<1>1. IsFiniteSet(Request) /\ Cardinality(Request) = MaxRequests
  BY FS_Interval, NiAssumption DEF Request
<1>2. \A T \in SUBSET Request :
        IsFiniteSet(T) /\ Cardinality(T) \in Nat /\ Cardinality(T) <= MaxRequests
  BY <1>1, FS_Subset, FS_CardinalityType
<1>3. Cardinality(S \cup {t}) = Cardinality(S) + 1
  BY <1>2, FS_AddElement
<1> QED BY <1>2, <1>3, NiAssumption

LEMMA InitHolds == Init => IInv
<1> SUFFICES ASSUME Init PROVE IInv
  OBVIOUS
<1>1. TypeOK
  <2>1. shown \in [Request -> 0..NotShown] /\ 0 \in 0..MaxRequests /\ 0 \in 0..MaxRestarts
    BY NiAssumption DEF Init, NotShown
  <2>2. resp \in Answer /\ NULL \in Request \cup {NULL}
    BY DEF Init, Answer
  <2>3. out \in [Request -> [request : Request \cup {NULL}, resp : Answer]]
    BY Values DEF Init
  <2>4. reset \in [step : {"idle", "free", "clear", "signal"}, saw : Request \cup {NULL}]
    BY DEF Init, Idle
  <2>5. frees \in [Request -> 0..3] /\ informed \in [Request -> Answer \cup {"nothing"}]
    BY DEF Init
  <2>6. said \in [Request -> SUBSET Response]
    BY DEF Init
  <2>7. thread \in [Request -> {"none", "started", "waiting", "unlocked", "ended"}]
    BY DEF Init
  <2>8. responding \in [Caller -> [request : Request \cup {NULL}, resp : Answer]]
    BY Values DEF Init
  <2>9. exposed \subseteq Request /\ torn \subseteq Request
    BY DEF Init
  <2> QED BY <2>1, <2>2, <2>3, <2>4, <2>5, <2>6, <2>7, <2>8, <2>9 DEF Init, TypeOK
<1>2. CountInv
  <2>1. Ended = {}
    BY DEF Init, Ended
  <2> QED BY <2>1, FS_EmptySet DEF Init, CountInv
<1>3. FreshInv
  BY Values DEF Init, FreshInv, Idle
<1>4. ShownInv
  BY Values DEF Init, ShownInv, NeverAnswersTheIgnored, TurnedAway
<1>5. ResetInv
  BY DEF Init, ResetInv, Idle
<1>6. FreeInv
  BY Values DEF Init, FreeInv, Idle
<1>7. FreedInTheEnd
  BY DEF Init, FreedInTheEnd, Request
<1>8. ConsentInv
  <2>1. \A r \in Request : r # NULL
    BY Values
  <2> QED BY <2>1, Values DEF Init, ConsentInv, ConsentUnlessExposed, Consented
<1> QED BY <1>1, <1>2, <1>3, <1>4, <1>5, <1>6, <1>7, <1>8 DEF IInv

-------------------------------------------------------------------------------
\* Type correctness, and the number of threads that have ended.
LEMMA TypeStep ==
  ASSUME IInv, Next
  PROVE  TypeOK' /\ CountInv'
<1> USE DEF IInv
<1>1. CASE RequestHandler
  <2>1. PICK r \in Request : r = requests + 1
    BY <1>1, NiAssumption DEF TypeOK, RequestHandler, Request
  <2>2. requests' = r /\ requests' \in 0..MaxRequests
    BY <1>1, <2>1, NiAssumption DEF TypeOK, RequestHandler, Request
  <2>3. frees[r] = 0 /\ thread[r] = "none"
    BY <2>1 DEF TypeOK, FreshInv, Request
  <2>4. frees' \in [Request -> 0..3]
    BY <1>1, <2>2, <2>3 DEF TypeOK, RequestHandler, turnAway, free
  <2>5. /\ rawRequest' \in Request \cup {NULL}
        /\ thread' \in [Request -> {"none", "started", "waiting", "unlocked", "ended"}]
        /\ exposed' \subseteq Request /\ torn' \subseteq Request
    <3>1. CASE rawRequest # NULL
      BY <1>1, <2>2, <3>1 DEF TypeOK, RequestHandler, turnAway
    <3>2. CASE rawRequest = NULL
      <4>1. /\ rawRequest' = r /\ torn' = torn
            /\ exposed' = exposed \cup (IF amongRemains THEN {r} ELSE {})
            /\ \E created \in BOOLEAN :
                 thread' = [thread EXCEPT ![r] = IF created THEN "started" ELSE "none"]
        BY <1>1, <2>2, <3>2 DEF RequestHandler
      <4>2. thread' \in [Request -> {"none", "started", "waiting", "unlocked", "ended"}]
        BY <4>1 DEF TypeOK
      <4>3. exposed' \subseteq Request
        BY <4>1 DEF TypeOK
      <4> QED BY <4>1, <4>2, <4>3 DEF TypeOK
    <3> QED BY <3>1, <3>2
  <2>6. shown' \in [Request -> 0..NotShown]
    BY <1>1, <2>2, NiAssumption DEF TypeOK, RequestHandler, NotShown
  <2>7. Ended' = Ended
    BY <1>1, <2>2, <2>3 DEF TypeOK, RequestHandler, Ended
  <2> QED BY <1>1, <2>2, <2>4, <2>5, <2>6, <2>7 DEF TypeOK, CountInv, RequestHandler
<1>2. CASE ResetTest
  BY <1>2, NiAssumption DEF TypeOK, CountInv, Ended, ResetTest, Idle, ni, user, ghosts
<1>3. CASE ResetFree
  <2>1. frees' \in [Request -> 0..3]
    BY <1>3 DEF TypeOK, ResetFree, free, FreeInv, ResetInv
  <2> QED BY <1>3, <2>1 DEF TypeOK, CountInv, Ended, ResetFree, ni, user, ghosts
<1>4. CASE ResetClear
  BY <1>4 DEF TypeOK, CountInv, Ended, ResetClear, user, ghosts
<1>5. CASE ResetSignal
  BY <1>5 DEF TypeOK, CountInv, Ended, ResetSignal, user, Idle, ghosts
<1>6. ASSUME NEW t \in Request, InformNiResponse(t) PROVE TypeOK' /\ CountInv'
  <2>1. frees' \in [Request -> 0..3]
    BY <1>6 DEF TypeOK, InformNiResponse, free, FreeInv
  <2>2. out' \in [Request -> [request : Request \cup {NULL}, resp : Answer]]
    BY <1>6, Values DEF TypeOK, InformNiResponse
  <2>3. informed' \in [Request -> Answer \cup {"nothing"}]
    BY <1>6 DEF TypeOK, InformNiResponse, informNiResponse
  <2> QED BY <1>6, <2>1, <2>2, <2>3 DEF TypeOK, CountInv, Ended, InformNiResponse, ni, user, ghosts
<1>7. ASSUME NEW t \in Request, NEW answer \in Answer, conclude(t, answer),
             thread[t] \in {"started", "waiting"}
      PROVE  TypeOK' /\ CountInv'
  <2>1. out' \in [Request -> [request : Request \cup {NULL}, resp : Answer]]
    BY <1>7 DEF TypeOK, conclude, payload
  <2>2. Ended' = Ended
    BY <1>7 DEF TypeOK, conclude, Ended
  <2>3. torn' \subseteq Request
    BY <1>7 DEF TypeOK, conclude
  <2> QED BY <1>7, <2>1, <2>2, <2>3 DEF TypeOK, CountInv, conclude, user
<1>8. ASSUME NEW t \in Request, Begin(t) PROVE TypeOK' /\ CountInv'
  <2>1. CASE respRecvd
    BY <1>7, <1>8, <2>1 DEF TypeOK, Begin
  <2>2. CASE ~respRecvd
    <3>1. Ended' = Ended
      BY <1>8, <2>2 DEF TypeOK, Ended, Begin
    <3> QED BY <1>8, <2>2, <3>1 DEF TypeOK, CountInv, Begin, ni, user, ghosts
  <2> QED BY <2>1, <2>2
<1>9. ASSUME NEW t \in Request, Woken(t) \/ TimedOut(t) PROVE TypeOK' /\ CountInv'
  BY <1>7, <1>9, Values DEF TypeOK, Woken, TimedOut
<1>10. ASSUME NEW t \in Request, Finish(t) PROVE TypeOK' /\ CountInv'
  <2>1. t \notin Ended /\ Ended \in SUBSET Request
    BY <1>10 DEF Ended, Finish
  <2>2. Ended' = Ended \cup {t}
    BY <1>10 DEF TypeOK, Ended, Finish
  <2>3. reqID' = Cardinality(Ended') /\ reqID' \in 0..MaxRequests
    BY <1>10, <2>1, <2>2, OneMore DEF CountInv, Finish
  <2> QED BY <1>10, <2>3 DEF TypeOK, CountInv, Finish, user, ghosts
<1>11. ASSUME NEW f \in Caller, NEW r \in Request, NEW answer \in Response,
              RespondTest(f, r, answer)
       PROVE  TypeOK' /\ CountInv'
  <2>1. said' \in [Request -> SUBSET Response]
    BY <1>11 DEF TypeOK, RespondTest
  <2>2. responding' \in [Caller -> [request : Request \cup {NULL}, resp : Answer]]
    BY <1>11, Values DEF TypeOK, RespondTest
  <2> QED BY <1>11, <2>1, <2>2 DEF TypeOK, CountInv, Ended, RespondTest, ni, ghosts
<1>12. ASSUME NEW f \in Caller, RespondSet(f) PROVE TypeOK' /\ CountInv'
  <2>1. responding' \in [Caller -> [request : Request \cup {NULL}, resp : Answer]]
    BY <1>12, Values DEF TypeOK, RespondSet
  <2>2. resp' \in Answer /\ exposed' \subseteq Request
    BY <1>12 DEF TypeOK, RespondSet
  <2> QED BY <1>12, <2>1, <2>2 DEF TypeOK, CountInv, Ended, RespondSet
<1> QED BY <1>1, <1>2, <1>3, <1>4, <1>5, <1>6, <1>8, <1>9, <1>10, <1>11, <1>12
        DEF Next, NiThread

-------------------------------------------------------------------------------
\* How a thread concludes, when it runs at all: the answer is one the provers
\* can keep opaque, and the thread was started and has not ended.
LEMMA Concludes ==
  ASSUME IInv, NEW t \in Request, Begin(t) \/ Woken(t) \/ TimedOut(t)
  PROVE  \/ /\ thread[t] = "started" /\ thread' = [thread EXCEPT ![t] = "waiting"]
            /\ UNCHANGED <<ni, out, requests, user, reset, informed, frees, restarts, ghosts>>
         \/ /\ thread[t] \in {"started", "waiting"}
            /\ \E answer \in Answer :
                 /\ answer = "NORESP" \/ (respRecvd /\ answer = resp)
                 /\ conclude(t, answer)
BY Values DEF IInv, TypeOK, Begin, Woken, TimedOut

\* Requests not yet made.
LEMMA FreshStep ==
  ASSUME IInv, Next
  PROVE  FreshInv'
<1> USE DEF IInv
<1>1. CASE RequestHandler
  <2>1. PICK q \in Request : q = requests + 1 /\ q = requests'
    BY <1>1, NiAssumption DEF TypeOK, RequestHandler, Request
  <2>2. ASSUME NEW r \in Request, requests' < r PROVE requests < r /\ r # q
    BY <2>1, <2>2 DEF TypeOK, Request
  <2> QED BY <1>1, <2>1, <2>2 DEF TypeOK, FreshInv, RequestHandler, turnAway, free
<1>2. CASE ResetTest
  BY <1>2, Values DEF TypeOK, FreshInv, ResetTest, Idle, ni, user
<1>3. CASE ResetFree
  BY <1>3 DEF TypeOK, FreshInv, ResetFree, free, ni, user
<1>4. CASE ResetClear
  BY <1>4, Values DEF TypeOK, FreshInv, ResetClear, user
<1>5. CASE ResetSignal
  BY <1>5, Values DEF TypeOK, FreshInv, ResetSignal, user, Idle
<1>6. ASSUME NEW t \in Request, InformNiResponse(t) PROVE FreshInv'
  BY <1>6, Values DEF TypeOK, FreshInv, InformNiResponse, informNiResponse, free, ni, user
<1>7. ASSUME NEW t \in Request, Begin(t) \/ Woken(t) \/ TimedOut(t) PROVE FreshInv'
  <2>1. CASE thread[t] = "started" /\ thread' = [thread EXCEPT ![t] = "waiting"]
             /\ UNCHANGED <<ni, out, requests, user, reset, informed, frees, restarts, ghosts>>
    BY <2>1 DEF TypeOK, FreshInv, ni, user
  <2>2. ASSUME NEW answer \in Answer, conclude(t, answer), thread[t] \in {"started", "waiting"}
        PROVE  FreshInv'
    <3>1. \A u \in Request : out'[u].request \in {out[u].request, rawRequest, NULL}
      BY <2>2 DEF TypeOK, conclude, payload
    <3>2. \A r \in Request : requests < r => thread'[r] = thread[r]
      BY <2>2 DEF TypeOK, FreshInv, conclude
    <3> QED BY <2>2, <3>1, <3>2, Values DEF TypeOK, FreshInv, conclude, user
  <2> QED BY <1>7, <2>1, <2>2, Concludes
<1>8. ASSUME NEW t \in Request, Finish(t) PROVE FreshInv'
  BY <1>8 DEF TypeOK, FreshInv, Finish, user
<1>9. ASSUME NEW f \in Caller, NEW r \in Request, NEW answer \in Response,
             RespondTest(f, r, answer)
      PROVE  FreshInv'
  BY <1>9 DEF FreshInv, RespondTest, ni, ghosts
<1>10. ASSUME NEW f \in Caller, RespondSet(f) PROVE FreshInv'
  BY <1>10 DEF FreshInv, RespondSet
<1> QED BY <1>1, <1>2, <1>3, <1>4, <1>5, <1>6, <1>7, <1>8, <1>9, <1>10 DEF Next, NiThread

\* What was shown.
LEMMA ShownStep ==
  ASSUME IInv, Next
  PROVE  ShownInv'
<1> USE DEF IInv, NeverAnswersTheIgnored, TurnedAway
<1>1. CASE RequestHandler
  <2>1. PICK q \in Request : q = requests + 1 /\ q = requests'
    BY <1>1, NiAssumption DEF TypeOK, RequestHandler, Request
  <2>2. thread[q] = "none" /\ informed[q] = "nothing"
    BY <2>1 DEF TypeOK, FreshInv, Request
  <2>3. CASE rawRequest # NULL
    BY <1>1, <2>3 DEF TypeOK, ShownInv, RequestHandler, turnAway
  <2>4. CASE rawRequest = NULL
    <3>1. reqID # NotShown /\ reqID <= reqID
      BY Values DEF TypeOK
    <3>2. shown' = [shown EXCEPT ![q] = reqID] /\ rawRequest' = q
      BY <1>1, <2>1, <2>4 DEF RequestHandler
    <3>3. shown'[q] = reqID /\ \A r \in Request : r # q => shown'[r] = shown[r]
      BY <3>2 DEF TypeOK
    <3>4. \A t \in Request : t # q => thread'[t] = thread[t]
      BY <1>1, <2>1, <2>4 DEF TypeOK, RequestHandler
    <3>5. UNCHANGED <<reqID, out, informed>>
      BY <1>1 DEF RequestHandler
    <3>6. \A r \in Request : shown'[r] # NotShown => shown'[r] <= reqID
      BY <3>1, <3>3 DEF ShownInv
    <3>7. \A t \in Request : out[t].request # NULL => out[t].request \in Request /\ t # q
      BY <2>2 DEF TypeOK, ShownInv
    <3>8. \A t \in Request : out[t].request # NULL =>
            shown'[out[t].request] # NotShown /\ thread'[t] \in {"unlocked", "ended"}
      BY <3>1, <3>3, <3>4, <3>7 DEF ShownInv
    <3> QED BY <2>2, <3>1, <3>2, <3>3, <3>5, <3>6, <3>8 DEF ShownInv
  <2> QED BY <2>3, <2>4
<1>2. CASE ResetTest
  BY <1>2 DEF ShownInv, ResetTest, ni, user
<1>3. CASE ResetFree
  BY <1>3 DEF ShownInv, ResetFree, ni, user
<1>4. CASE ResetClear
  BY <1>4 DEF ShownInv, ResetClear, user
<1>5. CASE ResetSignal
  BY <1>5 DEF ShownInv, ResetSignal, user
<1>6. ASSUME NEW t \in Request, InformNiResponse(t) PROVE ShownInv'
  <2>1. out[t].request # NULL => shown[out[t].request] # NotShown
    BY DEF ShownInv
  <2>2. \A r \in Request : informed'[r] = informed[r] \/ r = out[t].request
    BY <1>6 DEF TypeOK, InformNiResponse, informNiResponse
  <2>3. \A u \in Request : out'[u].request # NULL => out'[u] = out[u]
    BY <1>6, Values DEF TypeOK, InformNiResponse
  <2> QED BY <1>6, <2>1, <2>2, <2>3, Values DEF TypeOK, ShownInv, InformNiResponse, ni, user
<1>7. ASSUME NEW t \in Request, Begin(t) \/ Woken(t) \/ TimedOut(t) PROVE ShownInv'
  <2>1. CASE thread[t] = "started" /\ thread' = [thread EXCEPT ![t] = "waiting"]
             /\ UNCHANGED <<ni, out, requests, user, reset, informed, frees, restarts, ghosts>>
    BY <2>1 DEF TypeOK, ShownInv, ni, user
  <2>2. ASSUME NEW answer \in Answer, conclude(t, answer), thread[t] \in {"started", "waiting"}
        PROVE  ShownInv'
    BY <2>2, Values DEF TypeOK, ShownInv, conclude, payload, user
  <2> QED BY <1>7, <2>1, <2>2, Concludes
<1>8. ASSUME NEW t \in Request, Finish(t) PROVE ShownInv'
  BY <1>8 DEF TypeOK, ShownInv, Finish, user
<1>9. ASSUME NEW f \in Caller, NEW r \in Request, NEW answer \in Response,
             RespondTest(f, r, answer)
      PROVE  ShownInv'
  BY <1>9 DEF ShownInv, RespondTest, ni, ghosts
<1>10. ASSUME NEW f \in Caller, RespondSet(f) PROVE ShownInv'
  BY <1>10 DEF ShownInv, RespondSet
<1> QED BY <1>1, <1>2, <1>3, <1>4, <1>5, <1>6, <1>7, <1>8, <1>9, <1>10 DEF Next, NiThread

\* The steps of a reset.
LEMMA ResetStep ==
  ASSUME IInv, Next
  PROVE  ResetInv'
<1> USE DEF IInv
<1>1. CASE RequestHandler
  BY <1>1 DEF ResetInv, RequestHandler, turnAway
<1>2. CASE ResetTest
  BY <1>2, NiAssumption, Values DEF TypeOK, ResetInv, ResetTest, Idle, ni, ghosts
<1>3. CASE ResetFree
  BY <1>3 DEF TypeOK, ResetInv, ResetFree, Idle, ni, ghosts
<1>4. CASE ResetClear
  BY <1>4 DEF TypeOK, ResetInv, ResetClear, Idle
<1>5. CASE ResetSignal
  BY <1>5 DEF TypeOK, ResetInv, ResetSignal, Idle
<1>6. ASSUME NEW t \in Request, InformNiResponse(t) PROVE ResetInv'
  BY <1>6 DEF ResetInv, InformNiResponse, ni
<1>7. ASSUME NEW t \in Request, Begin(t) \/ Woken(t) \/ TimedOut(t) PROVE ResetInv'
  <2>1. CASE UNCHANGED <<ni, out, requests, user, reset, informed, frees, restarts, ghosts>>
    BY <2>1 DEF ResetInv, ni, ghosts
  <2>2. ASSUME NEW answer \in Answer, conclude(t, answer)
        PROVE  ResetInv'
    <3>1. rawRequest' = NULL /\ reset' = reset
      BY <2>2 DEF conclude
    <3>2. torn \subseteq torn'
      BY <2>2 DEF conclude
    <3>3. rawRequest # NULL /\ reset.step \in {"free", "clear"} => rawRequest \in torn'
      BY <2>2 DEF conclude
    <3> QED BY <3>1, <3>2, <3>3 DEF ResetInv
  <2> QED BY <1>7, <2>1, <2>2, Concludes
<1>8. ASSUME NEW t \in Request, Finish(t) PROVE ResetInv'
  BY <1>8 DEF ResetInv, Finish, ghosts
<1>9. ASSUME NEW f \in Caller, NEW r \in Request, NEW answer \in Response,
             RespondTest(f, r, answer)
      PROVE  ResetInv'
  BY <1>9 DEF ResetInv, RespondTest, ni, ghosts
<1>10. ASSUME NEW f \in Caller, RespondSet(f) PROVE ResetInv'
  BY <1>10 DEF ResetInv, RespondSet
<1> QED BY <1>1, <1>2, <1>3, <1>4, <1>5, <1>6, <1>7, <1>8, <1>9, <1>10 DEF Next, NiThread

\* What a message that is run does to the data it carries, and what a thread
\* that ends gives its message.
LEMMA MessageRun ==
  ASSUME IInv, NEW t \in Request, InformNiResponse(t)
  PROVE  /\ \A u \in Request : out'[u].request # NULL => out'[u] = out[u] /\ u # t
         /\ \A r \in Request :
              frees'[r] = IF r = out[t].request THEN frees[r] + 1 ELSE frees[r]
         /\ \A r \in Request :
              informed'[r] = IF r = out[t].request THEN out[t].resp ELSE informed[r]
BY Values DEF IInv, TypeOK, InformNiResponse, informNiResponse, free

LEMMA MessageMade ==
  ASSUME IInv, NEW t \in Request, NEW answer \in Answer, conclude(t, answer)
  PROVE  \/ out' = out
         \/ /\ rawRequest # NULL
            /\ \A u \in Request : u # t => out'[u] = out[u]
            /\ out'[t].resp = answer
            /\ \/ out'[t].request = rawRequest
               \/ out'[t].request = NULL /\ reset.step = "clear"
BY DEF IInv, TypeOK, conclude, payload

\* The data of each request.
LEMMA FreeStep ==
  ASSUME IInv, Next
  PROVE  FreeInv'
<1> USE DEF IInv
<1>1. CASE RequestHandler
  <2>1. PICK q \in Request : q = requests + 1 /\ q = requests'
    BY <1>1, NiAssumption DEF TypeOK, RequestHandler, Request
  <2>2. frees[q] = 0 /\ rawRequest # q /\ \A t \in Request : out[t].request # q
    BY <2>1 DEF TypeOK, FreshInv, Request
  <2>3. UNCHANGED <<reset, out, torn>> /\ reset.step = "idle"
    BY <1>1 DEF RequestHandler
  <2>4. CASE rawRequest # NULL
    <3>1. rawRequest' = rawRequest /\ frees' = [frees EXCEPT ![q] = 1]
      BY <1>1, <2>1, <2>2, <2>4, Values DEF TypeOK, RequestHandler, turnAway, free
    <3>2. frees'[q] = 1 /\ \A r \in Request : r # q => frees'[r] = frees[r]
      BY <3>1 DEF TypeOK
    <3> QED BY <2>2, <2>3, <3>1, <3>2 DEF TypeOK, FreeInv
  <2>5. CASE rawRequest = NULL
    BY <1>1, <2>1, <2>2, <2>3, <2>5 DEF FreeInv, RequestHandler
  <2> QED BY <2>4, <2>5
<1>2. CASE ResetTest
  BY <1>2, Values DEF TypeOK, FreeInv, ResetTest, Idle, ni, ghosts
<1>3. CASE ResetFree
  <2>1. reset.saw \in Request /\ frees[reset.saw] = 0
    BY <1>3 DEF TypeOK, ResetInv, ResetFree, FreeInv
  <2>2. \/ frees' = frees /\ reset.saw \in torn
        \/ frees' = [frees EXCEPT ![reset.saw] = @ + 1]
    <3>1. PICK r \in {reset.saw, rawRequest} : free(r)
      BY <1>3 DEF ResetFree
    <3>2. r \in {NULL, reset.saw} /\ (r = NULL => reset.saw \in torn)
      BY <1>3, <2>1, <3>1, Values DEF ResetInv, ResetFree
    <3> QED BY <2>1, <3>1, <3>2 DEF free
  <2>3. /\ frees'[reset.saw] \in 0..1 /\ (reset.saw \notin torn => frees'[reset.saw] = 1)
        /\ \A r \in Request : r # reset.saw => frees'[r] = frees[r]
    BY <2>1, <2>2 DEF TypeOK
  <2>4. reset'.step = "clear" /\ reset'.saw = reset.saw
    BY <1>3 DEF TypeOK, ResetFree
  <2>5. \A r \in Request : frees'[r] <= 2 /\ (r \notin torn => frees'[r] <= 1)
    BY <2>3, <2>1 DEF TypeOK, FreeInv
  <2>6. UNCHANGED <<rawRequest, out, torn>> /\ reset.step = "free"
    BY <1>3 DEF ResetFree, ni, ghosts
  <2>7. reset.saw \notin torn => \A t \in Request : out[t].request # reset.saw
    BY <2>1, <2>6 DEF FreeInv, ResetInv
  <2>8. \A t \in Request : out[t].request # NULL =>
          /\ frees'[out[t].request] <= 1
          /\ out[t].request \notin torn => frees'[out[t].request] = 0
    BY <2>3, <2>7 DEF TypeOK, FreeInv
  <2>9. \A r \in Request : rawRequest = r => \A t \in Request : out[t].request # r
    BY DEF FreeInv
  <2>10. \A t \in Request : out[t].request # NULL =>
           \A u \in Request : out[u].request = out[t].request => u = t
    BY DEF FreeInv
  <2> QED BY <2>3, <2>4, <2>5, <2>6, <2>8, <2>9, <2>10 DEF FreeInv
<1>4. CASE ResetClear
  BY <1>4, Values DEF TypeOK, FreeInv, ResetClear, ghosts
<1>5. CASE ResetSignal
  BY <1>5 DEF TypeOK, FreeInv, ResetInv, ResetSignal, Idle, ghosts
<1>6. ASSUME NEW t \in Request, InformNiResponse(t) PROVE FreeInv'
  <2>1. UNCHANGED <<rawRequest, reset, torn>> /\ reset.step = "idle"
    BY <1>6 DEF InformNiResponse, ni, ghosts
  <2>2. /\ \A u \in Request : out'[u].request # NULL => out'[u] = out[u] /\ u # t
        /\ \A r \in Request :
             frees'[r] = IF r = out[t].request THEN frees[r] + 1 ELSE frees[r]
    BY <1>6, MessageRun
  <2>3. \A r \in Request : out[t].request = r =>
          rawRequest # r /\ frees[r] <= 1 /\ (r \notin torn => frees[r] = 0)
    BY Values DEF FreeInv
  <2>4. \A u \in Request : out'[u].request # NULL =>
          out'[u].request \in Request /\ out'[u].request # out[t].request
    BY <2>2 DEF TypeOK, FreeInv
  <2>5. \A r \in Request : frees'[r] <= 2 /\ (r \notin torn => frees'[r] <= 1)
    BY <2>2, <2>3 DEF TypeOK, FreeInv
  <2>6. \A r \in Request : rawRequest = r =>
          frees'[r] = 0 /\ \A u \in Request : out'[u].request # r
    BY <2>1, <2>2, <2>3, Values DEF FreeInv
  <2>7. \A u \in Request : out'[u].request # NULL =>
          /\ frees'[out'[u].request] <= 1
          /\ out'[u].request \notin torn => frees'[out'[u].request] = 0
          /\ \A w \in Request : out'[w].request = out'[u].request => w = u
    BY <2>2, <2>4 DEF FreeInv
  <2> QED BY <2>1, <2>5, <2>6, <2>7 DEF FreeInv
<1>7. ASSUME NEW t \in Request, Begin(t) \/ Woken(t) \/ TimedOut(t) PROVE FreeInv'
  <2>1. CASE thread[t] = "started" /\ thread' = [thread EXCEPT ![t] = "waiting"]
             /\ UNCHANGED <<ni, out, requests, user, reset, informed, frees, restarts, ghosts>>
    BY <2>1 DEF FreeInv, ni, ghosts
  <2>2. ASSUME NEW answer \in Answer, conclude(t, answer), thread[t] \in {"started", "waiting"}
        PROVE  FreeInv'
    <3>1. UNCHANGED <<reset, frees>> /\ rawRequest' = NULL /\ torn \subseteq torn'
      BY <2>2 DEF conclude
    <3>2. rawRequest # NULL /\ reset.step \in {"free", "clear"} => rawRequest \in torn'
      BY <2>2 DEF conclude
    <3>3. CASE out' = out
      BY <3>1, <3>3, Values DEF FreeInv
    <3>4. CASE rawRequest # NULL /\ out' # out
      <4>1. rawRequest \in Request /\ \A u \in Request : out[u].request # rawRequest
        BY <3>4 DEF TypeOK, FreeInv
      <4>2. /\ \A u \in Request : u # t => out'[u] = out[u]
            /\ out'[t].request \in {NULL, rawRequest}
        BY <2>2, <3>4, MessageMade
      <4>3. frees[rawRequest] <= 1 /\ (rawRequest \notin torn' => frees[rawRequest] = 0)
        BY <3>2, <3>4, <4>1 DEF TypeOK, FreeInv, ResetInv
      <4>4. \A u \in Request : out'[u].request # NULL =>
              /\ frees[out'[u].request] <= 1
              /\ out'[u].request \notin torn' => frees[out'[u].request] = 0
              /\ \A w \in Request : out'[w].request = out'[u].request => w = u
        BY <3>1, <4>1, <4>2, <4>3 DEF FreeInv
      <4> QED BY <3>1, <4>4, Values DEF FreeInv
    <3> QED BY <2>2, <3>3, <3>4, MessageMade
  <2> QED BY <1>7, <2>1, <2>2, Concludes
<1>8. ASSUME NEW t \in Request, Finish(t) PROVE FreeInv'
  BY <1>8 DEF FreeInv, Finish, ghosts
<1>9. ASSUME NEW f \in Caller, NEW r \in Request, NEW answer \in Response,
             RespondTest(f, r, answer)
      PROVE  FreeInv'
  BY <1>9 DEF FreeInv, RespondTest, ni, ghosts
<1>10. ASSUME NEW f \in Caller, RespondSet(f) PROVE FreeInv'
  BY <1>10 DEF FreeInv, RespondSet
<1> QED BY <1>1, <1>2, <1>3, <1>4, <1>5, <1>6, <1>7, <1>8, <1>9, <1>10 DEF Next, NiThread

\* Where the data of a request that is neither torn nor exposed is.
LEMMA EndStep ==
  ASSUME IInv, Next
  PROVE  FreedInTheEnd'
<1> USE DEF IInv
<1> SUFFICES ASSUME NEW r \in Request \ (torn' \cup exposed'), r <= requests', frees'[r] = 0
             PROVE  (rawRequest = r \/ Carried(r) \/ "IGNORE" \in said[r])'
  BY DEF FreedInTheEnd
<1>0. r \notin torn \cup exposed
  BY DEF Next, NiThread, RequestHandler, ResetTest, ResetFree, ResetClear, ResetSignal,
         InformNiResponse, Begin, Woken, TimedOut, conclude, Finish, RespondTest, RespondSet, ghosts
<1>old. r <= requests /\ frees[r] = 0 => rawRequest = r \/ Carried(r) \/ "IGNORE" \in said[r]
  BY <1>0 DEF FreedInTheEnd
<1>1. CASE RequestHandler
  <2>1. PICK q \in Request : q = requests + 1 /\ q = requests'
    BY <1>1, NiAssumption DEF TypeOK, RequestHandler, Request
  <2>2. frees[q] = 0
    BY <2>1 DEF TypeOK, FreshInv, Request
  <2>3. UNCHANGED <<out, said>>
    BY <1>1 DEF RequestHandler
  <2>4. CASE r = q
    <3>1. CASE rawRequest # NULL
      BY <1>1, <2>1, <2>2, <2>4, <3>1, Values DEF TypeOK, RequestHandler, turnAway, free
    <3>2. CASE rawRequest = NULL
      BY <1>1, <2>1, <2>4, <3>2 DEF RequestHandler
    <3> QED BY <3>1, <3>2
  <2>5. CASE r # q
    <3>1. r <= requests /\ frees[r] = 0
      <4>1. r <= requests
        BY <2>1, <2>5 DEF TypeOK, Request
      <4>2. frees'[r] = frees[r]
        BY <1>1, <2>1, <2>5 DEF TypeOK, RequestHandler, turnAway, free
      <4> QED BY <4>1, <4>2
    <3>2. rawRequest = r => rawRequest' = r
      BY <1>1, <2>1, Values DEF RequestHandler, turnAway
    <3> QED BY <1>old, <2>3, <3>1, <3>2 DEF Carried
  <2> QED BY <2>4, <2>5
<1>2. CASE ResetTest
  BY <1>2, <1>old DEF ResetTest, ni, user, Carried
<1>3. CASE ResetFree
  <2>1. frees[r] = 0
    BY <1>3 DEF TypeOK, ResetFree, free
  <2> QED BY <1>3, <1>old, <2>1 DEF ResetFree, ni, user, Carried
<1>4. CASE ResetClear
  <2>1. rawRequest # r
    BY <1>0, <1>4, Values DEF TypeOK, ResetClear, ResetInv, FreeInv
  <2> QED BY <1>4, <1>old, <2>1 DEF ResetClear, user, Carried
<1>5. CASE ResetSignal
  BY <1>5, <1>old DEF ResetSignal, user, Carried
<1>6. ASSUME NEW t \in Request, InformNiResponse(t)
      PROVE  (rawRequest = r \/ Carried(r) \/ "IGNORE" \in said[r])'
  <2>1. frees[r] = 0 /\ r # out[t].request
    BY <1>6, MessageRun DEF TypeOK
  <2>2. \A u \in Request : out[u].request = r => out'[u] = out[u]
    BY <1>6, <2>1 DEF TypeOK, InformNiResponse
  <2> QED BY <1>6, <1>old, <2>1, <2>2 DEF InformNiResponse, ni, user, Carried
<1>7. ASSUME NEW t \in Request, Begin(t) \/ Woken(t) \/ TimedOut(t)
      PROVE  (rawRequest = r \/ Carried(r) \/ "IGNORE" \in said[r])'
  <2>1. CASE thread[t] = "started" /\ thread' = [thread EXCEPT ![t] = "waiting"]
             /\ UNCHANGED <<ni, out, requests, user, reset, informed, frees, restarts, ghosts>>
    BY <1>old, <2>1 DEF ni, user, Carried
  <2>2. ASSUME NEW answer \in Answer, conclude(t, answer), thread[t] \in {"started", "waiting"},
               answer = "NORESP" \/ (respRecvd /\ answer = resp)
        PROVE  (rawRequest = r \/ Carried(r) \/ "IGNORE" \in said[r])'
    <3>1. UNCHANGED <<said, requests, frees>>
      BY <2>2 DEF conclude, user
    <3>2. CASE rawRequest = r
      <4>1. reset.step \notin {"free", "clear"} /\ r # NULL
        BY <2>2, <3>2, Values DEF conclude
      <4>2. CASE answer = "IGNORE"
        BY <1>0, <2>2, <3>1, <3>2, <4>2 DEF ConsentInv
      <4>3. CASE answer # "IGNORE"
        <5>1. out' = [out EXCEPT ![t] = [request |-> r, resp |-> answer]]
          BY <2>2, <3>2, <4>1, <4>3 DEF conclude, payload
        <5>2. out'[t].request = r
          BY <5>1 DEF TypeOK
        <5> QED BY <5>2 DEF Carried
      <4> QED BY <4>2, <4>3
    <3>3. CASE rawRequest # r /\ Carried(r)
      <4>1. PICK u \in Request : out[u].request = r
        BY <3>3 DEF Carried
      <4>2. u # t
        BY <2>2, <4>1, Values DEF ShownInv
      <4>3. out'[u] = out[u]
        BY <2>2, <4>2, MessageMade
      <4> QED BY <4>1, <4>3 DEF Carried
    <3>4. CASE "IGNORE" \in said[r]
      BY <3>1, <3>4
    <3> QED BY <1>old, <3>1, <3>2, <3>3, <3>4
  <2> QED BY <1>7, <2>1, <2>2, Concludes
<1>8. ASSUME NEW t \in Request, Finish(t)
      PROVE  (rawRequest = r \/ Carried(r) \/ "IGNORE" \in said[r])'
  BY <1>8, <1>old DEF Finish, user, Carried
<1>9. ASSUME NEW f \in Caller, NEW q \in Request, NEW answer \in Response,
             RespondTest(f, q, answer)
      PROVE  (rawRequest = r \/ Carried(r) \/ "IGNORE" \in said[r])'
  <2>1. said[r] \subseteq said'[r]
    BY <1>9 DEF TypeOK, RespondTest
  <2> QED BY <1>9, <1>old, <2>1 DEF RespondTest, ni, Carried
<1>10. ASSUME NEW f \in Caller, RespondSet(f)
       PROVE  (rawRequest = r \/ Carried(r) \/ "IGNORE" \in said[r])'
  BY <1>10, <1>old DEF RespondSet, Carried
<1> QED BY <1>1, <1>2, <1>3, <1>4, <1>5, <1>6, <1>7, <1>8, <1>9, <1>10 DEF Next, NiThread

\* A request that is not exposed afterwards was not exposed before.
LEMMA ExposedGrows == Next => exposed \subseteq exposed'
BY DEF Next, NiThread, RequestHandler, ResetTest, ResetFree, ResetClear, ResetSignal,
       InformNiResponse, Begin, Woken, TimedOut, conclude, Finish, RespondTest, RespondSet, ghosts

\* Threads, ids and answers around a request that is not exposed.
LEMMA ConsentStep ==
  ASSUME IInv, Next
  PROVE  ConsentInv'
<1> USE DEF IInv
<1> DEFINE Safe == Request \ exposed
           Session(r) == /\ \A t \in Request : thread[t] \in {"started", "waiting"} => t = r
                         /\ \A t \in Request : thread[t] # "unlocked"
                         /\ \A q \in Request : shown[q] = reqID <=> q = r
                         /\ respRecvd => resp \in said[r]
           Sessions == \A r \in Safe : rawRequest = r => Session(r)
           Callers  == \A f \in Caller : responding[f].request \in Safe =>
                         responding[f].resp \in said[responding[f].request]
           Answers  == \A t \in Request : out[t].request \in Safe =>
                         out[t].resp \in {"NORESP"} \cup said[out[t].request]
           Told     == \A r \in Safe : Consented(r)
<1>inv. /\ Sessions /\ Callers /\ Answers /\ Told
        /\ Sessions' /\ Callers' /\ Answers' /\ Told' => ConsentInv'
  BY DEF ConsentInv, ConsentUnlessExposed
<1>safe. Safe' \subseteq Safe
  BY ExposedGrows
<1>1. CASE RequestHandler
  <2>1. PICK q \in Request : q = requests + 1 /\ q = requests'
    BY <1>1, NiAssumption DEF TypeOK, RequestHandler, Request
  <2>2. UNCHANGED <<reqID, resp, respRecvd, out, said, responding, informed>>
    BY <1>1 DEF RequestHandler
  <2>3. Callers' /\ Answers' /\ Told'
    BY <1>inv, <1>safe, <2>2 DEF Consented
  <2>4. CASE rawRequest # NULL
    <3>1. UNCHANGED <<rawRequest, thread, shown, exposed>>
      BY <1>1, <2>4 DEF RequestHandler, turnAway
    <3> QED BY <1>inv, <2>2, <2>3, <3>1
  <2>5. CASE rawRequest = NULL
    <3>1. /\ rawRequest' = q /\ shown' = [shown EXCEPT ![q] = reqID]
          /\ exposed' = exposed \cup (IF amongRemains THEN {q} ELSE {})
          /\ \E created \in BOOLEAN :
               thread' = [thread EXCEPT ![q] = IF created THEN "started" ELSE "none"]
      BY <1>1, <2>1, <2>5 DEF RequestHandler
    <3>2. SUFFICES ASSUME q \in Safe' PROVE Session(q)'
      BY <1>inv, <2>3, <3>1
    <3>3. ~amongRemains
      BY <3>1, <3>2
    <3>4. /\ \A t \in Request : t # q => thread'[t] = thread[t]
          /\ thread'[q] \in {"started", "none"}
          /\ shown'[q] = reqID /\ \A r \in Request : r # q => shown'[r] = shown[r]
      BY <3>1 DEF TypeOK
    <3> QED BY <2>2, <3>3, <3>4 DEF amongRemains
  <2> QED BY <2>4, <2>5
<1>2. CASE ResetTest
  BY <1>2, <1>inv DEF ResetTest, ni, user, ghosts, Consented
<1>3. CASE ResetFree
  BY <1>3, <1>inv DEF ResetFree, ni, user, ghosts, Consented
<1>4. CASE ResetClear
  BY <1>4, <1>inv, Values DEF ResetClear, user, ghosts, Consented
<1>5. CASE ResetSignal
  <2>1. rawRequest = NULL
    BY <1>5 DEF ResetSignal, ResetInv
  <2> QED BY <1>5, <1>inv, <2>1, Values DEF ResetSignal, user, ghosts, Consented
<1>6. ASSUME NEW t \in Request, InformNiResponse(t) PROVE ConsentInv'
  <2>1. UNCHANGED <<rawRequest, reqID, resp, respRecvd, thread, shown, said, responding, exposed>>
    BY <1>6 DEF InformNiResponse, ni, user, ghosts
  <2>2. Answers'
    BY <1>6, <1>inv, <2>1, MessageRun, Values
  <2>3. Told'
    BY <1>6, <1>inv, <2>1, MessageRun DEF Consented
  <2> QED BY <1>inv, <2>1, <2>2, <2>3
<1>7. ASSUME NEW t \in Request, Begin(t) \/ Woken(t) \/ TimedOut(t) PROVE ConsentInv'
  <2>1. CASE thread[t] = "started" /\ thread' = [thread EXCEPT ![t] = "waiting"]
             /\ UNCHANGED <<ni, out, requests, user, reset, informed, frees, restarts, ghosts>>
    <3>1. \A u \in Request :
            /\ thread'[u] \in {"started", "waiting"} <=> thread[u] \in {"started", "waiting"}
            /\ thread'[u] = "unlocked" <=> thread[u] = "unlocked"
      BY <2>1 DEF TypeOK
    <3> QED BY <1>inv, <2>1, <3>1 DEF ni, user, ghosts, Consented
  <2>2. ASSUME NEW answer \in Answer, conclude(t, answer), thread[t] \in {"started", "waiting"},
               answer = "NORESP" \/ (respRecvd /\ answer = resp)
        PROVE  ConsentInv'
    <3>1. UNCHANGED <<said, responding, informed, exposed>> /\ rawRequest' = NULL
      BY <2>2 DEF conclude, user
    <3>2. rawRequest \in Safe => answer \in {"NORESP"} \cup said[rawRequest]
      BY <1>inv, <2>2
    <3>3. Answers'
      BY <1>inv, <2>2, <3>1, <3>2, MessageMade, Values
    <3> QED BY <1>inv, <3>1, <3>3, Values DEF Consented
  <2> QED BY <1>7, <2>1, <2>2, Concludes
<1>8. ASSUME NEW t \in Request, Finish(t) PROVE ConsentInv'
  <2>1. thread[t] = "unlocked" /\ UNCHANGED <<rawRequest, out, said, responding, informed, exposed>>
    BY <1>8 DEF Finish, user, ghosts
  <2>2. rawRequest \notin Safe
    BY <1>inv, <2>1
  <2> QED BY <1>inv, <2>1, <2>2 DEF Consented
<1>9. ASSUME NEW f \in Caller, NEW q \in Request, NEW answer \in Response,
             RespondTest(f, q, answer)
      PROVE  ConsentInv'
  <2>1. UNCHANGED <<rawRequest, reqID, resp, respRecvd, thread, out, shown, informed, exposed>>
    BY <1>9 DEF RespondTest, ni, ghosts
  <2>2. /\ answer \in said'[q]
        /\ \A r \in Request : said[r] \subseteq said'[r]
    BY <1>9 DEF TypeOK, RespondTest
  <2>3. rawRequest \in Safe /\ shown[q] = reqID => q = rawRequest
    BY <1>inv
  <2>4. \A g \in Caller : \/ responding'[g] = responding[g]
                          \/ responding'[g].request = NULL
                          \/ /\ responding'[g] = [request |-> rawRequest, resp |-> answer]
                             /\ shown[q] = reqID
    BY <1>9, Values DEF TypeOK, RespondTest
  <2>5. Callers'
    BY <1>inv, <2>1, <2>2, <2>3, <2>4, Values
  <2> QED BY <1>inv, <2>1, <2>2, <2>5 DEF Consented
<1>10. ASSUME NEW f \in Caller, RespondSet(f) PROVE ConsentInv'
  <2>1. UNCHANGED <<rawRequest, reqID, thread, out, shown, said, informed>>
    BY <1>10 DEF RespondSet
  <2>2. resp' = responding[f].resp /\ respRecvd'
    BY <1>10 DEF RespondSet
  <2>3. \A g \in Caller : responding'[g] = responding[g] \/ responding'[g].request = NULL
    BY <1>10, Values DEF TypeOK, RespondSet
  <2>4. rawRequest \in Safe' => responding[f].request = rawRequest
    BY <1>10, Values DEF RespondSet
  <2>5. Sessions'
    BY <1>inv, <1>safe, <2>1, <2>2, <2>4
  <2>6. Callers'
    BY <1>inv, <1>safe, <2>1, <2>3, Values
  <2> QED BY <1>inv, <1>safe, <2>1, <2>5, <2>6 DEF Consented
<1> QED BY <1>1, <1>2, <1>3, <1>4, <1>5, <1>6, <1>7, <1>8, <1>9, <1>10 DEF Next, NiThread

\* A step that changes nothing changes none of it.
LEMMA Stutter ==
  ASSUME IInv, UNCHANGED vars
  PROVE  IInv'
BY DEF IInv, vars, ni, user, ghosts, TypeOK, CountInv, Ended, FreshInv, ShownInv,
   NeverAnswersTheIgnored, TurnedAway, ResetInv, FreeInv, FreedInTheEnd, Carried, ConsentInv,
   ConsentUnlessExposed, Consented

LEMMA Invariant == Spec => []IInv
<1>1. IInv /\ [Next]_vars => IInv'
  BY TypeStep, FreshStep, ShownStep, ResetStep, FreeStep, EndStep, ConsentStep, Stutter DEF IInv
<1> QED BY <1>1, InitHolds, PTL DEF Spec

-------------------------------------------------------------------------------
\* Fields, threads and answers keep their types for any number of requests and
\* callers; the id never runs past the number of requests.
THEOREM TypeCorrect == Spec => []TypeOK
BY Invariant, PTL DEF IInv

\* The modem is told the user's own answer to each request, through late,
\* repeated and contradicting answers and restarts, except for a request that
\* began among the remains of others or that a late answer for another one hit
\* (ni_thread_proc, loc_eng_ni_respond).
THEOREM ConsentSound == Spec => []ConsentUnlessExposed
<1>1. IInv => ConsentUnlessExposed
  BY DEF IInv, ConsentInv
<1> QED BY <1>1, Invariant, PTL

\* The data of each request is freed once, and not while an answer carries it,
\* restarts included, unless its thread ended in the middle of the reset; what
\* was turned away is never answered (loc_eng_ni_request_handler,
\* loc_eng_ni_reset_on_engine_restart).
THEOREM DataSound == Spec => []DataAccounted
<1>1. IInv => DataAccounted
  <2> SUFFICES ASSUME IInv PROVE FreedOnce
    BY DEF IInv, ShownInv, DataAccounted
  <2>1. \A r \in Request \ torn : frees[r] <= 1
    BY DEF IInv, FreeInv
  <2>2. \A r \in Request \ torn : Carried(r) => frees[r] = 0
    BY Values DEF IInv, FreeInv, Carried
  <2> QED BY <2>1, <2>2 DEF FreedOnce
<1> QED BY <1>1, Invariant, PTL
=============================================================================
