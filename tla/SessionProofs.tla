---------------------------- MODULE SessionProofs ----------------------------
(***************************************************************************)
(* Theorems about LocEngSession for any kinds of aiding data and any       *)
(* bounds on the queue, the deletions and the restarts.                    *)
(*                                                                         *)
(* None of the invariants about the modem and the clean-up is inductive.   *)
(* FixInv adds that a modem that is down has no fix and that, as long as   *)
(* no single fix was asked for, neither the adapter nor the modem knows    *)
(* one; CleanInv that no start is queued behind a clean-up.                *)
(***************************************************************************)
EXTENDS LocEngSession, TLAPS

\* Some message of the sequence is of one of the kinds.
Has(s, kinds) == \E i \in DOMAIN s : s[i].kind \in kinds

FixInv ==
  /\ ~up => fix = "none"
  /\ ~single => mFixCriteria.recurrence = "PERIODIC" /\ fix # "SINGLE"
  /\ FixMatchesSession

CleanInv == CleanupStops /\ (cleaned => ~Queued({"StartFix"}))

IInv == TypeOK /\ msgs \in Seq(Message) /\ NavigatingIsTold /\ FixInv /\ CleanInv

-------------------------------------------------------------------------------
\* What the queue holds after a message was sent.
LEMMA AppendHas ==
  ASSUME NEW s \in Seq(Message), NEW m \in Message, NEW kinds
  PROVE  /\ Append(s, m) \in Seq(Message)
         /\ Has(Append(s, m), kinds) <=> Has(s, kinds) \/ m.kind \in kinds
<1>1. /\ Append(s, m) \in Seq(Message)
      /\ DOMAIN Append(s, m) = 1 .. Len(s) + 1
      /\ DOMAIN s = 1 .. Len(s)
      /\ \A i \in 1 .. Len(s) : Append(s, m)[i] = s[i]
      /\ Append(s, m)[Len(s) + 1] = m
      /\ Len(s) \in Nat
  OBVIOUS
<1>2. ASSUME Has(s, kinds) \/ m.kind \in kinds PROVE Has(Append(s, m), kinds)
  BY <1>1, <1>2 DEF Has
<1>3. ASSUME Has(Append(s, m), kinds) PROVE Has(s, kinds) \/ m.kind \in kinds
  <2>1. PICK i \in 1 .. Len(s) + 1 : Append(s, m)[i].kind \in kinds
    BY <1>1, <1>3 DEF Has
  <2>2. CASE i = Len(s) + 1 BY <1>1, <2>1, <2>2
  <2>3. CASE i \in 1 .. Len(s) BY <1>1, <2>1, <2>3 DEF Has
  <2> QED BY <1>1, <2>2, <2>3
<1> QED BY <1>1, <1>2, <1>3

\* What the queue holds apart from its first message.
LEMMA TailHas ==
  ASSUME NEW s \in Seq(Message), s # <<>>, NEW kinds
  PROVE  /\ Head(s) \in Message /\ Tail(s) \in Seq(Message)
         /\ Has(s, kinds) <=> Head(s).kind \in kinds \/ Has(Tail(s), kinds)
<1>1. /\ Head(s) \in Message /\ Tail(s) \in Seq(Message)
      /\ Len(s) \in Nat \ {0}
      /\ DOMAIN s = 1 .. Len(s) /\ DOMAIN Tail(s) = 1 .. Len(s) - 1
      /\ Head(s) = s[1]
      /\ \A i \in 1 .. Len(s) - 1 : Tail(s)[i] = s[i + 1]
  OBVIOUS
<1>2. ASSUME Has(s, kinds) PROVE Head(s).kind \in kinds \/ Has(Tail(s), kinds)
  <2>1. PICK i \in 1 .. Len(s) : s[i].kind \in kinds
    BY <1>1, <1>2 DEF Has
  <2>2. CASE i = 1 BY <1>1, <2>1, <2>2
  <2>3. CASE i # 1
    <3>1. i - 1 \in 1 .. Len(s) - 1 /\ s[i] = Tail(s)[i - 1]
      BY <1>1, <2>3
    <3> QED BY <1>1, <2>1, <3>1 DEF Has
  <2> QED BY <2>2, <2>3
<1>3. ASSUME Head(s).kind \in kinds PROVE Has(s, kinds)
  BY <1>1, <1>3 DEF Has
<1>4. ASSUME Has(Tail(s), kinds) PROVE Has(s, kinds)
  <2>1. PICK i \in 1 .. Len(s) - 1 : Tail(s)[i].kind \in kinds
    BY <1>1, <1>4 DEF Has
  <2>2. i + 1 \in DOMAIN s /\ s[i + 1].kind \in kinds
    BY <1>1, <2>1
  <2> QED BY <2>2 DEF Has
<1> QED BY <1>1, <1>2, <1>3, <1>4

\* Queued, of the queue before and after a step.
LEMMA QueuedIsHas ==
  ASSUME NEW kinds
  PROVE  (Queued(kinds) <=> Has(msgs, kinds)) /\ (Queued(kinds)' <=> Has(msgs', kinds))
BY DEF Queued, Has

\* Every step leaves the queue as it is, appends a message to it or takes the
\* first one.
Sent(m) == m \in Message /\ msgs' = Append(msgs, m)
Taken == msgs # <<>> /\ msgs' = Tail(msgs)

LEMMA QueueAfterSend ==
  ASSUME msgs \in Seq(Message), NEW m, Sent(m), NEW kinds
  PROVE  /\ msgs' \in Seq(Message)
         /\ Queued(kinds)' <=> Queued(kinds) \/ m.kind \in kinds
BY AppendHas, QueuedIsHas DEF Sent

LEMMA QueueAfterTaken ==
  ASSUME msgs \in Seq(Message), Taken, NEW kinds
  PROVE  /\ Head(msgs) \in Message /\ msgs' \in Seq(Message)
         /\ Queued(kinds) <=> Head(msgs).kind \in kinds \/ Queued(kinds)'
BY TailHas, QueuedIsHas DEF Taken

\* The messages that the handlers take apart.
LEMMA MessageParts ==
  ASSUME NEW m \in Message
  PROVE  /\ m.kind = "PositionMode" => m.recurrence \in Recurrence
         /\ m.kind = "DelAidData" => m.type \subseteq Aiding
         /\ m.kind = "ReportStatus" => m.status \in Status
         /\ m.kind = "ReportPosition" => m.status \in FixStatus
BY DEF Message

\* What the framework and the modem send is a message.
LEMMA MessagesAre ==
  /\ \A kind \in {"StartFix", "StopFix", "MuteOneSession", "Down", "Up"} :
       [kind |-> kind] \in Message
  /\ \A r \in Recurrence : [kind |-> "PositionMode", recurrence |-> r] \in Message
  /\ \A f \in SUBSET Aiding : [kind |-> "DelAidData", type |-> f] \in Message
  /\ \A st \in Status : [kind |-> "ReportStatus", status |-> st] \in Message
  /\ \A st \in FixStatus : [kind |-> "ReportPosition", status |-> st] \in Message
BY DEF Message

LEMMA InitHolds == Init => IInv
<1> SUFFICES ASSUME Init PROVE IInv
  OBVIOUS
<1>1. msgs \in Seq(Message) /\ ~Queued({"StartFix"})
  BY DEF Init, Queued
<1>2. {opened, cleaned, mNavigating, up, failed, single} \subseteq BOOLEAN
  BY DEF Init
<1>3. deletes \in 0..MaxDeletes /\ restarts \in 0..MaxRestarts
  BY SessionAssumption DEF Init
<1>4. TypeOK
  BY <1>1, <1>2, <1>3 DEF Init, TypeOK, Recurrence, Mode
<1> QED
  BY <1>1, <1>4 DEF Init, IInv, NavigatingIsTold, FixInv, FixMatchesSession, CleanInv, CleanupStops

-------------------------------------------------------------------------------
\* What the prover is told of each variable; TypeOK groups them.
Bools == /\ opened \in BOOLEAN /\ cleaned \in BOOLEAN /\ mNavigating \in BOOLEAN
         /\ up \in BOOLEAN /\ failed \in BOOLEAN /\ single \in BOOLEAN

LEMMA BoolsAre ==
  /\ {opened, cleaned, mNavigating, up, failed, single} \subseteq BOOLEAN <=> Bools
  /\ ({opened, cleaned, mNavigating, up, failed, single} \subseteq BOOLEAN)' <=> Bools'
BY DEF Bools

\* The calls that the handlers make keep the types.
LEMMA HandlersTyped ==
  ASSUME TypeOK
  PROVE  /\ \A status \in Status : /\ MutedBy(status) \in {"NONE", "WAIT", "IN_SESSION"}
                                   /\ Heard(status) \in {"SESSION_BEGIN", "SESSION_END"}
                                   /\ EngineAfter(status) \in {"NONE", "ENGINE_ON", "ENGINE_OFF"}
         /\ StartResult \subseteq {"SUCCESS", "GENERAL_FAILURE", "ENGINE_DOWN"}
BY DEF TypeOK, MutedBy, Heard, EngineAfter, StartResult, Status

\* Type correctness, for the calls of the framework.
LEMMA CallTyped ==
  ASSUME TypeOK, msgs \in Seq(Message), Initialise \/ Call \/ Cleanup \/ DeleteAiding
  PROVE  TypeOK' /\ msgs' \in Seq(Message)
<1>1. Bools
  BY BoolsAre DEF TypeOK
<1>2. CASE Initialise
  <2>1. Bools'
    BY <1>1, <1>2 DEF Bools, Initialise, session, modem
  <2> QED BY <1>2, <2>1, BoolsAre DEF Initialise, TypeOK, session, aiding, modem
<1>3. CASE Call
  <2>1. Bools'
    BY <1>1, <1>3 DEF Bools, Call, session, modem
  <2>2. \E m : Sent(m)
    BY <1>3, MessagesAre DEF Call, Send, Sent
  <2>3. msgs' \in Seq(Message)
    BY <2>2, QueueAfterSend
  <2> QED BY <1>3, <2>1, <2>3, BoolsAre DEF Call, TypeOK, session, aiding, modem
<1>4. CASE Cleanup
  <2>1. Bools'
    BY <1>1, <1>4 DEF Bools, Cleanup, session, modem
  <2>2. (\E m : Sent(m)) \/ UNCHANGED msgs
    BY <1>4, MessagesAre DEF Cleanup, Send, Sent
  <2>3. msgs' \in Seq(Message)
    BY <2>2, QueueAfterSend
  <2> QED BY <1>4, <2>1, <2>3, BoolsAre DEF Cleanup, TypeOK, session, aiding, modem
<1>5. CASE DeleteAiding
  <2>1. Bools'
    BY <1>1, <1>5 DEF Bools, DeleteAiding, session, modem
  <2>2. \E m : Sent(m)
    BY <1>5, MessagesAre DEF DeleteAiding, Send, Sent
  <2>3. msgs' \in Seq(Message)
    BY <2>2, QueueAfterSend
  <2>4. deletes' \in 0..MaxDeletes /\ askedAiding' \subseteq Aiding
    BY <1>5, SessionAssumption DEF DeleteAiding, TypeOK
  <2> QED BY <1>5, <2>1, <2>3, <2>4, BoolsAre DEF DeleteAiding, TypeOK, session, modem
<1> QED BY <1>2, <1>3, <1>4, <1>5

\* Type correctness, for the messages run by the worker.
LEMMA WorkerTyped ==
  ASSUME TypeOK, msgs \in Seq(Message), Worker
  PROVE  TypeOK' /\ msgs' \in Seq(Message)
<1>1. Bools /\ Taken
  BY BoolsAre DEF TypeOK, Taken, Worker, Running, StartFix, StopFix, PositionMode, ReportPosition,
     ReportStatus, DelAidData, MuteOneSession, EngineDown, EngineUp
<1>2. Head(msgs) \in Message /\ msgs' \in Seq(Message)
  BY <1>1, QueueAfterTaken
<1>3. \A i \in DOMAIN msgs' : msgs'[i] \in Message
  BY <1>2
<1>4. CASE StartFix
  <2>1. Bools'
    BY <1>1, <1>4 DEF Bools, StartFix, startFix, setInSession, StartResult, session, modem
  <2> QED
    BY <1>2, <1>3, <1>4, <2>1, BoolsAre
    DEF StartFix, startFix, setInSession, StartResult, Running, TypeOK, session, aiding, modem, Recurrence, Mode, Status
<1>5. CASE StopFix
  <2>1. Bools'
    BY <1>1, <1>5 DEF Bools, StopFix, stopFix, setInSession, StartResult, session, modem
  <2> QED
    BY <1>2, <1>3, <1>5, <2>1, BoolsAre
    DEF StopFix, stopFix, setInSession, StartResult, Running, TypeOK, session, aiding, modem, Recurrence, Mode, Status
<1>6. CASE PositionMode
  <2>1. Bools'
    BY <1>1, <1>6 DEF Bools, PositionMode, session, modem
  <2> QED
    BY <1>2, <1>3, <1>6, <2>1, BoolsAre, MessageParts
    DEF PositionMode, Running, TypeOK, session, aiding, modem, Recurrence, Mode, Status
<1>7. CASE ReportPosition
  <2>1. Bools'
    BY <1>1, <1>7 DEF Bools, ReportPosition, stopFix, setInSession, StartResult, session, modem
  <2> QED
    BY <1>2, <1>3, <1>7, <2>1, BoolsAre
    DEF ReportPosition, stopFix, setInSession, StartResult, Running, TypeOK, session, aiding, modem, Recurrence, Mode, Status
<1>8. CASE ReportStatus
  <2>1. Bools'
    BY <1>1, <1>8 DEF Bools, ReportStatus, deleteAidingData, session, modem
  <2> QED
    BY <1>2, <1>3, <1>8, <2>1, BoolsAre, MessageParts, HandlersTyped
    DEF ReportStatus, deleteAidingData, Running, TypeOK, session, aiding, modem, Recurrence, Mode, Status
<1>9. CASE DelAidData
  <2>1. Bools'
    BY <1>1, <1>9 DEF Bools, DelAidData, deleteAidingData, session, modem
  <2> QED
    BY <1>2, <1>3, <1>9, <2>1, BoolsAre, MessageParts
    DEF DelAidData, deleteAidingData, Running, TypeOK, session, aiding, modem, Recurrence, Mode, Status
<1>10. CASE MuteOneSession
  <2>1. Bools'
    BY <1>1, <1>10 DEF Bools, MuteOneSession, session, modem
  <2> QED
    BY <1>2, <1>3, <1>10, <2>1, BoolsAre
    DEF MuteOneSession, Running, TypeOK, session, aiding, modem, Recurrence, Mode, Status
<1>11. CASE EngineDown
  <2>1. Bools'
    BY <1>1, <1>11 DEF Bools, EngineDown, session, modem
  <2> QED
    BY <1>2, <1>3, <1>11, <2>1, BoolsAre, HandlersTyped
    DEF EngineDown, Running, TypeOK, session, aiding, modem, Recurrence, Mode, Status
<1>12. CASE EngineUp
  <2>1. Bools'
    BY <1>1, <1>12 DEF Bools, EngineUp, startFix, setInSession, StartResult, session, modem
  <2> QED
    BY <1>2, <1>3, <1>12, <2>1, BoolsAre, HandlersTyped
    DEF EngineUp, startFix, setInSession, StartResult, Running, TypeOK, session, aiding, modem, Recurrence, Mode, Status
<1> QED BY <1>4, <1>5, <1>6, <1>7, <1>8, <1>9, <1>10, <1>11, <1>12 DEF Worker

\* Type correctness, for the modem.
LEMMA ModemTyped ==
  ASSUME TypeOK, msgs \in Seq(Message), Modem
  PROVE  TypeOK' /\ msgs' \in Seq(Message)
<1>1. Bools
  BY BoolsAre DEF TypeOK
<1>2. Bools'
  BY <1>1 DEF Bools, Modem, ModemStatus, ModemPosition, ModemCrash, ModemBack, session, modem
<1>3. \E m : Sent(m)
  BY MessagesAre DEF Modem, ModemStatus, ModemPosition, ModemCrash, ModemBack, Send, Sent
<1>4. msgs' \in Seq(Message)
  BY <1>3, QueueAfterSend
<1>5. restarts' \in 0..MaxRestarts
  BY SessionAssumption DEF TypeOK, Modem, ModemStatus, ModemPosition, ModemCrash, ModemBack, modem
<1>6. fix' \in Recurrence \cup {"none"} /\ modemMode' \in Mode
  BY DEF TypeOK, Mode, Modem, ModemStatus, ModemPosition, ModemCrash, ModemBack, modem
<1> QED
  BY <1>2, <1>4, <1>5, <1>6, BoolsAre
  DEF TypeOK, Modem, ModemStatus, ModemPosition, ModemCrash, ModemBack, session, aiding, modem

-------------------------------------------------------------------------------
\* The invariants, one action at a time.

\* Only the handlers of start, stop, status and return tell the framework
\* anything, and only these and the report of a single fix touch the flag.
LEMMA ToldStep ==
  ASSUME TypeOK, NavigatingIsTold, Next
  PROVE  NavigatingIsTold'
<1>1. CASE Initialise \/ Call \/ Cleanup \/ DeleteAiding \/ Modem
  BY <1>1 DEF NavigatingIsTold, Initialise, Call, Cleanup, DeleteAiding, Modem, ModemStatus,
     ModemPosition, ModemCrash, ModemBack, session
<1>2. CASE StartFix
  BY <1>2 DEF NavigatingIsTold, StartFix, setInSession, session
<1>3. CASE StopFix
  BY <1>3 DEF NavigatingIsTold, StopFix, setInSession, session
<1>4. CASE ReportPosition
  BY <1>4 DEF NavigatingIsTold, ReportPosition, setInSession
<1>5. CASE ReportStatus
  BY <1>5 DEF NavigatingIsTold, ReportStatus, Heard
<1>6. CASE EngineUp
  BY <1>6 DEF NavigatingIsTold, EngineUp, setInSession, session
<1>7. CASE PositionMode \/ DelAidData \/ MuteOneSession \/ EngineDown
  BY <1>7 DEF NavigatingIsTold, PositionMode, DelAidData, MuteOneSession, EngineDown, session
<1> QED BY <1>1, <1>2, <1>3, <1>4, <1>5, <1>6, <1>7 DEF Next, Worker

\* A message whose kind is not asked about neither fills nor empties Queued.
LEMMA OthersQueued ==
  ASSUME msgs \in Seq(Message), NEW kinds
  PROVE  /\ \A m : Sent(m) => (Queued(kinds) => Queued(kinds)')
         /\ \A m : Sent(m) /\ m.kind \notin kinds => (Queued(kinds)' => Queued(kinds))
         /\ \A m : Sent(m) /\ m.kind \in kinds => Queued(kinds)'
         /\ Taken /\ Head(msgs).kind \notin kinds => (Queued(kinds)' <=> Queued(kinds))
         /\ Taken => (Queued(kinds)' => Queued(kinds))
         /\ UNCHANGED msgs => (Queued(kinds)' <=> Queued(kinds))
<1>1. UNCHANGED msgs => (Queued(kinds)' <=> Queued(kinds))
  BY DEF Queued
<1> QED BY <1>1, QueueAfterSend, QueueAfterTaken

\* The modem and the session.  A fix starts only with the flag, or when the
\* flag is up already, and what is asked while the modem is down is made up for
\* when its return is handled.
LEMMA FixStep ==
  ASSUME TypeOK, msgs \in Seq(Message), FixInv, Next
  PROVE  FixInv'
<1>1. CASE Initialise \/ Call \/ Cleanup \/ DeleteAiding \/ ModemStatus
  <2>1. (\E m : Sent(m)) \/ UNCHANGED msgs
    BY <1>1, MessagesAre DEF Initialise, Call, Cleanup, DeleteAiding, ModemStatus, Send, Sent
  <2>2. Queued({"Up"}) => Queued({"Up"})'
    BY <2>1, OthersQueued
  <2>3. UNCHANGED <<session, modem>>
    BY <1>1 DEF Initialise, Call, Cleanup, DeleteAiding, ModemStatus
  <2> QED BY <2>2, <2>3 DEF FixInv, FixMatchesSession, session, modem
<1>2. CASE ModemPosition
  <2>1. \E m : Sent(m)
    BY <1>2, MessagesAre DEF ModemPosition, Send, Sent
  <2>2. Queued({"Up"}) => Queued({"Up"})'
    BY <2>1, OthersQueued
  <2> QED BY <1>2, <2>2 DEF FixInv, FixMatchesSession, ModemPosition, session
<1>3. CASE ModemCrash
  BY <1>3 DEF FixInv, FixMatchesSession, ModemCrash, session
<1>4. CASE ModemBack
  <2>1. Sent([kind |-> "Up"])
    BY <1>4, MessagesAre DEF ModemBack, Send, Sent
  <2>2. Queued({"Up"})'
    BY <2>1, OthersQueued
  <2> QED BY <1>4, <2>2 DEF FixInv, FixMatchesSession, ModemBack, session
<1>5. CASE StartFix \/ StopFix \/ PositionMode \/ ReportPosition \/ ReportStatus \/ DelAidData
           \/ MuteOneSession \/ EngineDown
  <2>1. Taken /\ Head(msgs).kind # "Up"
    BY <1>5 DEF Taken, Running, StartFix, StopFix, PositionMode, ReportPosition, ReportStatus,
       DelAidData, MuteOneSession, EngineDown
  <2>2. Queued({"Up"}) <=> Queued({"Up"})'
    BY <2>1, OthersQueued
  <2>3. CASE StartFix
    BY <2>2, <2>3 DEF FixInv, FixMatchesSession, StartFix, startFix, setInSession, StartResult,
       session, modem, TypeOK, Recurrence
  <2>4. CASE StopFix
    BY <2>2, <2>4 DEF FixInv, FixMatchesSession, StopFix, stopFix, setInSession, StartResult,
       session, modem, TypeOK, Recurrence
  <2>5. CASE PositionMode
    <3>1. Head(msgs).recurrence \in Recurrence
      BY <2>1, <2>5, QueueAfterTaken, MessageParts DEF PositionMode, Running
    <3> QED BY <2>2, <2>5, <3>1 DEF FixInv, FixMatchesSession, PositionMode, TypeOK, Recurrence
  <2>6. CASE ReportPosition
    BY <2>2, <2>6 DEF FixInv, FixMatchesSession, ReportPosition, stopFix, setInSession,
       StartResult, modem, TypeOK, Recurrence
  <2>7. CASE ReportStatus \/ DelAidData \/ MuteOneSession \/ EngineDown
    BY <2>2, <2>7 DEF FixInv, FixMatchesSession, ReportStatus, DelAidData, MuteOneSession,
       EngineDown, session, modem
  <2> QED BY <1>5, <2>3, <2>4, <2>5, <2>6, <2>7
<1>6. CASE EngineUp
  BY <1>6 DEF FixInv, FixMatchesSession, EngineUp, startFix, setInSession, StartResult, session,
     modem, TypeOK, Recurrence
<1> QED BY <1>1, <1>2, <1>3, <1>4, <1>5, <1>6 DEF Next, Worker, Modem

\* The clean-up.  No start is behind it, so that only the return of the modem
\* raises the flag, and that only if it was up; the stop is still queued then.
LEMMA CleanStep ==
  ASSUME TypeOK, msgs \in Seq(Message), CleanInv, Next
  PROVE  CleanInv'
<1>1. CASE Initialise
  BY <1>1 DEF CleanInv, CleanupStops, Initialise, session, Queued
<1>2. CASE Call
  <2>1. PICK m : Sent(m) /\ (cleaned' => cleaned /\ m.kind # "StartFix")
    <3>1. CASE \E kind \in {"StartFix", "StopFix", "MuteOneSession"} :
                 Send([kind |-> kind]) /\ cleaned' = (cleaned /\ kind # "StartFix")
      <4>1. PICK kind \in {"StartFix", "StopFix", "MuteOneSession"} :
                   Send([kind |-> kind]) /\ cleaned' = (cleaned /\ kind # "StartFix")
        BY <3>1
      <4>2. Sent([kind |-> kind])
        BY <4>1, MessagesAre DEF Send, Sent
      <4>3. cleaned' => cleaned /\ kind # "StartFix"
        BY <4>1
      <4>4. [kind |-> kind].kind = kind
        OBVIOUS
      <4> QED BY <4>2, <4>3, <4>4
    <3>2. CASE \E r \in Recurrence :
                 Send([kind |-> "PositionMode", recurrence |-> r]) /\ UNCHANGED cleaned
      <4>1. PICK r \in Recurrence :
                   Send([kind |-> "PositionMode", recurrence |-> r]) /\ UNCHANGED cleaned
        BY <3>2
      <4>2. Sent([kind |-> "PositionMode", recurrence |-> r])
        BY <4>1, MessagesAre DEF Send, Sent
      <4>3. [kind |-> "PositionMode", recurrence |-> r].kind # "StartFix"
        OBVIOUS
      <4> QED BY <4>1, <4>2, <4>3
    <3> QED BY <1>2, <3>1, <3>2 DEF Call
  <2>2. /\ Queued({"StopFix"}) => Queued({"StopFix"})'
        /\ m.kind # "StartFix" => (Queued({"StartFix"})' => Queued({"StartFix"}))
    BY <2>1, OthersQueued
  <2> QED BY <1>2, <2>1, <2>2 DEF CleanInv, CleanupStops, Call, session
<1>3. CASE Cleanup
  <2>1. \/ Sent([kind |-> "StopFix"])
        \/ UNCHANGED msgs /\ (cleaned' => ~mNavigating)
    BY <1>3, MessagesAre DEF Cleanup, Send, Sent, TypeOK
  <2>2. /\ Sent([kind |-> "StopFix"]) => Queued({"StopFix"})'
        /\ Queued({"StartFix"})' => Queued({"StartFix"})
    BY <2>1, OthersQueued
  <2> QED BY <1>3, <2>1, <2>2 DEF CleanInv, CleanupStops, Cleanup, session
<1>4. CASE DeleteAiding \/ Modem
  <2>1. \E m : Sent(m) /\ m.kind \notin {"StartFix", "StopFix"}
    <3>1. CASE DeleteAiding BY <3>1, MessagesAre DEF DeleteAiding, Send, Sent
    <3>2. CASE ModemStatus BY <3>2, MessagesAre DEF ModemStatus, Send, Sent
    <3>3. CASE ModemPosition BY <3>3, MessagesAre DEF ModemPosition, Send, Sent
    <3>4. CASE ModemCrash BY <3>4, MessagesAre DEF ModemCrash, Send, Sent
    <3>5. CASE ModemBack BY <3>5, MessagesAre DEF ModemBack, Send, Sent
    <3> QED BY <1>4, <3>1, <3>2, <3>3, <3>4, <3>5 DEF Modem
  <2>2. /\ Queued({"StopFix"}) => Queued({"StopFix"})'
        /\ Queued({"StartFix"})' => Queued({"StartFix"})
    BY <2>1, OthersQueued
  <2> QED
    BY <1>4, <2>2 DEF CleanInv, CleanupStops, DeleteAiding, Modem, ModemStatus, ModemPosition,
       ModemCrash, ModemBack, session
<1>5. CASE StartFix
  <2>1. Taken /\ Head(msgs).kind = "StartFix"
    BY <1>5 DEF StartFix, Running, Taken
  <2>2. Queued({"StartFix"})
    BY <2>1, QueueAfterTaken
  <2> QED BY <1>5, <2>2 DEF CleanInv, CleanupStops, StartFix
<1>6. CASE StopFix
  <2>1. Taken
    BY <1>6 DEF StopFix, Running, Taken
  <2>2. Queued({"StartFix"})' => Queued({"StartFix"})
    BY <2>1, OthersQueued
  <2> QED BY <1>6, <2>2 DEF CleanInv, CleanupStops, StopFix, setInSession, session
<1>7. CASE PositionMode \/ ReportPosition \/ ReportStatus \/ DelAidData \/ MuteOneSession
           \/ EngineDown \/ EngineUp
  <2>1. Taken /\ Head(msgs).kind # "StopFix"
    BY <1>7 DEF Taken, Running, PositionMode, ReportPosition, ReportStatus, DelAidData,
       MuteOneSession, EngineDown, EngineUp
  <2>2. /\ Queued({"StopFix"}) <=> Queued({"StopFix"})'
        /\ Queued({"StartFix"})' => Queued({"StartFix"})
    BY <2>1, OthersQueued
  <2>3. cleaned' = cleaned /\ (mNavigating' => mNavigating)
    BY <1>7 DEF PositionMode, ReportPosition, ReportStatus, DelAidData, MuteOneSession,
       EngineDown, EngineUp, setInSession, session
  <2> QED BY <2>2, <2>3 DEF CleanInv, CleanupStops
<1> QED BY <1>1, <1>2, <1>3, <1>4, <1>5, <1>6, <1>7 DEF Next, Worker

\* The invariant holds in every reachable state.
LEMMA Inductive == Spec => []IInv
<1>1. IInv /\ [Next]_vars => IInv'
  <2> SUFFICES ASSUME IInv, [Next]_vars PROVE IInv'
    OBVIOUS
  <2>1. CASE Next
    <3>1. TypeOK' /\ msgs' \in Seq(Message)
      BY <2>1, CallTyped, WorkerTyped, ModemTyped DEF Next, IInv
    <3>2. NavigatingIsTold'
      BY <2>1, ToldStep DEF IInv
    <3>3. FixInv'
      BY <2>1, FixStep DEF IInv
    <3>4. CleanInv'
      BY <2>1, CleanStep DEF IInv
    <3> QED BY <3>1, <3>2, <3>3, <3>4 DEF IInv
  <2>2. CASE UNCHANGED vars
    BY <2>2 DEF vars, session, aiding, modem, IInv, TypeOK, NavigatingIsTold, FixInv,
       FixMatchesSession, CleanInv, CleanupStops, Queued
  <2> QED BY <2>1, <2>2
<1> QED BY InitHolds, <1>1, PTL DEF Spec

-------------------------------------------------------------------------------
\* Type correctness, the queue included.
THEOREM TypeCorrect == Spec => []TypeOK
BY Inductive, PTL DEF IInv

\* loc_eng_report_status and the handlers of start, stop and return keep the
\* framework informed: while the session flag is up it last heard BEGIN.
THEOREM NavigationTold == Spec => []NavigatingIsTold
BY Inductive, PTL DEF IInv

\* Through any number of restarts a periodic session goes on or is about to, and
\* the modem has no fix that the HAL forgot (loc_eng_handle_engine_up).
THEOREM FixSound == Spec => []FixMatchesSession
BY Inductive, PTL DEF IInv, FixInv

\* loc_eng_cleanup ends the session it sees, however long the queue is.
THEOREM CleanupSound == Spec => []CleanupStops
BY Inductive, PTL DEF IInv, CleanInv

\* update_aiding_data_for_deletion waits for the engine to stop, whatever was
\* asked for and reported in between.
THEOREM AidingSound == Spec => DeletesOnlyWhenOff
<1>1. [Next]_vars => [~ (askedAiding \subseteq askedAiding') => engine_status' # "ENGINE_ON"]_vars
  <2> SUFFICES ASSUME Next, ~ (askedAiding \subseteq askedAiding')
               PROVE  engine_status' # "ENGINE_ON"
    OBVIOUS
  <2>1. ReportStatus \/ DelAidData
    BY DEF Next, Initialise, Call, Cleanup, DeleteAiding, Worker, StartFix, StopFix, PositionMode,
       ReportPosition, MuteOneSession, EngineDown, EngineUp, Modem, ModemStatus, ModemPosition,
       ModemCrash, ModemBack, aiding
  <2> QED BY <2>1 DEF ReportStatus, DelAidData, deleteAidingData
<1> QED BY <1>1, PTL DEF Spec, DeletesOnlyWhenOff

\* Muting once begun ends only with a session or the engine, or begins anew
\* (loc_eng_report_status, loc_eng_mute_one_session).
THEOREM MutingLasts == Spec => MuteLasts
<1>1. [Next]_vars =>
        [mute = "IN_SESSION" /\ mute' # "IN_SESSION" =>
           \/ MuteOneSession \/ EngineDown
           \/ ReportStatus /\ Head(msgs).status \in {"SESSION_END", "ENGINE_OFF"}]_vars
  <2> SUFFICES ASSUME Next, mute = "IN_SESSION", mute' # "IN_SESSION"
               PROVE  \/ MuteOneSession \/ EngineDown
                      \/ ReportStatus /\ Head(msgs).status \in {"SESSION_END", "ENGINE_OFF"}
    OBVIOUS
  <2>1. MuteOneSession \/ EngineDown \/ ReportStatus \/ EngineUp
    BY DEF Next, Initialise, Call, Cleanup, DeleteAiding, Worker, StartFix, StopFix, PositionMode,
       ReportPosition, DelAidData, Modem, ModemStatus, ModemPosition, ModemCrash, ModemBack
  <2>2. ~EngineUp
    BY DEF EngineUp, MutedBy
  <2>3. ReportStatus => Head(msgs).status \in {"SESSION_END", "ENGINE_OFF"}
    BY DEF ReportStatus, MutedBy
  <2> QED BY <2>1, <2>2, <2>3
<1> QED BY <1>1, PTL DEF Spec, MuteLasts
=============================================================================
