---------------------------- MODULE LocEngSession ----------------------------
(***************************************************************************)
(* A positioning session of the HAL (loc_eng.cpp, LocEngAdapter): start,   *)
(* stop and mode of the fix, position and status reports of the modem,     *)
(* muting of one session, deletion of aiding data, clean-up, and restart   *)
(* of the modem in the middle of all that.                                 *)
(*                                                                         *)
(* Calls of the framework and events of the modem become messages; the one *)
(* worker runs them in the order of arrival.  An action is a message run   *)
(* to its end, a call, or a step of the modem (external).                  *)
(***************************************************************************)
EXTENDS Naturals, Sequences

CONSTANTS
  Aiding,       \* kinds of aiding data, the bits of GpsAidingData
  MaxQueue,     \* bound on messages waiting for the worker
  MaxRestarts,  \* bound on modem restarts
  MaxDeletes    \* bound on calls of loc_eng_delete_aiding_data

ASSUME SessionAssumption ==
  MaxQueue \in Nat /\ MaxRestarts \in Nat /\ MaxDeletes \in Nat

VARIABLES
  opened,           \* loc_eng_data.adapter # NULL
  cleaned,          \* loc_cleanup found the session as it is, and no start since
  mNavigating,      \* the session flag
  mFixCriteria,     \* the adapter's copy of the position mode
  mute,             \* mute_session_state
  engine_status,    \* last ENGINE_ON or ENGINE_OFF
  pendingAiding,    \* aiding_data_for_deletion
  askedAiding,      \* kinds asked for and not deleted since
  deletes,          \* calls of loc_eng_delete_aiding_data so far
  told,             \* last session status given to the framework
  msgs,             \* the worker's message queue
  up, restarts,     \* whether the modem runs; its restarts
  fix,              \* the modem's session: "none" or its recurrence
  modemMode,        \* the mode the modem was last given
  failed,           \* some startFix or stopFix failed on a modem that was up
  single            \* some single fix was asked for

session == <<mNavigating, mFixCriteria, told>>
aiding  == <<pendingAiding, askedAiding, deletes>>
modem   == <<up, restarts, fix, modemMode, failed, single>>
vars    == <<opened, cleaned, session, mute, engine_status, aiding, msgs, modem>>

Recurrence == {"SINGLE", "PERIODIC"}
Mode       == {"INVALID", "STANDALONE"}
Status     == {"SESSION_BEGIN", "SESSION_END", "ENGINE_ON", "ENGINE_OFF"}
FixStatus  == {"SUCCESS", "INTERMEDIATE", "FAILURE"}

Message ==
  [kind : {"StartFix", "StopFix", "MuteOneSession", "Down", "Up"}]
  \cup [kind : {"PositionMode"}, recurrence : Recurrence]
  \cup [kind : {"DelAidData"}, type : SUBSET Aiding]
  \cup [kind : {"ReportStatus"}, status : Status]
  \cup [kind : {"ReportPosition"}, status : FixStatus]

TypeOK ==
  /\ {opened, cleaned, mNavigating, up, failed, single} \subseteq BOOLEAN
  /\ mFixCriteria \in [mode : Mode, recurrence : Recurrence]
  /\ mute \in {"NONE", "WAIT", "IN_SESSION"}
  /\ engine_status \in {"NONE", "ENGINE_ON", "ENGINE_OFF"}
  /\ pendingAiding \subseteq Aiding /\ askedAiding \subseteq Aiding
  /\ deletes \in 0..MaxDeletes /\ restarts \in 0..MaxRestarts
  /\ told \in {"SESSION_BEGIN", "SESSION_END"}
  /\ \A i \in DOMAIN msgs : msgs[i] \in Message
  /\ fix \in Recurrence \cup {"none"}
  /\ modemMode \in Mode

Init ==
  /\ opened = FALSE /\ cleaned = FALSE
  /\ mNavigating = FALSE
  /\ mFixCriteria = [mode |-> "INVALID", recurrence |-> "PERIODIC"]
  /\ mute = "NONE" /\ engine_status = "NONE" /\ told = "SESSION_END"
  /\ pendingAiding = {} /\ askedAiding = {} /\ deletes = 0
  /\ msgs = <<>>
  /\ up = TRUE /\ restarts = 0 /\ fix = "none" /\ modemMode = "INVALID"
  /\ failed = FALSE /\ single = FALSE

-----------------------------------------------------------------------------
(* Calls of the framework, on its own thread.                              *)

Room == Len(msgs) < MaxQueue
Send(m) == Room /\ msgs' = Append(msgs, m)

\* loc_eng_init (module LocEngInit).
Initialise ==
  /\ ~opened /\ opened' = TRUE
  /\ UNCHANGED <<cleaned, session, mute, engine_status, aiding, msgs, modem>>

\* loc_eng_start, loc_eng_stop, loc_eng_set_position_mode, and a network
\* initiated request with privacy override (loc_eng_ni_request_handler).
Call ==
  /\ opened
  /\ \/ \E kind \in {"StartFix", "StopFix", "MuteOneSession"} :
          Send([kind |-> kind]) /\ cleaned' = (cleaned /\ kind # "StartFix")
     \/ \E r \in Recurrence :
          Send([kind |-> "PositionMode", recurrence |-> r]) /\ UNCHANGED cleaned
  /\ UNCHANGED <<opened, session, mute, engine_status, aiding, modem>>

Queued(kinds) == \E i \in DOMAIN msgs : msgs[i].kind \in kinds

Running(kind) == msgs # <<>> /\ Head(msgs).kind = kind

\* Faulty variant: the session is left to go on.
CleanupOnly ==
  /\ opened /\ Room
  /\ cleaned' = ~Queued({"StartFix"})
  /\ UNCHANGED <<opened, session, mute, engine_status, aiding, msgs, modem>>

\* loc_eng_cleanup: stops a session that is under way, and keeps all the rest.
\* It reads the flag beside the worker, which lowers it for a moment while it
\* handles the return of the modem.
Cleanup ==
  /\ opened /\ Room
  /\ \E isInSession \in {mNavigating} \cup (IF Running("Up") THEN {FALSE} ELSE {}) :
       /\ IF isInSession THEN Send([kind |-> "StopFix"]) ELSE UNCHANGED msgs
       /\ cleaned' = (isInSession = mNavigating /\ ~Queued({"StartFix"}))
  /\ UNCHANGED <<opened, session, mute, engine_status, aiding, modem>>

\* loc_eng_delete_aiding_data.
DeleteAiding ==
  /\ opened /\ deletes < MaxDeletes
  /\ deletes' = deletes + 1
  /\ \E f \in (SUBSET Aiding) \ {{}} :
       Send([kind |-> "DelAidData", type |-> f]) /\ askedAiding' = askedAiding \cup f
  /\ UNCHANGED <<opened, cleaned, session, mute, engine_status, pendingAiding, modem>>

-----------------------------------------------------------------------------
(* What the handlers call.                                                 *)

\* LocEngAdapter::setInSession: leaving the session forgets the mode.
setInSession(inSession, criteria) ==
  /\ mNavigating' = inSession
  /\ mFixCriteria' = IF inSession THEN criteria ELSE [criteria EXCEPT !.mode = "INVALID"]

\* LocApiBase::startFix and stopFix of the modem, with the answer `ret'.
StartResult == IF up THEN {"SUCCESS", "GENERAL_FAILURE"} ELSE {"ENGINE_DOWN"}

startFix(ret, criteria) ==
  /\ fix' = IF ret = "SUCCESS" THEN criteria.recurrence ELSE fix
  /\ modemMode' = IF ret = "SUCCESS" THEN criteria.mode ELSE modemMode
  /\ failed' = (failed \/ ret = "GENERAL_FAILURE")
  /\ UNCHANGED <<up, restarts, single>>

stopFix(ret) ==
  /\ fix' = IF ret = "SUCCESS" THEN "none" ELSE fix
  /\ failed' = (failed \/ ret = "GENERAL_FAILURE")
  /\ UNCHANGED <<up, restarts, modemMode, single>>

\* Faulty variant: deleted under a running engine.
deleteAtOnce(mask, status) == pendingAiding' = {} /\ askedAiding' = askedAiding \ mask

\* update_aiding_data_for_deletion, with the engine status it finds.
deleteAidingData(mask, status) ==
  IF status # "ENGINE_ON"
  THEN pendingAiding' = {} /\ askedAiding' = askedAiding \ mask
  ELSE pendingAiding' = mask /\ askedAiding' = askedAiding

\* Faulty variant: any status but ENGINE_ON ends the muting.
MutedUntilStatus(status) ==
  IF status \in {"SESSION_BEGIN", "ENGINE_ON"} /\ mute = "WAIT" THEN "IN_SESSION"
  ELSE IF status # "ENGINE_ON" /\ mute = "IN_SESSION" THEN "NONE"
  ELSE mute

\* loc_eng_report_status: muting, what the framework hears, and the engine.
MutedBy(status) ==
  IF status \in {"SESSION_BEGIN", "ENGINE_ON"} /\ mute = "WAIT" THEN "IN_SESSION"
  ELSE IF status \in {"SESSION_END", "ENGINE_OFF"} /\ mute = "IN_SESSION" THEN "NONE"
  ELSE mute

\* Faulty variant: any end of a session is passed on.
HeardAlways(status) ==
  IF status \in {"SESSION_BEGIN", "SESSION_END"} /\ MutedBy(status) # "IN_SESSION"
  THEN status ELSE told

Heard(status) ==
  IF /\ status \in {"SESSION_BEGIN", "SESSION_END"}
     /\ ~ (status = "SESSION_END" /\ mNavigating)
     /\ ~ (status = "SESSION_BEGIN" /\ ~mNavigating)
     /\ MutedBy(status) # "IN_SESSION"
  THEN status
  ELSE told

\* Faulty variant: every status is taken for one of the engine.
EngineAfterAny(status) == status

EngineAfter(status) ==
  IF status \in {"ENGINE_ON", "ENGINE_OFF"} THEN status ELSE engine_status

-----------------------------------------------------------------------------
(* Messages run by the worker.                                             *)

\* loc_eng_start_handler: a modem that is down will start when it is back.
StartFix ==
  /\ Running("StartFix")
  /\ msgs' = Tail(msgs)
  /\ IF mNavigating
     THEN UNCHANGED <<session, modem>>
     ELSE \E ret \in StartResult :
            /\ startFix(ret, mFixCriteria)
            /\ IF ret \in {"SUCCESS", "ENGINE_DOWN"}
               THEN setInSession(TRUE, mFixCriteria) /\ told' = "SESSION_BEGIN"
               ELSE UNCHANGED session
  /\ UNCHANGED <<opened, cleaned, mute, engine_status, aiding>>

\* Faulty variant: the session is left and the modem not stopped.
StopFixQuiet ==
  /\ Running("StopFix")
  /\ msgs' = Tail(msgs)
  /\ IF mNavigating THEN setInSession(FALSE, mFixCriteria) /\ told' = "SESSION_END"
                    ELSE UNCHANGED session
  /\ UNCHANGED <<opened, cleaned, mute, engine_status, aiding, modem>>

\* loc_eng_stop_handler: the session is left whatever stopFix answers.
StopFix ==
  /\ Running("StopFix")
  /\ msgs' = Tail(msgs)
  /\ IF mNavigating
     THEN \E ret \in StartResult :
            /\ stopFix(ret)
            /\ setInSession(FALSE, mFixCriteria)
            /\ told' = IF ret = "SUCCESS" THEN "SESSION_END" ELSE told
     ELSE UNCHANGED <<session, modem>>
  /\ UNCHANGED <<opened, cleaned, mute, engine_status, aiding>>

\* LocEngPositionMode::proc: the adapter's copy, and the modem's if it runs.
\* A session under way keeps the recurrence it was started with.
PositionMode ==
  /\ Running("PositionMode")
  /\ msgs' = Tail(msgs)
  /\ LET r == Head(msgs).recurrence IN
       /\ mFixCriteria' = [mode |-> "STANDALONE", recurrence |-> r]
       /\ modemMode' = IF up THEN "STANDALONE" ELSE modemMode
       /\ single' = (single \/ r = "SINGLE")
  /\ UNCHANGED <<opened, cleaned, mNavigating, told, mute, engine_status, aiding, up, restarts, fix,
                 failed>>

\* LocEngReportPosition::proc.  A report reaches the framework if it is a
\* failure, a final fix of the right technology, or accurate enough where
\* intermediate fixes are wanted.  It ends a session of a single fix, and
\* stops the modem if that goes on for the final fix.
ReportPosition ==
  /\ Running("ReportPosition")
  /\ msgs' = Tail(msgs)
  /\ \E reported \in BOOLEAN :
       /\ mute = "IN_SESSION" => ~reported
       /\ Head(msgs).status = "FAILURE" /\ mute # "IN_SESSION" => reported
       /\ IF reported /\ mFixCriteria.recurrence = "SINGLE"
          THEN /\ setInSession(FALSE, mFixCriteria)
               /\ IF Head(msgs).status = "INTERMEDIATE"
                  THEN \E ret \in StartResult : stopFix(ret)
                  ELSE UNCHANGED modem
          ELSE UNCHANGED <<mNavigating, mFixCriteria, modem>>
  /\ UNCHANGED <<opened, cleaned, told, mute, engine_status, aiding>>

\* LocEngReportStatus::proc: the status, then the aiding data that waited.
ReportStatus ==
  /\ Running("ReportStatus")
  /\ msgs' = Tail(msgs)
  /\ LET status == Head(msgs).status IN
       /\ mute' = MutedBy(status)
       /\ told' = Heard(status)
       /\ engine_status' = EngineAfter(status)
       /\ deleteAidingData(pendingAiding, engine_status')
  /\ UNCHANGED <<opened, cleaned, mNavigating, mFixCriteria, deletes, modem>>

\* LocEngDelAidData::proc: the new mask replaces the one that waits.
DelAidData ==
  /\ Running("DelAidData")
  /\ msgs' = Tail(msgs)
  /\ deleteAidingData(Head(msgs).type, engine_status)
  /\ UNCHANGED <<opened, cleaned, session, mute, engine_status, deletes, modem>>

MuteOneSession ==
  /\ Running("MuteOneSession")
  /\ msgs' = Tail(msgs)
  /\ mute' = "WAIT"
  /\ UNCHANGED <<opened, cleaned, session, engine_status, aiding, modem>>

\* loc_eng_handle_engine_down (the network initiated request it drops is
\* module NetworkInitiated).
EngineDown ==
  /\ Running("Down")
  /\ msgs' = Tail(msgs)
  /\ mute' = MutedBy("ENGINE_OFF")
  /\ engine_status' = "ENGINE_OFF"
  /\ UNCHANGED <<opened, cleaned, session, aiding, modem>>

\* loc_eng_handle_engine_up: a session that was under way is started again.
\* setPositionMode(NULL) gives the modem the adapter's copy of the mode,
\* setInSession(false) then forgets it, and startFix uses what is left.
EngineUp ==
  /\ Running("Up")
  /\ msgs' = Tail(msgs)
  /\ mute' = MutedBy("ENGINE_ON")
  /\ engine_status' = "ENGINE_ON"
  /\ IF mNavigating
     THEN LET criteria == [mFixCriteria EXCEPT !.mode = "INVALID"] IN
          \E ret \in StartResult :
            /\ startFix(ret, criteria)
            /\ IF ret \in {"SUCCESS", "ENGINE_DOWN"}
               THEN setInSession(TRUE, criteria) /\ told' = "SESSION_BEGIN"
               ELSE setInSession(FALSE, criteria) /\ UNCHANGED told
     ELSE UNCHANGED <<session, modem>>
  /\ UNCHANGED <<opened, cleaned, aiding>>

Worker ==
  \/ StartFix \/ StopFix \/ PositionMode \/ ReportPosition \/ ReportStatus
  \/ DelAidData \/ MuteOneSession \/ EngineDown \/ EngineUp

-----------------------------------------------------------------------------
(* The modem.                                                              *)

\* Statuses also tell of sessions of other clients: any may come.
ModemStatus ==
  /\ opened /\ up
  /\ \E status \in Status : Send([kind |-> "ReportStatus", status |-> status])
  /\ UNCHANGED <<opened, cleaned, session, mute, engine_status, aiding, modem>>

\* A report of a fix; the final one of a single fix ends the modem's session.
ModemPosition ==
  /\ up /\ fix # "none"
  /\ \E status \in FixStatus :
       /\ Send([kind |-> "ReportPosition", status |-> status])
       /\ fix' = IF fix = "SINGLE" /\ status # "INTERMEDIATE" THEN "none" ELSE fix
  /\ UNCHANGED <<opened, cleaned, session, mute, engine_status, aiding, up, restarts, modemMode,
                 failed, single>>

ModemCrash ==
  /\ opened /\ up /\ restarts < MaxRestarts
  /\ up' = FALSE /\ fix' = "none" /\ modemMode' = "INVALID"
  /\ restarts' = restarts + 1
  /\ Send([kind |-> "Down"])
  /\ UNCHANGED <<opened, cleaned, session, mute, engine_status, aiding, failed, single>>

ModemBack ==
  /\ ~up
  /\ up' = TRUE
  /\ Send([kind |-> "Up"])
  /\ UNCHANGED <<opened, cleaned, session, mute, engine_status, aiding, restarts, fix, modemMode, failed,
                 single>>

Modem == ModemStatus \/ ModemPosition \/ ModemCrash \/ ModemBack

Next == Initialise \/ Call \/ Cleanup \/ DeleteAiding \/ Worker \/ Modem

Spec == Init /\ [][Next]_vars

-----------------------------------------------------------------------------
(* Properties.                                                             *)

\* The framework never believes a session over that the HAL still runs:
\* while the session flag is up the last session status it heard is BEGIN,
\* across stops, restarts of the modem, muting and sessions of others.
NavigatingIsTold == mNavigating => told = "SESSION_BEGIN"

\* A periodic session goes on whatever happens to the modem, and no fix goes on
\* that the HAL has forgotten: while the session flag is up the modem fixes, or
\* is down, or its return is still to be handled, and while the modem fixes the
\* flag is up, provided the modem obeys startFix and stopFix.
FixMatchesSession ==
  ~single /\ ~failed =>
    /\ mNavigating => fix = "PERIODIC" \/ ~up \/ Queued({"Up"})
    /\ fix # "none" => mNavigating

\* After loc_cleanup the session is over, or its stop is queued, whatever the
\* modem does; unless a start was still queued, or the return of the modem was
\* being handled, when loc_cleanup looked at the flag.
CleanupStops == cleaned /\ mNavigating => Queued({"StopFix"})

\* No aiding data is deleted under a running engine.
DeletesOnlyWhenOff ==
  [][~ (askedAiding \subseteq askedAiding') => engine_status' # "ENGINE_ON"]_vars

\* A muted session stays muted until a session end or an engine stop, unless
\* another request mutes again.
MuteLasts ==
  [][mute = "IN_SESSION" /\ mute' # "IN_SESSION" =>
       \/ MuteOneSession \/ EngineDown
       \/ ReportStatus /\ Head(msgs).status \in {"SESSION_END", "ENGINE_OFF"}]_vars
=============================================================================
