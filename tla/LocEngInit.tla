------------------------------ MODULE LocEngInit ------------------------------
(***************************************************************************)
(* How the HAL comes up and keeps the modem configured: loc_init and the   *)
(* AGPS initialisation (loc.cpp, loc_eng.cpp), the configuration that      *)
(* loc_eng_reinit gives to the modem at the start and after each of its    *)
(* restarts, and the two settings the framework may change at any time,    *)
(* the availability of the network and the addresses of the servers.       *)
(*                                                                         *)
(* Three threads: the framework's, in the calls of the HAL; the modem's,   *)
(* which reports restarts; and the worker's, which runs the messages.      *)
(* loc_init is cut where the other threads can see its progress, and       *)
(* loc_eng_reinit where it reads agpsStatus, which the framework writes    *)
(* without a lock.  A modem that restarts forgets what it was given, and   *)
(* takes nothing until its handle is opened again.                         *)
(***************************************************************************)
EXTENDS Integers, Sequences

CONSTANTS
  sapValid,      \* some sensor property is set in sap.conf
  MaxQueue,      \* bound on messages when the framework sends one
  MaxChanges,    \* bound on calls that change availability or an address
  MaxRestarts    \* bound on modem restarts

ASSUME LocEngInitAssumption ==
  /\ sapValid \in BOOLEAN
  /\ MaxQueue \in Nat /\ MaxChanges \in Nat /\ MaxRestarts \in Nat

VARIABLES
  gnss,           \* what hardware the target has
  extended,       \* the LBS proxy has the extended AGPS capabilities
  caller,         \* how far loc_init is
  adapter,        \* loc_eng_data.adapter # NULL
  mSupportsAgpsRequests,
  agps_status_cb, \* it is set: loc_eng_agps_init was called
  nifs,           \* the state machines that exist
  host_set,       \* servers whose address is buffered in loc_eng_data
  early,          \* servers whose address was set before init
  agpsStatus,     \* availability, as the framework last stored it
  msgs,           \* messages for the worker
  reinit,         \* the availability loc_eng_reinit has read, or "idle"
  up, linked,     \* the modem runs; its handle is open
  given,          \* configuration and servers the modem has
  data,           \* availability the modem was last given, or "none"
  raced,          \* it changed while loc_eng_reinit held the old one
  unnamed,        \* it changed without the name of an access point
  fault,          \* the worker used the adapter before it was there
  changes, restarts

target  == <<gnss, extended>>
start   == <<caller, adapter, mSupportsAgpsRequests, agps_status_cb, nifs, host_set, early>>
modem   == <<up, linked, given, data>>
history == <<raced, unnamed, changes, restarts>>
vars    == <<target, start, agpsStatus, msgs, reinit, modem, history, fault>>

\* The servers whose address can be buffered.
Server == {"SUPL", "C2K"}

\* The configuration messages of loc_eng_reinit.
ConfigItem == {"SuplVer", "LppConfig", "SensorControlConfig", "AGlonassProtocol"}
SensorItem == {"SensorProperties", "SensorPerfControlConfig"}
Item == IF sapValid THEN ConfigItem \cup SensorItem ELSE ConfigItem \cup {"SensorPerfControlConfig"}

Network == {"available", "unavailable"}

LocEngMessage ==
  [kind : {"Open", "Ssr", "Init", "Up", "Down", "DataClientInit"}]
  \cup [kind : {"Config"}, item : Item]
  \cup [kind : {"SetServer"}, type : Server]
  \cup [kind : {"EnableData"}, enable : Network]

TypeOK ==
  /\ gnss \in {"MSM", "GSS", "QCA1530"}
  /\ {extended, adapter, mSupportsAgpsRequests, agps_status_cb, up, linked, raced, unnamed,
      fault} \subseteq BOOLEAN
  /\ caller \in {"idle", "constructing", "constructed"}
  /\ nifs \subseteq {"internet", "wifi", "agnss", "ds"}
  /\ host_set \subseteq Server /\ early \subseteq Server
  /\ \A i \in DOMAIN msgs : msgs[i] \in LocEngMessage
  /\ agpsStatus \in Network
  /\ reinit \in Network \cup {"idle"} /\ data \in Network \cup {"none"}
  /\ given \subseteq Item \cup Server
  /\ changes \in 0..MaxChanges /\ restarts \in 0..MaxRestarts
  \* a data-call machine only where the daemons and the modem may ask for one
  /\ "ds" \in nifs => agps_status_cb /\ mSupportsAgpsRequests /\ "agnss" \in nifs

Init ==
  /\ gnss \in {"MSM", "GSS", "QCA1530"} /\ extended \in BOOLEAN
  /\ caller = "idle" /\ adapter = FALSE /\ mSupportsAgpsRequests = FALSE
  /\ agps_status_cb = FALSE /\ nifs = {} /\ host_set = {} /\ early = {}
  /\ agpsStatus = "unavailable"
  /\ msgs = <<>> /\ reinit = "idle"
  /\ up = TRUE /\ linked = FALSE /\ given = {} /\ data = "none"
  /\ raced = FALSE /\ unnamed = FALSE /\ changes = 0 /\ restarts = 0
  /\ fault = FALSE

Room == Len(msgs) < MaxQueue
Send(m) == msgs' = Append(msgs, m)

-----------------------------------------------------------------------------
(* Calls of the framework, one at a time.                                  *)

\* loc_init up to the registration of the new adapter.  Everything in
\* loc_eng_data is cleared first.  A second loc_init finds the adapter and
\* only repeats the end (loc_cleanup never deletes it).
LocInit ==
  /\ caller = "idle" /\ Room
  /\ IF adapter
     THEN /\ caller' = "constructed"
          /\ UNCHANGED <<agps_status_cb, nifs, host_set, msgs>>
     ELSE /\ agps_status_cb' = FALSE /\ nifs' = {} /\ host_set' = {}
          /\ Send([kind |-> "Open"])
          /\ caller' = "constructing"
  /\ UNCHANGED <<target, adapter, mSupportsAgpsRequests, early, agpsStatus, reinit, modem,
                 history>>

\* The adapter is stored, and the worker is asked for the configuration.
LocEngInitSent ==
  /\ caller = "constructing"
  /\ caller' = "constructed" /\ adapter' = TRUE
  /\ Send([kind |-> "Init"])
  /\ UNCHANGED <<target, mSupportsAgpsRequests, agps_status_cb, nifs, host_set, early,
                 agpsStatus, reinit, modem, history>>

\* Only at the end of loc_init is it known who answers requests of the modem.
LocInitEnds ==
  /\ caller = "constructed"
  /\ caller' = "idle"
  /\ mSupportsAgpsRequests' = ~extended
  /\ UNCHANGED <<target, adapter, agps_status_cb, nifs, host_set, early, agpsStatus, msgs,
                 reinit, modem, history>>

\* loc_eng_agps_reinit: the addresses that are buffered.
bufferedServers(set) ==
  LET address(s) == IF s \in set THEN <<[kind |-> "SetServer", type |-> s]>> ELSE <<>>
  IN  address("SUPL") \o address("C2K")

\* Faulty variant: the data client is wanted whoever answers the requests.
AgpsInitAlways ==
  /\ caller = "idle" /\ adapter /\ ~agps_status_cb /\ Room
  /\ agps_status_cb' = TRUE
  /\ nifs' = {"internet", "wifi"} \cup (IF gnss = "MSM" THEN {"agnss"} ELSE {})
  /\ msgs' = msgs \o <<[kind |-> "DataClientInit"]>> \o bufferedServers(host_set)
  /\ UNCHANGED <<target, caller, adapter, mSupportsAgpsRequests, host_set, early, agpsStatus,
                 reinit, modem, history>>

\* loc_eng_agps_init: one machine per network interface; the one of the modem's
\* own interface, and the client of its data calls, where the modem has them.
AgpsInit ==
  /\ caller = "idle" /\ adapter /\ ~agps_status_cb /\ Room
  /\ agps_status_cb' = TRUE
  /\ IF gnss = "MSM"
     THEN /\ nifs' = {"internet", "wifi", "agnss"}
          /\ msgs' = msgs
               \o (IF mSupportsAgpsRequests THEN <<[kind |-> "DataClientInit"]>> ELSE <<>>)
               \o bufferedServers(host_set)
     ELSE nifs' = {"internet", "wifi"} /\ UNCHANGED msgs
  /\ UNCHANGED <<target, caller, adapter, mSupportsAgpsRequests, host_set, early, agpsStatus,
                 reinit, modem, history>>

\* loc_eng_set_server: a host name that is too long, or cannot be resolved,
\* is not sent.
SendServer(s) ==
  \/ Send([kind |-> "SetServer", type |-> s])
  \/ UNCHANGED msgs

\* loc_eng_set_server_proxy: without an adapter the address is buffered.
SetServer ==
  /\ caller = "idle" /\ Room /\ changes < MaxChanges
  /\ changes' = changes + 1
  /\ \E s \in Server :
       IF adapter
       THEN SendServer(s) /\ UNCHANGED <<host_set, early>>
       ELSE host_set' = host_set \cup {s} /\ early' = early \cup {s} /\ UNCHANGED msgs
  /\ UNCHANGED <<target, caller, adapter, mSupportsAgpsRequests, agps_status_cb, nifs,
                 agpsStatus, reinit, modem, raced, unnamed, restarts>>

\* loc_eng_agps_ril_update_network_availability: stored in any case, sent if
\* there is an adapter and the name of an access point.
UpdateAvailability ==
  /\ caller = "idle" /\ Room /\ changes < MaxChanges
  /\ changes' = changes + 1
  /\ \E available \in Network, named \in BOOLEAN :
       /\ agpsStatus' = available
       /\ IF adapter /\ named
          THEN Send([kind |-> "EnableData", enable |-> available])
          ELSE UNCHANGED msgs
       /\ raced' = (adapter /\ reinit # "idle")
       /\ unnamed' = (adapter /\ ~named)
  /\ UNCHANGED <<target, start, reinit, modem, restarts>>

Framework ==
  /\ LocInit \/ LocEngInitSent \/ LocInitEnds \/ AgpsInit \/ SetServer \/ UpdateAvailability
  /\ UNCHANGED fault

-----------------------------------------------------------------------------
(* Messages run by the worker.                                             *)

Running(kind) == reinit = "idle" /\ msgs # <<>> /\ Head(msgs).kind = kind

\* LocOpenMsg and LocSsrMsg (LocApiBase): the handle to the modem.
Open ==
  /\ Running("Open") \/ Running("Ssr")
  /\ msgs' = Tail(msgs)
  /\ linked' = up
  /\ UNCHANGED <<target, start, agpsStatus, reinit, up, given, data, history, fault>>

\* The messages that loc_eng_reinit queues before it reads agpsStatus.
configItems ==
  IF sapValid
  THEN <<"SuplVer", "LppConfig", "SensorControlConfig", "AGlonassProtocol",
         "SensorProperties", "SensorPerfControlConfig">>
  ELSE <<"SuplVer", "LppConfig", "SensorControlConfig", "AGlonassProtocol",
         "SensorPerfControlConfig">>

configMessages == [k \in DOMAIN configItems |-> [kind |-> "Config", item |-> configItems[k]]]

\* LocEngInit and the beginning of LocEngUp: loc_eng_reinit up to the read.
ReinitBegins ==
  /\ Running("Init") \/ Running("Up")
  /\ IF adapter
     THEN /\ msgs' = Tail(msgs) \o configMessages
          /\ reinit' = agpsStatus
          /\ raced' = FALSE /\ unnamed' = FALSE
          /\ UNCHANGED fault
     ELSE fault' = TRUE /\ UNCHANGED <<msgs, reinit, raced, unnamed>>
  /\ UNCHANGED <<target, start, agpsStatus, modem, changes, restarts>>

\* Faulty variant: the availability is left out.
ReinitEndsShort ==
  /\ reinit # "idle" /\ reinit' = "idle"
  /\ msgs' = msgs \o (IF agps_status_cb THEN bufferedServers(host_set) ELSE <<>>)
  /\ UNCHANGED <<target, start, agpsStatus, modem, history, fault>>

\* The rest of it: the availability that was read; and the addresses that are
\* buffered, which only LocEngUp sends: after LocEngInit there are none.
ReinitEnds ==
  /\ reinit # "idle" /\ reinit' = "idle"
  /\ msgs' = Append(msgs, [kind |-> "EnableData", enable |-> reinit])
             \o (IF agps_status_cb THEN bufferedServers(host_set) ELSE <<>>)
  /\ UNCHANGED <<target, start, agpsStatus, modem, history, fault>>

\* A modem that is down, or whose handle is stale, takes nothing.
give(x) == given' = IF up /\ linked THEN given \cup {x} ELSE given

\* The configuration messages and those of the servers.
Configure ==
  /\ \/ Running("Config") /\ give(Head(msgs).item)
     \/ Running("SetServer") /\ give(Head(msgs).type)
  /\ msgs' = Tail(msgs)
  /\ UNCHANGED <<target, start, agpsStatus, reinit, up, linked, data, history, fault>>

EnableData ==
  /\ Running("EnableData")
  /\ msgs' = Tail(msgs)
  /\ data' = IF up /\ linked THEN Head(msgs).enable ELSE data
  /\ UNCHANGED <<target, start, agpsStatus, reinit, up, linked, given, history, fault>>

\* LocEngDataClientInit: the machine exists if the modem's side has a client.
DataClientInit ==
  /\ Running("DataClientInit")
  /\ msgs' = Tail(msgs)
  /\ nifs' \in {nifs, nifs \cup {"ds"}}
  /\ UNCHANGED <<target, caller, adapter, mSupportsAgpsRequests, agps_status_cb, host_set,
                 early, agpsStatus, reinit, modem, history, fault>>

\* LocEngDown needs the adapter too; its effects are module LocEngSession's.
EngineDown ==
  /\ Running("Down")
  /\ IF adapter THEN msgs' = Tail(msgs) /\ UNCHANGED fault
                ELSE fault' = TRUE /\ UNCHANGED msgs
  /\ UNCHANGED <<target, start, agpsStatus, reinit, modem, history>>

Worker ==
  \/ Open \/ ReinitBegins \/ ReinitEnds \/ Configure \/ EnableData \/ DataClientInit
  \/ EngineDown

-----------------------------------------------------------------------------
(* The modem, once its handle was opened.                                  *)

ModemCrash ==
  /\ up /\ linked /\ restarts < MaxRestarts
  /\ restarts' = restarts + 1
  /\ up' = FALSE /\ linked' = FALSE /\ given' = {} /\ data' = "none"
  /\ Send([kind |-> "Down"])
  /\ UNCHANGED <<target, start, agpsStatus, reinit, raced, unnamed, changes, fault>>

\* Faulty variant: the adapters are not told.
ModemBackQuietly ==
  /\ ~up /\ up' = TRUE
  /\ Send([kind |-> "Ssr"])
  /\ UNCHANGED <<target, start, agpsStatus, reinit, linked, given, data, history, fault>>

\* LocApiBase::handleEngineUpEvent: the handle first, then the adapters.
ModemBack ==
  /\ ~up /\ up' = TRUE
  /\ msgs' = msgs \o <<[kind |-> "Ssr"], [kind |-> "Up"]>>
  /\ UNCHANGED <<target, start, agpsStatus, reinit, linked, given, data, history, fault>>

Next == ~fault /\ (Framework \/ Worker \/ ModemCrash \/ ModemBack)

Spec == Init /\ [][Next]_vars

-----------------------------------------------------------------------------
(* Properties.                                                             *)

Queued(kinds) == \E i \in DOMAIN msgs : msgs[i].kind \in kinds

\* A modem that runs has every item of the configuration, or is about to be
\* given it, in spite of restarts in the middle of the configuration and of
\* messages that met a modem that was down.
ConfigReachesModem ==
  adapter /\ up /\ caller # "constructing" =>
    \/ Queued({"Init", "Up"})
    \/ \A i \in Item : i \in given \/ \E k \in DOMAIN msgs : msgs[k] = [kind |-> "Config", item |-> i]

\* The availability the modem has, or is about to be given last, is the one
\* the framework stored last, unless that came without a name or between the
\* read and the message of loc_eng_reinit (both until the next change or the
\* next restart).
LastData ==
  LET sent == {i \in DOMAIN msgs : msgs[i].kind = "EnableData"}
  IN  IF sent = {} THEN data
      ELSE msgs[CHOOSE i \in sent : \A j \in sent : j <= i].enable

AvailabilityKnown ==
  adapter /\ up /\ reinit = "idle" /\ ~Queued({"Init", "Up"}) /\ ~raced /\ ~unnamed =>
    LastData = agpsStatus

\* "Set server addresses which came before init" (loc_eng.cpp:2034).
ServerReachesModem ==
  agps_status_cb /\ gnss = "MSM" /\ restarts = 0 =>
    \A s \in early : s \in given \/ \E i \in DOMAIN msgs :
                                      msgs[i] = [kind |-> "SetServer", type |-> s]
=============================================================================
