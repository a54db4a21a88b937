------------------------------ MODULE LocEngNmea ------------------------------
(***************************************************************************)
(* The way of a report of the modem to the framework: LocEngReportPosition *)
(* and LocEngReportSv (loc_eng.cpp), and the NMEA sentences that           *)
(* loc_eng_nmea.cpp makes of them when the modem makes none.               *)
(*                                                                         *)
(* The sentences of one position are made from several reports: satellites *)
(* used, and on some modems the dilution of precision, are kept from the   *)
(* report of the satellites; the position mode is the adapter's, which is  *)
(* forgotten whenever the session flag is lowered: by a stop, by a single  *)
(* fix, and by a modem that is back, which lowers it to start again.  An   *)
(* action is a report or a call handled by the worker, in any order.  A    *)
(* sentence is a record of its meaning; its text, and the returns for text *)
(* that does not fit, are left out.                                        *)
(***************************************************************************)
EXTENDS Integers, Sequences, FiniteSets

CONSTANTS
  SvReport   \* the reports of satellites in view, as records
             \* [prns : Seq of PRNs, used : those of GPS in the fix, dop : BOOLEAN]

GPS     == 1..32
GLONASS == 65..96

ASSUME SvReportAssumption ==
  \A r \in SvReport : r.prns \in Seq(Nat) /\ r.used \subseteq GPS /\ r.dop \in BOOLEAN

VARIABLES
  generateNmea,     \* the HAL makes the sentences (NMEA_PROVIDER_AP)
  intermediateFix,  \* intermediate fixes are wanted
  mFixCriteria,     \* the adapter's copy of the position mode
  asked,            \* the mode the framework set last
  mNavigating,      \* the session flag
  muted,            \* mute_session_state = LOC_MUTE_SESS_IN_SESSION
  sv_used_mask,     \* satellites kept for the next position
  dop,              \* those used for the dilution kept, {} if it is zero
  report,           \* the report under way
  sent              \* the sentences made of it, still to be sent

config == <<generateNmea, intermediateFix>>
mode   == <<mFixCriteria, asked, mNavigating>>
cache  == <<sv_used_mask, dop>>
nmeaVars   == <<config, mode, muted, cache, report, sent>>

Recurrence == {"SINGLE", "PERIODIC"}
Mode == {"STANDALONE", "MS_BASED"}

Position == [status : {"SUCCESS", "INTERMEDIATE", "FAILURE"},
             satellite : BOOLEAN,  \* made with satellites or sensors
             gnss : BOOLEAN,       \* position_source
             latLong : BOOLEAN,
             accurate : BOOLEAN,   \* within ACCURACY_THRES
             dop : BOOLEAN]

NoReport == [kind |-> "none"]

\* The dilution in a sentence: of the position report, kept, or none.
Dilution == [kind : {"own", "none"}] \cup [kind : {"kept"}, of : SUBSET GPS]

-----------------------------------------------------------------------------
(* Sentences of a position.                                                *)

ModeChar(position, criteria) ==
  IF ~position.latLong THEN "N"
  ELSE IF criteria.mode = "STANDALONE" THEN "A" ELSE "D"

Quality(position, criteria) ==
  IF ~position.latLong THEN 0
  ELSE IF criteria.mode = "STANDALONE" THEN 1 ELSE 2

FixType(n) == IF n = 0 THEN 1 ELSE IF n <= 3 THEN 2 ELSE 3

\* The elements of a list that are in a set, in its order.
chosen(list, set) ==
  LET walk[k \in 0..Len(list)] ==
        IF k = 0 THEN <<>>
        ELSE IF list[k] \in set THEN Append(walk[k - 1], list[k]) ELSE walk[k - 1]
  IN  walk[Len(list)]

\* Faulty variant: all of them.
svUsedListAll(used) == chosen([i \in GPS |-> i], used)

\* At most twelve satellites, in the order of their numbers.
svUsedList(used) ==
  LET all == chosen([i \in GPS |-> i], used)
  IN  IF Len(all) > 12 THEN SubSeq(all, 1, 12) ELSE all

dilution(position) ==
  IF position.dop THEN [kind |-> "own"]
  ELSE IF dop # {} THEN [kind |-> "kept", of |-> dop]
  ELSE [kind |-> "none"]

fixSentences(position, criteria) ==
  << [type |-> "GPGSA", fixType |-> FixType(Cardinality(sv_used_mask)),
      svs |-> svUsedList(sv_used_mask), dop |-> dilution(position)],
     [type |-> "GPVTG", mode |-> ModeChar(position, criteria)],
     [type |-> "GPRMC", status |-> "A", mode |-> ModeChar(position, criteria)],
     [type |-> "GPGGA", quality |-> Quality(position, criteria),
      used |-> Cardinality(sv_used_mask), dop |-> dilution(position)] >>

blankSentences ==
  << [type |-> "GPGSA", fixType |-> 1, svs |-> <<>>, dop |-> [kind |-> "none"]],
     [type |-> "GPVTG", mode |-> "N"],
     [type |-> "GPRMC", status |-> "V", mode |-> "N"],
     [type |-> "GPGGA", quality |-> 0, used |-> 0, dop |-> [kind |-> "none"]] >>

-----------------------------------------------------------------------------
(* Sentences of the satellites in view: pages of four.                     *)

\* One more satellite was looked at.
seen(before, k, prn, system) ==
  [svs  |-> IF prn \in system THEN Append(before.svs, prn) ELSE before.svs,
   next |-> k + 1]

\* Faulty variant: satellites of the other system take a place on the page.
pageCountingAll(prns, system, n) ==
  LET walk[k \in n - 1 .. Len(prns)] ==
        IF k = n - 1 THEN [svs |-> <<>>, next |-> n]
        ELSE LET before == walk[k - 1]
             IN  IF before.next = n + 4 THEN before ELSE seen(before, k, prns[k], system)
  IN  walk[Len(prns)]

\* The next page: from satellite n on, up to four of the system, and the
\* satellite the page after it begins with.
page(prns, system, n) ==
  LET walk[k \in n - 1 .. Len(prns)] ==
        IF k = n - 1 THEN [svs |-> <<>>, next |-> n]
        ELSE LET before == walk[k - 1]
             IN  IF Len(before.svs) = 4 THEN before ELSE seen(before, k, prns[k], system)
  IN  walk[Len(prns)]

pages(type, prns, system) ==
  LET count == Cardinality({n \in DOMAIN prns : prns[n] \in system})
      sentenceCount == count \div 4 + (IF count % 4 # 0 THEN 1 ELSE 0)
      sentence(k, svs) == [type |-> type, of |-> sentenceCount, number |-> k, count |-> count,
                           svs |-> svs]
      walk[k \in 0..sentenceCount] ==
        IF k = 0 THEN [made |-> <<>>, next |-> 1]
        ELSE LET before == walk[k - 1]
                 p      == page(prns, system, before.next)
             IN  [made |-> Append(before.made, sentence(k, p.svs)), next |-> p.next]
  IN  IF count = 0
      THEN <<[type |-> type, of |-> 1, number |-> 1, count |-> 0, svs |-> <<>>]>>
      ELSE walk[sentenceCount].made

-----------------------------------------------------------------------------
Sentence ==
  [type : {"GPGSA"}, fixType : 1..3, svs : Seq(GPS), dop : Dilution]
  \cup [type : {"GPVTG"}, mode : {"N", "A", "D"}]
  \cup [type : {"GPRMC"}, status : {"A", "V"}, mode : {"N", "A", "D"}]
  \cup [type : {"GPGGA"}, quality : 0..2, used : 0..32, dop : Dilution]
  \cup [type : {"GPGSV", "GLGSV"}, of : Nat, number : Nat, count : Nat, svs : Seq(Nat)]

NmeaTypeOK ==
  /\ {generateNmea, intermediateFix, mNavigating, muted} \subseteq BOOLEAN
  /\ mFixCriteria \in [mode : Mode \cup {"INVALID"}, recurrence : Recurrence]
  /\ asked \in Mode \cup {"INVALID"}
  /\ sv_used_mask \subseteq GPS /\ dop \subseteq GPS
  /\ \A i \in DOMAIN sent : sent[i] \in Sentence
  \* a sentence says no fix exactly if it lists nobody
  /\ \A i \in DOMAIN sent : sent[i].type = "GPGSA" =>
       /\ Len(sent[i].svs) <= 12
       /\ (sent[i].fixType = 1) <=> (sent[i].svs = <<>>)

NmeaInit ==
  /\ generateNmea \in BOOLEAN /\ intermediateFix \in BOOLEAN
  /\ mFixCriteria = [mode |-> "INVALID", recurrence |-> "PERIODIC"]
  /\ asked = "INVALID" /\ mNavigating = FALSE /\ muted = FALSE
  /\ sv_used_mask = {} /\ dop = {}
  /\ report = NoReport /\ sent = <<>>

\* LocEngPositionMode, in a session or not.
SetMode ==
  /\ \E m \in Mode, r \in Recurrence :
       mFixCriteria' = [mode |-> m, recurrence |-> r] /\ asked' = m
  /\ UNCHANGED <<mNavigating, config, muted, cache, report, sent>>

\* LocEngAdapter::setInSession.
setInSession(inSession) ==
  /\ mNavigating' = inSession
  /\ mFixCriteria' = IF inSession THEN mFixCriteria ELSE [mFixCriteria EXCEPT !.mode = "INVALID"]
  /\ UNCHANGED asked

\* loc_eng_start_handler whose startFix succeeds, and loc_eng_stop_handler.
Start ==
  /\ ~mNavigating /\ setInSession(TRUE)
  /\ UNCHANGED <<config, muted, cache, report, sent>>

Stop ==
  /\ mNavigating /\ setInSession(FALSE)
  /\ UNCHANGED <<config, muted, cache, report, sent>>

\* loc_eng_handle_engine_up in a session: the flag is lowered, which forgets
\* the mode, and raised again if startFix succeeds.
EngineUp ==
  /\ mNavigating /\ mNavigating' \in BOOLEAN
  /\ mFixCriteria' = [mFixCriteria EXCEPT !.mode = "INVALID"]
  /\ UNCHANGED <<asked, config, muted, cache, report, sent>>

\* Muting begins and ends with other messages (module LocEngSession).
Mute ==
  /\ muted' = ~muted
  /\ UNCHANGED <<config, mode, cache, report, sent>>

\* The test of LocEngReportPosition::proc; the callback is always set.
Reported(p) ==
  \/ p.status = "FAILURE"
  \/ p.status = "SUCCESS" /\ p.satellite
  \/ intermediateFix /\ p.accurate

\* loc_eng_nmea_generate_pos: the satellites are cleared once they were used,
\* the dilution always.
nmeaGeneratePos(p, generate_nmea) ==
  /\ sent' = IF generate_nmea THEN fixSentences(p, mFixCriteria') ELSE blankSentences
  /\ sv_used_mask' = IF generate_nmea THEN {} ELSE sv_used_mask
  /\ dop' = {}

\* LocEngReportPosition::proc.  A single fix ends the session before the
\* sentences are made.
ReportPosition(p) ==
  /\ IF muted
     THEN UNCHANGED <<mode, cache, report, sent>>
     ELSE /\ IF Reported(p) /\ mFixCriteria.recurrence = "SINGLE"
             THEN setInSession(FALSE) ELSE UNCHANGED mode
          /\ IF generateNmea /\ p.gnss /\ p.satellite
             THEN /\ report' = [kind |-> "position", position |-> p]
                  /\ nmeaGeneratePos(p, Reported(p) /\ p.status # "FAILURE")
             ELSE UNCHANGED <<cache, report, sent>>
  /\ UNCHANGED <<config, muted>>

\* Faulty variant: the dilution is kept when a report brings none.
nmeaGenerateSvStale(r) ==
  LET views == pages("GPGSV", r.prns, GPS) \o pages("GLGSV", r.prns, GLONASS) IN
  IF r.used = {}
  THEN sent' = views \o blankSentences /\ UNCHANGED cache
  ELSE sent' = views /\ sv_used_mask' = r.used /\ dop' = IF r.dop THEN r.used ELSE dop

\* loc_eng_nmea_generate_sv: a report without a satellite in use leaves what
\* was kept from an earlier one.
nmeaGenerateSv(r) ==
  LET views == pages("GPGSV", r.prns, GPS) \o pages("GLGSV", r.prns, GLONASS) IN
  IF r.used = {}
  THEN sent' = views \o blankSentences /\ UNCHANGED cache
  ELSE sent' = views /\ sv_used_mask' = r.used /\ dop' = IF r.dop THEN r.used ELSE {}

\* LocEngReportSv::proc.
ReportSv(r) ==
  /\ IF ~muted /\ generateNmea
     THEN report' = [kind |-> "sv", sv |-> r] /\ nmeaGenerateSv(r)
     ELSE UNCHANGED <<cache, report, sent>>
  /\ UNCHANGED <<config, mode, muted>>

\* loc_eng_nmea_send: the sentences go to the framework before the worker
\* takes the next message.
nmeaSend ==
  /\ report # NoReport
  /\ report' = NoReport /\ sent' = <<>>
  /\ UNCHANGED <<config, mode, muted, cache>>

NmeaNext ==
  \/ /\ report = NoReport
     /\ \/ SetMode \/ Start \/ Stop \/ EngineUp \/ Mute
        \/ \E p \in Position : ReportPosition(p)
        \/ \E r \in SvReport : ReportSv(r)
  \/ nmeaSend

NmeaSpec == NmeaInit /\ [][NmeaNext]_nmeaVars

-----------------------------------------------------------------------------
(* Properties.                                                             *)

\* The pages made of a report carry every satellite of their system once, in
\* the order of the report, whatever satellites stand between them: the k-th
\* page the k-th four of them.  They stand together, are numbered through, and
\* announce the right numbers.
pagesFor(n) == IF n = 0 THEN 1 ELSE (n + 3) \div 4

fours(type, all, k) ==
  [type |-> type, of |-> pagesFor(Len(all)), number |-> k, count |-> Len(all),
   svs |-> SubSeq(all, 4 * (k - 1) + 1, IF 4 * k < Len(all) THEN 4 * k ELSE Len(all))]

Carries(type, system) ==
  LET all == chosen(report.sv.prns, system)
      n == pagesFor(Len(all))
  IN  \E first \in 0 .. Len(sent) - n :
        /\ \A i \in DOMAIN sent : sent[i].type = type <=> i - first \in 1..n
        /\ \A k \in 1..n : sent[first + k] = fours(type, all, k)

PagesCarryAll ==
  report.kind = "sv" => Carries("GPGSV", GPS) /\ Carries("GLGSV", GLONASS)

\* A dilution that was kept stands beside the satellites it was computed of,
\* whatever reports were blank, muted or incomplete in between.
DopMatchesSatellites ==
  \A i \in DOMAIN sent : sent[i].type = "GPGSA" /\ sent[i].dop.kind = "kept" =>
    svUsedList(sent[i].dop.of) = sent[i].svs

\* "D means differential" and "2 means DGPS fix" (loc_eng_nmea.cpp): no position
\* is called either after the framework asked for a standalone session.
DifferentialIsMeant ==
  asked = "STANDALONE" => \A i \in DOMAIN sent :
    /\ sent[i].type = "GPVTG" => sent[i].mode # "D"
    /\ sent[i].type = "GPGGA" => sent[i].quality # 2
=============================================================================
