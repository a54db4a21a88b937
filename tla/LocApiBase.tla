------------------------------ MODULE LocApiBase ------------------------------
(***************************************************************************)
(* The core between the modem and its clients: LocApiBase                  *)
(* (core/LocApiBase.cpp) with its array of adapters.                       *)
(*                                                                         *)
(* Three threads meet here without a lock.  The owner constructs and       *)
(* deletes adapters (LocAdapterBase), which enters them in the array and   *)
(* takes them out; the modem's thread walks the array to deliver an event  *)
(* to all adapters or to the first that handles it; the worker carries out *)
(* the queued messages that register the events with the modem.  What the  *)
(* walk and the removal do between two accesses of the array is one step.  *)
(*                                                                         *)
(* open and close are the modem's side (external).  open adds events to    *)
(* those registered, without the excluded ones: addAdapter opens only the  *)
(* new adapter's events and counts on the others staying.  close forgets   *)
(* them all, a modem that restarts forgets them too, and what is opened    *)
(* before the handle is negotiated again (LocSsrMsg) has no effect.        *)
(***************************************************************************)
EXTENDS Integers, Sequences

CONSTANTS
  Adapter,       \* the adapters that may be constructed
  NULL,
  MAX_ADAPTERS,
  Event,         \* the events an adapter can ask for
  MaskOf,        \* the events each adapter asks for
  Handler,       \* the adapters that handle requests (mSupportsAgpsRequests)
  Excluded,      \* the mask of the context
  MaxChanges,    \* bound on constructions and deletions
  MaxRestarts    \* bound on modem restarts

ASSUME LocApiAssumption ==
  /\ NULL \notin Adapter
  /\ MAX_ADAPTERS \in Nat \ {0}
  /\ MaskOf \in [Adapter -> SUBSET Event]
  /\ Handler \subseteq Adapter
  /\ Excluded \subseteq Event
  /\ MaxChanges \in Nat /\ MaxRestarts \in Nat

VARIABLES
  mLocAdapters,  \* the array
  alive,         \* adapters that are constructed
  dropped,       \* adapters constructed while the array was full
  removal,       \* how far a removeAdapter is
  queue,         \* messages for the worker
  registered,    \* events the modem reports
  modemUp,       \* the modem runs
  negotiated,    \* the handle to the modem is valid
  walk,          \* the delivery under way
  crashed,       \* a null pointer was called
  removed,       \* events of the adapters removed since the modem last forgot all
  early,         \* events of the opens that were queued when it did
  changes, restarts

left == <<removed, early>>
vars == <<mLocAdapters, alive, dropped, removal, queue, registered, modemUp, negotiated,
          walk, crashed, left, changes, restarts>>

Slot == 1 .. MAX_ADAPTERS

\* Adapters in the part of the array that a walk sees: up to the first hole.
Seen == {i \in Slot : \A j \in 1..i : mLocAdapters[j] # NULL}
Listed == {mLocAdapters[i] : i \in Seen}

NoRemoval == [step |-> "none", at |-> 1, last |-> 1]
NoWalk == [kind |-> "none", step |-> "end", at |-> 1, start |-> {},
           heard |-> [a \in Adapter |-> 0], disturbed |-> FALSE]

OpenMsg(mask) == [type |-> "open", mask |-> mask]
SsrMsg == [type |-> "ssr", mask |-> {}]

TypeOK ==
  /\ mLocAdapters \in [Slot -> Adapter \cup {NULL}]
  /\ alive \subseteq Adapter
  /\ dropped \subseteq Adapter
  /\ removal \in [step: {"none", "hole", "double"}, at: Slot, last: Slot]
  /\ \A i \in DOMAIN queue : queue[i] \in [type: {"open", "ssr"}, mask: SUBSET Event]
  /\ registered \subseteq Event
  /\ modemUp \in BOOLEAN /\ negotiated \in BOOLEAN
  /\ walk \in [kind: {"none", "all", "first"}, step: {"test", "call", "end"},
              at: 1 .. MAX_ADAPTERS + 1, start: SUBSET Adapter, heard: [Adapter -> Nat],
              disturbed: BOOLEAN]
  /\ crashed \in BOOLEAN /\ removed \subseteq Event /\ early \subseteq Event
  /\ changes \in 0..MaxChanges /\ restarts \in 0..MaxRestarts
  \* between two changes the array is without holes and without repetition
  /\ removal = NoRemoval =>
       \A i \in Slot : mLocAdapters[i] # NULL =>
         /\ i \in Seen
         /\ \A j \in Slot : mLocAdapters[j] = mLocAdapters[i] => j = i

Init ==
  /\ mLocAdapters = [i \in Slot |-> NULL]
  /\ alive = {}
  /\ dropped = {}
  /\ removal = NoRemoval
  /\ queue = <<>>
  /\ registered = {}
  /\ modemUp = TRUE
  /\ negotiated = TRUE
  /\ walk = NoWalk
  /\ crashed = FALSE
  /\ removed = {} /\ early = {}
  /\ changes = 0
  /\ restarts = 0

going == ~crashed

\* The events of the opens in a queue.
Pending(messages) == UNION {messages[i].mask : i \in DOMAIN messages}

\* The modem forgets the events registered, but those of the opens still queued
\* may come.
forget(messages) == removed' = {} /\ early' = Pending(messages)

-------------------------------------------------------------------------------
\* The owner.

\* LocApiBase::getEvtMask, as the array is seen.
getEvtMask == (UNION {MaskOf[a] : a \in Listed}) \ Excluded

FirstFree == {i \in Slot : mLocAdapters[i] = NULL /\ \A j \in 1..i-1 : mLocAdapters[j] # NULL}

\* LocAdapterBase::LocAdapterBase and LocApiBase::addAdapter: the first free
\* slot, and the adapter's own events for the modem; nothing if there is none.
addAdapter(a) ==
  /\ going
  /\ a \notin alive
  /\ removal = NoRemoval
  /\ changes < MaxChanges
  /\ changes' = changes + 1
  /\ alive' = alive \cup {a}
  /\ IF FirstFree = {}
     THEN /\ dropped' = dropped \cup {a}
          /\ UNCHANGED <<mLocAdapters, queue>>
     ELSE /\ \E i \in FirstFree : mLocAdapters' = [mLocAdapters EXCEPT ![i] = a]
          /\ queue' = Append(queue, OpenMsg(MaskOf[a]))
          /\ dropped' = dropped
  /\ UNCHANGED <<removal, registered, modemUp, negotiated, walk, crashed, left, restarts>>

\* The deletion of an adapter, up to the hole it leaves: from here on walks see
\* the array only up to there.  One that was dropped is not found.
RemoveBegins(a) ==
  /\ going
  /\ a \in alive
  /\ removal = NoRemoval
  /\ changes < MaxChanges
  /\ changes' = changes + 1
  /\ alive' = alive \ {a}
  /\ dropped' = dropped \ {a}
  /\ IF a \notin Listed
     THEN UNCHANGED <<mLocAdapters, removal, walk, left>>
     ELSE \E i, last \in Seen :
            /\ mLocAdapters[i] = a
            /\ \A j \in Seen : j <= last
            /\ mLocAdapters' = [mLocAdapters EXCEPT ![i] = NULL]
            /\ removal' = [step |-> "hole", at |-> i, last |-> last]
            /\ walk' = [walk EXCEPT !.disturbed = (@ \/ walk.step # "end")]
            /\ removed' = removed \cup MaskOf[a]
            /\ early' = early
  /\ UNCHANGED <<queue, registered, modemUp, negotiated, crashed, restarts>>

\* The last adapter moves into the hole; it is in two slots now, unless the
\* hole is the last slot.
RemoveMoves ==
  /\ going
  /\ removal.step = "hole"
  /\ mLocAdapters' = [mLocAdapters EXCEPT ![removal.at] = mLocAdapters[removal.last]]
  /\ removal' = [removal EXCEPT !.step = "double"]
  /\ UNCHANGED <<alive, dropped, queue, registered, modemUp, negotiated, walk, crashed,
                 left, changes, restarts>>

lastOne == removal.last = 1

\* Faulty variant: the slot the last adapter came from keeps it.
clearedNot == mLocAdapters

cleared == [mLocAdapters EXCEPT ![removal.last] = NULL]

\* The last slot is cleared.  An empty array closes the modem from this very
\* thread, otherwise the worker is sent the events that are left.
RemoveEnds ==
  /\ going
  /\ removal.step = "double"
  /\ mLocAdapters' = cleared
  /\ IF lastOne
     THEN /\ registered' = {}
          /\ forget(queue)
          /\ queue' = queue
     ELSE /\ queue' = Append(queue, OpenMsg(getEvtMask'))
          /\ UNCHANGED <<registered, left>>
  /\ removal' = NoRemoval
  /\ UNCHANGED <<alive, dropped, modemUp, negotiated, walk, crashed, changes, restarts>>

-------------------------------------------------------------------------------
\* The worker.

\* open, as far as the modem listens.
open(mask) == IF modemUp /\ negotiated THEN registered \cup (mask \ Excluded) ELSE registered

\* LocOpenMsg::proc.
LocOpenMsg ==
  /\ going
  /\ queue # <<>> /\ Head(queue).type = "open"
  /\ registered' = open(Head(queue).mask)
  /\ queue' = Tail(queue)
  /\ UNCHANGED <<mLocAdapters, alive, dropped, removal, modemUp, negotiated, walk, crashed,
                 left, changes, restarts>>

\* Faulty variant: the events that were registered before the restart.
reopenedOld == registered

\* LocSsrMsg::proc: close, then open what the adapters ask for now.
reopened == getEvtMask

LocSsrMsg ==
  /\ going
  /\ queue # <<>> /\ Head(queue).type = "ssr"
  /\ negotiated' = modemUp
  /\ registered' = IF modemUp THEN reopened ELSE {}
  /\ queue' = Tail(queue)
  /\ forget(queue')
  /\ UNCHANGED <<mLocAdapters, alive, dropped, removal, modemUp, walk, crashed, changes,
                 restarts>>

-------------------------------------------------------------------------------
\* The modem's thread.

Starts(kind) ==
  walk' = [NoWalk EXCEPT !.kind = kind, !.step = "test", !.start = Listed,
                         !.disturbed = (removal # NoRemoval)]

\* An event of the modem other than its restart.
Deliver(kind) ==
  /\ going
  /\ walk.step = "end"
  /\ modemUp /\ registered # {}
  /\ Starts(kind)
  /\ UNCHANGED <<mLocAdapters, alive, dropped, removal, queue, registered, modemUp,
                 negotiated, crashed, left, changes, restarts>>

\* Positions, satellites, status and sentences go to all adapters.
Report == Deliver("all")

\* Requests of the modem, for a time, a location, a connection, an answer of the
\* user, go to the first adapter that handles them.
Request == Deliver("first")

\* The modem goes down (handleEngineDownEvent).
handleEngineDownEvent ==
  /\ going
  /\ walk.step = "end"
  /\ modemUp
  /\ restarts < MaxRestarts
  /\ restarts' = restarts + 1
  /\ modemUp' = FALSE
  /\ negotiated' = FALSE
  /\ registered' = {}
  /\ forget(queue)
  /\ Starts("all")
  /\ UNCHANGED <<mLocAdapters, alive, dropped, removal, queue, crashed, changes>>

\* It is back (handleEngineUpEvent): the worker negotiates the handle anew.
handleEngineUpEvent ==
  /\ going
  /\ walk.step = "end"
  /\ ~modemUp
  /\ modemUp' = TRUE
  /\ queue' = Append(queue, SsrMsg)
  /\ Starts("all")
  /\ UNCHANGED <<mLocAdapters, alive, dropped, removal, registered, negotiated, crashed,
                 left, changes, restarts>>

\* Faulty variant: the walk ends before the last slot.
moreShort == walk.at < MAX_ADAPTERS /\ mLocAdapters[walk.at] # NULL

\* The condition of TO_ALL_LOCADAPTERS and TO_1ST_HANDLING_LOCADAPTERS.
more == walk.at <= MAX_ADAPTERS /\ mLocAdapters[walk.at] # NULL

Test ==
  /\ going
  /\ walk.step = "test"
  /\ walk' = [walk EXCEPT !.step = IF more THEN "call" ELSE "end"]
  /\ UNCHANGED <<mLocAdapters, alive, dropped, removal, queue, registered, modemUp,
                 negotiated, crashed, left, changes, restarts>>

\* Whether an adapter returns true for a request: LocEngAdapter does if the
\* connectivity callbacks are there, LocAdapterBase never.
handles(a) == a \in Handler

\* The call reads the slot again.  The first adapter that handles a request
\* ends the walk.
Call ==
  /\ going
  /\ walk.step = "call"
  /\ LET a == mLocAdapters[walk.at] IN
     IF a = NULL
     THEN crashed' = TRUE /\ walk' = walk
     ELSE /\ crashed' = FALSE
          /\ walk' = [walk EXCEPT
               !.heard = IF walk.kind = "all" \/ handles(a)
                         THEN [walk.heard EXCEPT ![a] = @ + 1] ELSE walk.heard,
               !.at = @ + 1,
               !.step = IF walk.kind = "first" /\ handles(a) THEN "end" ELSE "test"]
  /\ UNCHANGED <<mLocAdapters, alive, dropped, removal, queue, registered, modemUp,
                 negotiated, left, changes, restarts>>

Owner == (\E a \in Adapter : addAdapter(a) \/ RemoveBegins(a)) \/ RemoveMoves \/ RemoveEnds
Worker == LocOpenMsg \/ LocSsrMsg
Modem ==
  \/ Report \/ Request
  \/ handleEngineDownEvent \/ handleEngineUpEvent
  \/ Test \/ Call

Next == Owner \/ Worker \/ Modem

Spec == Init /\ [][Next]_vars

-------------------------------------------------------------------------------
\* With nothing queued and no removal under way, every adapter that exists is
\* in the array, and a modem that is up reports every event it asks for and the
\* context does not exclude, through any additions, removals and restarts;
\* except for an adapter that found the array full when it was constructed
\* (addAdapter, removeAdapter, LocSsrMsg).
EventsAreRegistered ==
  (queue = <<>> /\ removal = NoRemoval) =>
    \A a \in alive \ dropped :
      /\ a \in Listed
      /\ modemUp => MaskOf[a] \ Excluded \subseteq registered

\* Then the modem reports nothing else, but for events of adapters removed since
\* it last forgot all events, or of opens that were queued when it did: neither
\* a restart nor an addition brings back what nobody asks for, and the last
\* removal leaves a silent modem if no open was queued.
NothingElseIsRegistered ==
  (queue = <<>> /\ removal = NoRemoval) => registered \subseteq getEvtMask \cup removed \cup early

\* What the modem reports lies between what the adapters in the array ask for
\* and that with what was left behind; BitIsRemoved says what was not to be.
RegistrationBounded == EventsAreRegistered /\ NothingElseIsRegistered

\* "else we need to remove the bit" (removeAdapter): once the message that a
\* removal sends is carried out, the modem reports what the remaining adapters
\* ask for and no more, unless it forgot its events ahead of a queued open.
BitIsRemoved ==
  (queue = <<>> /\ removal = NoRemoval) => registered \subseteq getEvtMask \cup early

\* A delivery that no removal ran into reaches each adapter that was listed
\* exactly once, or the first of those that handle it and no other; only a
\* removal makes it call a null pointer.
DeliveredOnce ==
  /\ crashed => walk.disturbed
  /\ (walk.step = "end" /\ ~walk.disturbed) =>
       /\ walk.kind = "all" => \A a \in walk.start : walk.heard[a] = 1
       /\ walk.kind = "first" =>
            /\ walk.start \cap Handler # {} => \E a \in Handler : walk.heard[a] = 1
            /\ \A a, b \in Adapter : walk.heard[a] > 0 /\ walk.heard[b] > 0 => a = b
=============================================================================
