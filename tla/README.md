# Verification of the Xiaomi dior device tree

The repository is an Android device tree: mostly configuration, overlays and
vendor headers, with a few native programs in it. What carries logic of its own
is the GPS hardware abstraction layer under `src/gps` (about 10 000 lines of
C++ and C): a daemonless library between the Android framework and the modem,
made of state machines, a message queue with one worker thread, helper threads
and timers. Two smaller programs keep state as well, the lights HAL
(`src/liblights`) and the camera wrapper (`src/camera`). The specifications
here are about these three.

## 1. The system

### Threads

| thread | what it runs |
|---|---|
| framework threads (JNI) | `loc.cpp` entry points, which send messages; `loc_init`, `loc_cleanup`, `loc_eng_ni_respond` and what is stored for later (`agpsStatus`, buffered server addresses) act directly |
| `Loc_hal_worker` | `MsgTask::loopMain`: every `LocMsg::proc` of the HAL, one at a time |
| modem callback thread | `LocApiBase::report...`, which walk the adapters and send messages |
| one `ni_thread_proc` per network initiated request | waits for the answer or a time-out |
| one `timer_thread` per `loc_timer_start` | the retry of the emergency data call |
| data service thread | `ds_client` callbacks, which send messages |
| daemon server thread | `loc_eng_dmn_conn`, which reads daemon requests from a pipe and sends messages |
| binder threads | the functions of the lights and of the camera devices |

### Components

| component | state | operations | hard behaviour | correct when |
|---|---|---|---|---|
| AGPS NIF machines (`loc_eng_agps.cpp`) | state, subscriber list | subscribe, unsubscribe, granted, released, denied, flush | answers overtaken by later requests; a list that keeps subscribers waiting for the close; a modem restart | clients believe what the machine holds; every pending client is answered; one subscriber at a time on `wifi_nif` |
| ds_nif (`DSStateMachine`) | the same, retries, timers | the same, with a start that fails at once; retry; fallback to ATL | timer thread against the worker; failure while a request is being restarted | never two calls; state agrees with list; retries end |
| worker and queue (`MsgTask`, `msg_q.c`) | list, `unblocked` | send, receive, unblock, destroy | lost and spurious wake-ups, the end of the queue | in order, once, never asleep on work |
| positioning session (`loc_eng.cpp`) | session flag, mode, muting, aiding data, engine status | start, stop, mode, reports, delete aiding data, clean-up, modem down and up | restart in the middle of a session; status events of other sessions; work deferred to a later event; clean-up beside the worker | framework, HAL and modem agree on whether a session runs |
| start-up and configuration (`loc.cpp`, `loc_eng.cpp`) | adapter, machines, buffered addresses, availability of the network | `loc_init`, `loc_eng_agps_init`, `loc_eng_reinit`, servers, availability | events before the adapter is stored; a restart in the middle of the configuration; a value read, then queued | the modem has the whole configuration and the last availability |
| reports and NMEA (`loc_eng.cpp`, `loc_eng_nmea.cpp`) | satellites used, dilution, position mode | position and satellite reports, pages of sentences | sentences made of several reports | sentences agree with each other and lose no satellite |
| network initiated requests (`loc_eng_ni.cpp`) | request in session, id, answer, flag | request, answer, time-out, restart | three threads on one structure, with tests outside the lock | the modem is told what the user said to that request |
| linked list, timer (`utils`) | list; timer state | add, remove, search, flush; start, thread | search that deletes while it walks; thread against caller | as a sequence; callback exactly on time-out |
| daemon connection (`loc_eng_dmn_conn*`) | thread flags, pipes | launch, server loop, answers (unblock and join have no caller) | start-up handshake; the worker writing to pipes that are full or not open | the launch returns when the pipes are open; every request is run; answers go to who asked |
| LocApi core (`core/`) | adapter array, masks, contexts | add, remove, deliver, open, close, engine down and up | an array changed while another thread walks it; a close ahead of a queued open | every adapter hears every event once; the modem reports what somebody wants, and nothing else |
| lights (`liblights`) | five light states, a mutex, files | open, set, close | three lights share one LED, written part by part | the LED shows the most important light |
| camera wrapper | the vendor's module, a table of strings | open, close, set and get parameters | a table that all cameras share; HDR hidden in another parameter | each string freed once; the scene mode read back as set |
| XTRA, `gps.conf`, target, logging | a few statics | wrappers, parsing | none | - |
| init, WLAN address, calibration, overlays | - | straight-line | none | - |

The components of the GPS HAL interact by messages: an entry point or a
callback allocates a `LocMsg` and hands it to `MsgTask`; the worker runs its
`proc`. So "one action is one message run to its end" is the granularity of the
modules above the queue, and `Mailbox` states the promise of the queue that
justifies it. What leaves that discipline is finer: the NI threads and
`loc_eng_ni_respond`, `loc_init` and `loc_eng_reinit`, `loc_cleanup`, the array
of adapters, the daemon pipes, and the queue itself.

## 2. Modules

| module | models | proofs |
|---|---|---|
| `AgpsStates` | the four state classes as functions of event, state and list, shared by the next two as in the code | |
| `AgpsStateMachine` | one of `agnss_nif`, `internet_nif`, `wifi_nif`, its clients, the connectivity service, a modem restart; `mEnforceSingleSubscriber` is a variable fixed by `Init`, so one instance covers all three | `AgpsProofs` |
| `DSStateMachine` | `ds_nif`, its clients, the worker's queue, timers, the data service, membership of `agnss_nif` | `DsProofs` |
| `Mailbox` | what callers of `sendMsg` rely on (abstract) | |
| `MsgTask` | `MsgTask.cpp` over `msg_q.c`; implements `Mailbox` | `CoreProofs` |
| `LocEngSession` | the session part of `loc_eng.cpp` and `LocEngAdapter` | `SessionProofs` |
| `LocEngInit` | start-up, configuration, servers, availability of the network | `LocEngProofs` |
| `LocEngNmea` | the way of a position or satellite report to the sentences | `LocEngProofs` |
| `NetworkInitiated` | `loc_eng_ni.cpp` on three threads | `NiProofs` |
| `DmnConn` | `loc_eng_dmn_conn*`: launcher, server thread, the worker's answers, the daemons; the NIF machines are reduced to how many answers a request may get | `DmnProofs` |
| `LocApiBase` | `LocApiBase.cpp`, `LocAdapterBase.cpp`: owner, modem and worker threads on the array of adapters | `CoreProofs` |
| `Lights` | `lights.c` | `DeviceProofs` |
| `CameraWrapper` | `CameraWrapper.cpp` | `DeviceProofs` |
| `MC...` | finite instances for TLC | |

Operators called "faulty variant" are not part of any specification. Each is a
plausible mistake in the definition that follows it; putting it in the place of
that definition breaks one property, which shows that the property depends on
the code.

### How the state corresponds to the code

`AgpsStateMachine`. `mSubscribers` is split into `active` and `inactive`
(`Subscriber::isInactive`); the order of the list does not matter there.
`waitForCloseComplete` tells `WIFISubscriber` from `ATLSubscriber` and
`BITSubscriber`. `client` is what each client was last told or last asked: it
is the code's output, not its state. `conn`, `lastCall` and `answers` are the
connectivity service behind `agps_status_cb` (external) and the messages
`LocEngAtlOpenSuccess`, `LocEngAtlClosed` and `LocEngAtlOpenFailed` that wait
in the queue. A grant may name no access point; `loc_eng_agps_open` then sends
no message, and `unheard` remembers it until the next grant or attempt.
`FreedReads` are the identities a deleted `Subscriber` may spell
when `notifySubscribers` compares the rest of the list with it: undefined
behaviour is a choice.

`DSStateMachine`. The list is a sequence, because `connHandle` is the first
active subscriber from its head. `startDataCall` is `sendRsrcRequest` after the
answer of `openAndStartDataCall`, retry and fallback included; an attempt while
there is a call makes `dataCall` "second", whatever it answers. `TimerFires` is
`delay_callback` on the timer's thread. `without` is `linked_list_search` as
the machine uses it: what is left of the list when some subscribers are taken
out. `LocEngReleaseATL` searches `agnss_nif`
first, so its membership `agnss` is state here and its machine is not.

`MsgTask`. An action is what runs between a lock and the next unlock or wait.
`worker` is the program counter of `loopMain` inside `msg_q_rcv`.

`LocEngSession`. `mNavigating`, `mFixCriteria`, `mute`, `engine_status` and
`pendingAiding` are fields of the same or a similar name
(`mute_session_state`, `aiding_data_for_deletion`). The modem (`up`, `fix`,
`modemMode`) is external: its `startFix` and `stopFix` succeed, fail (`failed`
remembers it), or find the engine down. `told` and `askedAiding` record what
other parties were told or asked. `Cleanup` reads the session flag from the
framework's thread; `cleaned` remembers a clean-up that no queued start and no
return of the modem overlapped.

`LocEngInit`. `caller` is how far `loc_init` is: the adapter's construction
registers its events before the pointer is stored, so the worker can use it too
early (`fault`, where the model stops). `ReinitBegins` and `ReinitEnds` are
`loc_eng_reinit` before and after it reads `agpsStatus`. `given` and `data` are
what the modem has; a restart empties them, and a modem whose handle is stale
(`linked`) takes nothing. The kind of target and the capabilities of the LBS
proxy are chosen by `Init`.

`LocEngNmea`. A sentence is a record of what it says; `sent` are the sentences
of the report under way. `sv_used_mask` and `dop` are what the satellite report
leaves for the next position. `mFixCriteria` is the adapter's copy of the mode
and `asked` what the framework set last; `setInSession` forgets the first when
the session flag (`mNavigating`) is lowered, which a stop, a single fix and a
modem that is back do. `chosen` picks the bits of `sv_used_mask`; `page` and
`pages` are the inner and the outer loop of `loc_eng_nmea_generate_sv`, as
functions that walk over the list of satellites.

`NetworkInitiated`. The fields of `loc_eng_ni_data_s`. `RespondTest` and
`RespondSet`, and the four `Reset...` steps, are one function each, cut where
it touches the structure without the lock. Several threads of the framework
(`Caller`) may be in `loc_eng_ni_respond` at once, and answer a request late,
again or differently; `said` are all the answers given to it. Two variables
remember which requests met one of the windows the code has: `exposed` those
that began while an answer, a thread or the id of another request was still
there, or that a late answer to another one hit; `torn` those whose thread
ended between the steps of the reset.

`DmnConn`. `launcher` and `server` are the program counters of
`loc_eng_dmn_conn_launch_thelper` and `thelper_main`; `thread_ready` and
`thread_exit` are the fields. A pipe holds whole frames. `frames` is the
server's pipe in order; of an answer pipe only the number of answers in it
matters (`answers`). `opened` says which of the five queue ids are usable:
`loc_api_server_proc_init` reports no failure, so the ones that could not be
opened (`unopenable`) stay closed. The daemons are external. `spurious`
remembers a wake-up for no reason, which the wait does not guard against.

`LocApiBase`. `mLocAdapters` is the array; `removal` cuts `removeAdapter` where
the modem's thread can see the hole, and the adapter that fills it in two
places. `walk` is `TO_ALL_LOCADAPTERS` or `TO_1ST_HANDLING_LOCADAPTERS`, cut
between the test of a slot and the call through it; `heard` counts calls and
`disturbed` remembers that a removal ran into the walk. `registered` is the
modem's mask, external as `open` and `close` are. `open` adds events to it:
`addAdapter` opens only the events of the new adapter, which would take the
other adapters' events away if `open` replaced them. `removed` and `early` are
what may be left behind: events of adapters removed since the modem last forgot
everything, and events of opens that were queued when it did.

`Lights`. `pc` is where each thread is in `open_lights`, in one of the
`set_light_...` functions, or between the writes. `led`, `blink` and `panel`
are the files; `stale` and `dim` remember the files whose last write failed,
which the code does not notice.

`CameraWrapper`. `live` are the addresses `strdup` has returned and nobody has
freed; a freed address may be returned again, and a second free or a read after
a free is `fault`, where the model stops. `tmp` is the string that
`camera_set_parameters` has made and the vendor has not read yet. `asked`,
`given` and `read` hold the three parameters whose rewriting depends on one
another: recording hint, scene mode, capture mode. The vendor may refuse what it
is given (`VendorRefuses`), which leaves the refused string in the table and
`given` as it was; `asked` is the call under way, `taken` the last one accepted,
and `hdrPhotos` the cameras set to HDR photos since they were opened.

## 3. Runs

| run | result | what it shows |
|---|---|---|
| `agps_queue` | holds | Four clients, answers up to four deep, one modem restart. What clients believe is what the machine holds (`ClientBelief`); state, list and calls agree (`NifConsistent`), with overtaken answers and reads of freed memory; only a restart strands a NIF (`OnlyRestartStrands`); every waiting client is answered, unless the grant named no access point (`Answered`). Beside it, two threads and the worker itself send two messages each. No lost wake-up (`NoLostWakeup`); no early end, every message accounted for, in order (`MessagesKept`); the queue drains (`Drains`); `MsgTask` implements `Mailbox` (`MailboxSpec`). |
| `ds` | holds | Two clients, three requests, two retries, one restart. State, list and call agree and no request is made for nobody (`CallConsistent`), a call is asked for only when there is none, starting or up, and no report of the last one is on its way (`StartsFromDown`), and retries end (`RetriesEnd`). |
| `session` | holds | The session with any calls and reports, one restart. The framework is told of every session that runs (`NavigatingIsTold`); a periodic session resumes and the modem has no fix the HAL forgot (`FixMatchesSession`); a clean-up stops the session (`CleanupStops`); aiding data waits for the engine (`DeletesOnlyWhenOff`); muting lasts (`MuteLasts`). |
| `init` | holds | `loc_init` and `loc_eng_agps_init` beside the worker and a modem that restarts twice. With nothing on its way, the modem has all of the configuration (`ConfigReachesModem`) and the availability stored last (`AvailabilityKnown`). |
| `init_server` | violated | `ServerReachesModem`, from `loc_eng.cpp:2034`. |
| `nmea_mode` | violated | `DifferentialIsMeant`, from `loc_eng_nmea.cpp:269` and `:500`. |
| `ni` | holds | Two requests, two callers that accept or ignore, one restart. The data of each request is freed once and not while an answer carries it, but for a thread that ends in the middle of the reset; nothing but IGNORE drops it; a request turned away is never answered (`DataAccounted`); only a request that is `exposed` can be told an answer that is not its own, repeated and contradicting answers, time-outs and restarts do not do it (`ConsentUnlessExposed`); requests end (`RequestEnds`). |
| `ni_restart` | violated | `SendsLiveData`, from `loc_eng_ni.cpp:223`. |
| `dmn` | holds | The GPS daemon and a Wi-Fi daemon, two requests each, pipes of one frame. The launch returns early only after a spurious wake-up; answers go to an open pipe and to who asked (`PipesSound`); the launch returns and every request is run although worker, server and daemons wait on full pipes (`NobodyWaits`). |
| `reports` | holds | Three adapters for an array of two. Once the queue is empty a modem that is up reports all that the adapters ask for, and beyond it only what `removed` and `early` name (`RegistrationBounded`); a delivery no removal ran into reaches each adapter once (`DeliveredOnce`). Beside it, every report in any order with mode changes, muting, sessions and modem restarts. Pages of satellites lose and repeat none (`PagesCarryAll`); a dilution kept from an earlier report stands beside its own satellites (`DopMatchesSatellites`). |
| `locapi_bit` | violated | `BitIsRemoved`, from `LocApiBase.cpp:197`. |
| `device` | holds | Two threads and five lights, with writes that fail. With the lock free the LED shows the most important light (`ShowsMostImportant`). Beside it, two cameras, every failure of `open`. As long as cameras are opened one at a time no string is freed twice or lost (`StringsAreSound`), and the scene mode of the last call the vendor accepted is read back, except by a back camera in a recording after an HDR photo (`SceneReadBack`). |

The type invariant of a module (`TypeOK`, `LightsTypeOK`, `NmeaTypeOK`) is
checked in its run, or in the case of `agps_queue` proved and not checked there.

`agps_queue`, `reports` and `device` each run two components that share no
state: `moving` chooses at the start which of them moves, while the other rests in
an initial state, so every run of each of them alone is a run of the two, and the
properties are those of both.

### The violated runs

Each states what a comment of the repository says, and TLC finds a run of the
model, hence of the code, that does something else.

**A server address set before `init` is lost.** `loc_eng.cpp:2034` says that it
sets the "server addresses which came before init", and `loc_eng.h:123` calls
the buffers "for addressing setting before init". `loc_eng_init` clears the
whole structure (`loc_eng.cpp:1508`), the buffers and their flags with it; the
run ends with the HAL initialised and the address nowhere.

**A restart sends freed data** (`ni_restart`). By `loc_eng_ni.cpp:223` the
thread is "to exit without calling sending data" on a modem restart, because
`rawRequest` is NULL by then. The reset frees it first and clears it after,
both outside the lock (`loc_eng_ni.cpp:265-267`); a thread that ends in between
sends the freed data, and its message frees it again.

**A removed adapter's bit stays** (`locapi_bit`). After a removal "we need to
remove the bit" (`LocApiBase.cpp:197`). What is sent is the message by which
`addAdapter` adds events, with the mask that is left. The run rests on `open`
adding events, as `addAdapter` needs it; were it to replace them, the bit would
go, and each new adapter would silence the others.

**A standalone fix is called differential** (`nmea_mode`). `loc_eng_nmea.cpp:269`
writes 'D', which "means differential", for every mode but STANDALONE. The fix
that ends a single session sets the mode to INVALID before its own sentences
are made (`loc_eng.cpp:758`). The quality '2' of the same sentences, which
"means DGPS fix" (`loc_eng_nmea.cpp:500`), is chosen in the same way; the run
checks both. A session that goes on after a modem restart has lost its mode as
well (`loc_eng.cpp:2546`), and there every later fix is concerned.

### Behaviours the models have that a reader may not expect

The models follow the code here, and the properties are stated around it.

- A NIF machine takes an old answer for a new one: request, release, request,
  and the denial of the first request reaches Pending, or its grant and then the
  confirmation of the release. The machine goes to Released and drops its
  clients; the new connection comes up and nobody releases it.
- A restart leaves a NIF requested or held for nobody. `OnlyRestartStrands`
  says that nothing else does; it does not say that this is right.
- A grant that names no access point sends no message (`loc_eng.cpp:2166`),
  although `loc_eng_agps_open` "should inform engine about the data open result"
  (`loc_eng.cpp:2147`): the machine waits in Pending, where it does not listen to
  the loss of the connection either, until its clients give up.
- In `ds_nif` a start that fails stays in Released with the client on the list,
  where "the list should really be empty" (`loc_eng_agps.cpp:288`); the client's
  unsubscription leaves it there, and the retry timer may start the call for a
  client that was told it is unsubscribed. A failed restart in Releasing leaves Pending
  with no call on its way.
- A second deletion of aiding data replaces the first when both wait for the
  engine to stop.
- The session restarted after a modem restart runs with mode INVALID:
  `setInSession(false)` forgets the mode.
- A clean-up that overlaps a queued start, or the return of the modem, does not
  stop the session (`cleaned` excuses it). A change of the network's
  availability that races with `loc_eng_reinit` may be overwritten by the older
  one (`raced` excuses it). Which session is muted when muting is armed twice is
  not stated.
- The answer to one network initiated request can be taken for the next,
  because id and session are tested outside the lock and the id is counted up
  after it; an answer let through before the time-out, or the reset on a restart,
  raises the response flag that `loc_eng_ni.cpp:219` has reset "for the next
  session". A request whose thread was not created stays in session, and the
  next one is shown under the same id.
- A modem that restarts while `loc_eng_init` constructs the adapter makes the
  worker use a null pointer.
- An adapter beyond the size of the array is dropped without a word; a removal
  during a delivery makes it miss or repeat an adapter or call a null pointer.
- Blinking of the LED is switched on and never off.
- Opening a second camera while one is open loses or doubly frees strings.
  Every open allocates a table of strings that nobody frees; only the strings
  are followed. The capture mode of an HDR photo outlives it in a recording.
- Not in the model: the camera wrapper turns the rotation by 90 degrees on
  every read (`CameraWrapper.cpp:147`), so setting what was read turns it again.

### Bounds

- `agps_queue`: two ATL clients, one BIT daemon and one Wi-Fi daemon are one of each
  kind the machine tells apart and a second of the kind that can be several;
  on `wifi_nif` the Wi-Fi daemon competes with any other client. `MaxAnswers`
  = 4 lets a grant, a loss, a release and a new denial wait together, more than
  any one state change needs. Two threads and the worker contend for the queue, with
  two messages each, so that one of each may be in every place. The proofs remove
  these bounds for the safety properties.
- `ds`: `MAX_START_DATA_CALL_RETRIES` is 2 in place of 4: the code compares it
  in one place, and 2 has a first, a middle and a last retry. `MaxRequests` = 3
  lets one client ask again while the other waits. `DsProofs` removes them for
  the safety properties.
- `session`: with a queue of 2 one message is followed by another, which is
  what each of the deferred effects needs; one restart meets every state, and
  one deletion can wait for the engine. `SessionProofs` removes all of them.
- `init`: the framework sends while at most three messages wait, a message of
  each setting beside a configuration; three changes and two restarts let the
  second restart meet the recovery from the first. Both servers, and every
  sensor property set, so that every configuration message exists.
  `LocEngProofs` removes the bounds.
- `reports`: of the sentences, every pattern of GPS, GLONASS and other satellites up to seven of
  them, so that the boundary of the first page falls on each kind of satellite
  and the second page begins and ends everywhere; 9, 13 and 18 satellites
  reach a third page and the limit of twelve satellites in use. In
  `LocEngProofs` a report has any satellites, any number of times. `nmea_mode`
  is about positions, for which one satellite is enough.
  Of the adapters, an array of two has a slot to move into and one to move from, and
  the third adapter finds it full; five changes fill, empty and fill it again;
  two restarts let one meet the recovery of the other. One event is excluded by
  the context. `CoreProofs` removes all of them.
- `ni`: two requests, of which the second follows the first or is turned away,
  both kinds of answers, and two callers of `loc_eng_ni_respond` that overlap.
  That what one request meets does not outlast it needs a third request: there
  `ConsentUnlessExposed` rests on the proof. `NiProofs` removes the bounds.
- `dmn`: a pipe of one frame is full at once, and two daemons with two requests
  each can fill their own pipe and the server's at the same time; a request may
  have up to two answers (granted, then taken away). `DmnProofs` removes the
  bounds.
- `device`: two threads contend for the lights; dark, steady, and blinking in two
  of three parts; one file may refuse writes. Two cameras, one back and one front,
  and an address for each. Once cameras have overlapped, where no property promises
  anything of parameters, the run goes on only while both have their defaults
  (`DefaultsWhenOverlapped`). `DeviceProofs` removes the bounds.

`CHECK_DEADLOCK FALSE` stands where the system may really stop: the queue is
freed (`agps_queue`); all bounded requests, changes or restarts are used up (`ds`,
`ni`, `dmn`, `init`, `reports`; in `dmn` the launch also hangs if the thread was
not created, as in the code); a null pointer was called (`reports`, `init`) or
freed memory used (`device`), where the program would end.

### Fairness

- `agps_queue`: the worker runs the messages it is sent (the queue's `Drains`), and
  the connectivity service answers each attempt. The thread of the queue is
  scheduled and its handler returns. Clients, losses, restarts and senders are
  not fair.
- `ds`: the worker runs, an armed timer ends (`pthread_cond_timedwait`
  returns). The data service is not assumed to answer.
- `ni`: each NI thread is scheduled and its timed wait returns, and the worker
  runs each answer.
- `dmn`: launcher, server and worker are scheduled, and a daemon reads the
  answers to its requests. Spurious wake-ups, writes of the daemons and failure
  of memory are not fair.
- `session`, `init`, `reports` and `device` state no liveness:
  what must happen is stated of the states in which nothing is left in the
  queue, or as what is on its way (`Queued`).

## 4. Proofs

Every proof starts from the named assumption on the constants of its module,
which TLC evaluates in the runs. Each has the same shape: an inductive
invariant `IInv` that holds initially, one lemma for each group of facts with
one step per action, and theorems that follow from it.

**`AgpsProofs`**, from `NifAssumption` (any clients, any of them waiting for
the close, any freed memory, any bounds): type correctness, `NifConsistent`
with its parts, `ClientBelief`, `OnlyRestartStrands`. `ListInv` joins the parts
of `NifConsistent` with `WaitersShape`: subscribers that wait for the close
exist on `wifi_nif` only, and one is inactive only while the NIF is being
released. Without it the machine could sit in Acquired with an inactive
subscriber that `addSubscriber` refuses to list again, and its client would
wait for ever. `IInv` adds `ClientBelief`, whose step needs `ListInv`.

**`CoreProofs`** about `MsgTask`: type correctness, `NoLostWakeup`, that the worker ends
only when told, `MessagesKept`, and that `MsgTask` implements `Mailbox` under
`Box`. `HoldsOne` says that a message is at hand exactly while it is being
handled. For `MessagesKept` two more facts are needed: `OrderInv` extends the
order of what was handled to what is at hand and queued, so that no message is
in two of these, and `PlaceInv` says that queued, at hand, handled, flushed and
leaked are together what was sent. The refinement maps `Receive` and `Resume`
to `Take` or a stutter, `Handle` to `Finish`, `Unblock` to `Close`, `Destroy`
to `Discard`.

**`SessionProofs`**, for any kinds of aiding data and any bounds: type
correctness and all five properties of the run. `FixInv` adds to
`FixMatchesSession` that a modem that is down has no fix, and that neither the
adapter nor the modem knows a single fix if none was asked for; `CleanInv` adds
to `CleanupStops` that no start is queued behind a clean-up. What the queue
holds after a message is appended or taken are two lemmas, `AppendHas` and
`TailHas`.

**`NiProofs`**, for any number of requests and restarts, any callers and any
answers: type correctness, `ConsentUnlessExposed`, `DataAccounted`.
`NiAssumption` excludes that a user's answer is one of the three words that
stand for no answer. `FreeInv` and `ResetInv` follow the data of a request from
the one place that may free it to the next, through the steps of a reset;
`ShownInv` and `FreshInv` say which requests can be known; `ConsentInv` says
that, for a request in session that is not exposed, the thread, the id and every
answer on its way are its own. `CountInv` is about the id itself: it is the
number of threads that have ended, which is what keeps it in its type.

**`DmnProofs`**, for any daemons, any room in the pipes and any number of
requests: type correctness and `PipesSound`. `ThreadInv` says what the flags
of the thread helper and the open pipes tell about the server, and that the
worker has nothing to do for a daemon before the server is in its loop.
`CountInv` counts the requests of a daemon in the pipe, in the queue and run,
which together are what it wrote, and its answers owed, in hand and in its
pipe. What a place more or less does to these counts is in the lemmas
`CountAppend` and `CountTail`.

**`CoreProofs`** about `LocApiBase`, for any adapters, masks, size of the array, changes and
restarts: type correctness, `RegistrationBounded`, `DeliveredOnce`. `ArrayInv`
describes the array at each of the three steps of a removal: what is in it is
always what exists and was not dropped. `RegInv` says where an event that an
adapter asks for is: registered, in a queued open, in the queued negotiation of
the handle, or in the open that will end a removal. `LeftInv` is the other
direction: every event registered or in a queued open is asked for by an adapter
in the array, or was left behind. `WalkInv` says that a
delivery no removal met has called the slots behind it once each; an addition
cannot break this because the first free slot is never behind the walk.

**`DeviceProofs`** about `Lights`, for any threads, states and files that refuse writes: type
correctness (a brightness is a byte: the weights of `rgb_to_brightness` add up
to 256), mutual exclusion of the writers, `ShowsMostImportant`. `LockInv` ties
the mutex to the place of its owner and rests on `pthread_once`; `ShowInv` says
that a writer has chosen the most important light and what it has passed shows
it.

**`DeviceProofs`** about `CameraWrapper`, for any number of cameras and any memory: type correctness,
`StringsAreSound`, `SceneReadBack`. `CameraAssumption` says that the null
pointer is neither a string nor a table. `StringsInv` says that, with cameras
opened one at a time, the one string allocated is that of the open camera, in
the table its own open allocated. `SceneInv` says that the capture mode HDR is
carried only by a back camera that took HDR photos, both in what the vendor
works with and in what was last read, and that a string the vendor has not read
yet asks for the scene of its call; a refusal changes none of these.

**`DsProofs`**, for any clients, retries, requests and restarts: type
correctness (no client is on the list twice), `CallConsistent`,
`StartsFromDown`. The properties relate the state and the list to messages that
are still queued, so the invariant is about the queue: `CallInv` says which of
the reports `OPENED` and `CLOSED` of the data service may wait in each state of
the call, and in which order, so that a start never finds a call that is
starting or up; `TokenInv` counts the requests in the queue, in
timers and waiting for a release, which are never more than the clients have
made. `StateMatchesList` depends on who is left when `without` has taken
subscribers off the list: that it keeps exactly the others, and repeats nobody,
is proved by induction over the list.

**`LocEngProofs`** about `LocEngInit`, for any length of the queue, number of
changes and restarts, and with or without sensor properties: type correctness,
`ConfigReachesModem`, `AvailabilityKnown`. `LinkInv` says that for a modem that is up
and not linked an open is queued, ahead of the next configuration; without it
all of the configuration could be run against a stale handle and be lost.
`ConfigInv` follows each item into the queue. `DataInv` says that the last
message on availability agrees with what is stored, and so does what
`loc_eng_reinit` has read and not yet sent. That they are preserved is about
appending to and taking from a queue, which are lemmas of their own.

**`LocEngProofs`** about `LocEngNmea`, for any reports of satellites: type
correctness, `PagesCarryAll`, `DopMatchesSatellites`. The second
needs what the loops over the satellites compute for every list:
`ChoiceFacts` (what `chosen` keeps is as much as the list has of the set, in
order), `PageFacts` (a page shows the next four, and the next page begins
behind the last of them, wherever satellites of another system stand) and
`PagesFacts` (after `k` pages the first `4 * k` were shown, and the number of
pages announced is the number made). The invariant `NmeaInv` adds that a
dilution that is kept is of the satellites that are kept.

Induction over data. The library's induction theorems take an operator as a
parameter and cannot be used, so these modules derive induction for sets of
numbers from `WFMin`: a set of numbers that is not empty has a least one
(`LeastNumber`), hence a set with 0 and with each successor has them all
(`Induction`). `Recursion` uses it to show that a walk from state to state
exists, which makes the recursive functions `chosen`, `page` and `pages` equal
to their defining equations. This is why these operators are recursive
functions over positions and not `SelectSeq` or a recursive operator: of those
the prover knows nothing.

Only model-checked: the liveness properties (`Answered`, `RetriesEnd`,
`Drains`, `RequestEnds`, `NobodyWaits`), which the prover does not reach. Every
safety property of a passing run is proved.

## 5. Not modelled

- Text: the characters of NMEA sentences and the buffers they are written to,
  names in the log, host names.
- Parsing in one pass: `gps.conf`, `sap.conf`, the name of the target. The
  results are parameters of `LocEngInit`.
- Calls that are one message without state: injection of time, position,
  reference location and XTRA data, set ids, ZPP requests, raw data.
- The closed modem library behind `LocApiBase`: its calls are external.
- The pointers of `linked_list.c`: the list is a sequence or a set. A search on
  the timer's thread while the worker changes the list would need them.
- The contexts created on first use without a lock: the repository creates them
  from one thread.
- `loc_eng_dmn_conn_loc_api_server_unblock` and `join`, which have no caller.
- The functions of the camera wrapper that forward a call unchanged, and
  parameters whose rewriting keeps no state.
- The straight-line start-up programs (`init_dior.c`,
  `wcnss_xiaomi_client.c`), which read a file and set properties.
- The device's overlays and configuration files, which are data.

## 6. Plan

1. An abstract specification of the emergency call (a call, who holds it) that
   `DSStateMachine` implements, and one of the positioning session that
   `LocEngSession` implements, each with its refinement proved.
2. `LinkedList`: the pointers of `linked_list.c` as a refinement of a sequence,
   with the search that deletes, against the timer thread of `ds_nif`.
3. The composition of `LocEngInit` and `LocEngSession`: a restart that meets
   start-up, configuration and session together.
