------------------------------- MODULE DmnConn -------------------------------
(***************************************************************************)
(* The connection of the positioning daemons to the HAL: the server thread *)
(* of loc_eng_dmn_conn.cpp, the thread helper that launches it, the        *)
(* handlers that turn a frame into a message for the worker, and the       *)
(* answers the worker writes back.                                         *)
(*                                                                         *)
(* Threads: the launcher (the framework inside loc_eng_agps_init), the     *)
(* server, the worker, and the daemons (external), each a process that     *)
(* writes frames to the server's pipe and reads its own pipe.  Pipes hold  *)
(* Room frames; a write to a full pipe waits.  unblock and join are never  *)
(* called (loc_eng_cleanup leaves them out), so the server ends only when  *)
(* it is out of memory.  Reads and writes of a frame are whole: a frame is *)
(* shorter than PIPE_BUF, and reads are taken not to be interrupted.       *)
(***************************************************************************)
EXTENDS Naturals, Sequences, FiniteSets

CONSTANTS
  Daemon,      \* the senders; each names its own answer pipe as well
  GpsOne,      \* the GPS daemon among them
  ServerPipe,  \* GPSONE_LOC_API_Q_PATH
  Room,        \* frames a pipe holds
  MaxFrames    \* bound on requests and releases per daemon

ASSUME DmnAssumption ==
  /\ GpsOne \in Daemon /\ ServerPipe \notin Daemon
  /\ Room \in Nat \ {0} /\ MaxFrames \in Nat

\* The answers to one request: none if its subscriber is flushed, one as a
\* rule, two if what was granted is taken away by force later.
PerRequest == 2

Pipe == Daemon \cup {ServerPipe}
Idle == ServerPipe

VARIABLES
  thread_ready, thread_exit,  \* of loc_eng_dmn_conn_thelper
  launcher,    \* the framework in loc_eng_dmn_conn_launch_thelper
  spurious,    \* its wait ended for no reason
  server,      \* thelper_main
  unopenable,  \* pipes that cannot be created or opened
  opened,      \* pipes the server has opened
  frames,      \* content of the server's pipe
  msgs,        \* daemon requests in the worker's queue
  worker,      \* the daemon the worker is writing to, or Idle
  owed,        \* answers the worker has still to give
  answers,     \* content of each answer pipe
  lost,        \* daemons with an answer written to a pipe that is not open
  sent, taken  \* per daemon: requests written, run

thelper == <<thread_ready, thread_exit, launcher, spurious, server>>
pipes   == <<unopenable, opened>>
work    == <<msgs, worker, owed, lost, taken>>
vars    == <<thelper, pipes, frames, work, answers, sent>>

Frame == [from : Daemon, kind : {"REQUEST", "RELEASE", "OTHER"}]

TypeOK ==
  /\ {thread_ready, thread_exit, spurious} \subseteq BOOLEAN
  /\ launcher \in {"out", "created", "waiting", "woken", "back"}
  /\ server \in {"none", "init", "opened", "loop", "ended"}
  /\ unopenable \subseteq Pipe /\ opened \subseteq Pipe \ unopenable
  /\ \A i \in DOMAIN frames : frames[i] \in Frame
  /\ \A i \in DOMAIN msgs : msgs[i] \in Daemon
  /\ worker \in Daemon \cup {Idle} /\ lost \subseteq Daemon
  /\ Len(frames) <= Room
  /\ answers \in [Daemon -> 0..Room]
  /\ \A count \in {sent, taken} : count \in [Daemon -> 0..MaxFrames]
  /\ owed \in [Daemon -> 0..PerRequest * MaxFrames]

None == [d \in Daemon |-> 0]

Init ==
  /\ thread_ready = FALSE /\ thread_exit = FALSE
  /\ launcher = "out" /\ spurious = FALSE /\ server = "none"
  /\ unopenable \in SUBSET Pipe /\ opened = {}
  /\ frames = <<>> /\ msgs = <<>>
  /\ worker = Idle /\ owed = None /\ lost = {}
  /\ answers = None /\ sent = None /\ taken = None

plus(count, d) == [count EXCEPT ![d] = @ + 1]

-----------------------------------------------------------------------------
(* The launcher.                                                           *)

\* loc_eng_dmn_conn_launch_thelper up to the creation of the thread.  The
\* callback of the framework gives no error: a thread that could not be
\* created is waited for as well.
Launch ==
  /\ launcher = "out" /\ launcher' = "created"
  /\ thread_ready' = FALSE /\ thread_exit' = FALSE
  /\ server' \in {"init", "none"}
  /\ UNCHANGED <<spurious, pipes, frames, work, answers, sent>>

\* thelper_signal_wait: one test, then one wait.
SignalWait ==
  /\ launcher = "created"
  /\ launcher' = IF ~thread_ready /\ ~thread_exit THEN "waiting" ELSE "back"
  /\ UNCHANGED <<thread_ready, thread_exit, spurious, server, pipes, frames, work, answers,
                 sent>>

SpuriousWakeup ==
  /\ launcher = "waiting" /\ launcher' = "woken"
  /\ spurious' = TRUE
  /\ UNCHANGED <<thread_ready, thread_exit, server, pipes, frames, work, answers, sent>>

LaunchReturn ==
  /\ launcher = "woken" /\ launcher' = "back"
  /\ UNCHANGED <<thread_ready, thread_exit, spurious, server, pipes, frames, work, answers,
                 sent>>

-----------------------------------------------------------------------------
(* The server thread, thelper_main.                                        *)

\* Faulty variant: the answer pipes are not opened.
ProcInitPartly ==
  /\ server = "init" /\ server' = "opened"
  /\ opened' = {ServerPipe} \ unopenable
  /\ UNCHANGED <<thread_ready, thread_exit, launcher, spurious, unopenable, frames, work,
                 answers, sent>>

\* loc_api_server_proc_init: every pipe is tried, no failure is reported.
ProcInit ==
  /\ server = "init" /\ server' = "opened"
  /\ opened' = Pipe \ unopenable
  /\ UNCHANGED <<thread_ready, thread_exit, launcher, spurious, unopenable, frames, work,
                 answers, sent>>

\* thelper_signal_ready.
SignalReady ==
  /\ server = "opened" /\ server' = "loop"
  /\ thread_ready' = TRUE
  /\ launcher' = IF launcher = "waiting" THEN "woken" ELSE launcher
  /\ UNCHANGED <<thread_exit, spurious, pipes, frames, work, answers, sent>>

\* Faulty variant: a release is read and not sent on.
handleRequests(f) == IF f.kind = "REQUEST" THEN Append(msgs, f.from) ELSE msgs

\* The request and release handlers: a message of the sender for the worker,
\* LocEngReqRelWifi or LocEngReqRelBIT.  Other frames are dropped.
handle(f) == IF f.kind \in {"REQUEST", "RELEASE"} THEN Append(msgs, f.from) ELSE msgs

\* loc_api_server_proc with a frame in the pipe.
Proc ==
  /\ server = "loop" /\ ServerPipe \in opened
  /\ frames # <<>>
  /\ frames' = Tail(frames)
  /\ msgs' = handle(Head(frames))
  /\ UNCHANGED <<thelper, pipes, worker, owed, lost, taken, answers, sent>>

\* loc_api_server_proc without memory for the frame: the loop is left and
\* loc_api_server_proc_post removes the pipes.
ProcOutOfMemory ==
  /\ server = "loop" /\ server' = "ended"
  /\ thread_exit' = TRUE
  /\ opened' = {}
  /\ UNCHANGED <<thread_ready, launcher, spurious, unopenable, frames, work, answers, sent>>

-----------------------------------------------------------------------------
(* The worker.  What the NIF machines make of a request is AgpsStateMachine; *)
(* here its answers are given at once or while later messages are run.       *)

\* LocEngReqRelWifi::proc or LocEngReqRelBIT::proc.
ReqRel ==
  /\ worker = Idle /\ msgs # <<>>
  /\ msgs' = Tail(msgs)
  /\ taken' = plus(taken, Head(msgs))
  /\ \E n \in 0..PerRequest : owed' = [owed EXCEPT ![Head(msgs)] = @ + n]
  /\ UNCHANGED <<thelper, pipes, frames, worker, lost, answers, sent>>

\* notifyRsrcStatus of a daemon's subscriber.
Notify(d) ==
  /\ worker = Idle /\ owed[d] > 0
  /\ worker' = d /\ owed' = [owed EXCEPT ![d] = @ - 1]
  /\ UNCHANGED <<thelper, pipes, frames, msgs, lost, taken, answers, sent>>

\* The pipe of a sender id.
pipeOf(d) == d

\* Faulty variant: the write does not wait.
DataConnAnyway ==
  /\ worker # Idle /\ worker' = Idle
  /\ answers' = plus(answers, pipeOf(worker))
  /\ UNCHANGED <<thelper, pipes, frames, msgs, owed, lost, taken, sent>>

\* loc_eng_dmn_conn_loc_api_server_data_conn: the write waits while the pipe
\* is full, and fails if the pipe is not open.
DataConn ==
  /\ worker # Idle /\ worker' = Idle
  /\ IF pipeOf(worker) \in opened
     THEN /\ answers[pipeOf(worker)] < Room
          /\ answers' = plus(answers, pipeOf(worker))
          /\ UNCHANGED lost
     ELSE lost' = lost \cup {worker} /\ UNCHANGED answers
  /\ UNCHANGED <<thelper, pipes, frames, msgs, owed, taken, sent>>

-----------------------------------------------------------------------------
(* The daemons.                                                            *)

Write(d) ==
  /\ Len(frames) < Room
  /\ \E frame \in Frame :
       /\ frame.from = d
       /\ frame.kind = "OTHER" \/ sent[d] < MaxFrames
       /\ frames' = Append(frames, frame)
       /\ sent' = IF frame.kind = "OTHER" THEN sent ELSE plus(sent, d)
  /\ UNCHANGED <<thelper, pipes, work, answers>>

Read(d) ==
  /\ answers[d] > 0
  /\ answers' = [answers EXCEPT ![d] = @ - 1]
  /\ UNCHANGED <<thelper, pipes, frames, work, sent>>

Launcher == Launch \/ SignalWait \/ LaunchReturn
Server   == ProcInit \/ SignalReady \/ Proc
Worker   == ReqRel \/ DataConn \/ \E d \in Daemon : Notify(d)

Next ==
  \/ Launcher \/ SpuriousWakeup
  \/ Server \/ ProcOutOfMemory
  \/ Worker
  \/ \E d \in Daemon : Write(d) \/ Read(d)

Spec == Init /\ [][Next]_vars

\* The threads run, and a daemon reads the answers to its requests.
FairSpec ==
  /\ Spec
  /\ WF_vars(Launcher) /\ WF_vars(Server) /\ WF_vars(Worker)
  /\ \A d \in Daemon : WF_vars(Read(d))

-----------------------------------------------------------------------------
(* Properties.                                                             *)

\* Unless its wait ended for no reason, the framework goes on only when the
\* server has opened its pipes: "blocked on the conditional variable until
\* thelper_signal_ready is called" holds up to spurious wake-ups.
BackWhenReady == launcher = "back" /\ ~spurious => server \in {"loop", "ended"}

\* An answer is lost only if the daemon's pipe could not be opened or the
\* server has ended: no request gets through before all pipes are there, even
\* if the framework went on too early.
LostOnlyWhenClosed == thread_exit \/ lost \subseteq unopenable

\* A daemon gets no answer but to its own requests, and each request is run
\* once: what is written, queued and run adds up, and no answer strays to the
\* pipe of another daemon.
AnswersAreDue ==
  \A d \in Daemon :
    /\ taken[d] + Cardinality({i \in DOMAIN msgs : msgs[i] = d}) <= sent[d]
    /\ owed[d] + answers[d] <= PerRequest * taken[d]

\* Pipes and handshake agree.
PipesSound == BackWhenReady /\ LostOnlyWhenClosed /\ AnswersAreDue

\* The launch returns, whoever comes first to the flag, if there is a thread.
LaunchReturns == launcher = "created" ~> (launcher = "back" \/ server = "none")

\* Every request in the pipe is run in the end as long as the server lives
\* and the daemons read: the server, the worker and the full pipes of several
\* daemons never wait for one another.
Served ==
  \A d \in Daemon, n \in 1..MaxFrames :
    sent[d] = n ~> (taken[d] >= n \/ server \in {"none", "ended"} \/ ServerPipe \in unopenable)

\* Neither the framework nor a daemon waits for ever.
NobodyWaits == LaunchReturns /\ Served
=============================================================================
