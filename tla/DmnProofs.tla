------------------------------- MODULE DmnProofs -------------------------------
(***************************************************************************)
(* Theorems about DmnConn for any daemons, any size of the pipes and any   *)
(* number of requests.                                                     *)
(*                                                                         *)
(* ThreadInv says what the flags of the thread helper and the open pipes   *)
(* tell about the server, and that nothing is asked of the worker before   *)
(* the server is in its loop.  CountInv follows each request from the pipe *)
(* to the queue to the worker, and each answer from the worker to the      *)
(* pipe: what a daemon wrote and what it got is counted in all of them.    *)
(***************************************************************************)
EXTENDS DmnConn, FiniteSetTheorems, FunctionTheorems, TLAPS

\* The places of a sequence that hold an element of S.
At(s, S) == {i \in DOMAIN s : s[i] \in S}

\* The frames that are requests of a daemon.
AskedBy(d) == {f \in Frame : f.from = d /\ f.kind # "OTHER"}

\* The requests of a daemon in the queue and in the pipe, and the answer the
\* worker is writing to it.
Waiting(d) == Cardinality(At(msgs, {d}))
Asked(d)   == Cardinality(At(frames, AskedBy(d)))
InHand(d)  == IF worker = d THEN 1 ELSE 0

ThreadInv ==
  /\ launcher = "out" => server = "none"
  /\ launcher \in {"woken", "back"} /\ ~spurious => server \in {"loop", "ended"}
  /\ thread_ready => server \in {"loop", "ended"}
  /\ thread_exit <=> server = "ended"
  /\ opened = IF server \in {"opened", "loop"} THEN Pipe \ unopenable ELSE {}
  /\ server \in {"none", "init", "opened"} =>
       msgs = <<>> /\ worker = Idle /\ lost = {} /\ \A d \in Daemon : owed[d] = 0
  /\ LostOnlyWhenClosed

CountInv ==
  \A d \in Daemon :
    /\ taken[d] + Waiting(d) + Asked(d) = sent[d]
    /\ owed[d] + InHand(d) + answers[d] <= PerRequest * taken[d]

IInv ==
  /\ TypeOK /\ msgs \in Seq(Daemon) /\ frames \in Seq(Frame)
  /\ ThreadInv /\ CountInv

-------------------------------------------------------------------------------
\* How many places hold an element of S: one more with one more at the end,
\* and one less without the first.
LEMMA CountType ==
  ASSUME NEW T, NEW s \in Seq(T), NEW S
  PROVE  IsFiniteSet(At(s, S)) /\ Cardinality(At(s, S)) \in Nat
<1>1. DOMAIN s = 1 .. Len(s) /\ Len(s) \in Nat
  OBVIOUS
<1>2. IsFiniteSet(1 .. Len(s))
  BY <1>1, FS_Interval
<1>3. At(s, S) \in SUBSET (1 .. Len(s))
  BY <1>1 DEF At
<1> QED BY <1>2, <1>3, FS_Subset, FS_CardinalityType

LEMMA CountAppend ==
  ASSUME NEW T, NEW s \in Seq(T), NEW m \in T, NEW S
  PROVE  Cardinality(At(Append(s, m), S))
           = Cardinality(At(s, S)) + IF m \in S THEN 1 ELSE 0
<1>1. /\ DOMAIN s = 1 .. Len(s) /\ DOMAIN Append(s, m) = 1 .. Len(s) + 1
      /\ Len(s) \in Nat
      /\ \A i \in 1 .. Len(s) : Append(s, m)[i] = s[i]
      /\ Append(s, m)[Len(s) + 1] = m
  OBVIOUS
<1>2. IsFiniteSet(At(s, S)) /\ Cardinality(At(s, S)) \in Nat /\ Len(s) + 1 \notin At(s, S)
  <2>1. Len(s) + 1 \notin At(s, S)
    BY <1>1 DEF At
  <2> QED BY <2>1, CountType
<1>3. CASE m \in S
  <2>1. At(Append(s, m), S) = At(s, S) \cup {Len(s) + 1}
    BY <1>1, <1>3 DEF At
  <2> QED BY <1>2, <1>3, <2>1, FS_AddElement
<1>4. CASE m \notin S
  <2>1. At(Append(s, m), S) = At(s, S)
    BY <1>1, <1>4 DEF At
  <2> QED BY <1>2, <1>4, <2>1
<1> QED BY <1>3, <1>4

LEMMA CountTail ==
  ASSUME NEW T, NEW s \in Seq(T), s # <<>>, NEW S
  PROVE  Cardinality(At(s, S))
           = Cardinality(At(Tail(s), S)) + IF Head(s) \in S THEN 1 ELSE 0
<1>1. /\ DOMAIN s = 1 .. Len(s) /\ DOMAIN Tail(s) = 1 .. Len(s) - 1
      /\ Len(s) \in Nat \ {0} /\ Tail(s) \in Seq(T)
      /\ \A i \in 1 .. Len(s) - 1 : Tail(s)[i] = s[i + 1]
      /\ s[1] = Head(s)
  OBVIOUS
<1> DEFINE later == At(s, S) \ {1}
<1>2. IsFiniteSet(At(s, S)) /\ Cardinality(At(s, S)) \in Nat
      /\ IsFiniteSet(At(Tail(s), S)) /\ Cardinality(At(Tail(s), S)) \in Nat
  BY <1>1, CountType
<1>3. Cardinality(later) = Cardinality(At(Tail(s), S))
  <2> DEFINE f == [i \in At(Tail(s), S) |-> i + 1]
  <2>1. f \in [At(Tail(s), S) -> later]
    BY <1>1 DEF At
  <2>2. \A i, j \in At(Tail(s), S) : f[i] = f[j] => i = j
    BY <1>1 DEF At
  <2>3. \A k \in later : \E i \in At(Tail(s), S) : f[i] = k
    <3> SUFFICES ASSUME NEW k \in later PROVE \E i \in At(Tail(s), S) : f[i] = k
      OBVIOUS
    <3>1. k - 1 \in At(Tail(s), S) /\ (k - 1) + 1 = k
      BY <1>1 DEF At
    <3> QED BY <3>1
  <2>4. ExistsBijection(At(Tail(s), S), later)
    <3> HIDE DEF f, later
    <3>1. f \in Bijection(At(Tail(s), S), later)
      BY <2>1, <2>2, <2>3, Fun_IsBij
    <3> QED BY <3>1 DEF ExistsBijection
  <2> HIDE DEF later
  <2> QED BY <1>2, <2>4, FS_Bijection
<1>4. 1 \in At(s, S) <=> Head(s) \in S
  BY <1>1 DEF At
<1>5. Cardinality(later) = IF 1 \in At(s, S) THEN Cardinality(At(s, S)) - 1
                                             ELSE Cardinality(At(s, S))
  BY <1>2, FS_RemoveElement
<1> QED BY <1>2, <1>3, <1>4, <1>5

\* Every count in the invariant is a number.
Counted ==
  /\ \A d \in Daemon :
       /\ taken[d] \in Nat /\ taken[d] <= MaxFrames /\ sent[d] \in Nat /\ sent[d] <= MaxFrames
       /\ owed[d] \in Nat /\ owed[d] <= PerRequest * MaxFrames
       /\ answers[d] \in Nat /\ answers[d] <= Room
       /\ Waiting(d) \in Nat /\ Asked(d) \in Nat /\ InHand(d) \in {0, 1}
  /\ Idle \notin Daemon /\ MaxFrames \in Nat /\ Room \in Nat

LEMMA Numbers == IInv => Counted
<1> SUFFICES ASSUME IInv PROVE Counted
  OBVIOUS
<1>1. \A d \in Daemon : Waiting(d) \in Nat
                        /\ Asked(d) \in Nat
  BY CountType DEF IInv, Waiting, Asked
<1>2. taken \in [Daemon -> 0..MaxFrames] /\ sent \in [Daemon -> 0..MaxFrames]
      /\ answers \in [Daemon -> 0..Room] /\ owed \in [Daemon -> 0..PerRequest * MaxFrames]
  BY DEF IInv, TypeOK
<1>3. \A d \in Daemon : InHand(d) \in {0, 1}
  BY DEF InHand
<1> QED BY <1>1, <1>2, <1>3, DmnAssumption DEF Counted, Idle, PerRequest

\* The same of one daemon, with what the invariant says of its counts.
LEMMA OfOne ==
  ASSUME IInv, NEW d \in Daemon
  PROVE  /\ taken[d] \in Nat /\ sent[d] \in Nat /\ owed[d] \in Nat /\ answers[d] \in Nat
         /\ Waiting(d) \in Nat /\ Asked(d) \in Nat /\ InHand(d) \in {0, 1}
         /\ taken[d] + Waiting(d) + Asked(d) = sent[d]
         /\ owed[d] + InHand(d) + answers[d] <= PerRequest * taken[d]
<1>1. Counted
  BY Numbers
<1>2. /\ taken[d] \in Nat /\ sent[d] \in Nat /\ owed[d] \in Nat /\ answers[d] \in Nat
      /\ Waiting(d) \in Nat /\ Asked(d) \in Nat /\ InHand(d) \in {0, 1}
  BY <1>1 DEF Counted
<1>3. /\ taken[d] + Waiting(d) + Asked(d) = sent[d]
      /\ owed[d] + InHand(d) + answers[d] <= PerRequest * taken[d]
  BY DEF IInv, CountInv
<1> QED BY <1>2, <1>3

LEMMA InitHolds == Init => IInv
<1> SUFFICES ASSUME Init PROVE IInv
  OBVIOUS
<1>1. /\ 0 \in 0..MaxFrames /\ 0 \in 0..Room /\ 0 \in 0..PerRequest * MaxFrames /\ 0 <= Room
      /\ Idle \notin Daemon
  BY DmnAssumption DEF PerRequest, Idle
<1>2. msgs \in Seq(Daemon) /\ frames \in Seq(Frame) /\ DOMAIN msgs = {} /\ DOMAIN frames = {}
      /\ Len(frames) = 0
  BY DEF Init
<1>3. \A d \in Daemon : taken[d] = 0 /\ sent[d] = 0 /\ owed[d] = 0 /\ answers[d] = 0
  BY DEF Init, None
<1>4. TypeOK
  <2>1. taken \in [Daemon -> 0..MaxFrames] /\ sent \in [Daemon -> 0..MaxFrames]
        /\ answers \in [Daemon -> 0..Room] /\ owed \in [Daemon -> 0..PerRequest * MaxFrames]
    BY <1>1 DEF Init, None
  <2> QED BY <1>1, <1>2, <2>1 DEF Init, TypeOK
<1>5. ThreadInv
  BY <1>3 DEF Init, ThreadInv, LostOnlyWhenClosed
<1>6. CountInv
  <2>1. \A S : At(msgs, S) = {} /\ At(frames, S) = {}
    BY <1>2 DEF At
  <2>2. \A d \in Daemon : InHand(d) = 0
    BY <1>1 DEF Init, InHand
  <2> QED BY <1>3, <2>1, <2>2, FS_EmptySet DEF CountInv, PerRequest, Waiting, Asked
<1> QED BY <1>2, <1>4, <1>5, <1>6 DEF IInv

-------------------------------------------------------------------------------
\* The launcher and the server on its way up and down: no count changes.
LEMMA ThreadStep ==
  ASSUME IInv,
         Launcher \/ SpuriousWakeup \/ ProcInit \/ SignalReady \/ ProcOutOfMemory
  PROVE  IInv'
<1>0. Counted
  BY Numbers
<1> USE DEF IInv, PerRequest
<1>1. UNCHANGED <<unopenable, frames, msgs, worker, owed, lost, taken, answers, sent>>
  BY DEF Launcher, Launch, SignalWait, LaunchReturn, SpuriousWakeup, ProcInit, SignalReady,
         ProcOutOfMemory, work, pipes
<1>2. CountInv' /\ msgs' \in Seq(Daemon) /\ frames' \in Seq(Frame)
  BY <1>1 DEF CountInv, InHand, At, Waiting, Asked
<1>3. ASSUME {thread_ready', thread_exit', spurious'} \subseteq BOOLEAN,
             launcher' \in {"out", "created", "waiting", "woken", "back"},
             server' \in {"none", "init", "opened", "loop", "ended"},
             opened' \subseteq Pipe \ unopenable'
      PROVE  TypeOK'
  BY <1>1, <1>3 DEF TypeOK
<1>4. CASE Launcher \/ SpuriousWakeup
  <2>1. opened' = opened /\ (server' = server \/ (Launch /\ server' \in {"init", "none"}))
    BY <1>4 DEF Launcher, Launch, SignalWait, LaunchReturn, SpuriousWakeup, pipes
  <2>2. TypeOK'
    <3>1. thread_ready \in BOOLEAN /\ thread_exit \in BOOLEAN /\ spurious \in BOOLEAN
          /\ server \in {"none", "init", "opened", "loop", "ended"}
          /\ opened \subseteq Pipe \ unopenable
      BY DEF TypeOK
    <3>2. thread_ready' \in BOOLEAN /\ thread_exit' \in BOOLEAN /\ spurious' \in BOOLEAN
          /\ launcher' \in {"out", "created", "waiting", "woken", "back"}
      BY <1>4, <3>1 DEF Launcher, Launch, SignalWait, LaunchReturn, SpuriousWakeup
    <3>3. server' \in {"none", "init", "opened", "loop", "ended"}
      BY <2>1, <3>1
    <3> QED BY <1>1, <1>3, <2>1, <3>1, <3>2, <3>3
  <2>3. ThreadInv'
    BY <1>1, <1>4, <2>1 DEF Launcher, Launch, SignalWait, LaunchReturn, SpuriousWakeup,
                            ThreadInv, LostOnlyWhenClosed
  <2> QED BY <1>2, <2>2, <2>3
<1>5. CASE ProcInit
  BY <1>1, <1>2, <1>3, <1>5 DEF ProcInit, TypeOK, ThreadInv, LostOnlyWhenClosed
<1>6. CASE SignalReady
  <2>1. TypeOK'
    BY <1>1, <1>3, <1>6 DEF SignalReady, TypeOK, pipes
  <2>2. ThreadInv'
    BY <1>1, <1>6 DEF SignalReady, ThreadInv, LostOnlyWhenClosed, pipes
  <2> QED BY <1>2, <2>1, <2>2
<1>7. CASE ProcOutOfMemory
  BY <1>1, <1>2, <1>3, <1>7 DEF ProcOutOfMemory, TypeOK, ThreadInv, LostOnlyWhenClosed
<1> QED BY <1>4, <1>5, <1>6, <1>7

\* A frame read by the server is a message for the worker, or dropped.
LEMMA ProcStep ==
  ASSUME IInv, Proc
  PROVE  IInv'
<1>0. Counted
  BY Numbers
<1> USE DEF IInv, PerRequest
<1>1. /\ server = "loop" /\ frames # <<>>
      /\ frames' = Tail(frames) /\ msgs' = handle(Head(frames))
      /\ UNCHANGED <<thread_ready, thread_exit, launcher, spurious, server, unopenable, opened,
                     worker, owed, lost, taken, answers, sent>>
  BY DEF Proc, thelper, pipes
<1> DEFINE f == Head(frames)
<1>2. f \in Frame /\ f.from \in Daemon /\ f.kind \in {"REQUEST", "RELEASE", "OTHER"}
  <2>1. f \in Frame
    BY <1>1
  <2> HIDE DEF f
  <2> QED BY <2>1 DEF Frame
<1>3. msgs' = IF f.kind # "OTHER" THEN Append(msgs, f.from) ELSE msgs
  BY <1>1, <1>2 DEF handle
<1>4. msgs' \in Seq(Daemon) /\ frames' \in Seq(Frame) /\ Len(frames') <= Room
  <2>1. Len(Tail(frames)) = Len(frames) - 1 /\ Len(frames) \in Nat /\ Tail(frames) \in Seq(Frame)
    BY <1>1
  <2>2. Len(frames) <= Room
    BY DEF TypeOK
  <2>3. msgs' \in Seq(Daemon)
    BY <1>2, <1>3
  <2> HIDE DEF IInv
  <2> QED BY <1>1, <2>1, <2>2, <2>3, DmnAssumption
<1>5. TypeOK'
  <2>1. (\A i \in DOMAIN frames' : frames'[i] \in Frame) /\ (\A i \in DOMAIN msgs' : msgs'[i] \in Daemon)
    BY <1>4
  <2> QED BY <1>1, <1>4, <2>1 DEF TypeOK
<1>6. ThreadInv'
  BY <1>1 DEF ThreadInv, LostOnlyWhenClosed
<1>7. CountInv'
  <2> SUFFICES ASSUME NEW d \in Daemon
               PROVE  /\ taken'[d] + Waiting(d)'
                           + Asked(d)' = sent'[d]
                      /\ owed'[d] + InHand(d)' + answers'[d] <= PerRequest * taken'[d]
    BY DEF CountInv
  <2> DEFINE one == IF f \in AskedBy(d) THEN 1 ELSE 0
  <2>1. Asked(d) = Asked(d)' + one
    BY <1>1, CountTail DEF Asked
  <2>2. f \in AskedBy(d) <=> f.kind # "OTHER" /\ f.from = d
    BY <1>2 DEF AskedBy
  <2>3. Waiting(d)' = Waiting(d) + one
    <3>1. CASE f.kind = "OTHER"
      <4>1. Waiting(d)' = Waiting(d)
        BY <1>3, <3>1 DEF Waiting
      <4> QED BY <2>2, <3>1, <4>1, <1>0 DEF Counted
    <3>2. CASE f.kind # "OTHER"
      <4>1. Waiting(d)' = Waiting(d) + IF f.from \in {d} THEN 1 ELSE 0
        BY <1>2, <1>3, <3>2, CountAppend DEF Waiting
      <4> QED BY <2>2, <3>2, <4>1
    <3> QED BY <3>1, <3>2
  <2>4. Asked(d)' \in Nat /\ one \in {0, 1}
    BY <1>4, CountType DEF Asked
  <2>5. owed'[d] + InHand(d)' + answers'[d] <= PerRequest * taken'[d]
    BY <1>1 DEF CountInv, InHand
  <2>6. /\ taken[d] \in Nat /\ sent[d] \in Nat /\ Waiting(d) \in Nat
        /\ taken[d] + Waiting(d) + Asked(d) = sent[d]
    BY OfOne
  <2> HIDE DEF one, IInv
  <2>7. taken[d] + Waiting(d)' + Asked(d)' = sent[d]
    BY <2>1, <2>3, <2>4, <2>6
  <2> QED BY <1>1, <2>5, <2>7
<1> QED BY <1>4, <1>5, <1>6, <1>7

\* A request the worker runs makes at most PerRequest answers due.
LEMMA ReqRelStep ==
  ASSUME IInv, ReqRel
  PROVE  IInv'
<1>0. Counted
  BY Numbers
<1> USE DEF IInv, PerRequest
<1> DEFINE h == Head(msgs)
<1>1. /\ worker = Idle /\ msgs # <<>> /\ msgs' = Tail(msgs) /\ taken' = plus(taken, h)
      /\ UNCHANGED <<thread_ready, thread_exit, launcher, spurious, server, unopenable, opened,
                     frames, worker, lost, answers, sent>>
  BY DEF ReqRel, thelper, pipes
<1>2. PICK n \in 0..PerRequest : owed' = [owed EXCEPT ![h] = @ + n]
  BY DEF ReqRel
<1>3. h \in Daemon /\ msgs' \in Seq(Daemon)
  BY <1>1
<1>4. \A d \in Daemon : /\ taken'[d] = IF d = h THEN taken[d] + 1 ELSE taken[d]
                        /\ owed'[d] = IF d = h THEN owed[d] + n ELSE owed[d]
  BY <1>1, <1>2, <1>3 DEF plus, TypeOK
<1>5. \A d \in Daemon :
        Waiting(d) = Waiting(d)' + IF d = h THEN 1 ELSE 0
  <2>1. \A d \in Daemon :
          Waiting(d) = Waiting(d)' + IF h \in {d} THEN 1 ELSE 0
    BY <1>1, CountTail DEF Waiting
  <2> QED BY <2>1
<1>6. \A d \in Daemon : Waiting(d)' \in Nat
  BY <1>3, CountType DEF Waiting
<1>7. \A d \in Daemon : InHand(d)' = InHand(d) /\ Asked(d)' = Asked(d)
  BY <1>1 DEF InHand, Asked
<1>8. CountInv'
  <2> SUFFICES ASSUME NEW d \in Daemon
               PROVE  /\ taken'[d] + Waiting(d)'
                           + Asked(d)' = sent'[d]
                      /\ owed'[d] + InHand(d)' + answers'[d] <= PerRequest * taken'[d]
    BY DEF CountInv
  <2> DEFINE one == IF d = h THEN 1 ELSE 0
  <2>1. /\ taken[d] \in Nat /\ sent[d] \in Nat /\ owed[d] \in Nat /\ answers[d] \in Nat
        /\ Waiting(d)' \in Nat /\ Asked(d) \in Nat /\ InHand(d) \in {0, 1}
        /\ taken[d] + Waiting(d) + Asked(d) = sent[d]
        /\ owed[d] + InHand(d) + answers[d] <= PerRequest * taken[d]
    BY OfOne, <1>6
  <2>2. /\ taken'[d] = taken[d] + one /\ Waiting(d) = Waiting(d)' + one /\ one \in {0, 1}
        /\ owed'[d] \in Nat /\ owed'[d] <= owed[d] + PerRequest * one
    <3>1. /\ taken'[d] = IF d = h THEN taken[d] + 1 ELSE taken[d]
          /\ owed'[d] = IF d = h THEN owed[d] + n ELSE owed[d]
          /\ Waiting(d) = Waiting(d)' + one
          /\ n \in Nat /\ n <= PerRequest
      BY <1>4, <1>5
    <3> HIDE DEF h, IInv
    <3> QED BY <2>1, <3>1
  <2> HIDE DEF one, IInv
  <2>3. taken'[d] + Waiting(d)' + Asked(d) = sent[d]
    BY <2>1, <2>2
  <2>4. owed'[d] + InHand(d) + answers[d] <= PerRequest * taken'[d]
    BY <2>1, <2>2
  <2> QED BY <1>1, <1>7, <2>3, <2>4
<1>9. TypeOK'
  <2>1. \A d \in Daemon : taken'[d] \in 0..MaxFrames /\ owed'[d] \in 0..PerRequest * MaxFrames
    <3> SUFFICES ASSUME NEW d \in Daemon
                 PROVE  taken'[d] \in 0..MaxFrames /\ owed'[d] \in 0..PerRequest * MaxFrames
      OBVIOUS
    <3>1. /\ taken[d] \in Nat /\ sent[d] \in 0..MaxFrames /\ owed[d] \in Nat
          /\ answers[d] \in Nat /\ InHand(d) \in Nat /\ MaxFrames \in Nat
          /\ Asked(d) \in Nat
      BY <1>0 DEF Counted, InHand
    <3>2. /\ taken'[d] + Waiting(d)' + Asked(d)
               = sent[d]
          /\ owed'[d] + InHand(d) + answers[d] <= PerRequest * taken'[d]
      BY <1>1, <1>7, <1>8 DEF CountInv
    <3>3. taken'[d] \in Nat /\ owed'[d] \in Nat
      BY <1>4, <3>1 DEF PerRequest
    <3>4. taken'[d] <= MaxFrames
      BY <1>6, <3>1, <3>2, <3>3
    <3> QED BY <3>1, <3>2, <3>3, <3>4 DEF PerRequest
  <2>2. taken' \in [Daemon -> 0..MaxFrames] /\ owed' \in [Daemon -> 0..PerRequest * MaxFrames]
    <3>1. DOMAIN taken' = Daemon /\ DOMAIN owed' = Daemon
          /\ taken' = [d \in Daemon |-> taken'[d]] /\ owed' = [d \in Daemon |-> owed'[d]]
      BY <1>1, <1>2 DEF plus, TypeOK
    <3> QED BY <2>1, <3>1
  <2>3. \A i \in DOMAIN msgs' : msgs'[i] \in Daemon
    BY <1>3
  <2> QED BY <1>1, <2>2, <2>3 DEF TypeOK
<1>10. ThreadInv'
  BY <1>1 DEF ThreadInv, LostOnlyWhenClosed
<1> QED BY <1>1, <1>3, <1>8, <1>9, <1>10

\* An answer on its way to the pipe, in it, lost, or read.
LEMMA AnswerStep ==
  ASSUME IInv, (\E d \in Daemon : Notify(d) \/ Read(d)) \/ DataConn
  PROVE  IInv'
<1>0. Counted
  BY Numbers
<1> USE DEF IInv, PerRequest
<1>1. UNCHANGED <<thread_ready, thread_exit, launcher, spurious, server, unopenable, opened,
                  frames, msgs, taken, sent>>
  BY DEF Notify, Read, DataConn, thelper, pipes, work
<1>2. ASSUME /\ worker' \in Daemon \cup {Idle} /\ lost' \subseteq Daemon
             /\ answers' \in [Daemon -> 0..Room]
             /\ owed' \in [Daemon -> 0..PerRequest * MaxFrames]
      PROVE  TypeOK'
  BY <1>1, <1>2 DEF TypeOK
<1>3. ASSUME \A d \in Daemon :
               owed'[d] + InHand(d)' + answers'[d] <= owed[d] + InHand(d) + answers[d],
             \A d \in Daemon :
               owed'[d] \in Nat /\ answers'[d] \in Nat
      PROVE  CountInv'
  <2> SUFFICES ASSUME NEW d \in Daemon
               PROVE  /\ taken'[d] + Waiting(d)'
                           + Asked(d)' = sent'[d]
                      /\ owed'[d] + InHand(d)' + answers'[d] <= PerRequest * taken'[d]
    BY DEF CountInv
  <2>1. Waiting(d)' = Waiting(d) /\ Asked(d)' = Asked(d) /\ InHand(d)' \in Nat
    BY <1>1 DEF Waiting, Asked, InHand
  <2>2. /\ taken[d] \in Nat /\ sent[d] \in Nat /\ owed[d] \in Nat /\ answers[d] \in Nat
        /\ InHand(d) \in Nat
        /\ taken[d] + Waiting(d) + Asked(d) = sent[d]
        /\ owed[d] + InHand(d) + answers[d] <= PerRequest * taken[d]
    BY OfOne
  <2>3. /\ owed'[d] \in Nat /\ answers'[d] \in Nat
        /\ owed'[d] + InHand(d)' + answers'[d] <= owed[d] + InHand(d) + answers[d]
    BY <1>3
  <2> HIDE DEF IInv
  <2>4. owed'[d] + InHand(d)' + answers'[d] <= PerRequest * taken[d]
    BY <2>1, <2>2, <2>3
  <2> QED BY <1>1, <2>1, <2>2, <2>4
<1>4. ASSUME NEW d \in Daemon, Notify(d) PROVE IInv'
  <2>1. /\ worker = Idle /\ owed[d] > 0 /\ worker' = d /\ owed' = [owed EXCEPT ![d] = @ - 1]
        /\ UNCHANGED <<lost, answers>>
    BY <1>4 DEF Notify
  <2>2. \A e \in Daemon : owed'[e] = IF e = d THEN owed[e] - 1 ELSE owed[e]
    BY <2>1 DEF TypeOK
  <2>3. \A e \in Daemon : InHand(e) = 0 /\ InHand(e)' = IF e = d THEN 1 ELSE 0
    BY <2>1, <1>0 DEF Counted, InHand
  <2>4. owed[d] - 1 \in 0..PerRequest * MaxFrames
    BY <2>1, <1>0 DEF Counted, PerRequest
  <2>5. owed' \in [Daemon -> 0..PerRequest * MaxFrames]
    BY <2>1, <2>4 DEF TypeOK
  <2>6. CountInv'
    <3>1. \A e \in Daemon : owed[e] \in Nat /\ answers[e] \in Nat
      BY <1>0 DEF Counted
    <3>2. \A e \in Daemon :
            owed'[e] + InHand(e)' + answers'[e] <= owed[e] + InHand(e) + answers[e]
      BY <2>1, <2>2, <2>3, <3>1
    <3>3. \A e \in Daemon : owed'[e] \in Nat /\ answers'[e] \in Nat
      BY <2>1, <2>2, <3>1
    <3> QED BY <1>3, <3>2, <3>3
  <2>7. ThreadInv'
    BY <1>1, <2>1 DEF ThreadInv, LostOnlyWhenClosed
  <2> QED BY <1>1, <1>2, <2>1, <2>5, <2>6, <2>7 DEF TypeOK
<1>5. ASSUME NEW d \in Daemon, Read(d) PROVE IInv'
  <2>1. /\ answers[d] > 0 /\ answers' = [answers EXCEPT ![d] = @ - 1]
        /\ UNCHANGED <<worker, owed, lost>>
    BY <1>5 DEF Read, work
  <2>2. \A e \in Daemon : answers'[e] = IF e = d THEN answers[e] - 1 ELSE answers[e]
    BY <2>1 DEF TypeOK
  <2>3. answers[d] - 1 \in 0..Room
    BY <2>1, <1>0 DEF Counted
  <2>4. answers' \in [Daemon -> 0..Room]
    BY <2>1, <2>3 DEF TypeOK
  <2>5. CountInv'
    <3>1. \A e \in Daemon : owed[e] \in Nat /\ answers[e] \in Nat /\ InHand(e) \in Nat
                            /\ InHand(e)' = InHand(e)
      BY <2>1, <1>0 DEF Counted, InHand
    <3>2. \A e \in Daemon :
            owed'[e] + InHand(e)' + answers'[e] <= owed[e] + InHand(e) + answers[e]
      BY <2>1, <2>2, <3>1
    <3>3. \A e \in Daemon : owed'[e] \in Nat /\ answers'[e] \in Nat
      BY <2>1, <2>2, <3>1
    <3> QED BY <1>3, <3>2, <3>3
  <2>6. ThreadInv'
    BY <1>1, <2>1 DEF ThreadInv, LostOnlyWhenClosed
  <2> QED BY <1>1, <1>2, <2>1, <2>4, <2>5, <2>6 DEF TypeOK
<1>6. CASE DataConn
  <2>1. /\ worker \in Daemon /\ worker' = Idle /\ owed' = owed
        /\ \/ /\ worker \in opened /\ answers[worker] < Room
              /\ answers' = [answers EXCEPT ![worker] = @ + 1] /\ lost' = lost
           \/ worker \notin opened /\ lost' = lost \cup {worker} /\ answers' = answers
    BY <1>6 DEF DataConn, pipeOf, plus, TypeOK
  <2>2. \A e \in Daemon : /\ answers'[e] \in {answers[e], IF e = worker THEN answers[e] + 1 ELSE answers[e]}
                          /\ answers[e] \in Nat /\ owed[e] \in Nat
    BY <2>1, <1>0 DEF Counted, TypeOK
  <2>3. \A e \in Daemon : InHand(e)' = 0 /\ InHand(e) = IF e = worker THEN 1 ELSE 0
    BY <2>1, <1>0 DEF Counted, InHand
  <2>4. answers' \in [Daemon -> 0..Room]
    <3>1. answers[worker] < Room => answers[worker] + 1 \in 0..Room
      BY <2>1, <1>0 DEF Counted
    <3>2. answers \in [Daemon -> 0..Room]
      BY DEF TypeOK
    <3> HIDE DEF IInv
    <3>3. [answers EXCEPT ![worker] = answers[worker] + 1] \in [Daemon -> 0..Room]
          \/ ~(answers[worker] < Room)
      BY <3>1, <3>2
    <3> QED BY <2>1, <3>2, <3>3
  <2>5. CountInv'
    <3>1. \A e \in Daemon :
            owed'[e] + InHand(e)' + answers'[e] <= owed[e] + InHand(e) + answers[e]
      BY <2>1, <2>2, <2>3
    <3>2. \A e \in Daemon : owed'[e] \in Nat /\ answers'[e] \in Nat
      BY <2>1, <2>2
    <3> QED BY <1>3, <3>1, <3>2
  <2>6. worker # Idle
    BY <2>1, <1>0 DEF Counted
  <2>7. server \in {"loop", "ended"}
    BY <2>6 DEF ThreadInv, TypeOK
  <2>8. thread_exit' \/ lost' \subseteq unopenable'
    <3>1. CASE server = "ended"
      BY <1>1, <3>1 DEF ThreadInv
    <3>2. CASE server = "loop"
      <4>1. worker \in opened \/ worker \in unopenable
        BY <2>1, <3>2 DEF ThreadInv, Pipe
      <4> QED BY <1>1, <2>1, <3>2, <4>1 DEF ThreadInv, LostOnlyWhenClosed
    <3> QED BY <2>7, <3>1, <3>2
  <2>9. ThreadInv'
    BY <1>1, <2>1, <2>7, <2>8 DEF ThreadInv, LostOnlyWhenClosed
  <2>10. lost' \subseteq Daemon
    BY <2>1 DEF TypeOK
  <2> QED BY <1>1, <1>2, <2>1, <2>4, <2>5, <2>9, <2>10 DEF TypeOK
<1> QED BY <1>4, <1>5, <1>6

\* A daemon writes a frame.
LEMMA WriteStep ==
  ASSUME IInv, NEW d \in Daemon, Write(d)
  PROVE  IInv'
<1>0. Counted
  BY Numbers
<1> USE DEF IInv, PerRequest
<1>1. PICK f \in Frame :
        /\ Len(frames) < Room /\ f.from = d /\ (f.kind = "OTHER" \/ sent[d] < MaxFrames)
        /\ frames' = Append(frames, f)
        /\ sent' = IF f.kind = "OTHER" THEN sent ELSE plus(sent, d)
  BY DEF Write
<1>2. UNCHANGED <<thread_ready, thread_exit, launcher, spurious, server, unopenable, opened,
                  msgs, worker, owed, lost, taken, answers>>
  BY DEF Write, thelper, pipes, work
<1>3. frames' \in Seq(Frame) /\ Len(frames') <= Room
  <2>1. Len(Append(frames, f)) = Len(frames) + 1 /\ Len(frames) \in Nat
    OBVIOUS
  <2> QED BY <1>1, <2>1, DmnAssumption
<1>4. \A e \in Daemon : sent'[e] = sent[e] + IF f \in AskedBy(e) THEN 1 ELSE 0
  <2>1. \A e \in Daemon : f \in AskedBy(e) <=> f.kind # "OTHER" /\ e = d
    BY <1>1 DEF AskedBy
  <2>2. \A e \in Daemon : sent'[e] = IF f.kind # "OTHER" /\ e = d THEN sent[e] + 1 ELSE sent[e]
    BY <1>1 DEF plus, TypeOK
  <2> QED BY <2>1, <2>2, <1>0 DEF Counted
<1>5. \A e \in Daemon : Asked(e)'
                          = Asked(e) + IF f \in AskedBy(e) THEN 1 ELSE 0
  BY <1>1, CountAppend DEF Asked
<1>6. CountInv'
  <2> SUFFICES ASSUME NEW e \in Daemon
               PROVE  /\ taken'[e] + Waiting(e)'
                           + Asked(e)' = sent'[e]
                      /\ owed'[e] + InHand(e)' + answers'[e] <= PerRequest * taken'[e]
    BY DEF CountInv
  <2>1. Waiting(e)' = Waiting(e)
    BY <1>2 DEF Waiting
  <2>2. owed'[e] + InHand(e)' + answers'[e] <= PerRequest * taken'[e]
    BY <1>2 DEF CountInv, InHand
  <2> DEFINE one == IF f \in AskedBy(e) THEN 1 ELSE 0
  <2>3. Asked(e)' = Asked(e) + one /\ sent'[e] = sent[e] + one /\ one \in {0, 1}
    BY <1>4, <1>5
  <2>4. /\ taken[e] \in Nat /\ sent[e] \in Nat /\ Waiting(e) \in Nat /\ Asked(e) \in Nat
        /\ taken[e] + Waiting(e) + Asked(e) = sent[e]
    BY OfOne
  <2> HIDE DEF one, IInv
  <2>5. taken[e] + Waiting(e) + Asked(e)' = sent'[e]
    BY <2>3, <2>4
  <2> QED BY <1>2, <2>1, <2>2, <2>5
<1>7. TypeOK'
  <2>1. sent' \in [Daemon -> 0..MaxFrames]
    <3>1. sent[d] < MaxFrames => sent[d] + 1 \in 0..MaxFrames
      BY <1>0 DEF Counted
    <3> QED BY <1>1, <3>1 DEF plus, TypeOK
  <2>2. \A i \in DOMAIN frames' : frames'[i] \in Frame
    BY <1>3
  <2> QED BY <1>2, <1>3, <2>1, <2>2 DEF TypeOK
<1>8. ThreadInv'
  BY <1>2 DEF ThreadInv, LostOnlyWhenClosed
<1> QED BY <1>2, <1>3, <1>6, <1>7, <1>8

LEMMA Invariant == Spec => []IInv
<1>1. IInv /\ Next => IInv'
  BY ThreadStep, ProcStep, ReqRelStep, AnswerStep, WriteStep DEF Next, Server, Worker
<1>2. IInv /\ UNCHANGED vars => IInv'
  <2> SUFFICES ASSUME IInv, UNCHANGED vars PROVE IInv'
    OBVIOUS
  <2>1. UNCHANGED <<thread_ready, thread_exit, launcher, spurious, server, unopenable, opened,
                    frames, msgs, worker, owed, lost, taken, answers, sent>>
    BY DEF vars, thelper, pipes, work
  <2> QED BY <2>1 DEF IInv, TypeOK, ThreadInv, LostOnlyWhenClosed, CountInv, InHand, At, Waiting, Asked
<1> QED BY InitHolds, <1>1, <1>2, PTL DEF Spec

-------------------------------------------------------------------------------
\* Type correctness: no pipe ever holds more than it has room for, and the
\* answers still to be given are bounded by the requests.
THEOREM TypeCorrect == Spec => []TypeOK
<1>1. IInv => TypeOK
  BY DEF IInv
<1> QED BY Invariant, <1>1, PTL

\* thelper_signal_wait and thelper_signal_ready, data_conn, and the handlers of
\* requests: the framework goes on when the pipes are open, an answer is lost
\* only to a pipe that is not, and daemons get the answers to their own
\* requests and no more.
THEOREM PipesAreSound == Spec => []PipesSound
<1>1. IInv => PipesSound
  <2> SUFFICES ASSUME IInv PROVE PipesSound
    OBVIOUS
  <2>1. BackWhenReady /\ LostOnlyWhenClosed
    BY DEF IInv, ThreadInv, BackWhenReady
  <2>2. AnswersAreDue
    <3> SUFFICES ASSUME NEW d \in Daemon
                 PROVE  /\ taken[d] + Cardinality({i \in DOMAIN msgs : msgs[i] = d}) <= sent[d]
                        /\ owed[d] + answers[d] <= PerRequest * taken[d]
      BY DEF AnswersAreDue
    <3>1. Cardinality({i \in DOMAIN msgs : msgs[i] = d}) = Waiting(d)
      <4>1. {i \in DOMAIN msgs : msgs[i] = d} = At(msgs, {d})
        BY DEF At
      <4> QED BY <4>1 DEF Waiting
    <3>2. /\ taken[d] + Waiting(d) + Asked(d) = sent[d]
          /\ owed[d] + InHand(d) + answers[d] <= PerRequest * taken[d]
          /\ InHand(d) \in Nat
      BY DEF IInv, CountInv, InHand
    <3>3. /\ taken[d] \in Nat /\ owed[d] \in Nat /\ answers[d] \in Nat
          /\ Waiting(d) \in Nat /\ Asked(d) \in Nat
      BY Numbers DEF Counted, PerRequest
    <3>4. taken[d] + Waiting(d) <= sent[d]
      BY <3>2, <3>3
    <3>5. owed[d] + answers[d] <= PerRequest * taken[d]
      BY <3>2, <3>3 DEF PerRequest
    <3> QED BY <3>1, <3>4, <3>5
  <2> QED BY <2>1, <2>2 DEF PipesSound
<1> QED BY Invariant, <1>1, PTL
=============================================================================
