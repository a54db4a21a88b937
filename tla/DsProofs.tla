------------------------------- MODULE DsProofs -------------------------------
(***************************************************************************)
(* Theorems about DSStateMachine for any clients, any number of retries,   *)
(* requests and modem restarts.                                            *)
(*                                                                         *)
(* The first part is about data: induction over the numbers, drawn from    *)
(* the least element of a set, and with it what `without' computes; and    *)
(* how many messages of a kind a queue holds.  The second part is the      *)
(* inductive invariant.  Queue and CallInv say which reports of the        *)
(* data service are queued in each state of the call and of the machine,   *)
(* in which order; TokenInv that the requests queued, in timers and on the *)
(* list, waiting for a release to end, are no more than clients have made. *)
(***************************************************************************)
EXTENDS DSStateMachine, FiniteSetTheorems, FunctionTheorems, WellFoundedInduction, TLAPS

\* A set of numbers that is not empty has a least one.
LEMMA LeastNumber ==
  ASSUME NEW T, T \subseteq Nat, T # {}
  PROVE  \E n \in T : \A m \in T : n <= m
<1> DEFINE R == OpToRel(<, Nat)
<1>1. IsWellFoundedOn(R, Nat)
  BY NatLessThanWellFounded
<1>2. \A m, n \in Nat : m < n => <<m, n>> \in R
  BY DEF OpToRel
<1> HIDE DEF R
<1>3. PICK n \in T : \A m \in T : ~ (<<m, n>> \in R)
  BY <1>1, WFMin
<1>4. \A m \in T : ~ (m < n)
  BY <1>2, <1>3
<1> QED BY <1>4

\* Induction: a set with 0, and with each number's successor, has them all.
LEMMA Induction ==
  ASSUME NEW T, 0 \in T, \A n \in Nat : n \in T => n + 1 \in T
  PROVE  Nat \subseteq T
<1> SUFFICES ASSUME Nat \ T # {} PROVE FALSE
  OBVIOUS
<1>1. PICK n \in Nat \ T : \A m \in Nat \ T : n <= m
  BY LeastNumber
<1>2. n # 0
  OBVIOUS
<1>3. n - 1 \in T /\ n - 1 \in Nat
  BY <1>1, <1>2
<1> QED BY <1>3

-------------------------------------------------------------------------------
(* The walk over the list.                                                 *)

Step(list, gone, i, before) ==
  IF i = 0 THEN <<>> ELSE IF list[i] \in gone THEN before ELSE Append(before, list[i])

IsWalk(w, list, gone, n) == w = [i \in 0..n |-> Step(list, gone, i, w[i - 1])]

\* The recursion of `without' defines a function.
LEMMA WalkExists ==
  ASSUME NEW list, NEW gone, NEW n \in Nat
  PROVE  \E w : IsWalk(w, list, gone, n)
<1> DEFINE T == {k \in Nat : \E w : IsWalk(w, list, gone, k)}
<1>1. 0 \in T
  <2> DEFINE w == [i \in 0..0 |-> <<>>]
  <2>1. w = [i \in 0..0 |-> Step(list, gone, i, w[i - 1])]
    BY DEF Step
  <2> HIDE DEF w
  <2> QED BY <2>1 DEF IsWalk
<1>2. ASSUME NEW k \in Nat, k \in T PROVE k + 1 \in T
  <2>1. PICK w : IsWalk(w, list, gone, k)
    BY <1>2
  <2> DEFINE v == [i \in 0 .. k + 1 |-> IF i <= k THEN w[i] ELSE Step(list, gone, k + 1, w[k])]
  <2>2. \A i \in 0..k : w[i] = Step(list, gone, i, w[i - 1])
    BY <2>1 DEF IsWalk
  <2>3. \A i \in 0 .. k + 1 : v[i] = Step(list, gone, i, v[i - 1])
    <3> SUFFICES ASSUME NEW i \in 0 .. k + 1 PROVE v[i] = Step(list, gone, i, v[i - 1])
      OBVIOUS
    <3>1. CASE i = 0
      <4>1. v[i] = w[0]
        BY <3>1
      <4> QED BY <3>1, <4>1, <2>2 DEF Step
    <3>2. CASE i \in 1..k
      <4>1. v[i] = w[i] /\ v[i - 1] = w[i - 1]
        BY <3>2
      <4> QED BY <3>2, <4>1, <2>2
    <3>3. CASE i = k + 1
      <4>1. v[i] = Step(list, gone, k + 1, w[k]) /\ v[i - 1] = w[k]
        BY <3>3
      <4> QED BY <3>3, <4>1
    <3> QED BY <3>1, <3>2, <3>3
  <2>4. v = [i \in 0 .. k + 1 |-> v[i]]
    OBVIOUS
  <2> HIDE DEF v
  <2>5. IsWalk(v, list, gone, k + 1)
    BY <2>3, <2>4 DEF IsWalk
  <2> QED BY <2>5
<1> HIDE DEF T
<1>3. Nat \subseteq T
  BY <1>1, <1>2, Induction
<1> QED BY <1>3 DEF T

LEMMA WithoutIsWalk ==
  ASSUME NEW T, NEW list \in Seq(T), NEW gone
  PROVE  \E w : IsWalk(w, list, gone, Len(list)) /\ without(list, gone) = w[Len(list)]
<1> DEFINE w == CHOOSE w : IsWalk(w, list, gone, Len(list))
<1>1. IsWalk(w, list, gone, Len(list))
  BY WalkExists
<1>2. without(list, gone) = w[Len(list)]
  BY DEF without, IsWalk, Step
<1> QED BY <1>1, <1>2

\* One more element at the end.
LEMMA AppendFacts ==
  ASSUME NEW T, NEW s \in Seq(T), NEW m \in T
  PROVE  /\ Append(s, m) \in Seq(T) /\ ToSet(Append(s, m)) = ToSet(s) \cup {m}
         /\ IsInjective(s) /\ m \notin ToSet(s) => IsInjective(Append(s, m))
<1>1. /\ DOMAIN s = 1 .. Len(s) /\ DOMAIN Append(s, m) = 1 .. Len(s) + 1
      /\ Len(s) \in Nat
      /\ \A i \in 1 .. Len(s) : Append(s, m)[i] = s[i]
      /\ Append(s, m)[Len(s) + 1] = m
  OBVIOUS
<1>2. ToSet(Append(s, m)) = ToSet(s) \cup {m}
  BY <1>1 DEF ToSet
<1>3. ASSUME IsInjective(s), m \notin ToSet(s) PROVE IsInjective(Append(s, m))
  <2> SUFFICES ASSUME NEW i \in 1 .. Len(s) + 1, NEW j \in 1 .. Len(s) + 1,
                      Append(s, m)[i] = Append(s, m)[j]
               PROVE  i = j
    BY <1>1 DEF IsInjective
  <2>1. \A k \in 1 .. Len(s) : s[k] # m
    BY <1>1, <1>3 DEF ToSet
  <2> QED BY <1>1, <1>3, <2>1 DEF IsInjective
<1> QED BY <1>2, <1>3

\* What `without' computes: the elements that are not gone, once each if the
\* list has them once.
LEMMA WithoutFacts ==
  ASSUME NEW T, NEW list \in Seq(T), NEW gone
  PROVE  /\ without(list, gone) \in Seq(T)
         /\ ToSet(without(list, gone)) = ToSet(list) \ gone
         /\ IsInjective(list) => IsInjective(without(list, gone))
<1>1. PICK w : IsWalk(w, list, gone, Len(list)) /\ without(list, gone) = w[Len(list)]
  BY WithoutIsWalk
<1>2. \A i \in 0 .. Len(list) : w[i] = Step(list, gone, i, w[i - 1])
  BY <1>1 DEF IsWalk
<1> DEFINE seen(i) == {list[j] : j \in 1..i}
           Good(i) == /\ w[i] \in Seq(T) /\ ToSet(w[i]) = seen(i) \ gone
                      /\ IsInjective(list) => IsInjective(w[i])
           S == {i \in Nat : i <= Len(list) => Good(i)}
<1>3. 0 \in S
  <2>1. w[0] = <<>>
    BY <1>2 DEF Step
  <2>2. <<>> \in Seq(T) /\ ToSet(<<>>) = {} /\ IsInjective(<<>>)
    BY DEF ToSet, IsInjective
  <2>3. seen(0) = {}
    OBVIOUS
  <2> HIDE DEF seen
  <2>4. Good(0)
    BY <2>1, <2>2, <2>3
  <2> HIDE DEF Good
  <2> QED BY <2>4
<1>4. ASSUME NEW i \in Nat, i \in S PROVE i + 1 \in S
  <2> SUFFICES ASSUME i + 1 <= Len(list) PROVE Good(i + 1)
    OBVIOUS
  <2>1. Good(i) /\ i + 1 \in 1 .. Len(list) /\ list[i + 1] \in T
    BY <1>4
  <2>2. w[i + 1] = IF list[i + 1] \in gone THEN w[i] ELSE Append(w[i], list[i + 1])
    BY <1>2, <2>1 DEF Step
  <2>3. seen(i + 1) = seen(i) \cup {list[i + 1]}
    OBVIOUS
  <2>4. CASE list[i + 1] \in gone
    BY <2>1, <2>2, <2>3, <2>4
  <2>5. CASE list[i + 1] \notin gone
    <3>1. w[i + 1] = Append(w[i], list[i + 1])
      BY <2>2, <2>5
    <3>2. IsInjective(list) => list[i + 1] \notin seen(i)
      <4>1. \A j \in 1..i : j \in DOMAIN list /\ j # i + 1
        BY <2>1
      <4> QED BY <2>1, <4>1 DEF IsInjective
    <3>3. /\ w[i + 1] \in Seq(T) /\ ToSet(w[i + 1]) = ToSet(w[i]) \cup {list[i + 1]}
          /\ IsInjective(w[i]) /\ list[i + 1] \notin ToSet(w[i]) => IsInjective(w[i + 1])
      BY <2>1, <3>1, AppendFacts
    <3> QED BY <2>1, <2>3, <2>5, <3>2, <3>3
  <2> QED BY <2>4, <2>5
<1> HIDE DEF S
<1>5. Nat \subseteq S
  BY <1>3, <1>4, Induction
<1>6. Good(Len(list))
  <2>1. Len(list) \in S /\ Len(list) <= Len(list)
    BY <1>5
  <2> HIDE DEF Good
  <2> QED BY <2>1 DEF S
<1>7. seen(Len(list)) = ToSet(list)
  BY DEF ToSet
<1> QED BY <1>1, <1>6, <1>7

\* connHandle finds a subscriber if there is one that is not gone.
LEMMA ConnHandleFinds ==
  ASSUME NEW list \in Seq(Client), NEW gone, NEW c, c \in ToSet(list) \ gone
  PROVE  connHandle(list, gone) \in Client
<1>1. without(list, gone) \in Seq(Client) /\ ToSet(without(list, gone)) # {}
  BY WithoutFacts
<1>2. without(list, gone) # <<>>
  BY <1>1 DEF ToSet
<1> HIDE DEF without
<1> QED BY <1>1, <1>2 DEF connHandle

-------------------------------------------------------------------------------
(* What the queue holds.                                                   *)

\* The places of a sequence that hold an element of S.
At(s, S) == {i \in DOMAIN s : s[i] \in S}

\* How many places hold an element of S: one more with one more at the end,
\* and one less without the first.
LEMMA CountType ==
  ASSUME NEW T, NEW s \in Seq(T), NEW S
  PROVE  IsFiniteSet(At(s, S)) /\ Cardinality(At(s, S)) \in Nat
<1>1. DOMAIN s = 1 .. Len(s) /\ Len(s) \in Nat
  OBVIOUS
<1>2. IsFiniteSet(1 .. Len(s))
  BY <1>1, FS_Interval
<1>3. At(s, S) \in SUBSET (1 .. Len(s))
  BY <1>1 DEF At
<1> QED BY <1>2, <1>3, FS_Subset, FS_CardinalityType

LEMMA CountAppend ==
  ASSUME NEW T, NEW s \in Seq(T), NEW m \in T, NEW S
  PROVE  Cardinality(At(Append(s, m), S))
           = Cardinality(At(s, S)) + IF m \in S THEN 1 ELSE 0
<1>1. /\ DOMAIN s = 1 .. Len(s) /\ DOMAIN Append(s, m) = 1 .. Len(s) + 1
      /\ Len(s) \in Nat
      /\ \A i \in 1 .. Len(s) : Append(s, m)[i] = s[i]
      /\ Append(s, m)[Len(s) + 1] = m
  OBVIOUS
<1>2. IsFiniteSet(At(s, S)) /\ Cardinality(At(s, S)) \in Nat /\ Len(s) + 1 \notin At(s, S)
  <2>1. Len(s) + 1 \notin At(s, S)
    BY <1>1 DEF At
  <2> QED BY <2>1, CountType
<1>3. CASE m \in S
  <2>1. At(Append(s, m), S) = At(s, S) \cup {Len(s) + 1}
    BY <1>1, <1>3 DEF At
  <2> QED BY <1>2, <1>3, <2>1, FS_AddElement
<1>4. CASE m \notin S
  <2>1. At(Append(s, m), S) = At(s, S)
    BY <1>1, <1>4 DEF At
  <2> QED BY <1>2, <1>4, <2>1
<1> QED BY <1>3, <1>4

LEMMA CountTail ==
  ASSUME NEW T, NEW s \in Seq(T), s # <<>>, NEW S
  PROVE  Cardinality(At(s, S))
           = Cardinality(At(Tail(s), S)) + IF Head(s) \in S THEN 1 ELSE 0
<1>1. /\ DOMAIN s = 1 .. Len(s) /\ DOMAIN Tail(s) = 1 .. Len(s) - 1
      /\ Len(s) \in Nat \ {0} /\ Tail(s) \in Seq(T)
      /\ \A i \in 1 .. Len(s) - 1 : Tail(s)[i] = s[i + 1]
      /\ s[1] = Head(s)
  OBVIOUS
<1> DEFINE later == At(s, S) \ {1}
<1>2. IsFiniteSet(At(s, S)) /\ Cardinality(At(s, S)) \in Nat
      /\ IsFiniteSet(At(Tail(s), S)) /\ Cardinality(At(Tail(s), S)) \in Nat
  BY <1>1, CountType
<1>3. Cardinality(later) = Cardinality(At(Tail(s), S))
  <2> DEFINE f == [i \in At(Tail(s), S) |-> i + 1]
  <2>1. f \in [At(Tail(s), S) -> later]
    BY <1>1 DEF At
  <2>2. \A i, j \in At(Tail(s), S) : f[i] = f[j] => i = j
    BY <1>1 DEF At
  <2>3. \A k \in later : \E i \in At(Tail(s), S) : f[i] = k
    <3> SUFFICES ASSUME NEW k \in later PROVE \E i \in At(Tail(s), S) : f[i] = k
      OBVIOUS
    <3>1. k - 1 \in At(Tail(s), S) /\ (k - 1) + 1 = k
      BY <1>1 DEF At
    <3> QED BY <3>1
  <2>4. ExistsBijection(At(Tail(s), S), later)
    <3> HIDE DEF f, later
    <3>1. f \in Bijection(At(Tail(s), S), later)
      BY <2>1, <2>2, <2>3, Fun_IsBij
    <3> QED BY <3>1 DEF ExistsBijection
  <2> HIDE DEF later
  <2> QED BY <1>2, <2>4, FS_Bijection
<1>4. 1 \in At(s, S) <=> Head(s) \in S
  BY <1>1 DEF At
<1>5. Cardinality(later) = IF 1 \in At(s, S) THEN Cardinality(At(s, S)) - 1
                                             ELSE Cardinality(At(s, S))
  BY <1>2, FS_RemoveElement
<1> QED BY <1>2, <1>3, <1>4, <1>5

Starts == {m \in Message : m.kind = "SUPL_ES"}

\* How many requests are queued, and whether a message of a kind is.
Requests(s) == Cardinality(At(s, Starts))
Has(s, kind) == \E i \in DOMAIN s : s[i].kind = kind

\* The call comes up once and ends once, in this order.
Ordered(s) ==
  \A i, j \in DOMAIN s :
    /\ s[i].kind = s[j].kind /\ s[i].kind \in {"OPENED", "CLOSED"} => i = j
    /\ s[i].kind = "OPENED" /\ s[j].kind = "CLOSED" => i < j

Queue(s) ==
  /\ s \in Seq(Message) /\ Ordered(s)
  /\ \A i \in DOMAIN s : s[i].kind \in {"SUPL_ES", "ATL"} => s[i].id # NoHandle

LEMMA MessageFacts ==
  /\ \A m \in Message : /\ m.kind \in {"SUPL_ES", "ATL", "RELEASE", "OPENED", "CLOSED"}
                        /\ m.kind \in {"SUPL_ES", "ATL", "RELEASE"} => m.id \in Client \cup {NoHandle}
  /\ \A kind \in {"SUPL_ES", "ATL", "RELEASE"}, c \in Client \cup {NoHandle} :
       Msg(kind, c) \in Message /\ Msg(kind, c).kind = kind /\ Msg(kind, c).id = c
  /\ \A kind \in {"OPENED", "CLOSED"} : Event(kind) \in Message /\ Event(kind).kind = kind
<1>1. \A m \in Message : /\ m.kind \in {"SUPL_ES", "ATL", "RELEASE", "OPENED", "CLOSED"}
                         /\ m.kind \in {"SUPL_ES", "ATL", "RELEASE"} => m.id \in Client \cup {NoHandle}
  BY DEF Message
<1>2. \A kind \in {"SUPL_ES", "ATL", "RELEASE"}, c \in Client \cup {NoHandle} :
        Msg(kind, c) \in Message /\ Msg(kind, c).kind = kind /\ Msg(kind, c).id = c
  BY DEF Message, Msg
<1>3. \A kind \in {"OPENED", "CLOSED"} : Event(kind) \in Message /\ Event(kind).kind = kind
  BY DEF Message, Event
<1> QED BY <1>1, <1>2, <1>3

\* The first message is taken from the queue.
LEMMA Take ==
  ASSUME NEW s, Queue(s), s # <<>>
  PROVE  /\ Queue(Tail(s)) /\ Head(s) \in Message
         /\ Head(s).kind \in {"SUPL_ES", "ATL"} => Head(s).id \in Client
         /\ \A kind : Has(s, kind) <=> Head(s).kind = kind \/ Has(Tail(s), kind)
         /\ Head(s).kind = "OPENED" => ~ Has(Tail(s), "OPENED")
         /\ Head(s).kind = "CLOSED" => ~ Has(Tail(s), "CLOSED") /\ ~ Has(Tail(s), "OPENED")
         /\ Requests(s) = Requests(Tail(s)) + IF Head(s).kind = "SUPL_ES" THEN 1 ELSE 0
         /\ Requests(Tail(s)) \in Nat
<1> DEFINE t == Tail(s)
<1>1. /\ s \in Seq(Message) /\ t \in Seq(Message) /\ Head(s) \in Message
      /\ DOMAIN s = 1 .. Len(s) /\ DOMAIN t = 1 .. Len(s) - 1 /\ Len(s) \in Nat \ {0}
      /\ \A i \in 1 .. Len(s) - 1 : t[i] = s[i + 1]
      /\ s[1] = Head(s)
  BY DEF Queue
<1>2. \A kind : Has(s, kind) <=> Head(s).kind = kind \/ Has(t, kind)
  <2> SUFFICES ASSUME NEW kind PROVE Has(s, kind) <=> Head(s).kind = kind \/ Has(t, kind)
    OBVIOUS
  <2>1. ASSUME NEW i \in DOMAIN s, s[i].kind = kind PROVE Head(s).kind = kind \/ Has(t, kind)
    <3>1. CASE i = 1
      BY <1>1, <2>1, <3>1
    <3>2. CASE i # 1
      <4>1. i - 1 \in DOMAIN t /\ t[i - 1] = s[i]
        BY <1>1, <3>2
      <4> QED BY <2>1, <4>1 DEF Has
    <3> QED BY <3>1, <3>2
  <2>2. ASSUME NEW i \in DOMAIN t, t[i].kind = kind PROVE Has(s, kind)
    <3>1. i + 1 \in DOMAIN s /\ t[i] = s[i + 1]
      BY <1>1
    <3> QED BY <2>2, <3>1 DEF Has
  <2>3. Head(s).kind = kind => Has(s, kind)
    BY <1>1 DEF Has
  <2> QED BY <2>1, <2>2, <2>3 DEF Has
<1>3. Ordered(t)
  <2> SUFFICES ASSUME NEW i \in DOMAIN t, NEW j \in DOMAIN t
               PROVE  /\ t[i].kind = t[j].kind /\ t[i].kind \in {"OPENED", "CLOSED"} => i = j
                      /\ t[i].kind = "OPENED" /\ t[j].kind = "CLOSED" => i < j
    BY DEF Ordered
  <2>1. /\ i + 1 \in DOMAIN s /\ j + 1 \in DOMAIN s /\ t[i] = s[i + 1] /\ t[j] = s[j + 1]
        /\ i \in Nat /\ j \in Nat
    BY <1>1
  <2>2. /\ s[i + 1].kind = s[j + 1].kind /\ s[i + 1].kind \in {"OPENED", "CLOSED"} => i + 1 = j + 1
        /\ s[i + 1].kind = "OPENED" /\ s[j + 1].kind = "CLOSED" => i + 1 < j + 1
    BY <2>1 DEF Queue, Ordered
  <2> QED BY <2>1, <2>2
<1>4. \A i \in DOMAIN t : t[i].kind \in {"SUPL_ES", "ATL"} => t[i].id # NoHandle
  BY <1>1 DEF Queue
<1>5. Head(s).kind \in {"SUPL_ES", "ATL"} => Head(s).id \in Client
  BY <1>1, MessageFacts DEF Queue
<1>6. /\ Head(s).kind = "OPENED" => ~ Has(t, "OPENED")
      /\ Head(s).kind = "CLOSED" => ~ Has(t, "CLOSED") /\ ~ Has(t, "OPENED")
  <2>1. \A i \in DOMAIN t : i + 1 \in DOMAIN s /\ 1 \in DOMAIN s /\ t[i] = s[i + 1] /\ i \in Nat /\ i >= 1
    BY <1>1
  <2>2. ASSUME NEW i \in DOMAIN t
        PROVE  /\ Head(s).kind = "OPENED" => t[i].kind # "OPENED"
               /\ Head(s).kind = "CLOSED" => t[i].kind # "CLOSED" /\ t[i].kind # "OPENED"
    BY <1>1, <2>1 DEF Queue, Ordered
  <2> QED BY <2>2 DEF Has
<1>7. Requests(s) = Requests(t) + IF Head(s).kind = "SUPL_ES" THEN 1 ELSE 0
  <2>1. Head(s) \in Starts <=> Head(s).kind = "SUPL_ES"
    BY <1>1 DEF Starts
  <2> QED BY <1>1, <2>1, CountTail DEF Requests
<1>8. Requests(t) \in Nat
  BY <1>1, CountType DEF Requests
<1> QED BY <1>1, <1>2, <1>3, <1>4, <1>5, <1>6, <1>7, <1>8 DEF Queue

\* A message is put into the queue.
LEMMA Put ==
  ASSUME NEW s, Queue(s), NEW m \in Message,
         m.kind \in {"SUPL_ES", "ATL"} => m.id # NoHandle,
         m.kind \in {"OPENED", "CLOSED"} => ~ Has(s, m.kind),
         m.kind = "OPENED" => ~ Has(s, "CLOSED")
  PROVE  /\ Queue(Append(s, m))
         /\ \A kind : Has(Append(s, m), kind) <=> Has(s, kind) \/ m.kind = kind
         /\ Requests(Append(s, m)) = Requests(s) + IF m.kind = "SUPL_ES" THEN 1 ELSE 0
         /\ Requests(s) \in Nat
<1> DEFINE t == Append(s, m)
<1>1. /\ s \in Seq(Message) /\ t \in Seq(Message)
      /\ DOMAIN s = 1 .. Len(s) /\ DOMAIN t = 1 .. Len(s) + 1 /\ Len(s) \in Nat
      /\ \A i \in 1 .. Len(s) : t[i] = s[i]
      /\ t[Len(s) + 1] = m
  BY DEF Queue
<1>2. \A kind : Has(t, kind) <=> Has(s, kind) \/ m.kind = kind
  BY <1>1 DEF Has
<1>3. Ordered(t)
  <2> SUFFICES ASSUME NEW i \in DOMAIN t, NEW j \in DOMAIN t
               PROVE  /\ t[i].kind = t[j].kind /\ t[i].kind \in {"OPENED", "CLOSED"} => i = j
                      /\ t[i].kind = "OPENED" /\ t[j].kind = "CLOSED" => i < j
    BY DEF Ordered
  <2>1. CASE i \in DOMAIN s /\ j \in DOMAIN s
    BY <1>1, <2>1 DEF Queue, Ordered
  <2>2. CASE i \in DOMAIN s /\ j = Len(s) + 1
    BY <1>1, <2>2 DEF Has
  <2>3. CASE i = Len(s) + 1 /\ j \in DOMAIN s
    BY <1>1, <2>3 DEF Has
  <2>4. CASE i = Len(s) + 1 /\ j = Len(s) + 1
    BY <1>1, <2>4
  <2> QED BY <1>1, <2>1, <2>2, <2>3, <2>4
<1>4. \A i \in DOMAIN t : t[i].kind \in {"SUPL_ES", "ATL"} => t[i].id # NoHandle
  BY <1>1 DEF Queue
<1>5. Requests(t) = Requests(s) + (IF m.kind = "SUPL_ES" THEN 1 ELSE 0) /\ Requests(s) \in Nat
  <2>1. m \in Starts <=> m.kind = "SUPL_ES"
    BY DEF Starts
  <2> QED BY <1>1, <2>1, CountAppend, CountType DEF Requests
<1> QED BY <1>1, <1>2, <1>3, <1>4, <1>5 DEF Queue

LEMMA ConcatFacts ==
  ASSUME NEW T, NEW s \in Seq(T), NEW t \in Seq(T)
  PROVE  /\ s \o t \in Seq(T)
         /\ DOMAIN s = 1 .. Len(s) /\ DOMAIN (s \o t) = 1 .. Len(s) + Len(t)
         /\ Len(s) \in Nat /\ Len(t) \in Nat
         /\ \A i \in 1 .. Len(s) : (s \o t)[i] = s[i]
         /\ \A i \in 1 .. Len(s) + Len(t) : i > Len(s) => (s \o t)[i] = t[i - Len(s)]
OBVIOUS

\* All subscribers fall back at once.
WithFallbacks(s, list) == s \o [i \in DOMAIN list |-> fallback(list[i])]

LEMMA PutFallbacks ==
  ASSUME NEW s, Queue(s), NEW list \in Seq(Client)
  PROVE  /\ Queue(WithFallbacks(s, list)) /\ Requests(WithFallbacks(s, list)) = Requests(s)
         /\ \A kind \in {"OPENED", "CLOSED"} : Has(WithFallbacks(s, list), kind) <=> Has(s, kind)
<1> DEFINE t == [i \in DOMAIN list |-> fallback(list[i])]
           all == WithFallbacks(s, list)
<1>1. \A i \in DOMAIN list : /\ fallback(list[i]) \in Message /\ fallback(list[i]).kind = "ATL"
                             /\ fallback(list[i]).id # NoHandle
  BY MessageFacts, DsAssumption DEF fallback
<1>2. t \in Seq(Message) /\ Len(t) = Len(list)
  BY <1>1
<1>3. \A i \in 1 .. Len(t) : t[i].kind = "ATL" /\ t[i].id # NoHandle
  BY <1>1, <1>2
<1>9. all = s \o t
  BY DEF WithFallbacks
<1> HIDE DEF t, all
<1>4. /\ s \in Seq(Message) /\ all \in Seq(Message)
      /\ DOMAIN s = 1 .. Len(s) /\ DOMAIN all = 1 .. Len(s) + Len(t)
      /\ Len(s) \in Nat /\ Len(t) \in Nat
      /\ \A i \in 1 .. Len(s) : all[i] = s[i]
      /\ \A i \in 1 .. Len(s) + Len(t) : i > Len(s) => all[i] = t[i - Len(s)]
  <2>1. s \in Seq(Message)
    BY DEF Queue
  <2> QED BY <1>2, <1>9, <2>1, ConcatFacts
<1>5. \A i \in DOMAIN all : i \notin DOMAIN s => all[i].kind = "ATL" /\ all[i].id # NoHandle
  BY <1>3, <1>4
<1>6. \A kind \in {"OPENED", "CLOSED"} : Has(all, kind) <=> Has(s, kind)
  <2> SUFFICES ASSUME NEW kind \in {"OPENED", "CLOSED"} PROVE Has(all, kind) <=> Has(s, kind)
    OBVIOUS
  <2>1. \A i \in DOMAIN s : i \in DOMAIN all /\ all[i] = s[i]
    BY <1>4
  <2>2. \A i \in DOMAIN all : all[i].kind = kind => i \in DOMAIN s
    BY <1>5
  <2> QED BY <2>1, <2>2 DEF Has
<1>7. Queue(all)
  <2>1. \A i \in DOMAIN all : all[i].kind \in {"OPENED", "CLOSED"} => i \in DOMAIN s /\ all[i] = s[i]
    BY <1>4, <1>5
  <2>2. Ordered(all)
    BY <2>1 DEF Queue, Ordered
  <2>3. \A i \in DOMAIN all : all[i].kind \in {"SUPL_ES", "ATL"} => all[i].id # NoHandle
    BY <1>4, <1>5 DEF Queue
  <2> QED BY <1>4, <2>2, <2>3 DEF Queue
<1>8. At(all, Starts) = At(s, Starts)
  BY <1>4, <1>5 DEF At, Starts
<1> QED BY <1>6, <1>7, <1>8 DEF all, Requests

-------------------------------------------------------------------------------
(* The inductive invariant.                                                *)

Types ==
  /\ mStatePtr \in AgpsState
  /\ mSubscribers \in Seq(Client) /\ IsInjective(mSubscribers)
  /\ inactive \subseteq listed
  /\ mRetries \in 0..MAX_START_DATA_CALL_RETRIES
  /\ timers \in Nat
  /\ dataCall \in {"down", "starting", "up"}
  /\ agnss \subseteq Client
  /\ client \in [Client -> {"idle", "asked", "granted", "closing"}]
  /\ requests \in 0..MaxRequests
  /\ restarts \in 0..MaxRestarts

\* What is queued of the call.  A call that starts has nothing queued of an
\* earlier one; a call that is up has no end queued, and is acquired or will be
\* by the opening that is; with no call, an opening in the queue is followed
\* by its end, and a machine that holds the call is about to hear the end.
CallInv ==
  /\ dataCall = "starting" =>
       mStatePtr = "Pending" /\ ~ Has(msgs, "OPENED") /\ ~ Has(msgs, "CLOSED")
  /\ dataCall = "up" =>
       /\ ~ Has(msgs, "CLOSED")
       /\ mStatePtr = IF Has(msgs, "OPENED") THEN "Pending" ELSE "Acquired"
  /\ dataCall = "down" =>
       /\ Has(msgs, "OPENED") => Has(msgs, "CLOSED")
       /\ mStatePtr = "Acquired" => Has(msgs, "CLOSED") /\ ~ Has(msgs, "OPENED")
       /\ mStatePtr = "Released" => ~ Has(msgs, "CLOSED")

\* A release that a client waits for will use up one of the requests.
Waiting == IF mStatePtr = "Releasing" /\ active # {} THEN 1 ELSE 0

\* A request is in the queue, in a timer, waits for a release, or is done.
TokenInv == timers + Requests(msgs) + Waiting <= requests

IInv == Types /\ Queue(msgs) /\ StateMatchesList /\ CallInv /\ TokenInv

LEMMA RequestsType == ASSUME NEW s, Queue(s) PROVE Requests(s) \in Nat
BY CountType DEF Queue, Requests

LEMMA InvInit == Init => IInv
<1> SUFFICES ASSUME Init PROVE IInv
  OBVIOUS
<1>1. msgs = <<>> /\ DOMAIN msgs = {}
  BY DEF Init
<1>2. Queue(msgs) /\ ~ Has(msgs, "OPENED") /\ ~ Has(msgs, "CLOSED")
  BY <1>1 DEF Queue, Ordered, Has
<1>3. Requests(msgs) = 0
  BY <1>1, FS_EmptySet DEF Requests, At
<1>4. Types
  <2>1. mSubscribers \in Seq(Client) /\ IsInjective(mSubscribers)
    BY DEF Init, IsInjective
  <2> QED BY <2>1, DsAssumption DEF Init, Types, AgpsState, listed
<1>5. StateMatchesList /\ CallInv
  BY <1>2 DEF Init, StateMatchesList, CallInv
<1>6. TokenInv
  BY <1>3 DEF Init, TokenInv, Waiting
<1> QED BY <1>2, <1>4, <1>5, <1>6 DEF IInv

LEMMA HearsType ==
  ASSUME Types, NEW who, NEW from, NEW news \in {"idle", "granted"}, Hears(who, from, news)
  PROVE  client' \in [Client -> {"idle", "asked", "granted", "closing"}]
BY DEF Types, Hears

LEMMA AddFacts ==
  ASSUME Types, NEW c \in Client, addSubscriber(c)
  PROVE  mSubscribers' \in Seq(Client) /\ IsInjective(mSubscribers') /\ listed' = listed \cup {c}
<1>1. CASE c \in listed
  BY <1>1 DEF addSubscriber, Types, listed
<1>2. CASE c \notin listed
  <2> DEFINE s == mSubscribers
             t == <<c>> \o s
  <2>1. s \in Seq(Client) /\ IsInjective(s) /\ c \notin ToSet(s) /\ mSubscribers' = t
    BY <1>2 DEF addSubscriber, Types, listed
  <2> HIDE DEF s
  <2>2. /\ t \in Seq(Client) /\ DOMAIN t = 1 .. Len(s) + 1 /\ t[1] = c
        /\ DOMAIN s = 1 .. Len(s) /\ Len(s) \in Nat
        /\ \A i \in 1 .. Len(s) + 1 : i > 1 => t[i] = s[i - 1]
    BY <2>1
  <2> HIDE DEF t
  <2>3. \A i \in 1 .. Len(s) : i + 1 \in DOMAIN t /\ t[i + 1] = s[i]
    BY <2>2
  <2>4. ToSet(t) = ToSet(s) \cup {c}
    <3>1. \A i \in DOMAIN t : t[i] = c \/ \E j \in DOMAIN s : t[i] = s[j]
      <4> SUFFICES ASSUME NEW i \in DOMAIN t, i # 1 PROVE \E j \in DOMAIN s : t[i] = s[j]
        BY <2>2
      <4>1. i - 1 \in DOMAIN s /\ t[i] = s[i - 1]
        BY <2>2
      <4> QED BY <4>1
    <3>2. \A j \in DOMAIN s : \E i \in DOMAIN t : t[i] = s[j]
      BY <2>2, <2>3
    <3>3. \E i \in DOMAIN t : t[i] = c
      BY <2>2
    <3> QED BY <3>1, <3>2, <3>3 DEF ToSet
  <2>5. IsInjective(t)
    <3> SUFFICES ASSUME NEW i \in 1 .. Len(s) + 1, NEW j \in 1 .. Len(s) + 1, t[i] = t[j]
                 PROVE  i = j
      BY <2>2 DEF IsInjective
    <3>1. \A k \in 1 .. Len(s) : s[k] # c
      BY <2>1, <2>2 DEF ToSet
    <3>2. CASE i > 1 /\ j > 1
      <4>1. i - 1 \in DOMAIN s /\ j - 1 \in DOMAIN s /\ s[i - 1] = s[j - 1]
        BY <2>2, <3>2
      <4> QED BY <2>1, <4>1 DEF IsInjective
    <3> QED BY <2>2, <3>1, <3>2
  <2> QED BY <2>1, <2>2, <2>4, <2>5 DEF listed, s
<1> QED BY <1>1, <1>2

\* An attempt to start the call for a client on the list.  It starts the call
\* or leaves it as it was, arms at most one timer, and queues no request and
\* no event.
LEMMA StartFacts ==
  ASSUME Types, dataCall = "down", NEW ret \in Answer, NEW list, NEW gone, NEW rest, Queue(rest),
         connHandle(list, gone) \in Client, startDataCall(ret, list, gone, rest)
  PROVE  /\ dataCall' = IF ret = "SUCCESS" THEN "starting" ELSE dataCall
         /\ mRetries' \in 0..MAX_START_DATA_CALL_RETRIES
         /\ timers' \in {timers, timers + 1}
         /\ Queue(msgs') /\ Requests(msgs') = Requests(rest)
         /\ \A kind \in {"OPENED", "CLOSED"} : Has(msgs', kind) <=> Has(rest, kind)
<1> DEFINE m == fallback(connHandle(list, gone))
<1>1. /\ dataCall' = IF ret = "SUCCESS" THEN "starting" ELSE dataCall
      /\ mRetries' \in 0..MAX_START_DATA_CALL_RETRIES
      /\ timers' \in {timers, timers + 1}
      /\ msgs' = rest \/ msgs' = Append(rest, m)
  BY DsAssumption DEF startDataCall, openAndStartDataCall, Types
<1>2. m \in Message /\ m.kind = "ATL" /\ m.id # NoHandle
  BY MessageFacts, DsAssumption DEF fallback
<1> HIDE DEF m
<1>3. /\ Queue(Append(rest, m))
      /\ \A kind : Has(Append(rest, m), kind) <=> Has(rest, kind) \/ m.kind = kind
      /\ Requests(Append(rest, m)) = Requests(rest) + 0
      /\ Requests(rest) \in Nat
  BY <1>2, Put
<1>4. /\ Queue(msgs') /\ Requests(msgs') = Requests(rest)
      /\ \A kind \in {"OPENED", "CLOSED"} : Has(msgs', kind) <=> Has(rest, kind)
  <2>1. CASE msgs' = rest
    BY <2>1
  <2>2. CASE msgs' = Append(rest, m)
    BY <1>2, <1>3, <2>2
  <2> QED BY <1>1, <2>1, <2>2
<1> QED BY <1>1, <1>4

-------------------------------------------------------------------------------
(* Every step preserves it.                                                *)

LEMMA RequestSuplEsStep == IInv /\ RequestSuplEs => IInv'
<1> SUFFICES ASSUME IInv, RequestSuplEs PROVE IInv'
  OBVIOUS
<1> DEFINE c == Head(msgs).id
           rest == Tail(msgs)
<1>1. /\ Queue(rest) /\ c \in Client
      /\ \A kind \in {"OPENED", "CLOSED"} : Has(msgs, kind) <=> Has(rest, kind)
      /\ Requests(msgs) = Requests(rest) + 1 /\ Requests(rest) \in Nat
  BY Take DEF IInv, RequestSuplEs, Running
<1>2. Types /\ StateMatchesList /\ CallInv /\ TokenInv
  BY DEF IInv
<1>3. /\ mSubscribers' \in Seq(Client) /\ IsInjective(mSubscribers')
      /\ listed' = listed \cup {c} /\ inactive' = inactive
  BY <1>1, <1>2, AddFacts DEF RequestSuplEs
<1>4. client' \in [Client -> {"idle", "asked", "granted", "closing"}]
  BY <1>2, HearsType DEF RequestSuplEs, Types
<1>5. agnss' = agnss /\ requests' = requests /\ restarts' = restarts
  BY DEF RequestSuplEs
<1>6. CASE mStatePtr = "Released"
  <2>1. PICK ret \in Answer : /\ startDataCall(ret, mSubscribers', inactive, rest)
                              /\ mStatePtr' = IF ret = "SUCCESS" THEN "Pending" ELSE mStatePtr
    BY <1>6 DEF RequestSuplEs
  <2>2. /\ dataCall = "down" /\ ~ Has(rest, "OPENED") /\ ~ Has(rest, "CLOSED")
        /\ inactive = {}
    BY <1>1, <1>2, <1>6 DEF Types, CallInv, StateMatchesList
  <2>3. connHandle(mSubscribers', inactive) \in Client
    BY <1>3, <2>2, ConnHandleFinds DEF listed
  <2>4. /\ dataCall' = IF ret = "SUCCESS" THEN "starting" ELSE dataCall
        /\ mRetries' \in 0..MAX_START_DATA_CALL_RETRIES
        /\ timers' \in {timers, timers + 1}
        /\ Queue(msgs') /\ Requests(msgs') = Requests(rest)
        /\ \A kind \in {"OPENED", "CLOSED"} : Has(msgs', kind) <=> Has(rest, kind)
    BY <1>1, <1>2, <2>1, <2>2, <2>3, StartFacts
  <2>5. Types'
    BY <1>2, <1>3, <1>4, <1>5, <1>6, <2>1, <2>4 DEF Types, AgpsState
  <2>6. StateMatchesList'
    BY <1>3, <1>6, <2>1, <2>2 DEF StateMatchesList, active
  <2>7. CallInv'
    BY <1>6, <2>1, <2>2, <2>4 DEF CallInv
  <2>8. TokenInv'
    BY <1>1, <1>2, <1>5, <1>6, <2>1, <2>4 DEF TokenInv, Waiting, Types
  <2> QED BY <2>4, <2>5, <2>6, <2>7, <2>8 DEF IInv
<1>7. CASE mStatePtr # "Released"
  <2>1. msgs' = rest /\ UNCHANGED <<mStatePtr, mRetries, timers, dataCall>>
    BY <1>7 DEF RequestSuplEs
  <2>2. Types'
    BY <1>2, <1>3, <1>4, <1>5, <2>1 DEF Types
  <2>3. StateMatchesList'
    BY <1>2, <1>3, <1>7, <2>1 DEF StateMatchesList, active
  <2>4. CallInv'
    BY <1>1, <1>2, <2>1 DEF CallInv
  <2>5. TokenInv'
    <3>1. Waiting \in {0, 1} /\ Waiting' \in {0, 1} /\ Requests(msgs') = Requests(rest)
      BY <2>1 DEF Waiting
    <3> QED BY <1>1, <1>2, <1>5, <2>1, <3>1 DEF TokenInv, Types
  <2> QED BY <1>1, <2>1, <2>2, <2>3, <2>4, <2>5 DEF IInv
<1> QED BY <1>6, <1>7

LEMMA RequestATLStep == IInv /\ RequestATL => IInv'
<1> SUFFICES ASSUME IInv, RequestATL PROVE IInv'
  OBVIOUS
<1> DEFINE rest == Tail(msgs)
<1>1. /\ Queue(rest) /\ Head(msgs).id \in Client
      /\ \A kind \in {"OPENED", "CLOSED"} : Has(msgs, kind) <=> Has(rest, kind)
      /\ Requests(msgs) = Requests(rest) + 0 /\ Requests(rest) \in Nat
  BY Take DEF IInv, RequestATL, Running
<1>2. Types /\ StateMatchesList /\ CallInv /\ TokenInv
  BY DEF IInv
<1>3. msgs' = rest /\ UNCHANGED <<machine, timers, dataCall, client, requests, restarts>>
  BY DEF RequestATL
<1>4. Types'
  BY <1>1, <1>2, <1>3 DEF Types, listed, machine, RequestATL
<1>5. StateMatchesList' /\ CallInv' /\ Waiting' = Waiting
  BY <1>1, <1>2, <1>3 DEF StateMatchesList, CallInv, Waiting, machine, active, listed
<1>6. TokenInv'
  BY <1>1, <1>2, <1>3, <1>5 DEF TokenInv
<1> QED BY <1>1, <1>3, <1>4, <1>5, <1>6 DEF IInv

LEMMA ReleaseATLStep == IInv /\ ReleaseATL => IInv'
<1> SUFFICES ASSUME IInv, ReleaseATL PROVE IInv'
  OBVIOUS
<1> DEFINE c == Head(msgs).id
           rest == Tail(msgs)
           unsubscribes == c \notin agnss /\ c \in listed /\ mStatePtr # "Released"
<1>1. /\ Queue(rest)
      /\ \A kind \in {"OPENED", "CLOSED"} : Has(msgs, kind) <=> Has(rest, kind)
      /\ Requests(msgs) = Requests(rest) + 0 /\ Requests(rest) \in Nat
  BY Take DEF IInv, ReleaseATL, Running
<1>2. Types /\ StateMatchesList /\ CallInv /\ TokenInv
  BY DEF IInv
<1>3. client' \in [Client -> {"idle", "asked", "granted", "closing"}]
  BY <1>2, HearsType DEF ReleaseATL
<1>4. /\ agnss' \subseteq Client /\ mSubscribers' = mSubscribers /\ listed' = listed
      /\ requests' = requests /\ restarts' = restarts
  BY <1>2 DEF ReleaseATL, Types, listed
<1>5. CASE ~ ReleasesNif(mStatePtr, mStatePtr')
  <2>1. msgs' = rest /\ UNCHANGED <<mRetries, timers, dataCall>>
    BY <1>5 DEF ReleaseATL
  <2>2. mStatePtr' = mStatePtr
    BY <1>2, <1>5 DEF ReleaseATL, ReleasesNif, OnUnsubscribe, Types, AgpsState
  <2>3. inactive' \subseteq listed /\ inactive \subseteq inactive'
    BY <1>2 DEF ReleaseATL, Types
  <2>4. Types'
    BY <1>2, <1>3, <1>4, <2>1, <2>2, <2>3 DEF Types
  <2>5. StateMatchesList'
    <3>1. CASE unsubscribes
      BY <1>2, <1>4, <1>5, <2>2, <2>3, <3>1
         DEF StateMatchesList, ReleaseATL, OnUnsubscribe, ReleasesNif, active, Types, AgpsState
    <3>2. CASE ~ unsubscribes
      BY <1>2, <1>4, <2>2, <3>2 DEF StateMatchesList, ReleaseATL, active
    <3> QED BY <3>1, <3>2
  <2>6. CallInv'
    BY <1>1, <1>2, <2>1, <2>2 DEF CallInv
  <2>7. TokenInv'
    <3>1. active' \subseteq active
      BY <1>4, <2>3 DEF active
    <3>2. Waiting \in {0, 1} /\ Waiting' \in {0, 1} /\ Waiting' <= Waiting
      BY <2>2, <3>1 DEF Waiting
    <3>3. Requests(msgs') = Requests(rest)
      BY <2>1
    <3> QED BY <1>1, <1>2, <1>4, <2>1, <3>2, <3>3 DEF TokenInv, Types
  <2> QED BY <1>1, <2>1, <2>4, <2>5, <2>6, <2>7 DEF IInv
<1>6. CASE ReleasesNif(mStatePtr, mStatePtr')
  <2>1. /\ unsubscribes /\ mStatePtr \in {"Pending", "Acquired"}
        /\ inactive' = inactive \cup {c} /\ mStatePtr' = "Releasing" /\ active' = {}
    <3>1. mStatePtr' # mStatePtr
      BY <1>6 DEF ReleasesNif
    <3>2. /\ unsubscribes /\ inactive' = inactive \cup {c}
          /\ mStatePtr' = OnUnsubscribe(mStatePtr, listed, listed \ inactive')
      BY <3>1 DEF ReleaseATL
    <3> QED BY <1>4, <1>6, <3>1, <3>2 DEF ReleasesNif, OnUnsubscribe, active
  <2>2. stopDataCall(rest)
    BY <1>6 DEF ReleaseATL
  <2>3. dataCall' = "down" /\ UNCHANGED <<mRetries, timers>>
    BY <2>2 DEF stopDataCall
  <2>4. Types'
    BY <1>2, <1>3, <1>4, <2>1, <2>3 DEF Types, AgpsState
  <2>5. StateMatchesList'
    BY <2>1 DEF StateMatchesList
  <2>6. Waiting' = 0 /\ Waiting \in {0, 1}
    BY <2>1 DEF Waiting
  <2>7. CASE dataCall = "down"
    <3>1. msgs' = rest
      BY <2>2, <2>7 DEF stopDataCall
    <3>2. CallInv'
      BY <1>1, <1>2, <2>1, <2>3, <2>7, <3>1 DEF CallInv
    <3>3. TokenInv'
      BY <1>1, <1>2, <1>4, <2>3, <2>6, <3>1 DEF TokenInv, Types
    <3> QED BY <1>1, <2>4, <2>5, <3>1, <3>2, <3>3 DEF IInv
  <2>8. CASE dataCall # "down"
    <3>1. msgs' = Append(rest, Event("CLOSED"))
      BY <2>2, <2>8 DEF stopDataCall
    <3>2. ~ Has(rest, "CLOSED")
      BY <1>1, <1>2, <2>8 DEF CallInv, Types
    <3>3. Event("CLOSED") \in Message /\ Event("CLOSED").kind = "CLOSED"
      BY MessageFacts
    <3>4. /\ Queue(msgs') /\ Has(msgs', "CLOSED") /\ Requests(msgs') = Requests(rest) + 0
      BY <1>1, <3>1, <3>2, <3>3, Put
    <3>5. CallInv'
      BY <2>1, <2>3, <3>4 DEF CallInv
    <3>6. TokenInv'
      BY <1>1, <1>2, <1>4, <2>3, <2>6, <3>4 DEF TokenInv, Types
    <3> QED BY <2>4, <2>5, <3>4, <3>5, <3>6 DEF IInv
  <2> QED BY <2>7, <2>8
<1> QED BY <1>5, <1>6

LEMMA SuplEsOpenedStep == IInv /\ SuplEsOpened => IInv'
<1> SUFFICES ASSUME IInv, SuplEsOpened PROVE IInv'
  OBVIOUS
<1> DEFINE rest == Tail(msgs)
<1>1. /\ Queue(rest) /\ Has(msgs, "OPENED") /\ ~ Has(rest, "OPENED")
      /\ Has(msgs, "CLOSED") <=> Has(rest, "CLOSED")
      /\ Requests(msgs) = Requests(rest) + 0 /\ Requests(rest) \in Nat
  BY Take DEF IInv, SuplEsOpened, Running
<1>2. Types /\ StateMatchesList /\ CallInv /\ TokenInv
  BY DEF IInv
<1>3. /\ mStatePtr' = OnGranted(mStatePtr) /\ msgs' = rest
      /\ UNCHANGED <<mSubscribers, inactive, mRetries, timers, dataCall, agnss, requests, restarts>>
  BY DEF SuplEsOpened
<1>4. client' \in [Client -> {"idle", "asked", "granted", "closing"}]
  BY <1>2, HearsType DEF SuplEsOpened, Types
<1>5. Types'
  BY <1>2, <1>3, <1>4 DEF Types, listed, OnGranted, AgpsState
<1>6. StateMatchesList'
  BY <1>2, <1>3 DEF StateMatchesList, active, listed, OnGranted
<1>7. CallInv'
  BY <1>1, <1>2, <1>3 DEF CallInv, OnGranted, Types
<1>8. Waiting' = Waiting
  BY <1>3 DEF Waiting, active, listed, OnGranted
<1>9. TokenInv'
  BY <1>1, <1>2, <1>3, <1>8 DEF TokenInv
<1> QED BY <1>1, <1>3, <1>5, <1>6, <1>7, <1>9 DEF IInv

LEMMA SuplEsClosedStep == IInv /\ SuplEsClosed => IInv'
<1> SUFFICES ASSUME IInv, SuplEsClosed PROVE IInv'
  OBVIOUS
<1> DEFINE rest == Tail(msgs)
<1>1. /\ Queue(rest) /\ Has(msgs, "CLOSED")
      /\ ~ Has(rest, "OPENED") /\ ~ Has(rest, "CLOSED")
      /\ Requests(msgs) = Requests(rest) + 0 /\ Requests(rest) \in Nat
  BY Take DEF IInv, SuplEsClosed, Running
<1>2. Types /\ StateMatchesList /\ CallInv /\ TokenInv
  BY DEF IInv
<1>3. dataCall = "down" /\ mStatePtr # "Released"
  BY <1>1, <1>2 DEF CallInv, Types
<1>4. agnss' = agnss /\ client' = client /\ requests' = requests /\ restarts' = restarts
  BY DEF SuplEsClosed, outside
<1>5. Waiting \in {0, 1}
  BY DEF Waiting
<1>6. CASE ClosedInReleasing
  <2>1. /\ mStatePtr = "Releasing" /\ inactive' = {}
        /\ mSubscribers' = without(mSubscribers, inactive)
        /\ mStatePtr' = IF active = {} THEN "Released" ELSE "Pending"
    BY <1>6 DEF ClosedInReleasing, AfterClose
  <2>2. /\ mSubscribers' \in Seq(Client) /\ IsInjective(mSubscribers')
        /\ listed' = active /\ active' = active
    <3>1. mSubscribers' \in Seq(Client) /\ IsInjective(mSubscribers') /\ listed' = active
      BY <1>2, <2>1, WithoutFacts DEF Types, listed, active
    <3> QED BY <2>1, <3>1 DEF active
  <2>3. StateMatchesList' /\ Waiting' = 0
    BY <2>1, <2>2 DEF StateMatchesList, Waiting
  <2>4. CASE active = {}
    <3>1. msgs' = rest /\ UNCHANGED <<mRetries, timers, dataCall>>
      BY <1>6, <2>4 DEF ClosedInReleasing
    <3>2. Types' /\ CallInv'
      BY <1>1, <1>2, <1>3, <1>4, <2>1, <2>2, <2>4, <3>1 DEF Types, CallInv, AgpsState
    <3>3. TokenInv'
      BY <1>1, <1>2, <1>4, <1>5, <2>3, <3>1 DEF TokenInv, Types
    <3> QED BY <1>1, <2>3, <3>1, <3>2, <3>3 DEF IInv
  <2>5. CASE active # {}
    <3>1. PICK ret \in Answer : startDataCall(ret, mSubscribers', {}, rest)
      BY <1>6, <2>5 DEF ClosedInReleasing
    <3>2. connHandle(mSubscribers', {}) \in Client
      BY <2>2, <2>5, ConnHandleFinds DEF listed
    <3>3. /\ dataCall' = IF ret = "SUCCESS" THEN "starting" ELSE dataCall
          /\ mRetries' \in 0..MAX_START_DATA_CALL_RETRIES
          /\ timers' \in {timers, timers + 1}
          /\ Queue(msgs') /\ Requests(msgs') = Requests(rest)
          /\ \A kind \in {"OPENED", "CLOSED"} : Has(msgs', kind) <=> Has(rest, kind)
      BY <1>1, <1>2, <1>3, <3>1, <3>2, StartFacts
    <3>4. Types'
      BY <1>2, <1>4, <2>1, <2>2, <3>3 DEF Types, AgpsState
    <3>5. CallInv'
      BY <1>1, <1>3, <2>1, <2>5, <3>3 DEF CallInv
    <3>6. Waiting = 1
      BY <2>1, <2>5 DEF Waiting
    <3>7. TokenInv'
      BY <1>1, <1>2, <1>4, <2>3, <3>3, <3>6 DEF TokenInv, Types
    <3> QED BY <2>3, <3>3, <3>4, <3>5, <3>7 DEF IInv
  <2> QED BY <2>4, <2>5
<1>7. CASE ClosedWhileHeld
  <2>1. /\ mStatePtr' = "Released" /\ mSubscribers' = <<>> /\ inactive' = {}
        /\ UNCHANGED <<timers, dataCall>> /\ mRetries' \in {0, mRetries}
        /\ msgs' = WithFallbacks(rest, mSubscribers) \/ msgs' = rest
    BY <1>7 DEF ClosedWhileHeld, WithFallbacks
  <2>2. /\ Queue(msgs') /\ Requests(msgs') = Requests(rest)
        /\ ~ Has(msgs', "OPENED") /\ ~ Has(msgs', "CLOSED")
    <3>1. CASE msgs' = rest
      BY <1>1, <3>1
    <3>2. CASE msgs' = WithFallbacks(rest, mSubscribers)
      <4>1. mSubscribers \in Seq(Client)
        BY <1>2 DEF Types
      <4> HIDE DEF rest
      <4> QED BY <1>1, <3>2, <4>1, PutFallbacks
    <3> QED BY <2>1, <3>1, <3>2
  <2>3. Types'
    <3>1. mSubscribers' \in Seq(Client) /\ IsInjective(mSubscribers')
      BY <2>1 DEF IsInjective
    <3> QED BY <1>2, <1>4, <2>1, <3>1, DsAssumption DEF Types, AgpsState
  <2>4. StateMatchesList' /\ CallInv' /\ Waiting' = 0
    BY <1>3, <2>1, <2>2 DEF StateMatchesList, CallInv, Waiting
  <2>5. TokenInv'
    BY <1>1, <1>2, <1>4, <1>5, <2>1, <2>2, <2>4 DEF TokenInv, Types
  <2> QED BY <2>2, <2>3, <2>4, <2>5 DEF IInv
<1> QED BY <1>3, <1>6, <1>7 DEF SuplEsClosed

\* A message that is neither an opening nor an end is put into the queue.
LEMMA Sent ==
  ASSUME IInv, NEW kind \in {"SUPL_ES", "RELEASE"}, NEW c \in Client,
         msgs' = Append(msgs, Msg(kind, c)),
         UNCHANGED <<machine, dataCall>>
  PROVE  /\ Queue(msgs') /\ StateMatchesList' /\ CallInv' /\ Waiting' = Waiting
         /\ Requests(msgs) \in Nat
         /\ Requests(msgs') = Requests(msgs) + IF kind = "SUPL_ES" THEN 1 ELSE 0
<1>1. /\ Msg(kind, c) \in Message /\ Msg(kind, c).kind = kind
      /\ Msg(kind, c).id # NoHandle
  BY MessageFacts, DsAssumption
<1>2. /\ Queue(msgs')
      /\ \A k \in {"OPENED", "CLOSED"} : Has(msgs', k) <=> Has(msgs, k)
      /\ Requests(msgs') = Requests(msgs) + (IF kind = "SUPL_ES" THEN 1 ELSE 0)
      /\ Requests(msgs) \in Nat
  BY <1>1, Put DEF IInv
<1>3. StateMatchesList' /\ Waiting' = Waiting
  BY DEF IInv, StateMatchesList, Waiting, machine, active, listed
<1>4. CallInv'
  BY <1>2 DEF IInv, CallInv, machine
<1> QED BY <1>2, <1>3, <1>4

LEMMA TimerFiresStep == IInv /\ TimerFires => IInv'
<1> SUFFICES ASSUME IInv, TimerFires PROVE IInv'
  OBVIOUS
<1>1. timers \in Nat \ {0} /\ timers' = timers - 1 /\ UNCHANGED <<machine, dataCall, outside>>
  BY DEF TimerFires, IInv, Types
<1>2. Types'
  BY <1>1 DEF IInv, Types, machine, outside, listed
<1>3. CASE UNCHANGED msgs
  <2>1. Queue(msgs') /\ StateMatchesList' /\ CallInv' /\ Waiting' = Waiting
    BY <1>1, <1>3 DEF IInv, StateMatchesList, CallInv, Waiting, machine, active, listed
  <2>2. Requests(msgs) \in Nat /\ Requests(msgs') = Requests(msgs) /\ Waiting \in {0, 1}
    BY <1>3, RequestsType DEF IInv, Waiting
  <2>3. TokenInv'
    BY <1>1, <2>1, <2>2 DEF IInv, TokenInv, outside, Types
  <2> QED BY <1>2, <2>1, <2>3 DEF IInv
<1>4. CASE ~ UNCHANGED msgs
  <2> DEFINE c == connHandle(mSubscribers, inactive)
  <2>1. active # {} /\ msgs' = Append(msgs, Msg("SUPL_ES", c))
    BY <1>4 DEF TimerFires
  <2>2. c \in Client
    BY <2>1, ConnHandleFinds DEF IInv, Types, active, listed
  <2> HIDE DEF c
  <2>3. /\ Queue(msgs') /\ StateMatchesList' /\ CallInv' /\ Waiting' = Waiting
        /\ Requests(msgs) \in Nat /\ Requests(msgs') = Requests(msgs) + 1
    BY <1>1, <2>1, <2>2, Sent
  <2>4. TokenInv'
    <3>1. Waiting \in {0, 1}
      BY DEF Waiting
    <3> QED BY <1>1, <2>3, <3>1 DEF IInv, TokenInv, outside, Types
  <2> QED BY <1>2, <2>3, <2>4 DEF IInv
<1> QED BY <1>3, <1>4

LEMMA AskStep == ASSUME NEW c \in Client PROVE IInv /\ Ask(c) => IInv'
<1> SUFFICES ASSUME IInv, Ask(c) PROVE IInv'
  OBVIOUS
<1>1. /\ Queue(msgs') /\ StateMatchesList' /\ CallInv' /\ Waiting' = Waiting
      /\ Requests(msgs) \in Nat /\ Requests(msgs') = Requests(msgs) + 1
  BY Sent DEF Ask
<1>2. Types'
  BY DsAssumption DEF IInv, Types, Ask, machine, listed
<1>3. TokenInv'
  <2>1. Waiting \in {0, 1}
    BY DEF Waiting
  <2> QED BY <1>1, <2>1, DsAssumption DEF IInv, TokenInv, Ask, Types
<1> QED BY <1>1, <1>2, <1>3 DEF IInv

LEMMA CancelStep == ASSUME NEW c \in Client PROVE IInv /\ Cancel(c) => IInv'
<1> SUFFICES ASSUME IInv, Cancel(c) PROVE IInv'
  OBVIOUS
<1>1. /\ Queue(msgs') /\ StateMatchesList' /\ CallInv' /\ Waiting' = Waiting
      /\ Requests(msgs) \in Nat /\ Requests(msgs') = Requests(msgs) + 0
  BY Sent DEF Cancel
<1>2. Types'
  BY DEF IInv, Types, Cancel, machine, listed
<1>3. TokenInv'
  BY <1>1 DEF IInv, TokenInv, Cancel
<1> QED BY <1>1, <1>2, <1>3 DEF IInv

LEMMA CallOpensStep == IInv /\ CallOpens => IInv'
<1> SUFFICES ASSUME IInv, CallOpens PROVE IInv'
  OBVIOUS
<1>1. /\ dataCall = "starting" /\ dataCall' = "up" /\ msgs' = Append(msgs, Event("OPENED"))
      /\ UNCHANGED <<machine, timers, outside>>
  BY DEF CallOpens
<1>2. mStatePtr = "Pending" /\ ~ Has(msgs, "OPENED") /\ ~ Has(msgs, "CLOSED")
  BY <1>1 DEF IInv, CallInv
<1>3. Event("OPENED") \in Message /\ Event("OPENED").kind = "OPENED"
  BY MessageFacts
<1>4. /\ Queue(msgs') /\ Requests(msgs') = Requests(msgs) + 0 /\ Requests(msgs) \in Nat
      /\ Has(msgs', "OPENED") /\ ~ Has(msgs', "CLOSED")
  BY <1>1, <1>2, <1>3, Put DEF IInv
<1>5. Types' /\ CallInv'
  BY <1>1, <1>2, <1>4 DEF IInv, Types, CallInv, machine, outside, listed
<1>6. StateMatchesList' /\ Waiting' = Waiting
  BY <1>1 DEF IInv, StateMatchesList, Waiting, machine, active, listed
<1>7. TokenInv'
  BY <1>1, <1>4, <1>6 DEF IInv, TokenInv, outside
<1> QED BY <1>4, <1>5, <1>6, <1>7 DEF IInv

LEMMA CallEndsStep == IInv /\ CallEnds => IInv'
<1> SUFFICES ASSUME IInv, CallEnds PROVE IInv'
  OBVIOUS
<1>1. /\ dataCall # "down" /\ dataCall' = "down" /\ msgs' = Append(msgs, Event("CLOSED"))
      /\ UNCHANGED <<machine, timers, outside>>
  BY DEF CallEnds
<1>2. /\ ~ Has(msgs, "CLOSED") /\ mStatePtr \in {"Pending", "Acquired"}
      /\ mStatePtr = "Acquired" => ~ Has(msgs, "OPENED")
  BY <1>1 DEF IInv, CallInv, Types
<1>3. Event("CLOSED") \in Message /\ Event("CLOSED").kind = "CLOSED"
  BY MessageFacts
<1>4. /\ Queue(msgs') /\ Requests(msgs') = Requests(msgs) + 0 /\ Requests(msgs) \in Nat
      /\ Has(msgs', "OPENED") <=> Has(msgs, "OPENED")
      /\ Has(msgs', "CLOSED")
  BY <1>1, <1>2, <1>3, Put DEF IInv
<1>5. Types' /\ CallInv'
  BY <1>1, <1>2, <1>4 DEF IInv, Types, CallInv, machine, outside, listed
<1>6. StateMatchesList' /\ Waiting' = Waiting
  BY <1>1 DEF IInv, StateMatchesList, Waiting, machine, active, listed
<1>7. TokenInv'
  BY <1>1, <1>4, <1>6 DEF IInv, TokenInv, outside
<1> QED BY <1>4, <1>5, <1>6, <1>7 DEF IInv

\* Steps that leave the machine, the call and the queue alone.
LEMMA ElsewhereStep ==
  ASSUME IInv, UNCHANGED <<machine, timers, msgs, dataCall, requests>>,
         agnss' \subseteq Client, restarts' \in 0..MaxRestarts,
         client' \in [Client -> {"idle", "asked", "granted", "closing"}]
  PROVE  IInv'
<1>1. Types' /\ Queue(msgs') /\ StateMatchesList' /\ CallInv'
  BY DEF IInv, Types, StateMatchesList, CallInv, machine, active, listed
<1>2. TokenInv'
  <2>1. Waiting' = Waiting
    BY DEF Waiting, machine, active, listed
  <2> QED BY <2>1 DEF IInv, TokenInv
<1> QED BY <1>1, <1>2 DEF IInv

LEMMA AgnssAnswersStep == ASSUME NEW c \in Client PROVE IInv /\ AgnssAnswers(c) => IInv'
<1> SUFFICES ASSUME IInv, AgnssAnswers(c) PROVE IInv'
  OBVIOUS
<1>1. Types
  BY DEF IInv
<1>2. client' \in [Client -> {"idle", "asked", "granted", "closing"}]
  BY <1>1, HearsType DEF AgnssAnswers
<1>3. agnss' \subseteq Client /\ restarts' \in 0..MaxRestarts
  BY <1>1 DEF AgnssAnswers, Types
<1> QED BY <1>2, <1>3, ElsewhereStep DEF AgnssAnswers

LEMMA EngineUpStep == IInv /\ EngineUp => IInv'
<1> SUFFICES ASSUME IInv, EngineUp PROVE IInv'
  OBVIOUS
<1>1. /\ agnss' \subseteq Client /\ restarts' \in 0..MaxRestarts
      /\ client' \in [Client -> {"idle", "asked", "granted", "closing"}]
  BY DsAssumption DEF EngineUp, IInv, Types
<1> QED BY <1>1, ElsewhereStep DEF EngineUp

LEMMA InvStep == IInv /\ [Next]_vars => IInv'
<1> SUFFICES ASSUME IInv, [Next]_vars PROVE IInv'
  OBVIOUS
<1>1. CASE Worker
  BY <1>1, RequestSuplEsStep, RequestATLStep, ReleaseATLStep, SuplEsOpenedStep, SuplEsClosedStep
     DEF Worker
<1>2. CASE TimerFires \/ CallOpens \/ CallEnds \/ EngineUp
  BY <1>2, TimerFiresStep, CallOpensStep, CallEndsStep, EngineUpStep
<1>3. ASSUME NEW c \in Client, Ask(c) \/ Cancel(c) \/ AgnssAnswers(c) PROVE IInv'
  BY <1>3, AskStep, CancelStep, AgnssAnswersStep
<1>4. CASE UNCHANGED vars
  <2>1. /\ UNCHANGED <<machine, timers, msgs, dataCall, requests>>
        /\ agnss' = agnss /\ restarts' = restarts /\ client' = client
    BY <1>4 DEF vars, outside
  <2>2. /\ agnss \subseteq Client /\ restarts \in 0..MaxRestarts
        /\ client \in [Client -> {"idle", "asked", "granted", "closing"}]
    BY DEF IInv, Types
  <2> QED BY <2>1, <2>2, ElsewhereStep
<1> QED BY <1>1, <1>2, <1>3, <1>4 DEF Next

LEMMA Invariance == Spec => []IInv
BY InvInit, InvStep, PTL DEF Spec

-------------------------------------------------------------------------------
(* The theorems.                                                           *)

LEMMA InvTypes == IInv => TypeOK
<1> SUFFICES ASSUME IInv PROVE TypeOK
  OBVIOUS
<1>1. timers \in 0..MaxRequests
  <2>1. Requests(msgs) \in Nat /\ Waiting \in {0, 1}
    BY RequestsType DEF IInv, Waiting
  <2> QED BY <2>1, DsAssumption DEF IInv, Types, TokenInv
<1>2. \A i \in DOMAIN msgs : msgs[i] \in Message
  BY DEF IInv, Queue
<1> QED BY <1>1, <1>2 DEF IInv, Types, TypeOK

\* Every variable keeps its type; above all no client is listed twice, and
\* there are never more timers than requests.
THEOREM TypeCorrect == Spec => []TypeOK
BY Invariance, InvTypes, PTL

\* The state, the list, the requests under way and the call agree at every
\* moment: once the reports of the data service are run, a call that is up is
\* acquired and a call that starts is awaited.
THEOREM CallSound == Spec => []CallConsistent
<1>1. IInv => CallConsistent
  <2> SUFFICES ASSUME IInv PROVE CallConsistent
    OBVIOUS
  <2>1. NoAnonymousRequest
    BY DEF IInv, Queue, NoAnonymousRequest
  <2>2. TracksCall
    BY DEF IInv, CallInv, TracksCall, Has
  <2> QED BY <2>1, <2>2 DEF IInv, CallConsistent
<1> QED BY <1>1, Invariance, PTL

\* The requests of the clients, the retries of the timers and the restarts in
\* Releasing never ask for a second call, nor for one whose machine still has
\* reports of the one before to run.
THEOREM StartsSound == Spec => StartsFromDown
<1> DEFINE NewCall == dataCall' \in {"starting", "second"} /\ dataCall' # dataCall
           Fresh  == /\ dataCall = "down"
                     /\ \A i \in DOMAIN msgs' : msgs'[i].kind \notin {"OPENED", "CLOSED"}
<1>1. IInv /\ IInv' /\ [Next]_vars => [NewCall => Fresh]_vars
  <2> SUFFICES ASSUME IInv, IInv', [Next]_vars, NewCall PROVE Fresh
    OBVIOUS
  <2>1. dataCall' = "starting"
    BY DEF IInv, Types
  <2>2. ~ Has(msgs', "OPENED") /\ ~ Has(msgs', "CLOSED")
    BY <2>1 DEF IInv, CallInv
  <2>3. RequestSuplEs \/ SuplEsClosed
    BY DEF Next, Worker, RequestATL, ReleaseATL, stopDataCall, SuplEsOpened, TimerFires,
           Ask, Cancel, AgnssAnswers, CallOpens, CallEnds, EngineUp, vars
  <2>4. dataCall = "down"
    <3>1. CASE RequestSuplEs
      <4>1. mStatePtr = "Released"
        BY <3>1 DEF RequestSuplEs
      <4> QED BY <4>1 DEF IInv, CallInv, Types
    <3>2. CASE SuplEsClosed
      <4>1. Has(msgs, "CLOSED")
        BY <3>2, Take DEF IInv, SuplEsClosed, Running
      <4> QED BY <4>1 DEF IInv, CallInv, Types
    <3> QED BY <2>3, <3>1, <3>2
  <2> QED BY <2>2, <2>4 DEF Has
<1> QED BY <1>1, Invariance, PTL DEF Spec, StartsFromDown
===============================================================================
