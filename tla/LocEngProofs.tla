----------------------------- MODULE LocEngProofs -----------------------------
(***************************************************************************)
(* Theorems about LocEngInit, for any number of calls, restarts of the     *)
(* modem and places in the queue, and about LocEngNmea, for any reports of *)
(* satellites.                                                             *)
(*                                                                         *)
(* The start.  What matters is which messages the queue holds and in which *)
(* order, so the invariant is stated with Has, Holds, Follows and IsLast,  *)
(* and the lemmas say what appending and taking a message do to each.      *)
(* LinkInv: a modem that is up is linked, or its link is on the way.       *)
(* ConfigInv: a modem that runs has each item of the configuration, or a   *)
(* message that brings it is queued.  DataInv: the availability on its way *)
(* is the one that is stored.  StartInv: how far the start is.             *)
(*                                                                         *)
(* The reports.  chosen, page and pages walk over a list with a recursive  *)
(* function.  Induction (from the least element of a set) shows that such  *)
(* a walk is defined, and what chosen picks; then what a page holds, and   *)
(* that the pages carry the list four by four.  The invariant NmeaInv says *)
(* that what is kept of the satellites is of one report.                   *)
(***************************************************************************)
EXTENDS LocEngInit, LocEngNmea, FiniteSetTheorems, WellFoundedInduction, TLAPS

\* A set of numbers that is not empty has a least one.
LEMMA LeastNumber ==
  ASSUME NEW T, T \subseteq Nat, T # {}
  PROVE  \E n \in T : \A m \in T : n <= m
<1> DEFINE R == OpToRel(<, Nat)
<1>1. IsWellFoundedOn(R, Nat)
  BY NatLessThanWellFounded
<1>2. \A m, n \in Nat : m < n => <<m, n>> \in R
  BY DEF OpToRel
<1> HIDE DEF R
<1>3. PICK n \in T : \A m \in T : ~ (<<m, n>> \in R)
  BY <1>1, WFMin
<1>4. \A m \in T : ~ (m < n)
  BY <1>2, <1>3
<1> QED BY <1>4

-------------------------------------------------------------------------------
(* What a queue holds, and in which order.                                 *)

Link   == {"Open", "Ssr"}
Reinit == {"Init", "Up"}
Enable == {"EnableData"}
Client == {"DataClientInit"}

Has(s, kinds) == \E i \in DOMAIN s : s[i].kind \in kinds

Holds(s, m) == \E i \in DOMAIN s : s[i] = m

\* A message of the kinds b stands behind one of the kinds a.
Follows(s, a, b) ==
  \E i, k \in DOMAIN s : i < k /\ s[i].kind \in a /\ s[k].kind \in b

\* Once the queue s is run, the modem's availability d has become x.
IsLast(s, d, x) ==
  /\ Has(s, Enable) \/ d = x
  /\ \A i \in DOMAIN s : s[i].kind \in Enable =>
       s[i].enable = x \/ \E j \in DOMAIN s : i < j /\ s[j].kind \in Enable

\* The positions of a concatenation.
LEMMA Positions ==
  ASSUME NEW D, NEW s \in Seq(D), NEW t \in Seq(D)
  PROVE  /\ s \o t \in Seq(D)
         /\ Len(s) \in Nat /\ Len(t) \in Nat
         /\ DOMAIN s = 1..Len(s) /\ DOMAIN t = 1..Len(t)
         /\ DOMAIN (s \o t) = 1 .. Len(s) + Len(t)
         /\ \A i \in 1..Len(s) : (s \o t)[i] = s[i]
         /\ \A i \in 1..Len(t) : (s \o t)[Len(s) + i] = t[i]
         /\ \A i \in DOMAIN (s \o t) :
              i \in 1..Len(s) \/ \E k \in 1..Len(t) : i = Len(s) + k
<1>1. /\ s \o t \in Seq(D)
      /\ Len(s) \in Nat /\ Len(t) \in Nat
      /\ DOMAIN s = 1..Len(s) /\ DOMAIN t = 1..Len(t)
      /\ DOMAIN (s \o t) = 1 .. Len(s) + Len(t)
  OBVIOUS
<1>2. /\ \A i \in 1..Len(s) : (s \o t)[i] = s[i]
      /\ \A i \in 1..Len(t) : (s \o t)[Len(s) + i] = t[i]
  OBVIOUS
<1>3. ASSUME NEW i \in DOMAIN (s \o t), i \notin 1..Len(s)
      PROVE  \E k \in 1..Len(t) : i = Len(s) + k
  <2>1. i - Len(s) \in 1..Len(t) /\ i = Len(s) + (i - Len(s))
    BY <1>1, <1>3
  <2> QED BY <2>1
<1> QED BY <1>1, <1>2, <1>3

LEMMA HasCat ==
  ASSUME NEW s \in Seq(LocEngMessage), NEW t \in Seq(LocEngMessage), NEW kinds
  PROVE  Has(s \o t, kinds) <=> Has(s, kinds) \/ Has(t, kinds)
<1> DEFINE u == s \o t
<1>1. /\ Len(s) \in Nat /\ Len(t) \in Nat
      /\ DOMAIN s = 1..Len(s) /\ DOMAIN t = 1..Len(t)
      /\ DOMAIN u = 1 .. Len(s) + Len(t)
      /\ \A i \in 1..Len(s) : u[i] = s[i]
      /\ \A i \in 1..Len(t) : u[Len(s) + i] = t[i]
      /\ \A i \in DOMAIN u : i \in 1..Len(s) \/ \E k \in 1..Len(t) : i = Len(s) + k
  BY Positions
<1> HIDE DEF u
<1>2. ASSUME Has(u, kinds) PROVE Has(s, kinds) \/ Has(t, kinds)
  <2>1. PICK i \in DOMAIN u : u[i].kind \in kinds
    BY <1>2 DEF Has
  <2>2. CASE i \in 1..Len(s)
    BY <1>1, <2>1, <2>2 DEF Has
  <2>3. ASSUME NEW k \in 1..Len(t), i = Len(s) + k PROVE Has(t, kinds)
    BY <1>1, <2>1, <2>3 DEF Has
  <2> QED BY <1>1, <2>2, <2>3
<1>3. ASSUME NEW i \in DOMAIN s, s[i].kind \in kinds PROVE Has(u, kinds)
  <2>1. i \in DOMAIN u /\ u[i] = s[i]
    BY <1>1
  <2> QED BY <1>3, <2>1 DEF Has
<1>4. ASSUME NEW i \in DOMAIN t, t[i].kind \in kinds PROVE Has(u, kinds)
  <2>1. Len(s) + i \in DOMAIN u /\ u[Len(s) + i] = t[i]
    BY <1>1
  <2> QED BY <1>4, <2>1 DEF Has
<1> QED BY <1>2, <1>3, <1>4 DEF Has, u

LEMMA HoldsCat ==
  ASSUME NEW s \in Seq(LocEngMessage), NEW t \in Seq(LocEngMessage), NEW m,
         Holds(s, m) \/ Holds(t, m)
  PROVE  Holds(s \o t, m)
<1> DEFINE u == s \o t
<1>1. /\ Len(s) \in Nat /\ Len(t) \in Nat
      /\ DOMAIN s = 1..Len(s) /\ DOMAIN t = 1..Len(t)
      /\ DOMAIN u = 1 .. Len(s) + Len(t)
      /\ \A i \in 1..Len(s) : u[i] = s[i]
      /\ \A i \in 1..Len(t) : u[Len(s) + i] = t[i]
  BY Positions
<1> HIDE DEF u
<1>2. ASSUME NEW i \in DOMAIN s, s[i] = m PROVE Holds(u, m)
  <2>1. i \in DOMAIN u /\ u[i] = s[i]
    BY <1>1
  <2> QED BY <1>2, <2>1 DEF Holds
<1>3. ASSUME NEW i \in DOMAIN t, t[i] = m PROVE Holds(u, m)
  <2>1. Len(s) + i \in DOMAIN u /\ u[Len(s) + i] = t[i]
    BY <1>1
  <2> QED BY <1>3, <2>1 DEF Holds
<1> QED BY <1>2, <1>3 DEF Holds, u

LEMMA FollowsCat ==
  ASSUME NEW s \in Seq(LocEngMessage), NEW t \in Seq(LocEngMessage), NEW a, NEW b,
         \/ Follows(s, a, b)
         \/ Follows(t, a, b)
         \/ Has(s, a) /\ Has(t, b)
  PROVE  Follows(s \o t, a, b)
<1> DEFINE u == s \o t
<1>1. /\ Len(s) \in Nat /\ Len(t) \in Nat
      /\ DOMAIN s = 1..Len(s) /\ DOMAIN t = 1..Len(t)
      /\ DOMAIN u = 1 .. Len(s) + Len(t)
      /\ \A i \in 1..Len(s) : u[i] = s[i]
      /\ \A i \in 1..Len(t) : u[Len(s) + i] = t[i]
  BY Positions
<1> HIDE DEF u
<1>a. \A i \in DOMAIN s : i \in DOMAIN u /\ u[i] = s[i]
  BY <1>1
<1>b. \A i \in DOMAIN t : Len(s) + i \in DOMAIN u /\ u[Len(s) + i] = t[i]
  BY <1>1
<1>2. ASSUME Follows(s, a, b) PROVE Follows(u, a, b)
  BY <1>2, <1>a DEF Follows
<1>3. ASSUME Follows(t, a, b) PROVE Follows(u, a, b)
  <2>1. PICK i \in DOMAIN t, k \in DOMAIN t : i < k /\ t[i].kind \in a /\ t[k].kind \in b
    BY <1>3 DEF Follows
  <2>2. Len(s) + i < Len(s) + k
    BY <1>1, <2>1
  <2> QED BY <1>b, <2>1, <2>2 DEF Follows
<1>4. ASSUME Has(s, a), Has(t, b) PROVE Follows(u, a, b)
  <2>1. PICK i \in DOMAIN s : s[i].kind \in a
    BY <1>4 DEF Has
  <2>2. PICK k \in DOMAIN t : t[k].kind \in b
    BY <1>4 DEF Has
  <2>3. i < Len(s) + k
    BY <1>1
  <2> QED BY <1>a, <1>b, <2>1, <2>2, <2>3 DEF Follows
<1> QED BY <1>2, <1>3, <1>4 DEF u

LEMMA LastCat ==
  ASSUME NEW s \in Seq(LocEngMessage), NEW t \in Seq(LocEngMessage), NEW d, NEW x,
         \/ IsLast(s, d, x) /\ ~ Has(t, Enable)
         \/ Has(t, Enable) /\ IsLast(t, d, x)
  PROVE  IsLast(s \o t, d, x)
<1> DEFINE u == s \o t
<1>1. /\ Len(s) \in Nat /\ Len(t) \in Nat
      /\ DOMAIN s = 1..Len(s) /\ DOMAIN t = 1..Len(t)
      /\ DOMAIN u = 1 .. Len(s) + Len(t)
      /\ \A i \in 1..Len(s) : u[i] = s[i]
      /\ \A i \in 1..Len(t) : u[Len(s) + i] = t[i]
      /\ \A i \in DOMAIN u : i \in 1..Len(s) \/ \E k \in 1..Len(t) : i = Len(s) + k
  BY Positions
<1>2. Has(u, Enable) <=> Has(s, Enable) \/ Has(t, Enable)
  BY HasCat
<1> HIDE DEF u
<1>a. \A i \in DOMAIN s : i \in DOMAIN u /\ u[i] = s[i]
  BY <1>1
<1>b. \A i \in DOMAIN t : Len(s) + i \in DOMAIN u /\ u[Len(s) + i] = t[i]
  BY <1>1
<1>3. Has(u, Enable) \/ d = x
  BY <1>2 DEF IsLast
<1>4. ASSUME NEW i \in DOMAIN u, u[i].kind \in Enable
      PROVE  u[i].enable = x \/ \E j \in DOMAIN u : i < j /\ u[j].kind \in Enable
  <2>1. CASE i \in 1..Len(s) /\ ~ Has(t, Enable)
    <3>1. i \in DOMAIN s /\ u[i] = s[i]
      BY <1>1, <2>1
    <3>2. s[i].enable = x \/ \E j \in DOMAIN s : i < j /\ s[j].kind \in Enable
      BY <1>4, <2>1, <3>1 DEF IsLast
    <3> QED BY <1>a, <3>1, <3>2
  <2>2. CASE i \in 1..Len(s) /\ Has(t, Enable)
    <3>1. PICK k \in DOMAIN t : t[k].kind \in Enable
      BY <2>2 DEF Has
    <3>2. i < Len(s) + k
      BY <1>1, <2>2
    <3> QED BY <1>b, <3>1, <3>2
  <2>3. ASSUME NEW k \in 1..Len(t), i = Len(s) + k
        PROVE  u[i].enable = x \/ \E j \in DOMAIN u : i < j /\ u[j].kind \in Enable
    <3>1. k \in DOMAIN t /\ u[i] = t[k]
      BY <1>1, <2>3
    <3>2. IsLast(t, d, x)
      BY <1>4, <3>1 DEF Has
    <3>3. CASE t[k].enable = x
      BY <3>1, <3>3
    <3>4. ASSUME NEW j \in DOMAIN t, k < j, t[j].kind \in Enable
          PROVE  \E l \in DOMAIN u : i < l /\ u[l].kind \in Enable
      <4>1. i < Len(s) + j
        BY <1>1, <2>3, <3>4
      <4> QED BY <1>b, <3>4, <4>1
    <3> QED BY <1>4, <3>1, <3>2, <3>3, <3>4 DEF IsLast
  <2> QED BY <1>1, <2>1, <2>2, <2>3
<1> QED BY <1>3, <1>4 DEF IsLast, u

\* A queue of one message.
LEMMA One ==
  ASSUME NEW m \in LocEngMessage
  PROVE  /\ <<m>> \in Seq(LocEngMessage)
         /\ \A kinds : Has(<<m>>, kinds) <=> m.kind \in kinds
         /\ Holds(<<m>>, m)
         /\ \A d : IsLast(<<m>>, d, m.enable) \/ m.kind \notin Enable
<1> DEFINE s == <<m>>
<1>1. s \in Seq(LocEngMessage) /\ DOMAIN s = {1} /\ s[1] = m
  OBVIOUS
<1> HIDE DEF s
<1>2. \A kinds : Has(s, kinds) <=> m.kind \in kinds
  BY <1>1 DEF Has
<1>3. Holds(s, m)
  BY <1>1 DEF Holds
<1>4. \A d : IsLast(s, d, m.enable) \/ m.kind \notin Enable
  BY <1>1, <1>2 DEF IsLast
<1> QED BY <1>1, <1>2, <1>3, <1>4 DEF s

LEMMA Appended ==
  ASSUME NEW s \in Seq(LocEngMessage), NEW m \in LocEngMessage
  PROVE  Append(s, m) = s \o <<m>>
OBVIOUS

\* What is left when the first message was run.
LEMMA Shifted ==
  ASSUME NEW s \in Seq(LocEngMessage), s # <<>>
  PROVE  /\ Head(s) \in LocEngMessage /\ Head(s) = s[1]
         /\ Tail(s) \in Seq(LocEngMessage)
         /\ Len(s) \in Nat \ {0} /\ Len(Tail(s)) = Len(s) - 1
         /\ DOMAIN s = 1..Len(s) /\ DOMAIN Tail(s) = 1 .. Len(s) - 1
         /\ \A i \in DOMAIN Tail(s) : i + 1 \in DOMAIN s /\ Tail(s)[i] = s[i + 1]
         /\ \A i \in DOMAIN s : i = 1 \/ (i - 1 \in DOMAIN Tail(s) /\ Tail(s)[i - 1] = s[i])
<1>1. /\ Head(s) \in LocEngMessage /\ Head(s) = s[1]
      /\ Tail(s) \in Seq(LocEngMessage)
      /\ Len(s) \in Nat \ {0} /\ Len(Tail(s)) = Len(s) - 1
      /\ DOMAIN s = 1..Len(s)
  OBVIOUS
<1>2. DOMAIN Tail(s) = 1 .. Len(s) - 1
  OBVIOUS
<1>3. \A i \in DOMAIN Tail(s) : i + 1 \in DOMAIN s /\ Tail(s)[i] = s[i + 1]
  OBVIOUS
<1>4. ASSUME NEW i \in DOMAIN s, i # 1
      PROVE  i - 1 \in DOMAIN Tail(s) /\ Tail(s)[i - 1] = s[i]
  <2>1. i - 1 \in DOMAIN Tail(s) /\ (i - 1) + 1 = i
    BY <1>1, <1>2, <1>4
  <2> QED BY <1>3, <2>1
<1> QED BY <1>1, <1>2, <1>3, <1>4

LEMMA TailHas ==
  ASSUME NEW s \in Seq(LocEngMessage), s # <<>>, NEW kinds
  PROVE  Has(s, kinds) <=> Head(s).kind \in kinds \/ Has(Tail(s), kinds)
<1> DEFINE t == Tail(s)
           h == Head(s)
<1>1. /\ h = s[1]
      /\ Len(s) \in Nat \ {0} /\ DOMAIN s = 1..Len(s)
      /\ \A i \in DOMAIN t : i + 1 \in DOMAIN s /\ t[i] = s[i + 1]
      /\ \A i \in DOMAIN s : i = 1 \/ (i - 1 \in DOMAIN t /\ t[i - 1] = s[i])
  BY Shifted
<1> HIDE DEF t, h
<1>2. 1 \in DOMAIN s
  BY <1>1
<1>3. ASSUME NEW i \in DOMAIN s, s[i].kind \in kinds PROVE h.kind \in kinds \/ Has(t, kinds)
  BY <1>1, <1>3 DEF Has
<1>4. ASSUME NEW i \in DOMAIN t, t[i].kind \in kinds PROVE Has(s, kinds)
  BY <1>1, <1>4 DEF Has
<1>5. ASSUME h.kind \in kinds PROVE Has(s, kinds)
  BY <1>1, <1>2, <1>5 DEF Has
<1>6. Has(s, kinds) <=> h.kind \in kinds \/ Has(t, kinds)
  <2>1. ASSUME Has(s, kinds) PROVE h.kind \in kinds \/ Has(t, kinds)
    BY <1>3, <2>1 DEF Has
  <2>2. ASSUME Has(t, kinds) PROVE Has(s, kinds)
    BY <1>4, <2>2 DEF Has
  <2> QED BY <1>5, <2>1, <2>2
<1> QED BY <1>6 DEF t, h

LEMMA TailHolds ==
  ASSUME NEW s \in Seq(LocEngMessage), s # <<>>, NEW m, Holds(s, m), Head(s) # m
  PROVE  Holds(Tail(s), m)
<1> DEFINE t == Tail(s)
<1>1. /\ Head(s) = s[1]
      /\ \A i \in DOMAIN s : i = 1 \/ (i - 1 \in DOMAIN t /\ t[i - 1] = s[i])
  BY Shifted
<1> HIDE DEF t
<1> QED BY <1>1 DEF Holds, t

LEMMA TailFollows ==
  ASSUME NEW s \in Seq(LocEngMessage), s # <<>>, NEW a, NEW b, Follows(s, a, b)
  PROVE  /\ Has(Tail(s), b)
         /\ Head(s).kind \notin a => Follows(Tail(s), a, b)
<1> DEFINE t == Tail(s)
           h == Head(s)
<1>1. /\ h = s[1]
      /\ Len(s) \in Nat /\ DOMAIN s = 1..Len(s)
      /\ \A i \in DOMAIN s : i = 1 \/ (i - 1 \in DOMAIN t /\ t[i - 1] = s[i])
  BY Shifted
<1> HIDE DEF t, h
<1>2. PICK i \in DOMAIN s, k \in DOMAIN s : i < k /\ s[i].kind \in a /\ s[k].kind \in b
  BY DEF Follows
<1>3. k # 1 /\ i \in Int /\ k \in Int
  BY <1>1, <1>2
<1>4. k - 1 \in DOMAIN t /\ t[k - 1] = s[k]
  BY <1>1, <1>3
<1>5. Has(t, b)
  BY <1>2, <1>4 DEF Has
<1>6. ASSUME h.kind \notin a PROVE Follows(t, a, b)
  <2>1. i # 1
    BY <1>1, <1>2, <1>6
  <2>2. i - 1 \in DOMAIN t /\ t[i - 1] = s[i]
    BY <1>1, <2>1
  <2>3. i - 1 < k - 1
    BY <1>2, <1>3
  <2> QED BY <1>2, <1>4, <2>2, <2>3 DEF Follows
<1> QED BY <1>5, <1>6 DEF t, h

\* The availability the modem has after the first message was run.
LEMMA TailLast ==
  ASSUME NEW s \in Seq(LocEngMessage), s # <<>>, NEW d, NEW x, IsLast(s, d, x)
  PROVE  IsLast(Tail(s), IF Head(s).kind \in Enable THEN Head(s).enable ELSE d, x)
<1> DEFINE t == Tail(s)
           h == Head(s)
           e == IF h.kind \in Enable THEN h.enable ELSE d
<1>1. /\ h = s[1]
      /\ Len(s) \in Nat \ {0} /\ DOMAIN s = 1..Len(s) /\ DOMAIN t = 1 .. Len(s) - 1
      /\ \A i \in DOMAIN t : i + 1 \in DOMAIN s /\ t[i] = s[i + 1]
      /\ \A i \in DOMAIN s : i = 1 \/ (i - 1 \in DOMAIN t /\ t[i - 1] = s[i])
  BY Shifted
<1>2. Has(s, Enable) <=> h.kind \in Enable \/ Has(t, Enable)
  BY TailHas
<1> HIDE DEF t, h
<1>3. ASSUME ~ Has(t, Enable) PROVE e = x
  <2>1. CASE h.kind \in Enable
    <3>1. 1 \in DOMAIN s
      BY <1>1
    <3>2. ASSUME NEW j \in DOMAIN s, 1 < j, s[j].kind \in Enable PROVE FALSE
      <4>1. j - 1 \in DOMAIN t /\ t[j - 1] = s[j]
        BY <1>1, <3>2
      <4> QED BY <1>3, <3>2, <4>1 DEF Has
    <3>3. s[1].enable = x
      BY <1>1, <2>1, <3>1, <3>2 DEF IsLast
    <3> QED BY <1>1, <2>1, <3>3
  <2>2. CASE h.kind \notin Enable
    BY <1>2, <1>3, <2>2 DEF IsLast
  <2> QED BY <2>1, <2>2
<1>4. ASSUME NEW i \in DOMAIN t, t[i].kind \in Enable
      PROVE  t[i].enable = x \/ \E j \in DOMAIN t : i < j /\ t[j].kind \in Enable
  <2>1. i + 1 \in DOMAIN s /\ t[i] = s[i + 1] /\ i \in Nat
    BY <1>1
  <2>2. CASE s[i + 1].enable = x
    BY <2>1, <2>2
  <2>3. ASSUME NEW j \in DOMAIN s, i + 1 < j, s[j].kind \in Enable
        PROVE  \E k \in DOMAIN t : i < k /\ t[k].kind \in Enable
    <3>1. j # 1 /\ i < j - 1
      BY <1>1, <2>1, <2>3
    <3>2. j - 1 \in DOMAIN t /\ t[j - 1] = s[j]
      BY <1>1, <3>1
    <3> QED BY <2>3, <3>1, <3>2
  <2>4. s[i + 1].enable = x \/ \E j \in DOMAIN s : i + 1 < j /\ s[j].kind \in Enable
    BY <1>4, <2>1 DEF IsLast
  <2> QED BY <2>2, <2>3, <2>4
<1> HIDE DEF e
<1>5. IsLast(t, e, x)
  BY <1>3, <1>4 DEF IsLast
<1> QED BY <1>5 DEF t, h, e

-------------------------------------------------------------------------------
(* The messages.                                                           *)

configFor(i) == [kind |-> "Config", item |-> i]

LEMMA Messages ==
  /\ \A kind \in {"Open", "Ssr", "Init", "Up", "Down", "DataClientInit"} : [kind |-> kind] \in LocEngMessage
  /\ \A i \in Item : configFor(i) \in LocEngMessage
  /\ \A s \in Server : [kind |-> "SetServer", type |-> s] \in LocEngMessage
  /\ \A x \in Network : [kind |-> "EnableData", enable |-> x] \in LocEngMessage
BY DEF LocEngMessage, configFor

LEMMA Contents ==
  ASSUME NEW m \in LocEngMessage
  PROVE  /\ m.kind = "Config" => m.item \in Item /\ m = configFor(m.item)
         /\ m.kind = "SetServer" => m.type \in Server
         /\ m.kind = "EnableData" => m.enable \in Network
<1>1. CASE m \in [kind : {"Open", "Ssr", "Init", "Up", "Down", "DataClientInit"}]
  BY <1>1
<1>2. CASE m \in [kind : {"Config"}, item : Item]
  BY <1>2 DEF configFor
<1>3. CASE m \in [kind : {"SetServer"}, type : Server]
  BY <1>3
<1>4. CASE m \in [kind : {"EnableData"}, enable : Network]
  BY <1>4
<1> QED BY <1>1, <1>2, <1>3, <1>4 DEF LocEngMessage

\* loc_eng_agps_reinit sends addresses and nothing else.
LEMMA Servers ==
  ASSUME NEW set
  PROVE  /\ bufferedServers(set) \in Seq(LocEngMessage)
         /\ ~ Has(bufferedServers(set), Link)
         /\ ~ Has(bufferedServers(set), Reinit)
         /\ ~ Has(bufferedServers(set), Enable)
         /\ ~ Has(bufferedServers(set), Client)
<1> DEFINE address(s) == IF s \in set THEN <<[kind |-> "SetServer", type |-> s]>> ELSE <<>>
<1>1. ASSUME NEW s \in Server
      PROVE  /\ address(s) \in Seq(LocEngMessage)
             /\ \A kinds : "SetServer" \notin kinds => ~ Has(address(s), kinds)
  <2>1. CASE s \in set
    <3> DEFINE m == [kind |-> "SetServer", type |-> s]
    <3>1. m \in LocEngMessage /\ m.kind = "SetServer"
      BY Messages
    <3>2. address(s) = <<m>>
      BY <2>1
    <3> HIDE DEF m, address
    <3>3. /\ <<m>> \in Seq(LocEngMessage)
          /\ \A kinds : Has(<<m>>, kinds) <=> m.kind \in kinds
      BY <3>1, One
    <3> QED BY <3>1, <3>2, <3>3
  <2>2. CASE s \notin set
    <3>1. address(s) = <<>>
      BY <2>2
    <3> HIDE DEF address
    <3>2. <<>> \in Seq(LocEngMessage) /\ \A kinds : ~ Has(<<>>, kinds)
      BY DEF Has
    <3> QED BY <3>1, <3>2
  <2> QED BY <2>1, <2>2
<1>2. "SUPL" \in Server /\ "C2K" \in Server
  BY DEF Server
<1>3. bufferedServers(set) = address("SUPL") \o address("C2K")
  BY DEF bufferedServers
<1> DEFINE s == address("SUPL")
           t == address("C2K")
<1>4. s \in Seq(LocEngMessage) /\ t \in Seq(LocEngMessage)
  BY <1>1, <1>2
<1>5. \A kinds : "SetServer" \notin kinds => ~ Has(s, kinds) /\ ~ Has(t, kinds)
  BY <1>1, <1>2
<1>6. bufferedServers(set) = s \o t
  BY <1>3
<1> HIDE DEF s, t, address
<1>7. s \o t \in Seq(LocEngMessage)
  BY <1>4, Positions
<1>8. \A kinds : "SetServer" \notin kinds => ~ Has(s \o t, kinds)
  BY <1>4, <1>5, HasCat
<1>9. "SetServer" \notin Link /\ "SetServer" \notin Reinit /\ "SetServer" \notin Enable
      /\ "SetServer" \notin Client
  BY DEF Link, Reinit, Enable, Client
<1> QED BY <1>6, <1>7, <1>8, <1>9

\* loc_eng_reinit queues every item of the configuration, and nothing else
\* before the availability.
LEMMA Configuration ==
  /\ configMessages \in Seq(LocEngMessage)
  /\ ~ Has(configMessages, Link)
  /\ ~ Has(configMessages, Reinit)
  /\ ~ Has(configMessages, Enable)
  /\ ~ Has(configMessages, Client)
  /\ \A i \in Item : Holds(configMessages, configFor(i))
<1>1. /\ configItems \in Seq(Item)
      /\ \A i \in Item : \E k \in DOMAIN configItems : configItems[k] = i
  <2>1. CASE sapValid
    <3>1. configItems = <<"SuplVer", "LppConfig", "SensorControlConfig", "AGlonassProtocol",
                          "SensorProperties", "SensorPerfControlConfig">>
      BY <2>1 DEF configItems
    <3>2. Item = {"SuplVer", "LppConfig", "SensorControlConfig", "AGlonassProtocol",
                  "SensorProperties", "SensorPerfControlConfig"}
      BY <2>1 DEF Item, ConfigItem, SensorItem
    <3> QED BY <3>1, <3>2
  <2>2. CASE ~ sapValid
    <3>1. configItems = <<"SuplVer", "LppConfig", "SensorControlConfig", "AGlonassProtocol",
                          "SensorPerfControlConfig">>
      BY <2>2 DEF configItems
    <3>2. Item = {"SuplVer", "LppConfig", "SensorControlConfig", "AGlonassProtocol",
                  "SensorPerfControlConfig"}
      BY <2>2 DEF Item, ConfigItem
    <3> QED BY <3>1, <3>2
  <2> QED BY <2>1, <2>2
<1>2. Len(configItems) \in Nat /\ DOMAIN configItems = 1 .. Len(configItems)
      /\ \A k \in DOMAIN configItems : configItems[k] \in Item
  BY <1>1
<1>3. configMessages = [k \in 1 .. Len(configItems) |-> configFor(configItems[k])]
  BY <1>2 DEF configMessages, configFor
<1>4. DOMAIN configMessages = DOMAIN configItems
      /\ \A k \in DOMAIN configItems : configMessages[k] = configFor(configItems[k])
  BY <1>2, <1>3
<1>5. configMessages \in Seq(LocEngMessage)
  <2>1. \A k \in 1 .. Len(configItems) : configFor(configItems[k]) \in LocEngMessage
    BY <1>2, Messages
  <2> QED BY <1>2, <1>3, <2>1
<1>6. \A kinds : "Config" \notin kinds => ~ Has(configMessages, kinds)
  <2>1. \A i : configFor(i).kind = "Config"
    BY DEF configFor
  <2> QED BY <1>4, <2>1 DEF Has
<1>7. "Config" \notin Link /\ "Config" \notin Reinit /\ "Config" \notin Enable
      /\ "Config" \notin Client
  BY DEF Link, Reinit, Enable, Client
<1>8. \A i \in Item : Holds(configMessages, configFor(i))
  BY <1>1, <1>4 DEF Holds
<1> QED BY <1>5, <1>6, <1>7, <1>8

-------------------------------------------------------------------------------
(* The inductive invariant.                                                *)

Types ==
  /\ gnss \in {"MSM", "GSS", "QCA1530"} /\ extended \in BOOLEAN
  /\ caller \in {"idle", "constructing", "constructed"}
  /\ adapter \in BOOLEAN /\ mSupportsAgpsRequests \in BOOLEAN /\ agps_status_cb \in BOOLEAN
  /\ nifs \subseteq {"internet", "wifi", "agnss", "ds"}
  /\ host_set \subseteq Server /\ early \subseteq Server
  /\ agpsStatus \in Network
  /\ reinit \in Network \cup {"idle"}
  /\ up \in BOOLEAN /\ linked \in BOOLEAN
  /\ given \subseteq Item \cup Server /\ data \in Network \cup {"none"}
  /\ raced \in BOOLEAN /\ unnamed \in BOOLEAN /\ fault \in BOOLEAN
  /\ changes \in 0..MaxChanges /\ restarts \in 0..MaxRestarts

Queue == msgs \in Seq(LocEngMessage)

\* A modem that runs with a stale handle will have it opened, and be
\* configured after that.
LinkInv ==
  up /\ ~ linked =>
    \/ caller = "idle" /\ ~ adapter
    \/ caller = "constructing" /\ Has(msgs, Link)
    \/ Follows(msgs, Link, Reinit)

\* A modem that runs has each item, will be given it, or will be configured.
ConfigInv ==
  adapter /\ up =>
    \/ Has(msgs, Reinit)
    \/ \A i \in Item : i \in given \/ Holds(msgs, configFor(i))

\* The availability on its way is the one that is stored, and so is the one
\* that loc_eng_reinit holds.
DataInv ==
  adapter /\ up /\ ~ Has(msgs, Reinit) /\ ~ raced /\ ~ unnamed =>
    IF reinit = "idle" THEN IsLast(msgs, data, agpsStatus) ELSE reinit = agpsStatus

\* How far the start is.
StartInv ==
  /\ caller = "constructing" => ~ adapter
  /\ caller = "constructed" => adapter
  /\ agps_status_cb => adapter
  /\ reinit # "idle" => adapter
  /\ mSupportsAgpsRequests => ~ extended
  /\ "ds" \in nifs \/ Has(msgs, Client) =>
       agps_status_cb /\ mSupportsAgpsRequests /\ "agnss" \in nifs

IInv == Types /\ Queue /\ LinkInv /\ ConfigInv /\ DataInv /\ StartInv

LEMMA InitHolds == Init => IInv
<1> SUFFICES ASSUME Init PROVE IInv
  OBVIOUS
<1>1. Types
  <2>1. changes \in 0..MaxChanges /\ restarts \in 0..MaxRestarts
    BY LocEngInitAssumption DEF Init
  <2>2. /\ extended \in BOOLEAN /\ adapter \in BOOLEAN /\ mSupportsAgpsRequests \in BOOLEAN
        /\ agps_status_cb \in BOOLEAN /\ up \in BOOLEAN /\ linked \in BOOLEAN
        /\ raced \in BOOLEAN /\ unnamed \in BOOLEAN /\ fault \in BOOLEAN
    BY DEF Init
  <2>3. gnss \in {"MSM", "GSS", "QCA1530"} /\ given \subseteq Item \cup Server
    BY DEF Init
  <2> QED BY <2>1, <2>2, <2>3 DEF Init, Types, Network
<1>2. msgs = <<>> /\ ~ adapter /\ caller = "idle"
  BY DEF Init
<1>3. Queue
  BY <1>2 DEF Queue
<1>4. ~ Has(msgs, Client)
  BY <1>2 DEF Has
<1>5. LinkInv /\ ConfigInv /\ DataInv
  BY <1>2 DEF LinkInv, ConfigInv, DataInv
<1>6. StartInv
  BY <1>4 DEF StartInv, Init
<1> QED BY <1>1, <1>3, <1>5, <1>6 DEF IInv

\* What holds of a queue to which t was appended.
LEMMA Grown ==
  ASSUME msgs \in Seq(LocEngMessage), NEW t \in Seq(LocEngMessage), msgs' = msgs \o t
  PROVE  /\ msgs' \in Seq(LocEngMessage)
         /\ \A kinds : Has(msgs', kinds) <=> Has(msgs, kinds) \/ Has(t, kinds)
         /\ \A i : Holds(msgs, i) \/ Holds(t, i) => Holds(msgs', i)
         /\ Follows(msgs, Link, Reinit) => Follows(msgs', Link, Reinit)
         /\ Has(msgs, Link) /\ Has(t, Reinit) => Follows(msgs', Link, Reinit)
         /\ Follows(t, Link, Reinit) => Follows(msgs', Link, Reinit)
         /\ \A d, x : IsLast(msgs, d, x) /\ ~ Has(t, Enable) => IsLast(msgs', d, x)
         /\ \A d, x : IsLast(t, d, x) /\ Has(t, Enable) => IsLast(msgs', d, x)
BY Positions, HasCat, HoldsCat, FollowsCat, LastCat

\* What holds of a queue when its first message was run.
LEMMA Shrunk ==
  ASSUME msgs \in Seq(LocEngMessage), msgs # <<>>, msgs' = Tail(msgs)
  PROVE  /\ Head(msgs) \in LocEngMessage
         /\ msgs' \in Seq(LocEngMessage)
         /\ \A kinds : Has(msgs', kinds) => Has(msgs, kinds)
         /\ \A kinds : Has(msgs, kinds) => Head(msgs).kind \in kinds \/ Has(msgs', kinds)
         /\ \A i : Holds(msgs, i) => Head(msgs) = i \/ Holds(msgs', i)
         /\ Follows(msgs, Link, Reinit) => Has(msgs', Reinit)
         /\ Follows(msgs, Link, Reinit) =>
              Head(msgs).kind \in Link \/ Follows(msgs', Link, Reinit)
         /\ \A d, x : IsLast(msgs, d, x) =>
              IsLast(msgs', IF Head(msgs).kind \in Enable THEN Head(msgs).enable ELSE d, x)
<1>1. Head(msgs) \in LocEngMessage /\ msgs' \in Seq(LocEngMessage)
  BY Shifted
<1>2. \A kinds : Has(msgs, kinds) <=> Head(msgs).kind \in kinds \/ Has(msgs', kinds)
  BY TailHas
<1>3. \A i : Holds(msgs, i) => Head(msgs) = i \/ Holds(msgs', i)
  BY TailHolds
<1>4. Follows(msgs, Link, Reinit) =>
        /\ Has(msgs', Reinit)
        /\ Head(msgs).kind \in Link \/ Follows(msgs', Link, Reinit)
  BY TailFollows
<1>5. \A d, x : IsLast(msgs, d, x) =>
        IsLast(msgs', IF Head(msgs).kind \in Enable THEN Head(msgs).enable ELSE d, x)
  BY TailLast
<1> QED BY <1>1, <1>2, <1>3, <1>4, <1>5

-------------------------------------------------------------------------------
(* Calls of the framework.                                                 *)

LEMMA KindsOfMessages ==
  ASSUME NEW m \in LocEngMessage
  PROVE  /\ m.kind \in {"Init", "Up"} => m.kind \notin Enable \cup Link \cup Client
         /\ m.kind \in {"Open", "Ssr"} => m.kind \notin Enable \cup Reinit \cup Client
         /\ m.kind \in {"Config", "SetServer", "Down"} =>
              m.kind \notin Enable \cup Link \cup Reinit \cup Client
         /\ m.kind = "EnableData" => m.kind \notin Link \cup Reinit \cup Client
         /\ m.kind = "EnableData" <=> m.kind \in Enable
         /\ m.kind = "DataClientInit" => m.kind \notin Enable \cup Link \cup Reinit
         /\ m.kind \in {"Open", "Ssr"} <=> m.kind \in Link
         /\ m.kind \in {"Init", "Up"} <=> m.kind \in Reinit
         /\ m.kind = "DataClientInit" <=> m.kind \in Client
BY DEF Enable, Link, Reinit, Client

\* A queue of one message without contents.
LEMMA Signal ==
  ASSUME NEW kind \in {"Open", "Ssr", "Init", "Up", "Down", "DataClientInit"}
  PROVE  /\ <<[kind |-> kind]>> \in Seq(LocEngMessage)
         /\ Has(<<[kind |-> kind]>>, Link) <=> kind \in {"Open", "Ssr"}
         /\ Has(<<[kind |-> kind]>>, Reinit) <=> kind \in {"Init", "Up"}
         /\ ~ Has(<<[kind |-> kind]>>, Enable)
         /\ Has(<<[kind |-> kind]>>, Client) <=> kind = "DataClientInit"
<1> DEFINE m == [kind |-> kind]
<1>1. m \in LocEngMessage /\ m.kind = kind
  BY Messages
<1>2. <<m>> \in Seq(LocEngMessage) /\ \A kinds : Has(<<m>>, kinds) <=> kind \in kinds
  BY <1>1, One
<1> HIDE DEF m
<1>3. kind \notin Enable
  BY DEF Enable
<1>4. /\ <<m>> \in Seq(LocEngMessage)
      /\ Has(<<m>>, Link) <=> kind \in {"Open", "Ssr"}
      /\ Has(<<m>>, Reinit) <=> kind \in {"Init", "Up"}
      /\ ~ Has(<<m>>, Enable)
      /\ Has(<<m>>, Client) <=> kind = "DataClientInit"
  BY <1>2, <1>3 DEF Link, Reinit, Client
<1> QED BY <1>4 DEF m

LEMMA LocInitHolds ==
  ASSUME IInv, LocInit, UNCHANGED fault
  PROVE  IInv'
<1> DEFINE t == <<[kind |-> "Open"]>>
<1> USE DEF target, modem, history
<1>0. IInv
  OBVIOUS
<1>1. CASE adapter
  <2>1. /\ caller = "idle" /\ caller' = "constructed" /\ adapter
        /\ UNCHANGED <<gnss, extended, adapter, mSupportsAgpsRequests, agps_status_cb, nifs, host_set,
                       early, agpsStatus, msgs, reinit, up, linked, given, data, raced, unnamed,
                       changes, restarts, fault>>
    BY <1>1 DEF LocInit
  <2>2. Types'
    BY <1>0, <2>1 DEF IInv, Types
  <2>3. Queue' /\ ConfigInv' /\ DataInv' /\ StartInv'
    BY <1>0, <2>1 DEF IInv, Queue, ConfigInv, DataInv, StartInv
  <2>4. LinkInv'
    BY <1>0, <2>1 DEF IInv, LinkInv
  <2> QED BY <2>2, <2>3, <2>4 DEF IInv
<1>2. CASE ~ adapter
  <2>1. /\ caller = "idle" /\ caller' = "constructing" /\ ~ adapter /\ ~ agps_status_cb
        /\ agps_status_cb' = FALSE /\ nifs' = {} /\ host_set' = {}
        /\ msgs' = Append(msgs, [kind |-> "Open"])
        /\ UNCHANGED <<gnss, extended, adapter, mSupportsAgpsRequests,
                       early, agpsStatus, reinit, up, linked, given, data, raced, unnamed,
                       changes, restarts, fault>>
    BY <1>0, <1>2 DEF LocInit, Send, IInv, StartInv
  <2>2. Types'
    BY <1>0, <2>1 DEF IInv, Types
  <2>3. t \in Seq(LocEngMessage) /\ Has(t, Link) /\ ~ Has(t, Client) /\ msgs' = msgs \o t
    BY <1>0, <2>1, Signal, Appended, Messages DEF IInv, Queue
  <2> HIDE DEF t
  <2>4. /\ msgs' \in Seq(LocEngMessage)
        /\ Has(msgs', Link)
        /\ Has(msgs', Client) => Has(msgs, Client)
    BY <1>0, <2>3, Grown DEF IInv, Queue
  <2>5. Queue' /\ LinkInv' /\ ConfigInv' /\ DataInv'
    BY <2>1, <2>4 DEF Queue, LinkInv, ConfigInv, DataInv
  <2>6. StartInv'
    BY <1>0, <2>1, <2>4 DEF IInv, StartInv
  <2> QED BY <2>2, <2>5, <2>6 DEF IInv
<1> QED BY <1>1, <1>2

LEMMA LocEngInitSentHolds ==
  ASSUME IInv, LocEngInitSent, UNCHANGED fault
  PROVE  IInv'
<1> DEFINE t == <<[kind |-> "Init"]>>
<1>0. IInv
  OBVIOUS
<1>1. /\ caller = "constructing" /\ caller' = "constructed" /\ adapter' = TRUE
      /\ msgs' = Append(msgs, [kind |-> "Init"])
      /\ UNCHANGED <<gnss, extended, mSupportsAgpsRequests, agps_status_cb, nifs, host_set,
                     early, agpsStatus, reinit, up, linked, given, data, raced, unnamed,
                     changes, restarts, fault>>
  BY DEF LocEngInitSent, Send, target, modem, history
<1>2. Types'
  BY <1>0, <1>1 DEF IInv, Types
<1>3. t \in Seq(LocEngMessage) /\ Has(t, Reinit) /\ ~ Has(t, Client) /\ msgs' = msgs \o t
  BY <1>0, <1>1, Signal, Appended, Messages DEF IInv, Queue
<1> HIDE DEF t
<1>4. /\ msgs' \in Seq(LocEngMessage)
      /\ Has(msgs', Reinit)
      /\ Has(msgs', Client) => Has(msgs, Client)
      /\ Has(msgs, Link) => Follows(msgs', Link, Reinit)
      /\ Follows(msgs, Link, Reinit) => Follows(msgs', Link, Reinit)
  BY <1>0, <1>3, Grown DEF IInv, Queue
<1>5. Queue' /\ ConfigInv' /\ DataInv'
  BY <1>1, <1>4 DEF Queue, ConfigInv, DataInv
<1>6. LinkInv'
  BY <1>0, <1>1, <1>4 DEF IInv, LinkInv
<1>7. StartInv'
  BY <1>0, <1>1, <1>4 DEF IInv, StartInv
<1> QED BY <1>2, <1>5, <1>6, <1>7 DEF IInv

LEMMA LocInitEndsHolds ==
  ASSUME IInv, LocInitEnds, UNCHANGED fault
  PROVE  IInv'
<1>0. IInv
  OBVIOUS
<1>1. /\ caller = "constructed" /\ caller' = "idle"
      /\ mSupportsAgpsRequests' = ~ extended
      /\ UNCHANGED <<gnss, extended, adapter, agps_status_cb, nifs, host_set,
                     early, agpsStatus, msgs, reinit, up, linked, given, data, raced, unnamed,
                     changes, restarts, fault>>
  BY DEF LocInitEnds, target, modem, history
<1>2. Types'
  BY <1>0, <1>1 DEF IInv, Types
<1>3. Queue' /\ ConfigInv' /\ DataInv'
  BY <1>0, <1>1 DEF IInv, Queue, ConfigInv, DataInv
<1>4. LinkInv'
  BY <1>0, <1>1 DEF IInv, LinkInv, StartInv
<1>5. StartInv'
  BY <1>0, <1>1 DEF IInv, StartInv
<1> QED BY <1>2, <1>3, <1>4, <1>5 DEF IInv

LEMMA AgpsInitHolds ==
  ASSUME IInv, AgpsInit, UNCHANGED fault
  PROVE  IInv'
<1> DEFINE c == IF mSupportsAgpsRequests THEN <<[kind |-> "DataClientInit"]>> ELSE <<>>
           b == bufferedServers(host_set)
           t == IF gnss = "MSM" THEN c \o b ELSE <<>>
<1>0. IInv
  OBVIOUS
<1>1. /\ caller = "idle" /\ adapter /\ ~ agps_status_cb /\ agps_status_cb' = TRUE
      /\ nifs' = IF gnss = "MSM" THEN {"internet", "wifi", "agnss"} ELSE {"internet", "wifi"}
      /\ UNCHANGED <<gnss, extended, caller, adapter, mSupportsAgpsRequests, host_set,
                     early, agpsStatus, reinit, up, linked, given, data, raced, unnamed,
                     changes, restarts, fault>>
  BY DEF AgpsInit, target, modem, history
<1>2. Types'
  BY <1>0, <1>1 DEF IInv, Types
<1>3. /\ c \in Seq(LocEngMessage) /\ ~ Has(c, Link) /\ ~ Has(c, Reinit) /\ ~ Has(c, Enable)
      /\ Has(c, Client) => mSupportsAgpsRequests
  <2>1. CASE mSupportsAgpsRequests
    BY <2>1, Signal
  <2>2. CASE ~ mSupportsAgpsRequests
    BY <2>2 DEF Has
  <2> QED BY <2>1, <2>2
<1>4. /\ b \in Seq(LocEngMessage) /\ ~ Has(b, Link) /\ ~ Has(b, Reinit) /\ ~ Has(b, Enable)
      /\ ~ Has(b, Client)
  BY Servers
<1>5. msgs' = IF gnss = "MSM" THEN msgs \o c \o b ELSE msgs
  BY DEF AgpsInit
<1> HIDE DEF c, b
<1>6. /\ t \in Seq(LocEngMessage) /\ ~ Has(t, Link) /\ ~ Has(t, Reinit) /\ ~ Has(t, Enable)
      /\ Has(t, Client) => mSupportsAgpsRequests /\ gnss = "MSM"
  <2>1. CASE gnss = "MSM"
    BY <1>3, <1>4, <2>1, Positions, HasCat
  <2>2. CASE gnss # "MSM"
    BY <2>2 DEF Has
  <2> QED BY <2>1, <2>2
<1>7. msgs' = msgs \o t
  BY <1>0, <1>3, <1>4, <1>5 DEF IInv, Queue
<1> HIDE DEF t
<1>8. /\ msgs' \in Seq(LocEngMessage)
      /\ Has(msgs', Reinit) <=> Has(msgs, Reinit)
      /\ Has(msgs', Client) => Has(msgs, Client) \/ Has(t, Client)
      /\ Follows(msgs, Link, Reinit) => Follows(msgs', Link, Reinit)
      /\ \A i \in Item : Holds(msgs, configFor(i)) => Holds(msgs', configFor(i))
      /\ IsLast(msgs, data, agpsStatus) => IsLast(msgs', data, agpsStatus)
  BY <1>0, <1>6, <1>7, Grown DEF IInv, Queue
<1>9. Queue' /\ LinkInv'
  BY <1>0, <1>1, <1>8 DEF IInv, Queue, LinkInv
<1>10. ConfigInv'
  BY <1>0, <1>1, <1>8 DEF IInv, ConfigInv
<1>11. DataInv'
  BY <1>0, <1>1, <1>8 DEF IInv, DataInv
<1>12. StartInv'
  BY <1>0, <1>1, <1>6, <1>8 DEF IInv, StartInv
<1> QED BY <1>2, <1>9, <1>10, <1>11, <1>12 DEF IInv

LEMMA SetServerHolds ==
  ASSUME IInv, SetServer, UNCHANGED fault
  PROVE  IInv'
<1>0. IInv
  OBVIOUS
<1>1. /\ changes < MaxChanges /\ changes' = changes + 1
      /\ UNCHANGED <<gnss, extended, caller, adapter, mSupportsAgpsRequests, agps_status_cb, nifs,
                     agpsStatus, reinit, up, linked, given, data, raced, unnamed, restarts, fault>>
  BY DEF SetServer, target, modem
<1>2. PICK s \in Server :
        \/ /\ msgs' = Append(msgs, [kind |-> "SetServer", type |-> s])
           /\ UNCHANGED <<host_set, early>>
        \/ UNCHANGED <<msgs, host_set, early>>
        \/ host_set' = host_set \cup {s} /\ early' = early \cup {s} /\ UNCHANGED msgs
  BY DEF SetServer, SendServer, Send
<1>3. Types'
  <2>1. changes' \in 0..MaxChanges
    BY <1>0, <1>1, LocEngInitAssumption DEF IInv, Types
  <2>2. host_set' \subseteq Server /\ early' \subseteq Server
    BY <1>0, <1>2 DEF IInv, Types
  <2> QED BY <1>0, <1>1, <2>1, <2>2 DEF IInv, Types
<1>4. CASE UNCHANGED msgs
  BY <1>0, <1>1, <1>3, <1>4
  DEF IInv, Queue, LinkInv, ConfigInv, DataInv, StartInv
<1>5. CASE msgs' = Append(msgs, [kind |-> "SetServer", type |-> s])
  <2> DEFINE m == [kind |-> "SetServer", type |-> s]
  <2>1. m \in LocEngMessage /\ m.kind = "SetServer"
    BY Messages
  <2>2. msgs' = msgs \o <<m>>
    BY <1>0, <1>5, <2>1, Appended DEF IInv, Queue
  <2> HIDE DEF m
  <2>3. /\ <<m>> \in Seq(LocEngMessage)
        /\ ~ Has(<<m>>, Reinit) /\ ~ Has(<<m>>, Client) /\ ~ Has(<<m>>, Enable)
    BY <2>1, One DEF Reinit, Client, Enable
  <2>4. /\ msgs' \in Seq(LocEngMessage)
        /\ \A kinds : Has(msgs, kinds) => Has(msgs', kinds)
        /\ Has(msgs', Client) => Has(msgs, Client)
        /\ Follows(msgs, Link, Reinit) => Follows(msgs', Link, Reinit)
        /\ \A i \in Item : Holds(msgs, configFor(i)) => Holds(msgs', configFor(i))
        /\ IsLast(msgs, data, agpsStatus) => IsLast(msgs', data, agpsStatus)
    BY <1>0, <2>2, <2>3, Grown DEF IInv, Queue
  <2>5. Queue' /\ LinkInv'
    BY <1>0, <1>1, <2>4 DEF IInv, Queue, LinkInv
  <2>6. ConfigInv'
    BY <1>0, <1>1, <2>4 DEF IInv, ConfigInv
  <2>7. DataInv' /\ StartInv'
    BY <1>0, <1>1, <2>4 DEF IInv, DataInv, StartInv
  <2> QED BY <1>3, <2>5, <2>6, <2>7 DEF IInv
<1> QED BY <1>2, <1>4, <1>5

LEMMA UpdateAvailabilityHolds ==
  ASSUME IInv, UpdateAvailability, UNCHANGED fault
  PROVE  IInv'
<1>0. IInv
  OBVIOUS
<1>1. /\ changes < MaxChanges /\ changes' = changes + 1
      /\ UNCHANGED <<gnss, extended, caller, adapter, mSupportsAgpsRequests, agps_status_cb, nifs,
                     host_set, early, reinit, up, linked, given, data, restarts, fault>>
  BY DEF UpdateAvailability, target, start, modem
<1>2. PICK x \in Network, named \in BOOLEAN :
        /\ agpsStatus' = x
        /\ IF adapter /\ named
           THEN msgs' = Append(msgs, [kind |-> "EnableData", enable |-> x])
           ELSE UNCHANGED msgs
        /\ raced' = (adapter /\ reinit # "idle")
        /\ unnamed' = (adapter /\ ~ named)
  BY DEF UpdateAvailability, Send
<1>3. Types'
  <2>1. changes' \in 0..MaxChanges
    BY <1>0, <1>1, LocEngInitAssumption DEF IInv, Types
  <2>2. raced' \in BOOLEAN /\ unnamed' \in BOOLEAN /\ agpsStatus' \in Network
    BY <1>2
  <2> QED BY <1>0, <1>1, <2>1, <2>2 DEF IInv, Types
<1>4. CASE ~ (adapter /\ named)
  <2>1. UNCHANGED msgs /\ (adapter => unnamed')
    BY <1>2, <1>4
  <2>2. DataInv'
    BY <1>1, <2>1 DEF DataInv
  <2> QED BY <1>0, <1>1, <1>3, <2>1, <2>2 DEF IInv, Queue, LinkInv, ConfigInv, StartInv
<1>5. CASE adapter /\ named
  <2> DEFINE m == [kind |-> "EnableData", enable |-> x]
  <2>1. m \in LocEngMessage /\ m.kind = "EnableData" /\ m.enable = x
    BY Messages
  <2>2. msgs' = msgs \o <<m>>
    BY <1>0, <1>2, <1>5, <2>1, Appended DEF IInv, Queue
  <2> HIDE DEF m
  <2>3. /\ <<m>> \in Seq(LocEngMessage)
        /\ ~ Has(<<m>>, Client) /\ Has(<<m>>, Enable)
        /\ IsLast(<<m>>, data, x)
    BY <2>1, One DEF Client, Enable
  <2>4. /\ msgs' \in Seq(LocEngMessage)
        /\ \A kinds : Has(msgs, kinds) => Has(msgs', kinds)
        /\ Has(msgs', Client) => Has(msgs, Client)
        /\ Follows(msgs, Link, Reinit) => Follows(msgs', Link, Reinit)
        /\ \A i \in Item : Holds(msgs, configFor(i)) => Holds(msgs', configFor(i))
        /\ IsLast(msgs', data, x)
    BY <1>0, <2>2, <2>3, Grown DEF IInv, Queue
  <2>5. Queue' /\ LinkInv'
    BY <1>0, <1>1, <2>4 DEF IInv, Queue, LinkInv
  <2>6. ConfigInv'
    BY <1>0, <1>1, <2>4 DEF IInv, ConfigInv
  <2>7. DataInv'
    BY <1>1, <1>2, <1>5, <2>4 DEF DataInv
  <2>8. StartInv'
    BY <1>0, <1>1, <2>4 DEF IInv, StartInv
  <2> QED BY <1>3, <2>5, <2>6, <2>7, <2>8 DEF IInv
<1> QED BY <1>4, <1>5

-------------------------------------------------------------------------------
(* Messages of the worker.                                                 *)

\* The head of the queue is run.
LEMMA Taken ==
  ASSUME IInv, NEW kinds, msgs # <<>>, Head(msgs).kind \in kinds, msgs' = Tail(msgs)
  PROVE  /\ Head(msgs) \in LocEngMessage /\ Queue'
         /\ \A other : Has(msgs', other) => Has(msgs, other)
         /\ kinds \cap Reinit = {} => (Has(msgs, Reinit) => Has(msgs', Reinit))
         /\ kinds \cap Link = {} => (Has(msgs, Link) => Has(msgs', Link))
         /\ \A i : Holds(msgs, i) => Head(msgs) = i \/ Holds(msgs', i)
         /\ Follows(msgs, Link, Reinit) => Has(msgs', Reinit)
         /\ kinds \cap Link = {} =>
              (Follows(msgs, Link, Reinit) => Follows(msgs', Link, Reinit))
         /\ kinds \cap Enable = {} => \A d, x : IsLast(msgs, d, x) => IsLast(msgs', d, x)
         /\ kinds \subseteq Enable =>
              \A d, x : IsLast(msgs, d, x) => IsLast(msgs', Head(msgs).enable, x)
<1>1. msgs \in Seq(LocEngMessage)
  BY DEF IInv, Queue
<1>2. /\ Head(msgs) \in LocEngMessage
      /\ msgs' \in Seq(LocEngMessage)
      /\ \A other : Has(msgs', other) => Has(msgs, other)
      /\ \A other : Has(msgs, other) => Head(msgs).kind \in other \/ Has(msgs', other)
      /\ \A i : Holds(msgs, i) => Head(msgs) = i \/ Holds(msgs', i)
      /\ Follows(msgs, Link, Reinit) => Has(msgs', Reinit)
      /\ Follows(msgs, Link, Reinit) =>
           Head(msgs).kind \in Link \/ Follows(msgs', Link, Reinit)
      /\ \A d, x : IsLast(msgs, d, x) =>
           IsLast(msgs', IF Head(msgs).kind \in Enable THEN Head(msgs).enable ELSE d, x)
  BY <1>1, Shrunk
<1>3. kinds \cap Enable = {} => \A d, x : IsLast(msgs, d, x) => IsLast(msgs', d, x)
  BY <1>2
<1>4. kinds \subseteq Enable =>
        \A d, x : IsLast(msgs, d, x) => IsLast(msgs', Head(msgs).enable, x)
  BY <1>2
<1>5. Queue'
  BY <1>2 DEF Queue
<1> QED BY <1>2, <1>3, <1>4, <1>5

LEMMA OpenHolds ==
  ASSUME IInv, Open
  PROVE  IInv'
<1>0. IInv
  OBVIOUS
<1>1. /\ msgs # <<>> /\ Head(msgs).kind \in Link /\ msgs' = Tail(msgs)
      /\ reinit = "idle" /\ linked' = up
      /\ UNCHANGED <<gnss, extended, caller, adapter, mSupportsAgpsRequests, agps_status_cb, nifs,
                     host_set, early, agpsStatus, reinit, up, given, data, raced, unnamed,
                     changes, restarts, fault>>
  BY DEF Open, Running, Link, target, start, history
<1>2. Link \cap Reinit = {} /\ Link \cap Enable = {}
  BY DEF Link, Reinit, Enable
<1>3. /\ Queue' /\ Head(msgs) \in LocEngMessage
      /\ \A other : Has(msgs', other) => Has(msgs, other)
      /\ Has(msgs, Reinit) => Has(msgs', Reinit)
      /\ \A i : Holds(msgs, i) => Head(msgs) = i \/ Holds(msgs', i)
      /\ \A d, x : IsLast(msgs, d, x) => IsLast(msgs', d, x)
  BY <1>0, <1>1, <1>2, Taken
<1>4. \A i : Head(msgs) # configFor(i)
  BY <1>1 DEF Link, configFor
<1>5. Types'
  BY <1>0, <1>1 DEF IInv, Types
<1>6. LinkInv'
  BY <1>1 DEF LinkInv
<1>7. ConfigInv'
  BY <1>0, <1>1, <1>3, <1>4 DEF IInv, ConfigInv
<1>8. DataInv'
  BY <1>0, <1>1, <1>3 DEF IInv, DataInv
<1>9. StartInv'
  BY <1>0, <1>1, <1>3 DEF IInv, StartInv
<1> QED BY <1>3, <1>5, <1>6, <1>7, <1>8, <1>9 DEF IInv

LEMMA ReinitBeginsHolds ==
  ASSUME IInv, ReinitBegins
  PROVE  IInv'
<1> DEFINE c == configMessages
           s == Tail(msgs)
<1>0. IInv
  OBVIOUS
<1>1. /\ msgs # <<>> /\ Head(msgs).kind \in Reinit /\ reinit = "idle"
      /\ UNCHANGED <<gnss, extended, caller, adapter, mSupportsAgpsRequests, agps_status_cb, nifs,
                     host_set, early, agpsStatus, up, linked, given, data,
                     changes, restarts>>
  BY DEF ReinitBegins, Running, Reinit, target, start, modem
<1>2. CASE ~ adapter
  <2>1. fault' = TRUE /\ UNCHANGED <<msgs, reinit, raced, unnamed>>
    BY <1>2 DEF ReinitBegins
  <2>2. Types'
    BY <1>0, <1>1, <2>1 DEF IInv, Types
  <2> QED BY <1>0, <1>1, <2>1, <2>2 DEF IInv, Queue, LinkInv, ConfigInv, DataInv, StartInv
<1>3. CASE adapter
  <2>1. /\ msgs' = s \o c /\ reinit' = agpsStatus
        /\ raced' = FALSE /\ unnamed' = FALSE /\ fault' = fault
    BY <1>3 DEF ReinitBegins
  <2>2. Types'
    BY <1>0, <1>1, <2>1 DEF IInv, Types
  <2>3. msgs \in Seq(LocEngMessage)
    BY <1>0 DEF IInv, Queue
  <2>4. /\ s \in Seq(LocEngMessage)
        /\ Has(s, Client) => Has(msgs, Client)
    BY <1>1, <2>3, Shifted, TailHas
  <2>5. Follows(msgs, Link, Reinit) => Follows(s, Link, Reinit)
    <3>1. Head(msgs).kind \notin Link
      BY <1>1 DEF Reinit, Link
    <3> QED BY <1>1, <2>3, <3>1, TailFollows
  <2>6. /\ c \in Seq(LocEngMessage)
        /\ ~ Has(c, Reinit) /\ ~ Has(c, Client)
        /\ \A i \in Item : Holds(c, configFor(i))
    BY Configuration
  <2> HIDE DEF c, s
  <2>7. /\ msgs' \in Seq(LocEngMessage)
        /\ Has(msgs', Client) => Has(msgs, Client)
        /\ Follows(msgs, Link, Reinit) => Follows(msgs', Link, Reinit)
        /\ \A i \in Item : Holds(msgs', configFor(i))
    BY <2>1, <2>4, <2>5, <2>6, Positions, HasCat, FollowsCat, HoldsCat
  <2>8. Queue' /\ ConfigInv'
    BY <2>7 DEF Queue, ConfigInv
  <2>9. LinkInv'
    BY <1>0, <1>1, <1>3, <2>7 DEF IInv, LinkInv, StartInv
  <2>10. DataInv'
    <3>1. reinit' # "idle" /\ reinit' = agpsStatus'
      BY <1>0, <1>1, <2>1 DEF IInv, Types, Network
    <3> QED BY <3>1 DEF DataInv
  <2>11. StartInv'
    BY <1>0, <1>1, <1>3, <2>7 DEF IInv, StartInv
  <2> QED BY <2>2, <2>8, <2>9, <2>10, <2>11 DEF IInv
<1> QED BY <1>2, <1>3

LEMMA ReinitEndsHolds ==
  ASSUME IInv, ReinitEnds
  PROVE  IInv'
<1> DEFINE m == [kind |-> "EnableData", enable |-> reinit]
           b == IF agps_status_cb THEN bufferedServers(host_set) ELSE <<>>
           t == <<m>> \o b
<1>0. IInv
  OBVIOUS
<1>1. /\ reinit # "idle" /\ reinit' = "idle"
      /\ UNCHANGED <<gnss, extended, caller, adapter, mSupportsAgpsRequests, agps_status_cb, nifs,
                     host_set, early, agpsStatus, up, linked, given, data, raced, unnamed,
                     changes, restarts, fault>>
  BY DEF ReinitEnds, target, start, modem, history
<1>2. msgs' = Append(msgs, m) \o b
  BY DEF ReinitEnds
<1>3. m \in LocEngMessage /\ m.kind = "EnableData" /\ m.enable = reinit
  BY <1>0, <1>1, Messages DEF IInv, Types
<1>4. /\ b \in Seq(LocEngMessage) /\ ~ Has(b, Enable) /\ ~ Has(b, Client) /\ ~ Has(b, Reinit)
  <2>1. CASE agps_status_cb
    BY <2>1, Servers
  <2>2. CASE ~ agps_status_cb
    BY <2>2 DEF Has
  <2> QED BY <2>1, <2>2
<1> HIDE DEF m, b
<1>5. /\ <<m>> \in Seq(LocEngMessage)
      /\ ~ Has(<<m>>, Client) /\ Has(<<m>>, Enable) /\ ~ Has(<<m>>, Reinit)
      /\ IsLast(<<m>>, data, reinit)
  BY <1>3, One DEF Client, Enable, Reinit
<1>6. /\ t \in Seq(LocEngMessage)
      /\ ~ Has(t, Client) /\ Has(t, Enable) /\ ~ Has(t, Reinit)
      /\ IsLast(t, data, reinit)
  BY <1>4, <1>5, Positions, HasCat, LastCat
<1>7. msgs' = msgs \o t
  <2>1. msgs \in Seq(LocEngMessage)
    BY <1>0 DEF IInv, Queue
  <2> QED BY <1>2, <1>3, <1>4, <2>1
<1> HIDE DEF t
<1>8. /\ msgs' \in Seq(LocEngMessage)
      /\ Has(msgs, Link) => Has(msgs', Link)
      /\ Has(msgs', Reinit) <=> Has(msgs, Reinit)
      /\ Has(msgs', Client) => Has(msgs, Client)
      /\ Follows(msgs, Link, Reinit) => Follows(msgs', Link, Reinit)
      /\ \A i \in Item : Holds(msgs, configFor(i)) => Holds(msgs', configFor(i))
      /\ IsLast(msgs', data, reinit)
  BY <1>0, <1>6, <1>7, Grown DEF IInv, Queue
<1>9. Types'
  BY <1>0, <1>1 DEF IInv, Types
<1>10. Queue' /\ LinkInv'
  BY <1>0, <1>1, <1>8 DEF IInv, Queue, LinkInv
<1>11. ConfigInv'
  BY <1>0, <1>1, <1>8 DEF IInv, ConfigInv
<1>12. DataInv'
  BY <1>0, <1>1, <1>8 DEF IInv, DataInv
<1>13. StartInv'
  BY <1>0, <1>1, <1>8 DEF IInv, StartInv
<1> QED BY <1>9, <1>10, <1>11, <1>12, <1>13 DEF IInv

\* While the modem runs and there is an adapter, a stale handle means that
\* the modem will be configured again.
LEMMA StaleHandle ==
  ASSUME IInv, up, ~ linked, adapter
  PROVE  Follows(msgs, Link, Reinit)
BY DEF IInv, LinkInv, StartInv

LEMMA ConfigureHolds ==
  ASSUME IInv, Configure
  PROVE  IInv'
<1> DEFINE kinds == {"Config", "SetServer"}
<1>0. IInv
  OBVIOUS
<1>1. /\ msgs # <<>> /\ Head(msgs).kind \in kinds /\ msgs' = Tail(msgs) /\ reinit = "idle"
      /\ UNCHANGED <<gnss, extended, caller, adapter, mSupportsAgpsRequests, agps_status_cb, nifs,
                     host_set, early, agpsStatus, reinit, up, linked, data, raced, unnamed,
                     changes, restarts, fault>>
  BY DEF Configure, Running, target, start, history
<1>2. /\ Head(msgs).kind = "Config" => give(Head(msgs).item)
      /\ Head(msgs).kind = "SetServer" => give(Head(msgs).type)
  BY DEF Configure, Running
<1>3. kinds \cap Reinit = {} /\ kinds \cap Enable = {} /\ kinds \cap Link = {}
  BY DEF Link, Reinit, Enable
<1>4. /\ Queue' /\ Head(msgs) \in LocEngMessage
      /\ \A other : Has(msgs', other) => Has(msgs, other)
      /\ Has(msgs, Reinit) => Has(msgs', Reinit)
      /\ Has(msgs, Link) => Has(msgs', Link)
      /\ \A i : Holds(msgs, i) => Head(msgs) = i \/ Holds(msgs', i)
      /\ Follows(msgs, Link, Reinit) => Follows(msgs', Link, Reinit)
      /\ Follows(msgs, Link, Reinit) => Has(msgs', Reinit)
      /\ \A d, x : IsLast(msgs, d, x) => IsLast(msgs', d, x)
  <2> HIDE DEF kinds
  <2> QED BY <1>0, <1>1, <1>3, Taken
<1>5. /\ Head(msgs).kind = "Config" =>
           Head(msgs).item \in Item /\ Head(msgs) = configFor(Head(msgs).item)
      /\ Head(msgs).kind = "SetServer" => Head(msgs).type \in Server
  BY <1>4, Contents
<1>6. given' \subseteq Item \cup Server /\ given \subseteq given'
  BY <1>0, <1>1, <1>2, <1>5 DEF IInv, Types, give
<1>7. Types'
  BY <1>0, <1>1, <1>6 DEF IInv, Types
<1>8. LinkInv'
  BY <1>0, <1>1, <1>4 DEF IInv, LinkInv
<1>9. ConfigInv'
  <2> SUFFICES ASSUME adapter, up, ~ Has(msgs', Reinit), NEW i \in Item
               PROVE  i \in given' \/ Holds(msgs', configFor(i))
    BY <1>1 DEF ConfigInv
  <2>1. linked
    BY <1>0, <1>4, StaleHandle DEF IInv, Types
  <2>2. i \in given \/ Holds(msgs, configFor(i))
    BY <1>0, <1>4 DEF IInv, ConfigInv
  <2>3. CASE Head(msgs) = configFor(i)
    <3>1. Head(msgs).kind = "Config" /\ Head(msgs).item = i
      BY <2>3 DEF configFor
    <3> QED BY <1>2, <2>1, <3>1 DEF give
  <2> QED BY <1>4, <1>6, <2>2, <2>3
<1>10. DataInv'
  BY <1>0, <1>1, <1>4 DEF IInv, DataInv
<1>11. StartInv'
  BY <1>0, <1>1, <1>4 DEF IInv, StartInv
<1> QED BY <1>4, <1>7, <1>8, <1>9, <1>10, <1>11 DEF IInv

LEMMA EnableDataHolds ==
  ASSUME IInv, EnableData
  PROVE  IInv'
<1>0. IInv
  OBVIOUS
<1>1. /\ msgs # <<>> /\ Head(msgs).kind = "EnableData" /\ msgs' = Tail(msgs) /\ reinit = "idle"
      /\ data' = IF up /\ linked THEN Head(msgs).enable ELSE data
      /\ UNCHANGED <<gnss, extended, caller, adapter, mSupportsAgpsRequests, agps_status_cb, nifs,
                     host_set, early, agpsStatus, reinit, up, linked, given, raced, unnamed,
                     changes, restarts, fault>>
  BY DEF EnableData, Running, target, start, history
<1>2. /\ Enable \cap Reinit = {} /\ Enable \cap Link = {} /\ Enable \subseteq Enable
      /\ Head(msgs).kind \in Enable
  BY <1>1 DEF Link, Reinit, Enable
<1>3. /\ Queue' /\ Head(msgs) \in LocEngMessage
      /\ \A other : Has(msgs', other) => Has(msgs, other)
      /\ Has(msgs, Reinit) => Has(msgs', Reinit)
      /\ Has(msgs, Link) => Has(msgs', Link)
      /\ \A i : Holds(msgs, i) => Head(msgs) = i \/ Holds(msgs', i)
      /\ Follows(msgs, Link, Reinit) => Follows(msgs', Link, Reinit)
      /\ Follows(msgs, Link, Reinit) => Has(msgs', Reinit)
      /\ \A d, x : IsLast(msgs, d, x) => IsLast(msgs', Head(msgs).enable, x)
  BY <1>0, <1>1, <1>2, Taken
<1>4. Head(msgs).enable \in Network
  BY <1>1, <1>3, Contents
<1>5. \A i : Head(msgs) # configFor(i)
  BY <1>1 DEF configFor
<1>6. Types'
  BY <1>0, <1>1, <1>4 DEF IInv, Types
<1>7. LinkInv'
  BY <1>0, <1>1, <1>3 DEF IInv, LinkInv
<1>8. ConfigInv'
  BY <1>0, <1>1, <1>3, <1>5 DEF IInv, ConfigInv
<1>9. DataInv'
  <2> SUFFICES ASSUME adapter, up, ~ Has(msgs', Reinit), ~ raced, ~ unnamed
               PROVE  IsLast(msgs', data', agpsStatus)
    BY <1>1 DEF DataInv
  <2>1. linked
    BY <1>0, <1>3, StaleHandle DEF IInv, Types
  <2>2. IsLast(msgs, data, agpsStatus)
    BY <1>0, <1>1, <1>3 DEF IInv, DataInv
  <2>3. data' = Head(msgs).enable
    BY <1>1, <2>1
  <2> QED BY <1>3, <2>2, <2>3
<1>10. StartInv'
  BY <1>0, <1>1, <1>3 DEF IInv, StartInv
<1> QED BY <1>3, <1>6, <1>7, <1>8, <1>9, <1>10 DEF IInv

\* LocEngDataClientInit and LocEngDown change nothing the others depend on.
LEMMA DataClientInitHolds ==
  ASSUME IInv, DataClientInit
  PROVE  IInv'
<1>0. IInv
  OBVIOUS
<1>1. /\ msgs # <<>> /\ Head(msgs).kind \in Client /\ msgs' = Tail(msgs) /\ reinit = "idle"
      /\ nifs' = nifs \/ nifs' = nifs \cup {"ds"}
      /\ UNCHANGED <<gnss, extended, caller, adapter, mSupportsAgpsRequests, agps_status_cb,
                     host_set, early, agpsStatus, reinit, up, linked, given, data, raced, unnamed,
                     changes, restarts, fault>>
  BY DEF DataClientInit, Running, Client, target, modem, history
<1>2. Client \cap Reinit = {} /\ Client \cap Enable = {} /\ Client \cap Link = {}
  BY DEF Link, Reinit, Enable, Client
<1>3. /\ Queue' /\ Head(msgs) \in LocEngMessage
      /\ \A other : Has(msgs', other) => Has(msgs, other)
      /\ Has(msgs, Reinit) => Has(msgs', Reinit)
      /\ Has(msgs, Link) => Has(msgs', Link)
      /\ \A i : Holds(msgs, i) => Head(msgs) = i \/ Holds(msgs', i)
      /\ Follows(msgs, Link, Reinit) => Follows(msgs', Link, Reinit)
      /\ \A d, x : IsLast(msgs, d, x) => IsLast(msgs', d, x)
  BY <1>0, <1>1, <1>2, Taken
<1>4. Has(msgs, Client)
  BY <1>0, <1>1, TailHas DEF IInv, Queue
<1>5. \A i : Head(msgs) # configFor(i)
  BY <1>1 DEF configFor, Client
<1>6. Types'
  <2>1. nifs' \subseteq {"internet", "wifi", "agnss", "ds"}
    BY <1>0, <1>1 DEF IInv, Types
  <2> QED BY <1>0, <1>1, <2>1 DEF IInv, Types
<1>7. LinkInv'
  BY <1>0, <1>1, <1>3 DEF IInv, LinkInv
<1>8. ConfigInv'
  BY <1>0, <1>1, <1>3, <1>5 DEF IInv, ConfigInv
<1>9. DataInv'
  BY <1>0, <1>1, <1>3 DEF IInv, DataInv
<1>10. StartInv'
  BY <1>0, <1>1, <1>4 DEF IInv, StartInv
<1> QED BY <1>3, <1>6, <1>7, <1>8, <1>9, <1>10 DEF IInv

LEMMA EngineDownHolds ==
  ASSUME IInv, EngineDown
  PROVE  IInv'
<1>0. IInv
  OBVIOUS
<1>1. /\ msgs # <<>> /\ Head(msgs).kind = "Down" /\ reinit = "idle"
      /\ UNCHANGED <<gnss, extended, caller, adapter, mSupportsAgpsRequests, agps_status_cb, nifs,
                     host_set, early, agpsStatus, reinit, up, linked, given, data, raced, unnamed,
                     changes, restarts>>
  BY DEF EngineDown, Running, target, start, modem, history
<1>2. CASE ~ adapter
  <2>1. fault' = TRUE /\ msgs' = msgs
    BY <1>2 DEF EngineDown
  <2>2. Types'
    <3>1. fault' \in BOOLEAN
      BY <2>1
    <3> QED BY <1>0, <1>1, <3>1 DEF IInv, Types
  <2> QED BY <1>0, <1>1, <2>1, <2>2 DEF IInv, Queue, LinkInv, ConfigInv, DataInv, StartInv
<1>3. CASE adapter
  <2>1. msgs' = Tail(msgs) /\ fault' = fault
    BY <1>3 DEF EngineDown
  <2> DEFINE kinds == {"Down"}
  <2>2. /\ kinds \cap Reinit = {} /\ kinds \cap Enable = {} /\ kinds \cap Link = {}
        /\ Head(msgs).kind \in kinds
    BY <1>1 DEF Link, Reinit, Enable
  <2> HIDE DEF kinds
  <2>3. /\ Queue' /\ Head(msgs) \in LocEngMessage
        /\ \A other : Has(msgs', other) => Has(msgs, other)
        /\ Has(msgs, Reinit) => Has(msgs', Reinit)
        /\ Has(msgs, Link) => Has(msgs', Link)
        /\ \A i : Holds(msgs, i) => Head(msgs) = i \/ Holds(msgs', i)
        /\ Follows(msgs, Link, Reinit) => Follows(msgs', Link, Reinit)
        /\ \A d, x : IsLast(msgs, d, x) => IsLast(msgs', d, x)
    BY <1>0, <1>1, <2>1, <2>2, Taken
  <2>4. \A i : Head(msgs) # configFor(i)
    BY <1>1 DEF configFor
  <2>5. Types'
    BY <1>0, <1>1, <2>1 DEF IInv, Types
  <2>6. LinkInv'
    BY <1>0, <1>1, <2>3 DEF IInv, LinkInv
  <2>7. ConfigInv'
    BY <1>0, <1>1, <2>3, <2>4 DEF IInv, ConfigInv
  <2>8. DataInv'
    BY <1>0, <1>1, <2>3 DEF IInv, DataInv
  <2>9. StartInv'
    BY <1>0, <1>1, <2>3 DEF IInv, StartInv
  <2> QED BY <2>3, <2>5, <2>6, <2>7, <2>8, <2>9 DEF IInv
<1> QED BY <1>2, <1>3

-------------------------------------------------------------------------------
(* The modem.                                                              *)

LEMMA ModemCrashHolds ==
  ASSUME IInv, ModemCrash, UNCHANGED fault
  PROVE  IInv'
<1> DEFINE t == <<[kind |-> "Down"]>>
<1>0. IInv
  OBVIOUS
<1>1. /\ restarts < MaxRestarts /\ restarts' = restarts + 1
      /\ up' = FALSE /\ linked' = FALSE /\ given' = {} /\ data' = "none"
      /\ msgs' = Append(msgs, [kind |-> "Down"])
      /\ UNCHANGED <<gnss, extended, caller, adapter, mSupportsAgpsRequests, agps_status_cb, nifs,
                     host_set, early, agpsStatus, reinit, raced, unnamed, changes, fault>>
  BY DEF ModemCrash, Send, target, start
<1>2. Types'
  <2>1. restarts' \in 0..MaxRestarts
    BY <1>0, <1>1, LocEngInitAssumption DEF IInv, Types
  <2> QED BY <1>0, <1>1, <2>1 DEF IInv, Types
<1>3. t \in Seq(LocEngMessage) /\ ~ Has(t, Client) /\ msgs' = msgs \o t
  BY <1>0, <1>1, Signal, Appended, Messages DEF IInv, Queue
<1> HIDE DEF t
<1>4. /\ msgs' \in Seq(LocEngMessage)
      /\ Has(msgs', Client) => Has(msgs, Client)
  BY <1>0, <1>3, Grown DEF IInv, Queue
<1>5. Queue' /\ LinkInv' /\ ConfigInv' /\ DataInv'
  BY <1>1, <1>4 DEF Queue, LinkInv, ConfigInv, DataInv
<1>6. StartInv'
  BY <1>0, <1>1, <1>4 DEF IInv, StartInv
<1> QED BY <1>2, <1>5, <1>6 DEF IInv

LEMMA ModemBackHolds ==
  ASSUME IInv, ModemBack, UNCHANGED fault
  PROVE  IInv'
<1> DEFINE s == [kind |-> "Ssr"]
           u == [kind |-> "Up"]
           t == <<s, u>>
<1>0. IInv
  OBVIOUS
<1>1. /\ up' = TRUE
      /\ msgs' = msgs \o <<[kind |-> "Ssr"], [kind |-> "Up"]>>
      /\ UNCHANGED <<gnss, extended, caller, adapter, mSupportsAgpsRequests, agps_status_cb, nifs,
                     host_set, early, agpsStatus, reinit, linked, given, data, raced, unnamed,
                     changes, restarts, fault>>
  BY DEF ModemBack, target, start, history
<1>2. Types'
  BY <1>0, <1>1 DEF IInv, Types
<1>3. s \in LocEngMessage /\ u \in LocEngMessage /\ s.kind = "Ssr" /\ u.kind = "Up"
  BY Messages
<1>4. msgs' = msgs \o t
  BY <1>1
<1> HIDE DEF s, u
<1>5. t \in Seq(LocEngMessage) /\ DOMAIN t = {1, 2} /\ t[1] = s /\ t[2] = u
  BY <1>3
<1> HIDE DEF t
<1>6. /\ Has(t, Reinit) /\ ~ Has(t, Client)
      /\ Follows(t, Link, Reinit)
  <2>1. t[1].kind \in Link /\ t[2].kind \in Reinit
        /\ t[1].kind \notin Client /\ t[2].kind \notin Client
    BY <1>3, <1>5 DEF Link, Reinit, Client
  <2>2. 1 < 2
    OBVIOUS
  <2> QED BY <1>5, <2>1, <2>2 DEF Has, Follows
<1> HIDE DEF t
<1>7. /\ msgs' \in Seq(LocEngMessage)
      /\ Has(msgs', Reinit)
      /\ Follows(msgs', Link, Reinit)
      /\ Has(msgs', Client) => Has(msgs, Client)
  BY <1>0, <1>4, <1>5, <1>6, Grown DEF IInv, Queue
<1>8. Queue' /\ LinkInv' /\ ConfigInv' /\ DataInv'
  BY <1>7 DEF Queue, LinkInv, ConfigInv, DataInv
<1>9. StartInv'
  BY <1>0, <1>1, <1>7 DEF IInv, StartInv
<1> QED BY <1>2, <1>8, <1>9 DEF IInv

LEMMA NextHolds == IInv /\ [Next]_vars => IInv'
<1> SUFFICES ASSUME IInv, [Next]_vars PROVE IInv'
  OBVIOUS
<1>1. CASE UNCHANGED vars
  BY <1>1 DEF IInv, Types, Queue, LinkInv, ConfigInv, DataInv, StartInv,
              vars, target, start, modem, history
<1>2. CASE Framework
  BY <1>2, LocInitHolds, LocEngInitSentHolds, LocInitEndsHolds, AgpsInitHolds, SetServerHolds,
     UpdateAvailabilityHolds DEF Framework
<1>3. CASE Worker
  BY <1>3, OpenHolds, ReinitBeginsHolds, ReinitEndsHolds, ConfigureHolds, EnableDataHolds,
     DataClientInitHolds, EngineDownHolds DEF Worker
<1>4. CASE ModemCrash
  BY <1>4, ModemCrashHolds DEF ModemCrash
<1>5. CASE ModemBack
  BY <1>5, ModemBackHolds DEF ModemBack
<1> QED BY <1>1, <1>2, <1>3, <1>4, <1>5 DEF Next

LEMMA InvariantHolds == Spec => []IInv
BY InitHolds, NextHolds, PTL DEF Spec

-------------------------------------------------------------------------------
(* The theorems about the start.                                           *)

\* loc_init, loc_eng_reinit and the restarts of the modem keep every variable
\* in its type, for any number of restarts and of calls; and the machine of
\* data calls (ds_nif) exists only where the daemons and the modem may ask
\* for one.
THEOREM StartTypeCorrect == Spec => []TypeOK
<1>1. IInv => TypeOK
  <2> SUFFICES ASSUME IInv PROVE TypeOK
    OBVIOUS
  <2>1. \A i \in DOMAIN msgs : msgs[i] \in LocEngMessage
    BY DEF IInv, Queue
  <2>2. "ds" \in nifs => agps_status_cb /\ mSupportsAgpsRequests /\ "agnss" \in nifs
    BY DEF IInv, StartInv
  <2>3. {extended, adapter, mSupportsAgpsRequests, agps_status_cb, up, linked, raced, unnamed,
         fault} \subseteq BOOLEAN
    BY DEF IInv, Types
  <2> QED BY <2>1, <2>2, <2>3 DEF IInv, Types, TypeOK
<1> QED BY <1>1, InvariantHolds, PTL

\* Whatever restarts and calls come between, a modem that runs has every item
\* of the configuration of loc_eng_reinit, or is about to be given it.
THEOREM ConfigurationReaches == Spec => []ConfigReachesModem
<1>1. IInv => ConfigReachesModem
  <2> SUFFICES ASSUME IInv, adapter, up, ~ Queued({"Init", "Up"}), NEW i \in Item
               PROVE  i \in given \/ \E k \in DOMAIN msgs : msgs[k] = [kind |-> "Config", item |-> i]
    BY DEF ConfigReachesModem
  <2>1. ~ Has(msgs, Reinit)
    BY DEF Queued, Has, Reinit
  <2>2. i \in given \/ Holds(msgs, configFor(i))
    BY <2>1 DEF IInv, ConfigInv
  <2> QED BY <2>2 DEF Holds, configFor
<1> QED BY <1>1, InvariantHolds, PTL

\* LastData finds the availability that IsLast speaks of.
LEMMA LastIsLast ==
  ASSUME msgs \in Seq(LocEngMessage), NEW x, IsLast(msgs, data, x)
  PROVE  LastData = x
<1> DEFINE sent_ == {i \in DOMAIN msgs : msgs[i].kind = "EnableData"}
<1>1. \A i \in DOMAIN msgs : msgs[i].kind = "EnableData" <=> msgs[i].kind \in Enable
  BY DEF Enable
<1>2. CASE sent_ = {}
  <2>1. ~ Has(msgs, Enable)
    BY <1>1, <1>2 DEF Has
  <2>2. data = x
    BY <2>1 DEF IsLast
  <2> QED BY <1>2, <2>2 DEF LastData
<1>3. CASE sent_ # {}
  <2> DEFINE back == {Len(msgs) - i : i \in sent_}
  <2>1. Len(msgs) \in Nat /\ DOMAIN msgs = 1..Len(msgs)
    OBVIOUS
  <2>2. sent_ \subseteq 1..Len(msgs)
    BY <2>1
  <2> HIDE DEF sent_
  <2>3. back \subseteq Nat /\ back # {}
    <3>1. PICK i \in sent_ : TRUE
      BY <1>3
    <3>2. Len(msgs) - i \in back
      BY <3>1
    <3>3. \A j \in sent_ : Len(msgs) - j \in Nat
      BY <2>1, <2>2
    <3> QED BY <3>2, <3>3
  <2>4. PICK n \in back : \A m \in back : n <= m
    BY <2>3, LeastNumber
  <2>5. PICK l \in sent_ : n = Len(msgs) - l
    BY <2>4
  <2>6. \A j \in sent_ : j <= l
    <3> SUFFICES ASSUME NEW j \in sent_ PROVE j <= l
      OBVIOUS
    <3>1. n <= Len(msgs) - j
      BY <2>4
    <3> QED BY <2>1, <2>2, <2>5, <3>1
  <2> DEFINE last == CHOOSE i \in sent_ : \A j \in sent_ : j <= i
  <2>7. last \in sent_ /\ \A j \in sent_ : j <= last
    BY <2>6
  <2> HIDE DEF last
  <2>8. last \in DOMAIN msgs /\ msgs[last].kind \in Enable
    BY <1>1, <2>7 DEF sent_
  <2>9. ASSUME NEW j \in DOMAIN msgs, last < j, msgs[j].kind \in Enable PROVE FALSE
    <3>1. j \in sent_
      BY <1>1, <2>9 DEF sent_
    <3> QED BY <2>1, <2>2, <2>7, <2>9, <3>1
  <2>10. msgs[last].enable = x
    BY <2>8, <2>9 DEF IsLast
  <2>11. LastData = msgs[last].enable
    BY <1>3 DEF LastData, sent_, last
  <2> QED BY <2>10, <2>11
<1> QED BY <1>2, <1>3

\* loc_eng_reinit and loc_eng_agps_ril_update_network_availability: the
\* availability the modem is given last is the one stored last, unless the
\* framework changed it while loc_eng_reinit held the old one, or without
\* naming an access point.
THEOREM AvailabilityReaches == Spec => []AvailabilityKnown
<1>1. IInv => AvailabilityKnown
  <2> SUFFICES ASSUME IInv, adapter, up, reinit = "idle", ~ Queued({"Init", "Up"}),
                      ~ raced, ~ unnamed
               PROVE  LastData = agpsStatus
    BY DEF AvailabilityKnown
  <2>1. ~ Has(msgs, Reinit)
    BY DEF Queued, Has, Reinit
  <2>2. IsLast(msgs, data, agpsStatus) /\ msgs \in Seq(LocEngMessage)
    BY <2>1 DEF IInv, DataInv, Queue
  <2> QED BY <2>2, LastIsLast
<1> QED BY <1>1, InvariantHolds, PTL

-------------------------------------------------------------------------------
(* Walks over a list: induction, and that a recursion defines a function.  *)

\* Induction: a set with 0, and with each number's successor, has them all.
LEMMA Induction ==
  ASSUME NEW T, 0 \in T, \A n \in Nat : n \in T => n + 1 \in T
  PROVE  Nat \subseteq T
<1> SUFFICES ASSUME Nat \ T # {} PROVE FALSE
  OBVIOUS
<1>1. PICK n \in Nat \ T : \A m \in Nat \ T : n <= m
  BY LeastNumber
<1>2. n # 0
  OBVIOUS
<1>3. n - 1 \in T /\ n - 1 \in Nat
  BY <1>1, <1>2
<1> QED BY <1>3

IsWalk(f, lo, hi, S, b, F) ==
  /\ f \in [lo..hi -> S] /\ f[lo] = b
  /\ \A k \in lo + 1 .. hi : f[k] = F[k][f[k - 1]]

\* From a start b, each step leads from one state of S to another one.
LEMMA Recursion ==
  ASSUME NEW lo \in Int, NEW hi \in Int, lo <= hi,
         NEW S, NEW b \in S, NEW F \in [lo + 1 .. hi -> [S -> S]]
  PROVE  \E f : IsWalk(f, lo, hi, S, b, F)
<1> DEFINE Walk(f, n) == /\ f \in [lo .. lo + n -> S] /\ f[lo] = b
                         /\ \A k \in lo + 1 .. lo + n : f[k] = F[k][f[k - 1]]
           T == {n \in Nat : lo + n <= hi => \E f : Walk(f, n)}
<1>1. 0 \in T
  <2> DEFINE f == [k \in lo .. lo + 0 |-> b]
  <2>1. f \in [lo .. lo + 0 -> S] /\ f[lo] = b
    OBVIOUS
  <2>2. lo + 1 .. lo + 0 = {}
    OBVIOUS
  <2> HIDE DEF f
  <2>3. Walk(f, 0)
    BY <2>1, <2>2
  <2> QED BY <2>3
<1>2. ASSUME NEW n \in Nat, n \in T PROVE n + 1 \in T
  <2> SUFFICES ASSUME lo + (n + 1) <= hi PROVE \E f : Walk(f, n + 1)
    OBVIOUS
  <2>1. PICK f : Walk(f, n)
    BY <1>2
  <2> DEFINE m == lo + n
             v == [k \in lo .. m + 1 |-> IF k <= m THEN f[k] ELSE F[m + 1][f[m]]]
  <2>2. m \in Int /\ lo <= m /\ m + 1 \in lo + 1 .. hi /\ lo + (n + 1) = m + 1
    OBVIOUS
  <2>3. f \in [lo..m -> S] /\ f[lo] = b /\ \A k \in lo + 1 .. m : f[k] = F[k][f[k - 1]]
    BY <2>1
  <2> HIDE DEF m
  <2>4. F[m + 1][f[m]] \in S
    <3>1. F[m + 1] \in [S -> S] /\ f[m] \in S
      BY <2>2, <2>3
    <3> QED BY <3>1
  <2>5. v \in [lo .. m + 1 -> S] /\ v[lo] = b
    BY <2>2, <2>3, <2>4
  <2>6. ASSUME NEW k \in lo + 1 .. m + 1 PROVE v[k] = F[k][v[k - 1]]
    <3>1. CASE k <= m
      <4>1. k \in lo + 1 .. m /\ k - 1 \in lo..m /\ k \in lo .. m + 1 /\ k - 1 \in lo .. m + 1
            /\ k - 1 <= m
        BY <2>2, <3>1
      <4> QED BY <2>3, <3>1, <4>1
    <3>2. CASE k = m + 1
      <4>1. k - 1 = m /\ k - 1 \in lo .. m + 1 /\ k \in lo .. m + 1 /\ ~ (k <= m) /\ k - 1 <= m
        BY <2>2, <3>2
      <4> QED BY <3>2, <4>1
    <3> QED BY <2>2, <3>1, <3>2
  <2> HIDE DEF v
  <2>7. Walk(v, n + 1)
    BY <2>2, <2>5, <2>6
  <2> QED BY <2>7
<1> HIDE DEF T
<1>3. Nat \subseteq T
  BY <1>1, <1>2, Induction
<1>4. hi - lo \in T /\ hi - lo \in Nat /\ lo + (hi - lo) = hi
  BY <1>3
<1>5. \E f : Walk(f, hi - lo)
  BY <1>4 DEF T
<1> QED BY <1>4, <1>5 DEF IsWalk

-------------------------------------------------------------------------------
(* The elements of a list that are in a set.                               *)

IsChoice(f, list, set) ==
  /\ f[0] = <<>>
  /\ \A k \in 1..Len(list) :
       f[k] = IF list[k] \in set THEN Append(f[k - 1], list[k]) ELSE f[k - 1]

LEMMA ChoiceExists ==
  ASSUME NEW T, NEW list \in Seq(T), NEW set
  PROVE  \E f \in [0..Len(list) -> Seq(T)] :
           IsChoice(f, list, set) /\ chosen(list, set) = f[Len(list)]
<1> DEFINE n == Len(list)
           step(k, s) == IF list[k] \in set THEN Append(s, list[k]) ELSE s
           F == [k \in 0 + 1 .. n |-> [s \in Seq(T) |-> step(k, s)]]
           e(f, k) == IF k = 0 THEN <<>>
                      ELSE IF list[k] \in set THEN Append(f[k - 1], list[k]) ELSE f[k - 1]
           Is(f) == f = [k \in 0..n |-> e(f, k)]
<1>1. n \in Nat /\ <<>> \in Seq(T) /\ 0 \in Int /\ n \in Int /\ 0 <= n
  OBVIOUS
<1>2. \A k \in 1..n, s \in Seq(T) : step(k, s) \in Seq(T)
  OBVIOUS
<1>3. F \in [0 + 1 .. n -> [Seq(T) -> Seq(T)]]
  BY <1>2
<1> HIDE DEF n, F
<1>4. PICK f \in [0..n -> Seq(T)] :
        f[0] = <<>> /\ \A k \in 0 + 1 .. n : f[k] = F[k][f[k - 1]]
  <2> DEFINE S == Seq(T)
             b == <<>>
  <2>1. b \in S /\ F \in [0 + 1 .. n -> [S -> S]]
    BY <1>1, <1>3
  <2> HIDE DEF S, b
  <2>2. \E f : IsWalk(f, 0, n, S, b, F)
    BY <1>1, <2>1, Recursion
  <2> QED BY <2>2 DEF S, b, IsWalk
<1>5. ASSUME NEW k \in 1..n PROVE f[k] = step(k, f[k - 1])
  <2>1. f[k - 1] \in Seq(T) /\ k \in 0 + 1 .. n
    BY <1>1
  <2>2. F[k][f[k - 1]] = step(k, f[k - 1])
    BY <2>1 DEF F
  <2> QED BY <1>4, <2>1, <2>2
<1>6. \A k \in 0..n : f[k] = e(f, k)
  <2> SUFFICES ASSUME NEW k \in 0..n PROVE f[k] = e(f, k)
    OBVIOUS
  <2>1. CASE k = 0
    BY <1>4, <2>1
  <2>2. CASE k \in 1..n
    <3>1. k # 0
      BY <2>2
    <3>2. f[k] = step(k, f[k - 1])
      BY <1>5, <2>2
    <3> QED BY <3>1, <3>2
  <2> QED BY <1>1, <2>1, <2>2
<1>7. Is(f)
  <2>1. f = [k \in 0..n |-> f[k]]
    OBVIOUS
  <2> HIDE DEF e
  <2> QED BY <1>6, <2>1
<1> DEFINE g == CHOOSE x : Is(x)
<1>8. Is(g)
  <2> HIDE DEF Is
  <2> QED BY <1>7
<1>9. chosen(list, set) = g[n]
  BY DEF chosen, n
<1> HIDE DEF g
<1>10. \A k \in 0..n : g[k] = e(g, k)
  BY <1>8
<1>11. g[0] = <<>> /\ \A k \in 1..n : g[k] = step(k, g[k - 1])
  BY <1>1, <1>10
<1>12. g \in [0..n -> Seq(T)]
  <2> DEFINE W == {k \in Nat : k <= n => g[k] \in Seq(T)}
  <2>1. 0 \in W
    BY <1>1, <1>11
  <2>2. ASSUME NEW k \in Nat, k \in W PROVE k + 1 \in W
    <3> SUFFICES ASSUME k + 1 <= n PROVE g[k + 1] \in Seq(T)
      OBVIOUS
    <3>1. k + 1 \in 1..n /\ g[k] \in Seq(T) /\ (k + 1) - 1 = k
      BY <1>1, <2>2
    <3> HIDE DEF step
    <3> QED BY <1>2, <1>11, <3>1
  <2> HIDE DEF W
  <2>3. Nat \subseteq W
    BY <2>1, <2>2, Induction
  <2>4. \A k \in 0..n : g[k] \in Seq(T)
    BY <1>1, <2>3 DEF W
  <2>5. g = [k \in 0..n |-> e(g, k)]
    BY <1>8
  <2> HIDE DEF e
  <2> QED BY <2>4, <2>5
<1>13. IsChoice(g, list, set)
  BY <1>11 DEF IsChoice, n
<1> QED BY <1>9, <1>12, <1>13 DEF n

\* One more element at the end.
LEMMA AppendElement ==
  ASSUME NEW T, NEW s \in Seq(T), NEW x \in T
  PROVE  /\ Append(s, x) \in Seq(T) /\ Len(Append(s, x)) = Len(s) + 1
         /\ \A i \in 1..Len(s) : Append(s, x)[i] = s[i]
         /\ Append(s, x)[Len(s) + 1] = x
OBVIOUS

\* What was chosen of a list: how many elements, and that the elements chosen
\* of a beginning of the list are the beginning of all.
firsts(list, set, k) == {i \in 1..k : list[i] \in set}

AreChosen(f, list, set, T) ==
  \A k \in 0..Len(list) :
    /\ f[k] \in Seq(T \cap set)
    /\ Len(f[k]) <= k
    /\ Len(f[k]) = Cardinality(firsts(list, set, k))
    /\ IsFiniteSet(firsts(list, set, k))

LEMMA ChoiceFacts ==
  ASSUME NEW T, NEW list \in Seq(T), NEW set,
         NEW f \in [0..Len(list) -> Seq(T)], IsChoice(f, list, set)
  PROVE  AreChosen(f, list, set, T)
<1> DEFINE n == Len(list)
           C(k) == firsts(list, set, k)
           G(k) == /\ f[k] \in Seq(T \cap set) /\ Len(f[k]) <= k
                   /\ Len(f[k]) = Cardinality(C(k)) /\ IsFiniteSet(C(k))
           W == {k \in Nat : k <= n => G(k)}
<1>1. n \in Nat /\ \A k \in 1..n : list[k] \in T
  OBVIOUS
<1>2. f[0] = <<>> /\ \A k \in 1..n :
        f[k] = IF list[k] \in set THEN Append(f[k - 1], list[k]) ELSE f[k - 1]
  BY DEF IsChoice
<1>3. 0 \in W
  <2>1. C(0) = {}
    BY DEF firsts
  <2>2. Cardinality({}) = 0 /\ IsFiniteSet({})
    BY FS_EmptySet
  <2>3. <<>> \in Seq(T \cap set) /\ Len(<<>>) = 0
    OBVIOUS
  <2>4. f[0] \in Seq(T \cap set) /\ Len(f[0]) = 0
    BY <1>2, <2>3
  <2> HIDE DEF C
  <2>5. Len(f[0]) = Cardinality(C(0)) /\ IsFiniteSet(C(0))
    BY <2>1, <2>2, <2>4
  <2>6. G(0)
    BY <2>4, <2>5
  <2> HIDE DEF G
  <2> QED BY <2>4
<1>4. ASSUME NEW k \in Nat, k \in W PROVE k + 1 \in W
  <2> SUFFICES ASSUME k + 1 <= n PROVE G(k + 1)
    OBVIOUS
  <2>1. k + 1 \in 1..n /\ (k + 1) - 1 = k /\ G(k) /\ list[k + 1] \in T
    BY <1>1, <1>4
  <2>2. f[k + 1] = IF list[k + 1] \in set THEN Append(f[k], list[k + 1]) ELSE f[k]
    BY <1>2, <2>1
  <2>3. CASE list[k + 1] \notin set
    <3>1. C(k + 1) = C(k)
      BY <2>3 DEF firsts
    <3> HIDE DEF C
    <3> QED BY <2>1, <2>2, <2>3, <3>1
  <2>4. CASE list[k + 1] \in set
    <3>1. C(k + 1) = C(k) \cup {k + 1} /\ k + 1 \notin C(k)
      BY <2>4 DEF firsts
    <3> HIDE DEF C
    <3>2. /\ Cardinality(C(k + 1)) = Cardinality(C(k)) + 1
          /\ IsFiniteSet(C(k + 1))
      BY <2>1, <3>1, FS_AddElement
    <3>3. /\ f[k] \in Seq(T \cap set) /\ list[k + 1] \in T \cap set
          /\ f[k + 1] = Append(f[k], list[k + 1])
      BY <2>1, <2>2, <2>4
    <3>4. f[k + 1] \in Seq(T \cap set) /\ Len(f[k + 1]) = Len(f[k]) + 1 /\ Len(f[k]) \in Nat
      BY <3>3, AppendElement
    <3> QED BY <2>1, <3>2, <3>4
  <2> QED BY <2>3, <2>4
<1> HIDE DEF W
<1>5. Nat \subseteq W
  BY <1>3, <1>4, Induction
<1>6. \A k \in 0..n : G(k)
  <2> HIDE DEF G
  <2> QED BY <1>1, <1>5 DEF W
<1> QED BY <1>6 DEF AreChosen

\* What was chosen is extended only at its end.
Begins(s, t) ==
  /\ Len(s) \in Nat /\ Len(s) <= Len(t)
  /\ \A i \in 1..Len(s) : t[i] = s[i]

LEMMA ChoiceGrows ==
  ASSUME NEW T, NEW list \in Seq(T), NEW set,
         NEW f \in [0..Len(list) -> Seq(T)], IsChoice(f, list, set),
         NEW k \in 0..Len(list)
  PROVE  Begins(f[k], f[Len(list)])
<1> DEFINE n == Len(list)
           G(m) == /\ Len(f[k]) <= Len(f[m])
                   /\ \A i \in 1..Len(f[k]) : f[m][i] = f[k][i]
           W == {d \in Nat : k + d <= n => G(k + d)}
<1>1. n \in Nat /\ (\A m \in 1..n : list[m] \in T) /\ Len(f[k]) \in Nat
      /\ \A m \in 0..n : f[m] \in Seq(T) /\ Len(f[m]) \in Nat
  OBVIOUS
<1>2. \A m \in 1..n :
        f[m] = IF list[m] \in set THEN Append(f[m - 1], list[m]) ELSE f[m - 1]
  BY DEF IsChoice
<1>3. 0 \in W
  BY <1>1
<1>4. ASSUME NEW d \in Nat, d \in W PROVE d + 1 \in W
  <2> SUFFICES ASSUME k + (d + 1) <= n PROVE G(k + (d + 1))
    OBVIOUS
  <2> DEFINE m == k + d
  <2>1. m \in 0..n /\ m + 1 \in 1..n /\ (m + 1) - 1 = m /\ G(m) /\ k + (d + 1) = m + 1
    BY <1>1, <1>4
  <2> HIDE DEF m
  <2>2. f[m + 1] = IF list[m + 1] \in set THEN Append(f[m], list[m + 1]) ELSE f[m]
    BY <1>2, <2>1
  <2>3. f[m] \in Seq(T) /\ list[m + 1] \in T /\ Len(f[m]) \in Nat
    BY <1>1, <2>1
  <2>4. /\ Len(Append(f[m], list[m + 1])) = Len(f[m]) + 1
        /\ \A i \in 1..Len(f[m]) : Append(f[m], list[m + 1])[i] = f[m][i]
    BY <2>3, AppendElement
  <2>5. Len(f[m]) <= Len(f[m + 1]) /\ \A i \in 1..Len(f[m]) : f[m + 1][i] = f[m][i]
    <3>1. CASE list[m + 1] \in set
      BY <2>2, <2>3, <2>4, <3>1
    <3>2. CASE list[m + 1] \notin set
      BY <2>2, <2>3, <3>2
    <3> QED BY <3>1, <3>2
  <2>6. m + 1 \in 0..n
    BY <1>1, <2>1
  <2>7. Len(f[k]) <= Len(f[m]) /\ Len(f[m + 1]) \in Nat
    BY <1>1, <2>1, <2>6
  <2>8. G(m + 1)
    BY <1>1, <2>1, <2>3, <2>5, <2>7
  <2> QED BY <2>1, <2>8
<1> HIDE DEF W
<1>5. Nat \subseteq W
  BY <1>3, <1>4, Induction
<1>6. n - k \in W /\ n - k \in Nat /\ k + (n - k) = n
  BY <1>1, <1>5
<1>7. G(n)
  <2> HIDE DEF G
  <2> QED BY <1>1, <1>6 DEF W
<1> QED BY <1>1, <1>7 DEF Begins

-------------------------------------------------------------------------------
(* The pages of the satellites in view.                                    *)

\* The loop over the satellites of one page: it takes the satellites of the
\* system from n on, and stops at four, or at the end of the list.
IsPage(p, T, prns, f, n) ==
  /\ p.svs \in Seq(T) /\ Len(p.svs) \in 0..4
  /\ p.next \in n .. Len(prns) + 1
  /\ Len(p.svs) = 4 \/ p.next = Len(prns) + 1
  /\ Len(f[p.next - 1]) = Len(f[n - 1]) + Len(p.svs)
  /\ \A i \in 1..Len(p.svs) : f[p.next - 1][Len(f[n - 1]) + i] = p.svs[i]

\* The walk that page takes over the list.
IsPageWalk(w, prns, system, n) ==
  /\ w[n - 1] = [svs |-> <<>>, next |-> n]
  /\ \A k \in n .. Len(prns) :
       w[k] = IF Len(w[k - 1].svs) = 4 THEN w[k - 1]
              ELSE seen(w[k - 1], k, prns[k], system)

LEMMA PageWalks ==
  ASSUME NEW T, NEW prns \in Seq(T), NEW system, NEW n \in 1 .. Len(prns) + 1
  PROVE  \E w : IsPageWalk(w, prns, system, n) /\ page(prns, system, n) = w[Len(prns)]
<1> DEFINE L == Len(prns)
           lo == n - 1
           S == [svs : Seq(T), next : Nat]
           b == [svs |-> <<>>, next |-> n]
           step(k, s) == IF Len(s.svs) = 4 THEN s ELSE seen(s, k, prns[k], system)
           F == [k \in lo + 1 .. L |-> [s \in S |-> step(k, s)]]
           e(g, k) == IF k = n - 1 THEN b
                      ELSE LET before == g[k - 1]
                           IN  IF Len(before.svs) = 4 THEN before ELSE seen(before, k, prns[k], system)
           Is(g) == g = [k \in n - 1 .. L |-> e(g, k)]
<1>1. L \in Nat /\ lo \in Int /\ L \in Int /\ lo \in Nat /\ lo <= L /\ b \in S /\ lo + 1 = n
      /\ \A k \in 1..L : prns[k] \in T
  OBVIOUS
<1>2. ASSUME NEW k \in lo + 1 .. L, NEW s \in S PROVE step(k, s) \in S
  <2>1. k \in Nat /\ prns[k] \in T /\ s.svs \in Seq(T)
    BY <1>1
  <2>2. Append(s.svs, prns[k]) \in Seq(T)
    BY <2>1
  <2> QED BY <2>1, <2>2 DEF seen
<1>3. F \in [lo + 1 .. L -> [S -> S]]
  <2> HIDE DEF S, step
  <2> QED BY <1>2
<1>4. \E g : IsWalk(g, lo, L, S, b, F)
  <2> HIDE DEF F, S, b, L, lo
  <2> QED BY <1>1, <1>3, Recursion
<1>5. PICK g : IsWalk(g, lo, L, S, b, F)
  <2> HIDE DEF F, S, b, L, lo
  <2> QED BY <1>4
<1>6. g \in [lo..L -> S] /\ g[lo] = b
      /\ \A k \in lo + 1 .. L : g[k] = F[k][g[k - 1]]
  <2> HIDE DEF F, S, b, L, lo
  <2> QED BY <1>5 DEF IsWalk
<1>7. \A k \in lo + 1 .. L : g[k] = step(k, g[k - 1])
  <2> SUFFICES ASSUME NEW k \in lo + 1 .. L PROVE g[k] = step(k, g[k - 1])
    OBVIOUS
  <2>1. k - 1 \in lo..L
    BY <1>1
  <2> HIDE DEF S, step, b, L, lo
  <2>2. g[k - 1] \in S
    BY <1>6, <2>1
  <2>3. F[k][g[k - 1]] = step(k, g[k - 1])
    BY <2>2
  <2> HIDE DEF F
  <2> QED BY <1>6, <2>3
<1>8. \A k \in lo..L : g[k] = e(g, k)
  <2> SUFFICES ASSUME NEW k \in lo..L PROVE g[k] = e(g, k)
    OBVIOUS
  <2>1. CASE k = lo
    BY <1>6, <2>1
  <2>2. CASE k \in lo + 1 .. L
    <3>1. k # n - 1
      BY <1>1, <2>2
    <3>2. g[k] = step(k, g[k - 1])
      BY <1>7, <2>2
    <3> QED BY <3>1, <3>2
  <2> QED BY <1>1, <2>1, <2>2
<1>9. Is(g)
  <2>1. g = [k \in n - 1 .. L |-> g[k]]
    <3> HIDE DEF S, b, L, F
    <3> QED BY <1>6
  <2> HIDE DEF e
  <2> QED BY <1>8, <2>1
<1> DEFINE w == CHOOSE x : Is(x)
<1>10. Is(w)
  <2> HIDE DEF Is
  <2> QED BY <1>9
<1>11. page(prns, system, n) = w[L]
  BY DEF page
<1> HIDE DEF w
<1>12. \A k \in lo..L : w[k] = e(w, k)
  BY <1>10
<1>13. w[n - 1] = b
  <2>1. lo \in lo..L
    BY <1>1
  <2> QED BY <1>12, <2>1
<1>14. ASSUME NEW k \in n..L PROVE w[k] = step(k, w[k - 1])
  <2>1. k \in lo..L /\ k # n - 1
    BY <1>1
  <2> QED BY <1>12, <2>1
<1>15. IsPageWalk(w, prns, system, n)
  BY <1>13, <1>14 DEF IsPageWalk
<1> QED BY <1>11, <1>15

\* One step of the walk: at four the page is full, else one more satellite
\* of the list was looked at.
IsPageAt(s, T, f, n, k) ==
  /\ s.svs \in Seq(T) /\ Len(s.svs) \in 0..4
  /\ s.next \in n .. k + 1
  /\ Len(s.svs) = 4 \/ s.next = k + 1
  /\ Len(f[s.next - 1]) = Len(f[n - 1]) + Len(s.svs)
  /\ \A i \in 1..Len(s.svs) : f[s.next - 1][Len(f[n - 1]) + i] = s.svs[i]

LEMMA PageStep ==
  ASSUME NEW T, NEW prns \in Seq(T), NEW system,
         NEW f \in [0..Len(prns) -> Seq(T)], IsChoice(f, prns, system),
         NEW n \in 1 .. Len(prns) + 1, NEW k \in n .. Len(prns),
         NEW s, IsPageAt(s, T, f, n, k - 1)
  PROVE  IsPageAt(IF Len(s.svs) = 4 THEN s ELSE seen(s, k, prns[k], system), T, f, n, k)
<1>1. /\ Len(prns) \in Nat /\ k \in 1..Len(prns) /\ n \in Nat /\ k \in Nat
      /\ n - 1 \in 0..Len(prns) /\ (k - 1) + 1 = k /\ k - 1 \in 0..Len(prns)
      /\ (k + 1) - 1 = k
  OBVIOUS
<1>2. PICK c \in Nat : c = Len(f[n - 1])
  <2>1. f[n - 1] \in Seq(T)
    BY <1>1
  <2> QED BY <2>1
<1>3. PICK x \in T : x = prns[k]
  BY <1>1
<1>4. PICK a \in Seq(T) : a = s.svs
  BY DEF IsPageAt
<1>5. /\ Len(a) \in 0..4
      /\ s.next \in n .. k
      /\ Len(a) = 4 \/ s.next = k
      /\ Len(f[s.next - 1]) = c + Len(a)
      /\ \A i \in 1..Len(a) : f[s.next - 1][c + i] = a[i]
  BY <1>1, <1>2, <1>4 DEF IsPageAt
<1>6. CASE Len(a) = 4
  <2>1. s.next \in n .. k + 1
    BY <1>1, <1>5
  <2>2. IsPageAt(s, T, f, n, k)
    BY <1>2, <1>4, <1>5, <1>6, <2>1 DEF IsPageAt
  <2> QED BY <1>4, <1>6, <2>2
<1>7. CASE ~ (Len(a) = 4)
  <2> DEFINE r == seen(s, k, prns[k], system)
  <2>1. s.next = k
    BY <1>5, <1>7
  <2>2. PICK b \in Seq(T) : b = f[k - 1]
    BY <1>1
  <2>3. Len(b) = c + Len(a) /\ \A i \in 1..Len(a) : b[c + i] = a[i]
    BY <1>5, <2>1, <2>2
  <2>4. f[k] = IF x \in system THEN Append(b, x) ELSE b
    BY <1>1, <1>3, <2>2 DEF IsChoice
  <2>5. r.next = k + 1 /\ r.svs = IF x \in system THEN Append(a, x) ELSE a
    BY <1>3, <1>4 DEF seen
  <2> HIDE DEF r
  <2>6. Len(a) + 1 \in 0..4
    <3>1. PICK m \in 0..4 : m = Len(a)
      BY <1>5
    <3>2. m # 4
      BY <1>7, <3>1
    <3>3. m + 1 \in 0..4
      BY <3>2
    <3> QED BY <3>1, <3>3
  <2>7. /\ r.svs \in Seq(T) /\ Len(r.svs) \in 0..4
        /\ Len(f[k]) = c + Len(r.svs)
        /\ \A i \in 1..Len(r.svs) : f[k][c + i] = r.svs[i]
    <3>1. CASE x \in system
      <4>1. f[k] = Append(b, x) /\ r.svs = Append(a, x)
        BY <2>4, <2>5, <3>1
      <4> DEFINE u == Append(a, x)
                 v == Append(b, x)
      <4>2. /\ Len(v) = Len(b) + 1
            /\ \A i \in 1..Len(b) : v[i] = b[i]
            /\ v[Len(b) + 1] = x
            /\ u \in Seq(T) /\ Len(u) = Len(a) + 1
            /\ \A i \in 1..Len(a) : u[i] = a[i]
            /\ u[Len(a) + 1] = x
            /\ Len(a) \in Nat /\ Len(b) \in Nat
        OBVIOUS
      <4> HIDE DEF u, v
      <4>3. ASSUME NEW i \in 1..Len(u) PROVE v[c + i] = u[i]
        <5>1. CASE i \in 1..Len(a)
          <6>1. c + i \in 1..Len(b)
            BY <2>3, <4>2, <5>1
          <6> QED BY <2>3, <4>2, <5>1, <6>1
        <5>2. CASE i = Len(a) + 1
          <6>1. c + i = Len(b) + 1
            BY <2>3, <4>2, <5>2
          <6> QED BY <4>2, <5>2, <6>1
        <5> QED BY <4>2, <5>1, <5>2
      <4>4. f[k] = v /\ r.svs = u
        BY <4>1 DEF u, v
      <4>5. Len(v) = c + Len(u)
        BY <2>3, <4>2
      <4> QED BY <2>6, <4>2, <4>3, <4>4, <4>5
    <3>2. CASE x \notin system
      <4>1. f[k] = b /\ r.svs = a
        BY <2>4, <2>5, <3>2
      <4> QED BY <1>5, <2>3, <4>1
    <3> QED BY <3>1, <3>2
  <2>8. k + 1 \in n .. k + 1
    BY <1>1
  <2>9. IsPageAt(r, T, f, n, k)
    BY <1>1, <1>2, <2>5, <2>7, <2>8 DEF IsPageAt
  <2> QED BY <1>4, <1>7, <2>9 DEF r
<1> QED BY <1>6, <1>7

LEMMA PageFacts ==
  ASSUME NEW T, NEW prns \in Seq(T), NEW system,
         NEW f \in [0..Len(prns) -> Seq(T)], IsChoice(f, prns, system),
         NEW n \in 1 .. Len(prns) + 1
  PROVE  IsPage(page(prns, system, n), T, prns, f, n)
<1>1. PICK w : IsPageWalk(w, prns, system, n) /\ page(prns, system, n) = w[Len(prns)]
  BY PageWalks
<1> DEFINE L == Len(prns)
           lo == n - 1
           W == {d \in Nat : lo + d <= L => IsPageAt(w[lo + d], T, f, n, lo + d)}
<1>2. L \in Nat /\ lo \in 0..L /\ lo + 1 = n
  OBVIOUS
<1>3. w[lo] = [svs |-> <<>>, next |-> n]
      /\ \A k \in n..L : w[k] = IF Len(w[k - 1].svs) = 4 THEN w[k - 1]
                                ELSE seen(w[k - 1], k, prns[k], system)
  BY <1>1 DEF IsPageWalk
<1>4. f[n - 1] \in Seq(T)
  BY <1>2
<1> HIDE DEF L
<1>5. 0 \in W
  <2>1. w[lo].svs = <<>> /\ w[lo].next = n /\ lo + 0 = lo
    BY <1>2, <1>3
  <2>2. <<>> \in Seq(T) /\ Len(<<>>) = 0 /\ Len(f[n - 1]) \in Nat
    BY <1>4
  <2>3. n \in n .. lo + 1 /\ n = lo + 1
    BY <1>2
  <2>4. IsPageAt(w[lo], T, f, n, lo)
    <3> HIDE DEF lo
    <3> QED BY <2>1, <2>2, <2>3 DEF IsPageAt
  <2> QED BY <2>1, <2>4
<1>6. ASSUME NEW d \in Nat, d \in W PROVE d + 1 \in W
  <2> SUFFICES ASSUME lo + (d + 1) <= L PROVE IsPageAt(w[lo + (d + 1)], T, f, n, lo + (d + 1))
    OBVIOUS
  <2> DEFINE k == n + d
  <2>1. k \in n..L /\ k - 1 = lo + d /\ k = lo + (d + 1) /\ lo + d <= L
    BY <1>2
  <2>2. IsPageAt(w[k - 1], T, f, n, k - 1)
    BY <1>6, <2>1
  <2> HIDE DEF k
  <2>3. IsPageAt(w[k], T, f, n, k)
    BY <1>3, <2>1, <2>2, PageStep DEF L
  <2> QED BY <2>1, <2>3
<1> HIDE DEF W
<1>7. Nat \subseteq W
  BY <1>5, <1>6, Induction
<1>8. L - lo \in W /\ lo + (L - lo) = L /\ L - lo \in Nat
  BY <1>2, <1>7
<1>9. IsPageAt(w[L], T, f, n, L)
  BY <1>2, <1>8 DEF W
<1> QED BY <1>1, <1>9 DEF IsPage, IsPageAt, L

\* The part of a sequence that a page shows.
LEMMA PartFacts ==
  ASSUME NEW T, NEW all \in Seq(T), NEW i \in 1 .. Len(all) + 1, NEW j \in i - 1 .. Len(all)
  PROVE  /\ SubSeq(all, i, j) \in Seq(T)
         /\ Len(SubSeq(all, i, j)) = j - i + 1
         /\ \A k \in 1 .. j - i + 1 : SubSeq(all, i, j)[k] = all[i + k - 1]
OBVIOUS

LEMMA SameSequence ==
  ASSUME NEW T, NEW s \in Seq(T), NEW t \in Seq(T), Len(s) = Len(t),
         \A i \in 1..Len(s) : s[i] = t[i]
  PROVE  s = t
OBVIOUS

\* A page that holds what stands in all behind the first c is that part of all.
LEMMA PartOfPage ==
  ASSUME NEW T, NEW all \in Seq(T), NEW p \in Seq(T), NEW c \in Nat,
         c + Len(p) <= Len(all),
         \A i \in 1..Len(p) : all[c + i] = p[i]
  PROVE  p = SubSeq(all, c + 1, c + Len(p))
<1>1. Len(p) \in Nat /\ Len(all) \in Nat
  OBVIOUS
<1> DEFINE i == c + 1
           j == c + Len(p)
           r == SubSeq(all, i, j)
<1>2. i \in 1 .. Len(all) + 1 /\ j \in i - 1 .. Len(all) /\ j - i + 1 = Len(p)
  BY <1>1
<1>3. \A k \in 1..Len(p) : i + k - 1 = c + k
  BY <1>1
<1> HIDE DEF i, j
<1>4. /\ r \in Seq(T) /\ Len(r) = Len(p)
      /\ \A k \in 1..Len(p) : r[k] = all[i + k - 1]
  BY <1>2, PartFacts
<1> HIDE DEF r
<1>5. \A k \in 1..Len(p) : r[k] = p[k]
  BY <1>3, <1>4
<1>6. r = p
  BY <1>4, <1>5, SameSequence
<1> QED BY <1>6 DEF r, i, j

\* A sentence about satellites in view.
Page(type, T) ==
  [type : {type}, of : Nat, number : Nat, count : Nat, svs : Seq(T)]

\* One more page.
More(type, N, C, prns, system, k, s) ==
  [made |-> Append(s.made, [type |-> type, of |-> N, number |-> k, count |-> C,
                            svs |-> page(prns, system, s.next).svs]),
   next |-> page(prns, system, s.next).next]

IsPagesWalk(w, type, N, C, prns, system) ==
  /\ w[0] = [made |-> <<>>, next |-> 1]
  /\ \A k \in 1..N : w[k] = More(type, N, C, prns, system, k, w[k - 1])

LEMMA MoreType ==
  ASSUME NEW T, NEW prns \in Seq(T), NEW system,
         NEW f \in [0..Len(prns) -> Seq(T)], IsChoice(f, prns, system),
         NEW type, NEW N \in Nat, NEW C \in Nat, NEW k \in Nat,
         NEW s \in [made : Seq(Page(type, T)), next : 1 .. Len(prns) + 1]
  PROVE  /\ More(type, N, C, prns, system, k, s)
              \in [made : Seq(Page(type, T)), next : 1 .. Len(prns) + 1]
         /\ IsPage(page(prns, system, s.next), T, prns, f, s.next)
<1> DEFINE p == page(prns, system, s.next)
           m == [type |-> type, of |-> N, number |-> k, count |-> C, svs |-> p.svs]
<1>1. s.made \in Seq(Page(type, T)) /\ s.next \in 1 .. Len(prns) + 1
  OBVIOUS
<1>2. IsPage(p, T, prns, f, s.next)
  BY <1>1, PageFacts
<1>3. More(type, N, C, prns, system, k, s) = [made |-> Append(s.made, m), next |-> p.next]
  BY DEF More
<1> HIDE DEF p
<1>4. p.svs \in Seq(T) /\ p.next \in 1 .. Len(prns) + 1
  <2>1. p.svs \in Seq(T) /\ p.next \in s.next .. Len(prns) + 1
    BY <1>2 DEF IsPage
  <2>2. Len(prns) \in Nat
    OBVIOUS
  <2> QED BY <1>1, <2>1, <2>2
<1>5. m \in Page(type, T)
  BY <1>4 DEF Page
<1> HIDE DEF m
<1>6. Append(s.made, m) \in Seq(Page(type, T))
  BY <1>1, <1>5
<1> QED BY <1>2, <1>3, <1>4, <1>6 DEF p

\* What the code counts first: the satellites of the system, and its pages.
viewed(prns, system) == Cardinality({n \in DOMAIN prns : prns[n] \in system})

sentences(C) == C \div 4 + (IF C % 4 # 0 THEN 1 ELSE 0)

ArePagesWalked(type, N, C, prns, system) ==
  \E w : IsPagesWalk(w, type, N, C, prns, system) /\ pages(type, prns, system) = w[N].made

LEMMA PagesWalk ==
  ASSUME NEW T, NEW prns \in Seq(T), NEW system, NEW type,
         NEW f \in [0..Len(prns) -> Seq(T)], IsChoice(f, prns, system),
         NEW C \in Nat, C = viewed(prns, system), C # 0,
         NEW N \in Nat, N = sentences(C)
  PROVE  ArePagesWalked(type, N, C, prns, system)
<1> DEFINE S == [made : Seq(Page(type, T)), next : 1 .. Len(prns) + 1]
           b == [made |-> <<>>, next |-> 1]
           step(k, s) == More(type, N, C, prns, system, k, s)
           F == [k \in 0 + 1 .. N |-> [s \in S |-> step(k, s)]]
           e(g, k) == IF k = 0 THEN b
                      ELSE LET before == g[k - 1]
                               p      == page(prns, system, before.next)
                           IN  [made |-> Append(before.made,
                                          [type |-> type, of |-> N, number |-> k, count |-> C,
                                           svs |-> p.svs]),
                                next |-> p.next]
           Is(g) == g = [k \in 0..N |-> e(g, k)]
<1>1. 0 \in Int /\ N \in Int /\ 0 <= N /\ b \in S
  <2>1. Len(prns) \in Nat
    OBVIOUS
  <2>2. 1 \in 1 .. Len(prns) + 1
    BY <2>1
  <2> QED BY <2>2
<1>2. ASSUME NEW k \in 0 + 1 .. N, NEW s \in S PROVE step(k, s) \in S
  <2>1. k \in Nat
    OBVIOUS
  <2> QED BY <2>1, MoreType
<1>3. F \in [0 + 1 .. N -> [S -> S]]
  <2> HIDE DEF S, step
  <2> QED BY <1>2
<1>4. \E g : IsWalk(g, 0, N, S, b, F)
  <2> HIDE DEF F, S, b
  <2> QED BY <1>1, <1>3, Recursion
<1>5. PICK g : IsWalk(g, 0, N, S, b, F)
  <2> HIDE DEF F, S, b
  <2> QED BY <1>4
<1>6. g \in [0..N -> S] /\ g[0] = b
      /\ \A k \in 0 + 1 .. N : g[k] = F[k][g[k - 1]]
  <2> HIDE DEF F, S, b
  <2> QED BY <1>5 DEF IsWalk
<1>7. \A k \in 0 + 1 .. N : g[k] = step(k, g[k - 1])
  <2> SUFFICES ASSUME NEW k \in 0 + 1 .. N PROVE g[k] = step(k, g[k - 1])
    OBVIOUS
  <2>1. k - 1 \in 0..N
    OBVIOUS
  <2> HIDE DEF S, step, b
  <2>2. g[k - 1] \in S
    BY <1>6, <2>1
  <2>3. F[k][g[k - 1]] = step(k, g[k - 1])
    BY <2>2
  <2> HIDE DEF F
  <2> QED BY <1>6, <2>3
<1>8. \A k \in 0..N : g[k] = e(g, k)
  <2> SUFFICES ASSUME NEW k \in 0..N PROVE g[k] = e(g, k)
    OBVIOUS
  <2>1. CASE k = 0
    BY <1>6, <2>1
  <2>2. CASE k \in 0 + 1 .. N
    <3>1. k # 0
      BY <2>2
    <3>2. g[k] = step(k, g[k - 1])
      BY <1>7, <2>2
    <3> QED BY <3>1, <3>2 DEF More
  <2> QED BY <2>1, <2>2
<1>9. Is(g)
  <2>1. g = [k \in 0..N |-> g[k]]
    <3> HIDE DEF S, b, F
    <3> QED BY <1>6
  <2> HIDE DEF e
  <2> QED BY <1>8, <2>1
<1> DEFINE w == CHOOSE x : Is(x)
<1>10. Is(w)
  <2> HIDE DEF Is
  <2> QED BY <1>9
<1>11. pages(type, prns, system) = w[N].made
  BY DEF pages, viewed, sentences
<1> HIDE DEF w
<1>12. \A k \in 0..N : w[k] = e(w, k)
  BY <1>10
<1>13. w[0] = b
  <2>1. 0 \in 0..N
    OBVIOUS
  <2> QED BY <1>12, <2>1
<1>14. ASSUME NEW k \in 1..N PROVE w[k] = step(k, w[k - 1])
  <2>1. k \in 0..N /\ k # 0
    OBVIOUS
  <2> QED BY <1>12, <2>1 DEF More
<1>15. IsPagesWalk(w, type, N, C, prns, system)
  BY <1>13, <1>14 DEF IsPagesWalk
<1> QED BY <1>11, <1>15 DEF ArePagesWalked

\* The pages made so far: k of them, which hold the first 4 * k satellites of
\* the system, or all of them.
ArePages(s, prns, f, type, N, all, k) ==
  /\ s.made \in Seq(Page(type, Nat)) /\ Len(s.made) = k
  /\ s.next \in 1 .. Len(prns) + 1
  /\ Len(f[s.next - 1]) = IF 4 * k < Len(all) THEN 4 * k ELSE Len(all)
  /\ \A j \in 1..k : s.made[j] = fours(type, all, j)

\* The numbers of a page: the code's count of pages, and which satellites the
\* next page shows.
LEMMA Counts ==
  ASSUME NEW C \in Nat, C # 0
  PROVE  /\ sentences(C) = (C + 3) \div 4
         /\ (C + 3) \div 4 \in Nat
         /\ 4 * ((C + 3) \div 4) >= C
         /\ \A k \in Nat : k < (C + 3) \div 4 => 4 * k < C
BY DEF sentences

\* A satellite of the next page is among those shown after it.
LEMMA WithinPage ==
  ASSUME NEW b \in Nat, NEW q \in 0..4, NEW d \in Nat, b + q = d, NEW i \in 1..q
  PROVE  b + i \in 1..d
OBVIOUS

LEMMA PageEnd ==
  ASSUME NEW C \in Nat, NEW k \in Nat, NEW d \in Nat, NEW q \in 0..4,
         d = 4 * k + q, q = 4 \/ d = C, d <= C
  PROVE  d = IF 4 * (k + 1) < C THEN 4 * (k + 1) ELSE C
OBVIOUS

LEMMA MorePages ==
  ASSUME NEW prns \in Seq(Nat), NEW system,
         NEW f \in [0..Len(prns) -> Seq(Nat)], IsChoice(f, prns, system),
         NEW type, NEW N \in Nat, NEW C \in Nat,
         NEW all \in Seq(Nat), all = f[Len(prns)], Len(all) = C, C # 0, N = pagesFor(C),
         NEW k \in 0 .. N - 1, NEW s, ArePages(s, prns, f, type, N, all, k),
         s = [made |-> s.made, next |-> s.next]
  PROVE  ArePages(More(type, N, C, prns, system, k + 1, s), prns, f, type, N, all, k + 1)
<1> DEFINE p == page(prns, system, s.next)
           m == [type |-> type, of |-> N, number |-> k + 1, count |-> C, svs |-> p.svs]
           r == More(type, N, C, prns, system, k + 1, s)
           c == Len(f[s.next - 1])
<1>1. /\ s.made \in Seq(Page(type, Nat)) /\ Len(s.made) = k
      /\ s.next \in 1 .. Len(prns) + 1
      /\ c = IF 4 * k < Len(all) THEN 4 * k ELSE Len(all)
      /\ \A j \in 1..k : s.made[j] = fours(type, all, j)
  BY DEF ArePages
<1>2. s \in [made : Seq(Page(type, Nat)), next : 1 .. Len(prns) + 1]
  BY <1>1
<1>3. /\ r \in [made : Seq(Page(type, Nat)), next : 1 .. Len(prns) + 1]
      /\ IsPage(p, Nat, prns, f, s.next)
  <2>1. k + 1 \in Nat
    OBVIOUS
  <2> QED BY <1>2, <2>1, MoreType
<1>4. r.made = Append(s.made, m) /\ r.next = p.next
  BY DEF More
<1>5. N = (C + 3) \div 4
  BY DEF pagesFor
<1>6. 4 * k < C
  <2>1. k \in Nat /\ k < N
    OBVIOUS
  <2> QED BY <1>5, <2>1, Counts
<1> HIDE DEF p, r, c
<1>7. c = 4 * k
  BY <1>1, <1>6
<1>8. /\ p.svs \in Seq(Nat) /\ Len(p.svs) \in 0..4
      /\ Len(p.svs) = 4 \/ p.next = Len(prns) + 1
      /\ Len(f[p.next - 1]) = c + Len(p.svs)
      /\ \A i \in 1..Len(p.svs) : f[p.next - 1][c + i] = p.svs[i]
  BY <1>3 DEF IsPage, c
<1>9. Len(prns) \in Nat /\ p.next - 1 \in 0..Len(prns)
  <2>1. Len(prns) \in Nat /\ p.next \in 1 .. Len(prns) + 1
    BY <1>3, <1>4
  <2> QED BY <2>1
<1>10. PICK q \in 0..4 : q = Len(p.svs)
  BY <1>8
<1>11. PICK e \in 0..Len(prns) : e = p.next - 1
  BY <1>9
<1>12. PICK g \in Seq(Nat) : g = f[e]
  OBVIOUS
<1>13. PICK d \in Nat : d = Len(g)
  <2>1. Len(g) \in Nat
    BY <1>12
  <2> QED BY <2>1
<1> HIDE DEF m
<1>14. d <= C /\ \A i \in 1..d : all[i] = g[i]
  <2>1. e \in 0..Len(prns)
    BY <1>11
  <2>2. Begins(f[e], f[Len(prns)])
    BY <2>1, ChoiceGrows
  <2>3. Begins(g, all)
    BY <1>12, <2>2
  <2> QED BY <1>13, <2>3 DEF Begins
<1>15. d = IF 4 * (k + 1) < C THEN 4 * (k + 1) ELSE C
  <2>1. d = 4 * k + q
    BY <1>7, <1>8, <1>10, <1>11, <1>12, <1>13
  <2>2. q = 4 \/ d = C
    <3>1. ASSUME p.next = Len(prns) + 1 PROVE d = C
      <4>1. e = Len(prns)
        BY <1>9, <1>11, <3>1
      <4> QED BY <1>12, <1>13, <4>1
    <3> QED BY <1>8, <1>10, <3>1
  <2>3. d <= C
    BY <1>14
  <2>4. k \in Nat
    OBVIOUS
  <2> QED BY <1>10, <1>13, <2>1, <2>2, <2>3, <2>4, PageEnd
<1>16. p.svs = SubSeq(all, 4 * k + 1, d)
  <2>1. 4 * k \in Nat /\ 4 * k + q = d
    BY <1>7, <1>8, <1>10, <1>11, <1>12, <1>13
  <2>2. ASSUME NEW i \in 1..q PROVE all[4 * k + i] = p.svs[i]
    <3>1. 4 * k + i \in 1..d
      <4>1. PICK b \in Nat : b = 4 * k
        BY <2>1
      <4>2. b + q = d
        BY <2>1, <4>1
      <4>3. b + i \in 1..d
        BY <4>2, WithinPage
      <4> QED BY <4>1, <4>3
    <3>2. g[4 * k + i] = p.svs[i]
      BY <1>7, <1>8, <1>10, <1>11, <1>12
    <3> QED BY <1>14, <3>1, <3>2
  <2>3. PICK a \in Seq(Nat) : a = p.svs
    BY <1>8
  <2>4. PICK b \in Nat : b = 4 * k
    BY <2>1
  <2>5. b + Len(a) <= Len(all) /\ \A i \in 1..Len(a) : all[b + i] = a[i]
    BY <1>10, <1>14, <2>1, <2>2, <2>3, <2>4
  <2>6. a = SubSeq(all, b + 1, b + Len(a))
    BY <2>5, PartOfPage
  <2>7. b + Len(a) = d
    BY <1>10, <2>1, <2>3, <2>4
  <2> QED BY <2>3, <2>4, <2>6, <2>7
<1>17. m = fours(type, all, k + 1)
  <2>1. 4 * ((k + 1) - 1) + 1 = 4 * k + 1
    OBVIOUS
  <2> QED BY <1>15, <1>16, <2>1 DEF fours, m
<1>18. m \in Page(type, Nat)
  <2>1. k + 1 \in Nat
    OBVIOUS
  <2> QED BY <1>8, <2>1 DEF Page, m
<1> DEFINE u == s.made
<1> HIDE DEF u
<1>19. PICK v \in Seq(Page(type, Nat)) : v = u
  BY <1>1 DEF u
<1> DEFINE z == Append(v, m)
<1>20. /\ Len(z) = Len(v) + 1
       /\ \A i \in 1..Len(v) : z[i] = v[i]
       /\ z[Len(v) + 1] = m
  BY <1>18
<1> HIDE DEF z
<1>21. Len(v) = k /\ Len(z) = k + 1
  BY <1>1, <1>19, <1>20 DEF u
<1>22. r.made = z
  BY <1>4, <1>19 DEF z, u, m
<1>23. \A j \in 1 .. k + 1 : z[j] = fours(type, all, j)
  <2> SUFFICES ASSUME NEW j \in 1 .. k + 1 PROVE z[j] = fours(type, all, j)
    OBVIOUS
  <2>1. CASE j \in 1..k
    BY <1>1, <1>19, <1>20, <1>21, <2>1 DEF u
  <2>2. CASE j = k + 1
    BY <1>17, <1>20, <1>21, <2>2
  <2> QED BY <2>1, <2>2
<1>24. r.made \in Seq(Page(type, Nat)) /\ r.next \in 1 .. Len(prns) + 1
  BY <1>3
<1>25. Len(f[r.next - 1]) = IF 4 * (k + 1) < Len(all) THEN 4 * (k + 1) ELSE Len(all)
  BY <1>4, <1>11, <1>12, <1>13, <1>15
<1>26. ArePages(r, prns, f, type, N, all, k + 1)
  BY <1>21, <1>22, <1>23, <1>24, <1>25 DEF ArePages
<1> QED BY <1>26 DEF r

\* What loc_eng_nmea_generate_sv makes for one system: the k-th page shows the
\* k-th four of its satellites.
LEMMA PagesFacts ==
  ASSUME NEW prns \in Seq(Nat), NEW system, NEW type
  PROVE  LET all == chosen(prns, system)
             n   == pagesFor(Len(all))
         IN  /\ all \in Seq(Nat) /\ n \in Nat \ {0}
             /\ pages(type, prns, system) \in Seq(Page(type, Nat))
             /\ Len(pages(type, prns, system)) = n
             /\ \A k \in 1..n : pages(type, prns, system)[k] = fours(type, all, k)
<1>1. PICK f \in [0..Len(prns) -> Seq(Nat)] :
        IsChoice(f, prns, system) /\ chosen(prns, system) = f[Len(prns)]
  BY ChoiceExists
<1>2. Len(prns) \in Nat /\ Len(prns) \in 0..Len(prns) /\ DOMAIN prns = 1..Len(prns)
  OBVIOUS
<1>3. PICK all \in Seq(Nat) : all = chosen(prns, system)
  BY <1>1, <1>2
<1>4. PICK C \in Nat : C = Len(all)
  OBVIOUS
<1>5. C = viewed(prns, system)
  <2>1. Len(f[Len(prns)]) = Cardinality(firsts(prns, system, Len(prns)))
    <3>1. IsChoice(f, prns, system)
      BY <1>1
    <3>2. AreChosen(f, prns, system, Nat)
      BY <3>1, ChoiceFacts
    <3> QED BY <1>2, <3>2 DEF AreChosen
  <2>2. firsts(prns, system, Len(prns)) = {i \in DOMAIN prns : prns[i] \in system}
    BY <1>2 DEF firsts
  <2> QED BY <1>1, <1>3, <1>4, <2>1, <2>2 DEF viewed
<1>6. CASE C = 0
  <2> DEFINE m == [type |-> type, of |-> 1, number |-> 1, count |-> 0, svs |-> <<>>]
  <2>1. pages(type, prns, system) = <<m>>
    BY <1>5, <1>6 DEF pages, viewed
  <2>2. pagesFor(C) = 1
    BY <1>6 DEF pagesFor
  <2>3. all = <<>>
    BY <1>4, <1>6
  <2>4. SubSeq(all, 1, 0) = <<>>
    BY <2>3
  <2>5. m = fours(type, all, 1)
    <3>1. 4 * (1 - 1) + 1 = 1 /\ ~ (4 * 1 < 0)
      OBVIOUS
    <3>2. Len(all) = 0
      BY <1>4, <1>6
    <3> QED BY <1>4, <1>6, <2>2, <2>4, <3>1, <3>2 DEF fours
  <2>6. m \in Page(type, Nat)
    BY DEF Page
  <2> HIDE DEF m
  <2>7. <<m>> \in Seq(Page(type, Nat)) /\ Len(<<m>>) = 1 /\ <<m>>[1] = m
    BY <2>6
  <2> QED BY <1>3, <1>4, <2>1, <2>2, <2>5, <2>7
<1>7. CASE C # 0
  <2>1. PICK N \in Nat : N = sentences(C)
    BY DEF sentences
  <2>2. N = pagesFor(C) /\ N # 0
    BY <1>7, <2>1, Counts DEF pagesFor
  <2>3. PICK w : IsPagesWalk(w, type, N, C, prns, system)
                 /\ pages(type, prns, system) = w[N].made
    <3>1. IsChoice(f, prns, system)
      BY <1>1
    <3>2. ArePagesWalked(type, N, C, prns, system)
      BY <1>5, <1>7, <2>1, <3>1, PagesWalk
    <3> QED BY <3>2 DEF ArePagesWalked
  <2> DEFINE W == {k \in Nat : k <= N => /\ w[k] = [made |-> w[k].made, next |-> w[k].next]
                                         /\ ArePages(w[k], prns, f, type, N, all, k)}
  <2>4. 0 \in W
    <3>1. w[0] = [made |-> <<>>, next |-> 1]
      BY <2>3 DEF IsPagesWalk
    <3>2. f[0] = <<>>
      BY <1>1 DEF IsChoice
    <3>3. w[0].made = <<>> /\ w[0].next = 1 /\ 1 \in 1 .. Len(prns) + 1 /\ 1 - 1 = 0
      BY <1>2, <3>1
    <3>4. <<>> \in Seq(Page(type, Nat)) /\ Len(<<>>) = 0
      OBVIOUS
    <3>5. Len(f[0]) = IF 4 * 0 < Len(all) THEN 4 * 0 ELSE Len(all)
      BY <1>4, <3>2, <3>4
    <3>6. ArePages(w[0], prns, f, type, N, all, 0)
      BY <3>3, <3>4, <3>5 DEF ArePages
    <3> QED BY <3>1, <3>6
  <2>5. ASSUME NEW k \in Nat, k \in W PROVE k + 1 \in W
    <3> SUFFICES ASSUME k + 1 <= N
                 PROVE  /\ w[k + 1] = [made |-> w[k + 1].made, next |-> w[k + 1].next]
                        /\ ArePages(w[k + 1], prns, f, type, N, all, k + 1)
      OBVIOUS
    <3>1. k \in 0 .. N - 1 /\ k <= N /\ k + 1 \in 1..N /\ (k + 1) - 1 = k
      OBVIOUS
    <3>2. w[k] = [made |-> w[k].made, next |-> w[k].next]
          /\ ArePages(w[k], prns, f, type, N, all, k)
      BY <2>5, <3>1
    <3>3. w[k + 1] = More(type, N, C, prns, system, k + 1, w[k])
      BY <2>3, <3>1 DEF IsPagesWalk
    <3>4. ArePages(More(type, N, C, prns, system, k + 1, w[k]), prns, f, type, N, all, k + 1)
      BY <1>1, <1>3, <1>4, <1>7, <2>2, <3>1, <3>2, MorePages
    <3>5. w[k + 1] = [made |-> w[k + 1].made, next |-> w[k + 1].next]
      BY <3>3 DEF More
    <3> QED BY <3>3, <3>4, <3>5
  <2> HIDE DEF W
  <2>6. Nat \subseteq W
    BY <2>4, <2>5, Induction
  <2>7. ArePages(w[N], prns, f, type, N, all, N)
    <3>1. N \in W /\ N <= N
      BY <2>6
    <3> QED BY <3>1 DEF W
  <2> QED BY <1>3, <1>4, <2>2, <2>3, <2>7 DEF ArePages
<1> QED BY <1>6, <1>7

-------------------------------------------------------------------------------
(* The list of the satellites used.                                        *)

numbers == [i \in GPS |-> i]

LEMMA Numbers ==
  numbers \in Seq(GPS) /\ Len(numbers) = 32 /\ \A i \in GPS : numbers[i] = i
BY DEF numbers, GPS

LEMMA UsedFacts ==
  ASSUME NEW used, used \subseteq GPS
  PROVE  /\ svUsedList(used) \in Seq(GPS)
         /\ Len(svUsedList(used)) <= 12
         /\ Cardinality(used) \in 0..32
         /\ svUsedList(used) = <<>> <=> Cardinality(used) = 0
<1>1. PICK f \in [0..Len(numbers) -> Seq(GPS)] :
        IsChoice(f, numbers, used) /\ chosen(numbers, used) = f[Len(numbers)]
  <2>1. numbers \in Seq(GPS)
    BY Numbers
  <2> QED BY <2>1, ChoiceExists
<1>2. AreChosen(f, numbers, used, GPS)
  <2>1. IsChoice(f, numbers, used)
    BY <1>1
  <2> QED BY <2>1, Numbers, ChoiceFacts
<1>3. 32 \in 0..Len(numbers)
  BY Numbers
<1>4. firsts(numbers, used, 32) = used
  BY Numbers DEF firsts, GPS
<1>5. PICK all \in Seq(GPS) : all = chosen(numbers, used)
  <2>1. f[32] \in Seq(GPS)
    BY <1>3
  <2> QED BY <1>1, <2>1, Numbers
<1>6. PICK n \in Nat : n = Len(all)
  <2>1. Len(all) \in Nat
    BY <1>5
  <2> QED BY <2>1
<1>7. n <= 32 /\ n = Cardinality(used)
  BY <1>1, <1>2, <1>3, <1>4, <1>5, <1>6, Numbers DEF AreChosen
<1>8. n \in 0..32
  <2>1. n \in Nat
    BY <1>6
  <2>2. n <= 32
    BY <1>7
  <2> QED BY <2>1, <2>2
<1>9. Cardinality(used) = n
  BY <1>7
<1>10. svUsedList(used) = IF n > 12 THEN SubSeq(all, 1, 12) ELSE all
  BY <1>5, <1>6 DEF svUsedList, numbers
<1>11. CASE n > 12
  <2> DEFINE r == SubSeq(all, 1, 12)
  <2>1. 1 \in 1 .. Len(all) + 1 /\ 12 \in 1 - 1 .. Len(all) /\ 12 - 1 + 1 = 12
    BY <1>6, <1>11
  <2>2. r \in Seq(GPS) /\ Len(r) = 12 - 1 + 1
    BY <2>1, PartFacts
  <2> HIDE DEF r
  <2>3. svUsedList(used) = r
    BY <1>10, <1>11 DEF r
  <2>4. Len(r) = 12 /\ Len(<<>>) = 0
    BY <2>2
  <2>5. r # <<>> /\ Len(r) <= 12
    BY <2>4
  <2>6. Cardinality(used) \in 0..32 /\ Cardinality(used) # 0
    <3>1. n # 0
      BY <1>11
    <3> QED BY <1>8, <1>9, <3>1
  <2> QED BY <2>2, <2>3, <2>5, <2>6
<1>12. CASE n <= 12
  <2>1. svUsedList(used) = all
    BY <1>10, <1>12
  <2>2. all = <<>> <=> n = 0
    BY <1>5, <1>6
  <2>3. Len(all) <= 12
    BY <1>6, <1>12
  <2> QED BY <1>5, <1>8, <1>9, <2>1, <2>2, <2>3
<1> QED BY <1>11, <1>12

-------------------------------------------------------------------------------
(* The sentences of a report.                                              *)

\* What the properties ask of each sentence.
Good(s) ==
  /\ s \in Sentence
  /\ s.type = "GPGSA" => /\ Len(s.svs) <= 12
                         /\ (s.fixType = 1) <=> (s.svs = <<>>)
  /\ s.type = "GPGSA" /\ s.dop.kind = "kept" => svUsedList(s.dop.of) = s.svs

LEMMA FixGood ==
  ASSUME NEW p \in Position, NEW c,
         sv_used_mask \subseteq GPS, dop # {} => dop = sv_used_mask
  PROVE  \A i \in DOMAIN fixSentences(p, c) : Good(fixSentences(p, c)[i])
<1> DEFINE d == dilution(p)
           m == ModeChar(p, c)
           q == Quality(p, c)
           n == Cardinality(sv_used_mask)
           l == svUsedList(sv_used_mask)
           s1 == [type |-> "GPGSA", fixType |-> FixType(n), svs |-> l, dop |-> d]
           s2 == [type |-> "GPVTG", mode |-> m]
           s3 == [type |-> "GPRMC", status |-> "A", mode |-> m]
           s4 == [type |-> "GPGGA", quality |-> q, used |-> n, dop |-> d]
<1>1. l \in Seq(GPS) /\ Len(l) <= 12 /\ n \in 0..32 /\ (l = <<>> <=> n = 0)
  BY UsedFacts
<1>2. d \in Dilution
  BY DEF dilution, Dilution
<1>3. d.kind = "kept" => d.of = sv_used_mask
  BY DEF dilution
<1>4. m \in {"N", "A", "D"}
  BY DEF ModeChar
<1>5. q \in 0..2
  BY DEF Quality
<1>7. FixType(n) \in 1..3 /\ (FixType(n) = 1 <=> n = 0)
  BY <1>1 DEF FixType
<1>8. fixSentences(p, c) = <<s1, s2, s3, s4>>
  BY DEF fixSentences
<1> HIDE DEF d, m, q, n, l
<1>9. Good(s1)
  <2>1. s1 \in [type : {"GPGSA"}, fixType : 1..3, svs : Seq(GPS), dop : Dilution]
    BY <1>1, <1>2, <1>7
  <2>2. s1 \in Sentence
    BY <2>1 DEF Sentence
  <2>3. d.kind = "kept" => svUsedList(d.of) = l
    BY <1>3 DEF l
  <2> QED BY <1>1, <1>7, <2>2, <2>3 DEF Good
<1>10. Good(s2)
  <2>1. s2 \in [type : {"GPVTG"}, mode : {"N", "A", "D"}]
    BY <1>4
  <2> QED BY <2>1 DEF Good, Sentence
<1>11. Good(s3)
  <2>1. s3 \in [type : {"GPRMC"}, status : {"A", "V"}, mode : {"N", "A", "D"}]
    BY <1>4
  <2> QED BY <2>1 DEF Good, Sentence
<1>12. Good(s4)
  <2>1. s4 \in [type : {"GPGGA"}, quality : 0..2, used : 0..32, dop : Dilution]
    BY <1>1, <1>2, <1>5
  <2>2. s4 \in Sentence
    BY <2>1 DEF Sentence
  <2> QED BY <2>2 DEF Good
<1> HIDE DEF s1, s2, s3, s4
<1>13. DOMAIN <<s1, s2, s3, s4>> = 1..4
  OBVIOUS
<1>14. ASSUME NEW i \in 1..4 PROVE Good(<<s1, s2, s3, s4>>[i])
  <2>1. i = 1 \/ i = 2 \/ i = 3 \/ i = 4
    OBVIOUS
  <2> QED BY <1>9, <1>10, <1>11, <1>12, <2>1
<1> QED BY <1>8, <1>13, <1>14

\* The sentences of no fix are four others than those of satellites in view.
LEMMA BlankGood ==
  /\ blankSentences \in Seq(Sentence)
  /\ \A i \in 1..Len(blankSentences) :
       /\ blankSentences[i].type \notin {"GPGSV", "GLGSV"}
       /\ Good(blankSentences[i])
<1> DEFINE d == [kind |-> "none"]
           s1 == [type |-> "GPGSA", fixType |-> 1, svs |-> <<>>, dop |-> d]
           s2 == [type |-> "GPVTG", mode |-> "N"]
           s3 == [type |-> "GPRMC", status |-> "V", mode |-> "N"]
           s4 == [type |-> "GPGGA", quality |-> 0, used |-> 0, dop |-> d]
           Fine(s) == /\ s \in Sentence /\ s.type \notin {"GPGSV", "GLGSV"}
                      /\ Good(s)
<1>1. d \in Dilution /\ d.kind = "none"
  BY DEF Dilution
<1>2. blankSentences = <<s1, s2, s3, s4>>
  BY DEF blankSentences
<1> HIDE DEF d
<1>3. Fine(s1)
  <2>1. <<>> \in Seq(GPS) /\ Len(<<>>) <= 12
    OBVIOUS
  <2>2. s1 \in [type : {"GPGSA"}, fixType : 1..3, svs : Seq(GPS), dop : Dilution]
    BY <1>1, <2>1
  <2>3. s1 \in Sentence
    BY <2>2 DEF Sentence
  <2> QED BY <1>1, <2>1, <2>3 DEF Good
<1>4. Fine(s2)
  <2>1. s2 \in [type : {"GPVTG"}, mode : {"N", "A", "D"}]
    OBVIOUS
  <2> QED BY <2>1 DEF Good, Sentence
<1>5. Fine(s3)
  <2>1. s3 \in [type : {"GPRMC"}, status : {"A", "V"}, mode : {"N", "A", "D"}]
    OBVIOUS
  <2> QED BY <2>1 DEF Good, Sentence
<1>6. Fine(s4)
  <2>1. s4 \in [type : {"GPGGA"}, quality : 0..2, used : 0..32, dop : Dilution]
    BY <1>1
  <2>2. s4 \in Sentence
    BY <2>1 DEF Sentence
  <2> QED BY <2>2 DEF Good
<1> HIDE DEF s1, s2, s3, s4
<1>7. <<s1, s2, s3, s4>> \in Seq(Sentence) /\ Len(<<s1, s2, s3, s4>>) = 4
  BY <1>3, <1>4, <1>5, <1>6
<1>8. ASSUME NEW i \in 1..4 PROVE Fine(<<s1, s2, s3, s4>>[i])
  <2> HIDE DEF Fine
  <2>1. i = 1 \/ i = 2 \/ i = 3 \/ i = 4
    OBVIOUS
  <2> QED BY <1>3, <1>4, <1>5, <1>6, <2>1
<1> QED BY <1>2, <1>7, <1>8

\* A page is a sentence of which the properties of a position ask nothing.
LEMMA PageGood ==
  ASSUME NEW type \in {"GPGSV", "GLGSV"}, NEW m \in Page(type, Nat)
  PROVE  m \in Sentence /\ m.type = type /\ Good(m)
<1>1. m \in [type : {"GPGSV", "GLGSV"}, of : Nat, number : Nat, count : Nat, svs : Seq(Nat)]
      /\ m.type = type
  BY DEF Page
<1>2. m \in Sentence
  BY <1>1 DEF Sentence
<1> QED BY <1>1, <1>2 DEF Good

-------------------------------------------------------------------------------
(* The pages among the sentences of a report.                              *)

CarriedIn(s, prns, type, system) ==
  LET all == chosen(prns, system)
      n == pagesFor(Len(all))
  IN  \E first \in 0 .. Len(s) - n :
        /\ \A i \in DOMAIN s : s[i].type = type <=> i - first \in 1..n
        /\ \A k \in 1..n : s[first + k] = fours(type, all, k)

LEMMA Carried ==
  ASSUME NEW S, NEW s \in Seq(S), NEW prns, NEW type, NEW system,
         NEW n \in Nat, n = pagesFor(Len(chosen(prns, system))),
         NEW first \in Nat, first + n <= Len(s),
         \A i \in 1..Len(s) : s[i].type = type <=> first < i /\ i <= first + n,
         \A k \in 1..n : s[first + k] = fours(type, chosen(prns, system), k)
  PROVE  CarriedIn(s, prns, type, system)
<1>1. Len(s) \in Nat /\ DOMAIN s = 1..Len(s)
  OBVIOUS
<1>2. first \in 0 .. Len(s) - n
  BY <1>1
<1>3. \A i \in DOMAIN s : s[i].type = type <=> i - first \in 1..n
  BY <1>1
<1> QED BY <1>2, <1>3 DEF CarriedIn

\* Two sequences, one behind the other.
IsBehind(x, s, t, n, m, S) ==
  /\ x \in Seq(S) /\ Len(x) = n + m
  /\ \A i \in 1..n : x[i] = s[i]
  /\ \A i \in n + 1 .. n + m : x[i] = t[i - n]

LEMMA Behind ==
  ASSUME NEW S, NEW s \in Seq(S), NEW t \in Seq(S),
         NEW n, n = Len(s), NEW m, m = Len(t), NEW x, x = s \o t
  PROVE  IsBehind(x, s, t, n, m, S)
BY DEF IsBehind

\* The pages of both systems, and behind them sentences w of another kind.
AreViews(s, prns) ==
  /\ CarriedIn(s, prns, "GPGSV", GPS) /\ CarriedIn(s, prns, "GLGSV", GLONASS)
  /\ \A i \in DOMAIN s : Good(s[i])

LEMMA ViewsCarried ==
  ASSUME NEW prns \in Seq(Nat),
         NEW w \in Seq(Sentence),
         \A i \in 1..Len(w) : /\ w[i].type \notin {"GPGSV", "GLGSV"}
                              /\ Good(w[i]),
         NEW s, s = (pages("GPGSV", prns, GPS) \o pages("GLGSV", prns, GLONASS)) \o w
  PROVE  AreViews(s, prns)
<1> DEFINE p == pages("GPGSV", prns, GPS)
           q == pages("GLGSV", prns, GLONASS)
           n == pagesFor(Len(chosen(prns, GPS)))
           m == pagesFor(Len(chosen(prns, GLONASS)))
<1>1. /\ n \in Nat /\ p \in Seq(Page("GPGSV", Nat)) /\ Len(p) = n
      /\ \A k \in 1..n : p[k] = fours("GPGSV", chosen(prns, GPS), k)
  BY PagesFacts
<1>2. /\ m \in Nat /\ q \in Seq(Page("GLGSV", Nat)) /\ Len(q) = m
      /\ \A k \in 1..m : q[k] = fours("GLGSV", chosen(prns, GLONASS), k)
  BY PagesFacts
<1> HIDE DEF p, q
<1>3. /\ p \in Seq(Sentence)
      /\ \A i \in 1..Len(p) : p[i].type = "GPGSV" /\ Good(p[i])
  <2>1. \A x \in Page("GPGSV", Nat) : x \in Sentence /\ x.type = "GPGSV" /\ Good(x)
    BY PageGood
  <2> QED BY <1>1, <2>1
<1>4. /\ q \in Seq(Sentence)
      /\ \A i \in 1..Len(q) : q[i].type = "GLGSV" /\ Good(q[i])
  <2>1. \A x \in Page("GLGSV", Nat) : x \in Sentence /\ x.type = "GLGSV" /\ Good(x)
    BY PageGood
  <2> QED BY <1>2, <2>1
<1> HIDE DEF n, m
<1> DEFINE v == p \o q
<1>5. /\ v \in Seq(Sentence) /\ Len(v) = n + m
      /\ \A i \in 1..n : v[i] = p[i]
      /\ \A i \in n + 1 .. n + m : v[i] = q[i - n]
  <2>1. p \in Seq(Sentence) /\ q \in Seq(Sentence) /\ n = Len(p) /\ m = Len(q)
    BY <1>1, <1>2, <1>3, <1>4
  <2>2. IsBehind(v, p, q, n, m, Sentence)
    BY <2>1, Behind
  <2> HIDE DEF v
  <2> QED BY <2>2 DEF IsBehind
<1>6. s = v \o w
  BY DEF p, q
<1> HIDE DEF v
<1>7. PICK l \in Nat : l = Len(w)
  <2>1. Len(w) \in Nat
    OBVIOUS
  <2> QED BY <2>1
<1>8. /\ s \in Seq(Sentence) /\ Len(s) = (n + m) + l
      /\ \A i \in 1 .. n + m : s[i] = v[i]
      /\ \A i \in (n + m) + 1 .. (n + m) + l : s[i] = w[i - (n + m)]
  <2>1. v \in Seq(Sentence) /\ n + m = Len(v) /\ l = Len(w)
    BY <1>5, <1>7
  <2>2. IsBehind(s, v, w, n + m, l, Sentence)
    BY <1>6, <2>1, Behind
  <2> QED BY <2>2 DEF IsBehind
<1>9. ASSUME NEW i \in 1..n
      PROVE  s[i] = p[i] /\ s[i].type = "GPGSV" /\ Good(s[i])
  <2>1. i \in 1 .. n + m
    BY <1>1, <1>2
  <2>2. s[i] = p[i]
    BY <1>5, <1>8, <2>1
  <2> QED BY <1>1, <1>3, <2>2
<1>10. ASSUME NEW i \in n + 1 .. n + m
       PROVE  s[i] = q[i - n] /\ s[i].type = "GLGSV" /\ Good(s[i])
  <2>1. i \in 1 .. n + m /\ i - n \in 1..m
    BY <1>1, <1>2
  <2>2. s[i] = q[i - n]
    BY <1>5, <1>8, <2>1
  <2> QED BY <1>2, <1>4, <2>1, <2>2
<1>11. ASSUME NEW i \in (n + m) + 1 .. (n + m) + l
       PROVE  s[i].type \notin {"GPGSV", "GLGSV"} /\ Good(s[i])
  <2>1. i - (n + m) \in 1..Len(w)
    BY <1>1, <1>2, <1>7
  <2>2. s[i] = w[i - (n + m)]
    BY <1>8
  <2> QED BY <2>1, <2>2
<1>12. ASSUME NEW i \in 1..Len(s)
       PROVE  i \in 1..n \/ i \in n + 1 .. n + m \/ i \in (n + m) + 1 .. (n + m) + l
  BY <1>1, <1>2, <1>8
<1>13. CarriedIn(s, prns, "GPGSV", GPS)
  <2> DEFINE z == 0
  <2>1. z \in Nat /\ z + n <= Len(s)
    BY <1>1, <1>2, <1>8
  <2>2. ASSUME NEW i \in 1..Len(s) PROVE s[i].type = "GPGSV" <=> z < i /\ i <= z + n
    <3>1. CASE i \in 1..n
      BY <1>1, <1>9, <3>1
    <3>2. CASE i \in n + 1 .. n + m
      BY <1>1, <1>2, <1>10, <3>2
    <3>3. CASE i \in (n + m) + 1 .. (n + m) + l
      BY <1>1, <1>2, <1>11, <3>3
    <3> QED BY <1>12, <3>1, <3>2, <3>3
  <2>3. ASSUME NEW k \in 1..n PROVE s[z + k] = fours("GPGSV", chosen(prns, GPS), k)
    <3>1. z + k = k
      OBVIOUS
    <3> HIDE DEF z
    <3>2. s[k] = fours("GPGSV", chosen(prns, GPS), k)
      BY <1>1, <1>9
    <3> QED BY <3>1, <3>2
  <2> HIDE DEF z
  <2> QED BY <1>1, <1>8, <2>1, <2>2, <2>3, Carried DEF n
<1>14. CarriedIn(s, prns, "GLGSV", GLONASS)
  <2>1. n + m <= Len(s)
    BY <1>1, <1>2, <1>8
  <2>2. ASSUME NEW i \in 1..Len(s) PROVE s[i].type = "GLGSV" <=> n < i /\ i <= n + m
    <3>1. CASE i \in 1..n
      BY <1>1, <1>9, <3>1
    <3>2. CASE i \in n + 1 .. n + m
      BY <1>1, <1>2, <1>10, <3>2
    <3>3. CASE i \in (n + m) + 1 .. (n + m) + l
      BY <1>1, <1>2, <1>11, <3>3
    <3> QED BY <1>12, <3>1, <3>2, <3>3
  <2>3. ASSUME NEW k \in 1..m PROVE s[n + k] = fours("GLGSV", chosen(prns, GLONASS), k)
    <3>1. n + k \in n + 1 .. n + m /\ (n + k) - n = k
      BY <1>1, <1>2
    <3> QED BY <1>2, <1>10, <3>1
  <2> QED BY <1>1, <1>2, <1>8, <2>1, <2>2, <2>3, Carried DEF m
<1>15. ASSUME NEW i \in DOMAIN s, NEW a, NEW e PROVE Good(s[i])
  <2>1. i \in 1..Len(s)
    BY <1>8
  <2> QED BY <1>9, <1>10, <1>11, <1>12, <2>1
<1> QED BY <1>13, <1>14, <1>15 DEF AreViews

-------------------------------------------------------------------------------
(* The invariant of the reports.                                           *)

\* What is kept of the satellites is of one report.
NmeaState ==
  /\ {generateNmea, intermediateFix, mNavigating, muted} \subseteq BOOLEAN
  /\ mFixCriteria \in [mode : Mode \cup {"INVALID"}, recurrence : Recurrence]
  /\ asked \in Mode \cup {"INVALID"}
  /\ sv_used_mask \subseteq GPS
  /\ dop # {} => dop = sv_used_mask

\* Sentences are there only as long as their report is handled.
NmeaInv ==
  /\ NmeaState
  /\ report = NoReport => sent = <<>>
  /\ \A i \in DOMAIN sent : Good(sent[i])
  /\ PagesCarryAll

LEMMA NmeaInitHolds == NmeaInit => NmeaInv
<1> SUFFICES ASSUME NmeaInit PROVE NmeaInv
  OBVIOUS
<1>1. NmeaState
  BY DEF NmeaInit, NmeaState, Recurrence
<1>2. sent = <<>> /\ DOMAIN <<>> = {}
  BY DEF NmeaInit
<1>3. report.kind # "sv"
  BY DEF NmeaInit, NoReport
<1> QED BY <1>1, <1>2, <1>3 DEF NmeaInv, PagesCarryAll

\* Without a report there are no sentences to say anything of.
LEMMA NothingSent ==
  ASSUME NmeaState', report' = NoReport, sent' = <<>>
  PROVE  NmeaInv'
<1>1. DOMAIN (sent') = {}
  OBVIOUS
<1>2. report'.kind # "sv"
  BY DEF NoReport
<1> QED BY <1>1, <1>2 DEF NmeaInv, PagesCarryAll

LEMMA setInSessionState ==
  ASSUME NmeaState, NEW inSession \in BOOLEAN, setInSession(inSession)
  PROVE  /\ mFixCriteria' \in [mode : Mode \cup {"INVALID"}, recurrence : Recurrence]
         /\ asked' = asked /\ mNavigating' \in BOOLEAN
BY DEF NmeaState, setInSession

LEMMA CallsKeep ==
  ASSUME NmeaInv, report = NoReport, SetMode \/ Start \/ Stop \/ EngineUp \/ Mute
  PROVE  NmeaInv'
<1>1. sent = <<>> /\ NmeaState
  BY DEF NmeaInv
<1>2. UNCHANGED <<config, cache, report, sent>>
  BY DEF SetMode, Start, Stop, EngineUp, Mute
<1>3. CASE SetMode
  <2>1. PICK m \in Mode, r \in Recurrence :
          mFixCriteria' = [mode |-> m, recurrence |-> r] /\ asked' = m
    BY <1>3 DEF SetMode
  <2>2. UNCHANGED <<mNavigating, muted>>
    BY <1>3 DEF SetMode
  <2>3. NmeaState'
    BY <1>1, <1>2, <2>1, <2>2 DEF NmeaState, config, cache
  <2> QED BY <1>1, <1>2, <2>3, NothingSent
<1>4. CASE Start \/ Stop
  <2>1. /\ mFixCriteria' \in [mode : Mode \cup {"INVALID"}, recurrence : Recurrence]
        /\ asked' = asked /\ mNavigating' \in BOOLEAN /\ muted' = muted
    BY <1>1, <1>4, setInSessionState DEF Start, Stop
  <2>2. NmeaState'
    BY <1>1, <1>2, <2>1 DEF NmeaState, config, cache
  <2> QED BY <1>1, <1>2, <2>2, NothingSent
<1>5. CASE EngineUp
  <2>1. /\ mFixCriteria' \in [mode : Mode \cup {"INVALID"}, recurrence : Recurrence]
        /\ asked' = asked /\ mNavigating' \in BOOLEAN /\ muted' = muted
    BY <1>1, <1>5 DEF EngineUp, NmeaState
  <2>2. NmeaState'
    BY <1>1, <1>2, <2>1 DEF NmeaState, config, cache
  <2> QED BY <1>1, <1>2, <2>2, NothingSent
<1>6. CASE Mute
  <2>1. muted' = ~muted /\ UNCHANGED mode
    BY <1>6 DEF Mute
  <2>2. NmeaState'
    BY <1>1, <1>2, <2>1 DEF NmeaState, config, mode, cache
  <2> QED BY <1>1, <1>2, <2>2, NothingSent
<1> QED BY <1>3, <1>4, <1>5, <1>6

LEMMA PositionKeeps ==
  ASSUME NmeaInv, report = NoReport, NEW p \in Position, ReportPosition(p) PROVE NmeaInv'
<1>1. sent = <<>> /\ NmeaState
  BY DEF NmeaInv
<1>2. CASE UNCHANGED <<mode, cache, report, sent>>
  <2>1. NmeaState'
    BY <1>1, <1>2 DEF NmeaState, ReportPosition, config, mode, cache
  <2> QED BY <1>1, <1>2, <2>1, NothingSent
<1>3. CASE ~muted
  <2>1. setInSession(FALSE) \/ UNCHANGED mode
    BY <1>3 DEF ReportPosition
  <2>2. /\ mFixCriteria' \in [mode : Mode \cup {"INVALID"}, recurrence : Recurrence]
        /\ asked' = asked /\ mNavigating' \in BOOLEAN
    BY <1>1, <2>1, setInSessionState DEF NmeaState, mode
  <2>3. UNCHANGED <<config, muted>>
    BY DEF ReportPosition
  <2>4. CASE UNCHANGED <<cache, report, sent>>
    <3>1. NmeaState'
      BY <1>1, <2>2, <2>3, <2>4 DEF NmeaState, config, cache
    <3> QED BY <1>1, <2>4, <3>1, NothingSent
  <2>5. CASE /\ report' = [kind |-> "position", position |-> p]
             /\ nmeaGeneratePos(p, Reported(p) /\ p.status # "FAILURE")
    <3>1. dop' = {} /\ (sv_used_mask' = {} \/ sv_used_mask' = sv_used_mask)
      BY <2>5 DEF nmeaGeneratePos
    <3>2. NmeaState'
      BY <1>1, <2>2, <2>3, <3>1 DEF NmeaState, config
    <3>3. report'.kind # "sv" /\ report' # NoReport
      BY <2>5 DEF NoReport
    <3>4. sent' = fixSentences(p, mFixCriteria') \/ sent' = blankSentences
      BY <2>5 DEF nmeaGeneratePos
    <3>5. \A i \in DOMAIN (sent') : Good(sent'[i])
      <4>1. CASE sent' = fixSentences(p, mFixCriteria')
        <5>1. sv_used_mask \subseteq GPS /\ (dop # {} => dop = sv_used_mask)
          BY <1>1 DEF NmeaState
        <5>2. \A i \in DOMAIN fixSentences(p, mFixCriteria') :
                Good(fixSentences(p, mFixCriteria')[i])
          BY <2>2, <5>1, FixGood
        <5> QED BY <4>1, <5>2
      <4>2. CASE sent' = blankSentences
        <5>1. DOMAIN blankSentences = 1..Len(blankSentences)
          BY BlankGood
        <5> QED BY <4>2, <5>1, BlankGood
      <4> QED BY <3>4, <4>1, <4>2
    <3> QED BY <3>2, <3>3, <3>5 DEF NmeaInv, PagesCarryAll
  <2> QED BY <1>3, <2>4, <2>5 DEF ReportPosition
<1> QED BY <1>2, <1>3 DEF ReportPosition

LEMMA SvKeeps ==
  ASSUME NmeaInv, report = NoReport, NEW r \in SvReport, ReportSv(r) PROVE NmeaInv'
<1>1. sent = <<>> /\ NmeaState
  BY DEF NmeaInv
<1>2. UNCHANGED <<config, mode, muted>>
  BY DEF ReportSv
<1>3. CASE UNCHANGED <<cache, report, sent>>
  <2>1. NmeaState'
    BY <1>1, <1>2, <1>3 DEF NmeaState, config, mode, cache
  <2> QED BY <1>1, <1>3, <2>1, NothingSent
<1>4. CASE report' = [kind |-> "sv", sv |-> r] /\ nmeaGenerateSv(r)
  <2>1. r.prns \in Seq(Nat) /\ r.used \subseteq GPS
    BY SvReportAssumption
  <2>2. \/ UNCHANGED cache
        \/ sv_used_mask' = r.used /\ (dop' = r.used \/ dop' = {})
    BY <1>4 DEF nmeaGenerateSv
  <2>3. NmeaState'
    BY <1>1, <1>2, <2>1, <2>2 DEF NmeaState, config, mode, cache
  <2> DEFINE views == pages("GPGSV", r.prns, GPS) \o pages("GLGSV", r.prns, GLONASS)
  <2>4. sent' = views \o blankSentences \/ sent' = views
    BY <1>4 DEF nmeaGenerateSv
  <2>5. AreViews(sent', r.prns)
    <3>1. CASE sent' = views \o blankSentences
      BY <2>1, <3>1, BlankGood, ViewsCarried
    <3>2. CASE sent' = views
      <4> DEFINE w == <<>>
      <4>1. views = views \o w
        <5>1. /\ pages("GPGSV", r.prns, GPS) \in Seq(Page("GPGSV", Nat))
              /\ pages("GLGSV", r.prns, GLONASS) \in Seq(Page("GLGSV", Nat))
          BY <2>1, PagesFacts
        <5> QED BY <5>1
      <4>2. w \in Seq(Sentence) /\ 1..Len(w) = {}
        OBVIOUS
      <4> HIDE DEF w
      <4> QED BY <2>1, <3>2, <4>1, <4>2, ViewsCarried
    <3> QED BY <2>4, <3>1, <3>2
  <2>6. report'.sv = r /\ report' # NoReport
    BY <1>4 DEF NoReport
  <2>7. PagesCarryAll'
    BY <2>5, <2>6 DEF PagesCarryAll, Carries, AreViews, CarriedIn
  <2> QED BY <2>3, <2>5, <2>6, <2>7 DEF NmeaInv, AreViews
<1> QED BY <1>3, <1>4 DEF ReportSv

LEMMA NmeaNextHolds == NmeaInv /\ [NmeaNext]_nmeaVars => NmeaInv'
<1> SUFFICES ASSUME NmeaInv, [NmeaNext]_nmeaVars PROVE NmeaInv'
  OBVIOUS
<1>1. CASE report = NoReport /\ (SetMode \/ Start \/ Stop \/ EngineUp \/ Mute)
  BY <1>1, CallsKeep
<1>2. CASE report = NoReport /\ \E p \in Position : ReportPosition(p)
  BY <1>2, PositionKeeps
<1>3. CASE report = NoReport /\ \E r \in SvReport : ReportSv(r)
  BY <1>3, SvKeeps
<1>4. CASE nmeaSend
  <2>1. report' = NoReport /\ sent' = <<>> /\ UNCHANGED <<config, mode, muted, cache>>
    BY <1>4 DEF nmeaSend
  <2>2. NmeaState'
    BY <2>1 DEF NmeaInv, NmeaState, config, mode, cache
  <2> QED BY <2>1, <2>2, NothingSent
<1>5. CASE UNCHANGED nmeaVars
  BY <1>5 DEF nmeaVars, config, mode, cache, NmeaInv, NmeaState, PagesCarryAll, Carries
<1> QED BY <1>1, <1>2, <1>3, <1>4, <1>5 DEF NmeaNext

LEMMA NmeaInvariant == NmeaSpec => []NmeaInv
  BY NmeaInitHolds, NmeaNextHolds, PTL DEF NmeaSpec

\* Every sentence is one of the kinds of loc_eng_nmea.cpp, names at most twelve
\* satellites, and says that there is no fix exactly if it names none.
THEOREM NmeaTypeCorrect == NmeaSpec => []NmeaTypeOK
<1>1. NmeaInv => NmeaTypeOK
  BY DEF NmeaInv, NmeaState, NmeaTypeOK, Good
<1> QED BY <1>1, NmeaInvariant, PTL

\* Whatever the satellites of a report, and in whatever order: the pages that
\* loc_eng_nmea_generate_sv makes carry each of them once, four by four.
THEOREM PagesSound == NmeaSpec => []PagesCarryAll
<1>1. NmeaInv => PagesCarryAll
  BY DEF NmeaInv
<1> QED BY <1>1, NmeaInvariant, PTL

\* The dilution beside the satellites it was computed of, for every report.
THEOREM DilutionSound == NmeaSpec => []DopMatchesSatellites
<1>1. NmeaInv => DopMatchesSatellites
  BY DEF NmeaInv, DopMatchesSatellites, Good
<1> QED BY <1>1, NmeaInvariant, PTL
=============================================================================
