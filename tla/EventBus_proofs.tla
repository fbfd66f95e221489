---------------------------- MODULE EventBus_proofs ----------------------------
(***************************************************************************)
(* Proofs about EventBus, for any numbers of publishers, subscribers and   *)
(* events and any capacities.                                              *)
(*                                                                         *)
(* The three properties relate what left the bus to what was published,    *)
(* and none of them is inductive. BusIInv adds where the events between    *)
(* the two are: an event a publisher took under the lock is its own        *)
(* (EventsInHand), one taken for the file is in it or queued, once         *)
(* (TakenOnce), and no stopped writer leaves a queue (NothingLeft); the    *)
(* cursor is past all that was forwarded (Forwarded), a channel holds      *)
(* published events (Delivered), and a publisher lets go of the lock only  *)
(* once writes were ever asynchronous (LockKept).                          *)
(***************************************************************************)
EXTENDS EventBus, SequenceTheorems, TLAPS

Distinct(s) == \A i, j \in DOMAIN s : s[i] = s[j] => i = j

-----------------------------------------------------------------------------
(* Sequences of events. *)

\* A sequence gets one more element.
LEMMA AppendFacts ==
    ASSUME NEW S, NEW s \in Seq(S), NEW e \in S
    PROVE  LET t == Append(s, e)
           IN /\ t \in Seq(S) /\ Len(t) = Len(s) + 1 /\ DOMAIN t = 1..(Len(s) + 1)
              /\ \A i \in 1..Len(s) : t[i] = s[i]
              /\ t[Len(s) + 1] = e
              /\ DOMAIN s = 1..Len(s) /\ Len(s) \in Nat
OBVIOUS

LEMMA AppendElements ==
    ASSUME NEW S, NEW s \in Seq(S), NEW e \in S
    PROVE  /\ Elements(Append(s, e)) = Elements(s) \cup {e}
           /\ Distinct(s) /\ e \notin Elements(s) => Distinct(Append(s, e))
<1> DEFINE t == Append(s, e)
<1>1. /\ DOMAIN t = 1..(Len(s) + 1) /\ DOMAIN s = 1..Len(s) /\ Len(s) \in Nat
      /\ \A i \in 1..Len(s) : t[i] = s[i]
      /\ t[Len(s) + 1] = e
  BY AppendFacts
<1> HIDE DEF t
<1>2. DOMAIN t = DOMAIN s \cup {Len(s) + 1} /\ Len(s) + 1 \notin DOMAIN s
  BY <1>1
<1>3. Elements(t) = Elements(s) \cup {e}
  BY <1>1, <1>2 DEF Elements
<1>4. ASSUME Distinct(s), e \notin Elements(s)
      PROVE  Distinct(t)
  BY <1>1, <1>2, <1>4 DEF Distinct, Elements
<1> QED
  BY <1>3, <1>4 DEF t

\* A sequence loses its first element.
LEMMA TailFacts ==
    ASSUME NEW S, NEW s \in Seq(S), s # <<>>
    PROVE  /\ Head(s) \in S /\ Head(s) = s[1]
           /\ Tail(s) \in Seq(S) /\ Len(Tail(s)) = Len(s) - 1
           /\ DOMAIN Tail(s) = 1..(Len(s) - 1)
           /\ \A i \in 1..(Len(s) - 1) : Tail(s)[i] = s[i + 1]
           /\ DOMAIN s = 1..Len(s) /\ Len(s) \in Nat \ {0}
<1>1. Head(s) \in S /\ Tail(s) \in Seq(S) /\ Len(Tail(s)) = Len(s) - 1
       /\ \A i \in 1..Len(Tail(s)) : Tail(s)[i] = s[i + 1]
  BY HeadTailProperties
<1>2. DOMAIN Tail(s) = 1..Len(Tail(s)) /\ DOMAIN s = 1..Len(s)
  BY <1>1, LenProperties
<1>3. Len(s) \in Nat \ {0}
  BY EmptySeq
<1>4. Head(s) = s[1]
  OBVIOUS
<1> QED
  BY <1>1, <1>2, <1>3, <1>4

LEMMA TailElements ==
    ASSUME NEW S, NEW s \in Seq(S), s # <<>>
    PROVE  /\ Elements(s) = {Head(s)} \cup Elements(Tail(s))
           /\ Distinct(s) => Distinct(Tail(s)) /\ Head(s) \notin Elements(Tail(s))
<1> DEFINE t == Tail(s)  n == Len(s)  h == Head(s)
<1>1. /\ h = s[1] /\ DOMAIN t = 1..(n - 1) /\ \A i \in 1..(n - 1) : t[i] = s[i + 1]
      /\ DOMAIN s = 1..n /\ n \in Nat \ {0}
  BY TailFacts
<1> HIDE DEF t, n, h
<1>2. Elements(s) \subseteq {h} \cup Elements(t)
  <2> SUFFICES ASSUME NEW i \in DOMAIN s, i # 1
               PROVE  s[i] \in Elements(t)
    BY <1>1 DEF Elements
  <2>1. i - 1 \in 1..(n - 1) /\ (i - 1) + 1 = i
    BY <1>1
  <2>2. t[i - 1] = s[i]
    BY <1>1, <2>1
  <2> QED
    BY <1>1, <2>1, <2>2 DEF Elements
<1>3. {h} \cup Elements(t) \subseteq Elements(s)
  BY <1>1 DEF Elements
<1>4. ASSUME Distinct(s)
      PROVE  Distinct(t) /\ h \notin Elements(t)
  <2>1. \A i \in 1..(n - 1) : i + 1 \in DOMAIN s /\ i + 1 # 1 /\ 1 \in DOMAIN s
    BY <1>1
  <2>2. h \notin Elements(t)
    <3> SUFFICES ASSUME NEW i \in 1..(n - 1), t[i] = h
                 PROVE  FALSE
      BY <1>1 DEF Elements
    <3>1. s[i + 1] = s[1]
      BY <1>1
    <3> QED
      BY <1>4, <2>1, <3>1 DEF Distinct
  <2>3. Distinct(t)
    BY <1>1, <1>4, <2>1 DEF Distinct
  <2> QED
    BY <2>2, <2>3
<1> QED
  BY <1>2, <1>3, <1>4 DEF t, h

\* A sequence of numbers that all are in a set.
LEMMA ElementsTyped ==
    ASSUME NEW S, NEW s \in Seq(Nat), \A i \in 1..Len(s) : s[i] \in S
    PROVE  s \in Seq(S)
<1> DEFINE n == Len(s)
<1>1. n \in Nat /\ s \in [1..n -> S]
  BY LenProperties
<1>2. Seq(S) = UNION {[1..k -> S] : k \in Nat}
  BY SeqDef
<1> HIDE DEF n
<1> QED
  BY <1>1, <1>2, Zenon

\* What is in front of an ascending sequence.
LEMMA AscendingFrom ==
    ASSUME NEW a \in Nat, NEW s \in Seq(Nat)
    PROVE  Ascending(<<a>> \o s) <=> Ascending(s) /\ \A i \in DOMAIN s : a < s[i]
<1> DEFINE t == <<a>> \o s  n == Len(s)
<1>1. <<a>> \in Seq(Nat) /\ Len(<<a>>) = 1 /\ <<a>>[1] = a
  OBVIOUS
<1>2. /\ t \in Seq(Nat) /\ Len(t) = 1 + n /\ n \in Nat
      /\ \A i \in 1..(1 + n) : t[i] = IF i <= 1 THEN <<a>>[i] ELSE s[i - 1]
  BY <1>1, ConcatProperties, LenProperties
<1>3. /\ DOMAIN t = 1..(1 + n) /\ DOMAIN s = 1..n
      /\ t[1] = a
      /\ \A i \in 2..(1 + n) : t[i] = s[i - 1]
      /\ \A i \in 1..n : s[i] \in Nat /\ t[i + 1] = s[i]
  <2>1. DOMAIN t = 1..(1 + n) /\ DOMAIN s = 1..n /\ \A i \in 1..n : s[i] \in Nat
    BY <1>2, LenProperties
  <2> HIDE DEF t, n
  <2> QED
    BY <1>1, <1>2, <2>1
<1> HIDE DEF t, n
<1>4. ASSUME Ascending(t)
      PROVE  Ascending(s) /\ \A i \in DOMAIN s : a < s[i]
  <2>1. \A i \in 1..n : i + 1 \in DOMAIN t /\ 1 \in DOMAIN t /\ 1 < i + 1
    BY <1>2, <1>3
  <2>2. \A i \in DOMAIN s : a < s[i]
    BY <1>3, <1>4, <2>1 DEF Ascending
  <2>3. Ascending(s)
    <3> SUFFICES ASSUME NEW i \in DOMAIN s, NEW j \in DOMAIN s, i < j
                 PROVE  s[i] < s[j]
      BY DEF Ascending
    <3>1. i \in 1..n /\ j \in 1..n /\ i + 1 < j + 1
      BY <1>2, <1>3
    <3>2. t[i + 1] < t[j + 1]
      BY <1>4, <2>1, <3>1 DEF Ascending
    <3> QED
      BY <1>3, <3>1, <3>2
  <2> QED
    BY <2>2, <2>3
<1>5. ASSUME Ascending(s), \A i \in DOMAIN s : a < s[i]
      PROVE  Ascending(t)
  <2> SUFFICES ASSUME NEW i \in DOMAIN t, NEW j \in DOMAIN t, i < j
               PROVE  t[i] < t[j]
    BY DEF Ascending
  <2>1. j \in 2..(1 + n) /\ j - 1 \in DOMAIN s /\ t[j] = s[j - 1]
    <3>1. i \in 1..(1 + n) /\ j \in 1..(1 + n) /\ n \in Nat /\ DOMAIN s = 1..n
      BY <1>2, <1>3
    <3>2. j \in 2..(1 + n) /\ j - 1 \in 1..n
      BY <3>1
    <3> QED
      BY <1>3, <3>1, <3>2
  <2>2. CASE i = 1
    BY <1>3, <1>5, <2>1, <2>2
  <2>3. CASE i # 1
    <3>1. i \in 2..(1 + n) /\ i - 1 \in DOMAIN s /\ i - 1 < j - 1
      <4>1. i \in 1..(1 + n) /\ j \in 1..(1 + n) /\ n \in Nat /\ DOMAIN s = 1..n
        BY <1>2, <1>3
      <4>2. i \in 2..(1 + n) /\ i - 1 \in 1..n /\ i - 1 < j - 1
        BY <4>1, <2>3
      <4> QED
        BY <4>1, <4>2
    <3>2. t[i] = s[i - 1]
      BY <1>3, <3>1
    <3> QED
      BY <1>5, <2>1, <3>1, <3>2 DEF Ascending
  <2> QED
    BY <2>2, <2>3
<1> QED
  BY <1>4, <1>5 DEF t

LEMMA AscendingAppend ==
    ASSUME NEW s \in Seq(Nat), NEW e \in Nat, Ascending(s), \A i \in DOMAIN s : s[i] < e
    PROVE  Ascending(Append(s, e))
<1> DEFINE t == Append(s, e)
<1>1. /\ DOMAIN t = 1..(Len(s) + 1) /\ DOMAIN s = 1..Len(s) /\ Len(s) \in Nat
      /\ \A i \in 1..Len(s) : t[i] = s[i]
      /\ t[Len(s) + 1] = e
  BY AppendFacts
<1> HIDE DEF t
<1> SUFFICES ASSUME NEW i \in DOMAIN t, NEW j \in DOMAIN t, i < j
             PROVE  t[i] < t[j]
  BY DEF Ascending, t
<1>2. i \in DOMAIN s /\ (j \in DOMAIN s \/ j = Len(s) + 1)
  BY <1>1
<1>3. CASE j \in DOMAIN s
  <2>1. t[i] = s[i] /\ t[j] = s[j]
    BY <1>1, <1>2, <1>3
  <2> QED
    BY <1>2, <1>3, <2>1 DEF Ascending
<1>4. CASE j = Len(s) + 1
  <2>1. t[i] = s[i] /\ t[j] = e
    BY <1>1, <1>2, <1>4
  <2> QED
    BY <1>2, <2>1
<1> QED
  BY <1>2, <1>3, <1>4

LEMMA AscendingTail ==
    ASSUME NEW s \in Seq(Nat), s # <<>>, Ascending(s)
    PROVE  Ascending(Tail(s)) /\ \A i \in DOMAIN Tail(s) : Head(s) < Tail(s)[i]
<1> DEFINE t == Tail(s)  n == Len(s)  h == Head(s)
<1>1. /\ h = s[1] /\ DOMAIN t = 1..(n - 1) /\ \A i \in 1..(n - 1) : t[i] = s[i + 1]
      /\ DOMAIN s = 1..n /\ n \in Nat \ {0}
  BY TailFacts
<1> HIDE DEF t, n, h
<1>2. \A i \in 1..(n - 1) : i + 1 \in DOMAIN s /\ 1 < i + 1 /\ 1 \in DOMAIN s
  BY <1>1
<1>3. \A i \in DOMAIN t : h < t[i]
  BY <1>1, <1>2 DEF Ascending
<1>4. Ascending(t)
  <2> SUFFICES ASSUME NEW i \in DOMAIN t, NEW j \in DOMAIN t, i < j
               PROVE  t[i] < t[j]
    BY DEF Ascending
  <2>1. i \in 1..(n - 1) /\ j \in 1..(n - 1)
    BY <1>1
  <2>2. i + 1 \in DOMAIN s /\ j + 1 \in DOMAIN s /\ i + 1 < j + 1
    BY <1>2, <2>1
  <2>3. s[i + 1] < s[j + 1]
    BY <2>2 DEF Ascending
  <2>4. t[i] = s[i + 1] /\ t[j] = s[j + 1]
    BY <1>1, <2>1, Zenon
  <2> QED
    BY <2>3, <2>4
<1> QED
  BY <1>3, <1>4 DEF t, h

\* Two ascending sequences, the second above the first.
LEMMA AscendingConcat ==
    ASSUME NEW s \in Seq(Nat), NEW t \in Seq(Nat), Ascending(s), Ascending(t),
           \A i \in DOMAIN s, j \in DOMAIN t : s[i] < t[j]
    PROVE  Ascending(s \o t)
<1> DEFINE u == s \o t  m == Len(s)  n == Len(t)
<1>1. /\ m \in Nat /\ n \in Nat /\ DOMAIN s = 1..m /\ DOMAIN t = 1..n /\ DOMAIN u = 1..(m + n)
      /\ \A i \in 1..(m + n) : u[i] = IF i <= m THEN s[i] ELSE t[i - m]
  BY ConcatProperties, LenProperties
<1> HIDE DEF u, m, n
<1> SUFFICES ASSUME NEW i \in DOMAIN u, NEW j \in DOMAIN u, i < j
             PROVE  u[i] < u[j]
  BY DEF Ascending, u
<1>2. CASE j <= m
  <2>1. i \in DOMAIN s /\ j \in DOMAIN s /\ u[i] = s[i] /\ u[j] = s[j]
    BY <1>1, <1>2
  <2> QED
    BY <2>1 DEF Ascending
<1>3. CASE i <= m /\ ~(j <= m)
  <2>1. i \in DOMAIN s /\ j - m \in DOMAIN t /\ u[i] = s[i] /\ u[j] = t[j - m]
    BY <1>1, <1>3
  <2> QED
    BY <2>1
<1>4. CASE ~(i <= m)
  <2>1. i - m \in DOMAIN t /\ j - m \in DOMAIN t /\ i - m < j - m
         /\ u[i] = t[i - m] /\ u[j] = t[j - m]
    BY <1>1, <1>4
  <2> QED
    BY <2>1 DEF Ascending
<1> QED
  BY <1>2, <1>3, <1>4

\* The front of an ascending sequence.
LEMMA AscendingFront ==
    ASSUME NEW s \in Seq(Nat), NEW t \in Seq(Nat), Ascending(s \o t)
    PROVE  Ascending(s)
<1> DEFINE u == s \o t  m == Len(s)  n == Len(t)
<1>1. /\ m \in Nat /\ n \in Nat /\ DOMAIN s = 1..m /\ DOMAIN u = 1..(m + n)
      /\ \A i \in 1..(m + n) : u[i] = IF i <= m THEN s[i] ELSE t[i - m]
  BY ConcatProperties, LenProperties
<1> HIDE DEF u, m, n
<1>2. Ascending(u)
  BY DEF u
<1>3. \A i \in DOMAIN s : i \in DOMAIN u /\ u[i] = s[i]
  BY <1>1
<1> QED
  BY <1>2, <1>3 DEF Ascending

LEMMA SpanFacts ==
    ASSUME NEW a \in Nat, NEW b \in Nat, a <= b
    PROVE  LET t == Span(a + 1, b)
           IN /\ t \in Seq(Nat) /\ Len(t) = b - a /\ DOMAIN t = 1..(b - a)
              /\ \A i \in DOMAIN t : t[i] = a + i /\ t[i] \in (a + 1)..b
              /\ Ascending(t)
<1> DEFINE n == b - (a + 1) + 1  t == [i \in 1..n |-> a + 1 + i - 1]
<1>1. n \in Nat /\ n = b - a
  OBVIOUS
<1>2. \A i \in 1..n : a + 1 + i - 1 = a + i /\ a + i \in Nat /\ a + i \in (a + 1)..b
  BY <1>1
<1>3. t \in [1..n -> Nat] /\ DOMAIN t = 1..n /\ \A i \in 1..n : t[i] = a + i
  BY <1>2
<1>4. Span(a + 1, b) = t
  BY DEF Span
<1> HIDE DEF t, n
<1>5. t \in Seq(Nat)
  <2>1. Seq(Nat) = UNION {[1..k -> Nat] : k \in Nat}
    BY SeqDef
  <2> QED
    BY <1>1, <1>3, <2>1, Zenon
<1>6. Len(t) = n
  <2>1. DOMAIN t = 1..Len(t) /\ Len(t) \in Nat
    BY <1>5, LenProperties, Zenon
  <2> QED
    BY <1>1, <1>3, <2>1
<1>7. Ascending(t)
  <2> SUFFICES ASSUME NEW i \in 1..n, NEW j \in 1..n, i < j
               PROVE  t[i] < t[j]
    BY <1>3 DEF Ascending
  <2> QED
    BY <1>3
<1> QED
  BY <1>1, <1>2, <1>3, <1>4, <1>5, <1>6, <1>7

LEMMA SpanFromOne ==
    ASSUME NEW b \in Nat
    PROVE  Span(1, b) \in Seq(Nat) /\ Len(Span(1, b)) = b /\ \A i \in 1..b : Span(1, b)[i] = i
<1>1. 0 \in Nat /\ 0 <= b /\ 0 + 1 = 1 /\ b - 0 = b /\ \A i \in 1..b : 0 + i = i
  OBVIOUS
<1> DEFINE t == Span(0 + 1, b)
<1>2. /\ t \in Seq(Nat) /\ Len(t) = b - 0 /\ DOMAIN t = 1..(b - 0)
      /\ \A i \in DOMAIN t : t[i] = 0 + i
  <2>1. 0 \in Nat /\ b \in Nat /\ 0 <= b
    BY <1>1
  <2> QED
    BY <2>1, SpanFacts
<1>3. Span(1, b) = t
  BY <1>1, Zenon
<1> HIDE DEF t
<1> QED
  BY <1>1, <1>2, <1>3

\* What comes after a span continues it.
LEMMA SpanContinues ==
    ASSUME NEW b \in Nat, NEW c \in Nat, b <= c
    PROVE  Span(1, b) \o Span(b + 1, c) = Span(1, c)
<1> DEFINE s == Span(1, b)  t == Span(b + 1, c)  u == Span(1, c)
<1>1. /\ s \in Seq(Nat) /\ Len(s) = b /\ \A i \in 1..b : s[i] = i
      /\ u \in Seq(Nat) /\ Len(u) = c /\ \A i \in 1..c : u[i] = i
  BY SpanFromOne
<1>2. t \in Seq(Nat) /\ Len(t) = c - b /\ \A i \in 1..(c - b) : t[i] = b + i
  BY SpanFacts
<1> HIDE DEF s, t, u
<1>3. /\ s \o t \in Seq(Nat) /\ Len(s \o t) = b + (c - b)
      /\ \A i \in 1..(b + (c - b)) : (s \o t)[i] = IF i <= b THEN s[i] ELSE t[i - b]
  <2>1. /\ s \o t \in Seq(Nat) /\ Len(s \o t) = Len(s) + Len(t)
        /\ \A i \in 1..(Len(s) + Len(t)) :
             (s \o t)[i] = IF i <= Len(s) THEN s[i] ELSE t[i - Len(s)]
    <3>1. s \in Seq(Nat) /\ t \in Seq(Nat)
      BY <1>1, <1>2
    <3> QED
      BY <3>1, ConcatProperties
  <2> QED
    BY <1>1, <1>2, <2>1, Zenon
<1>4. b + (c - b) = c
  OBVIOUS
<1>5. \A i \in 1..c : (s \o t)[i] = u[i]
  <2> SUFFICES ASSUME NEW i \in 1..c
               PROVE  (s \o t)[i] = u[i]
    OBVIOUS
  <2>1. CASE i <= b
    BY <1>1, <1>3, <1>4, <2>1
  <2>2. CASE ~(i <= b)
    <3>1. i - b \in 1..(c - b) /\ b + (i - b) = i
      BY <2>2
    <3> QED
      BY <1>1, <1>2, <1>3, <1>4, <2>2, <3>1
  <2> QED
    BY <2>1, <2>2
<1> QED
  BY <1>1, <1>3, <1>4, <1>5, SeqEqual DEF s, t, u

-----------------------------------------------------------------------------
(* The invariant. *)

\* Channels and the queue of the writer are sequences of events.
ChannelsTyped ==
  /\ channel \in [DOMAIN channel -> Seq(Events)]
  /\ writeQueue \in Seq(Events)

\* A publisher that is not idle has an event in hand, which is its own.
EventsInHand ==
  /\ \A p \in Publishers : publishing[p].step # "idle" => publishing[p].event \in 1..total
  /\ \A p, q \in Publishers :
       publishing[p].step # "idle" /\ publishing[q].step # "idle" /\ p # q =>
         publishing[p].event # publishing[q].event

\* What was taken for the file is in it or on its way, once; what is still to be
\* handed to the writer was not taken yet.
TakenOnce ==
  /\ accepted \subseteq 1..total
  /\ Elements(file) \cup Elements(writeQueue) = accepted
  /\ Elements(file) \cap Elements(writeQueue) = {}
  /\ Distinct(file) /\ Distinct(writeQueue)
  /\ \A p \in Publishers : publishing[p].step = "send" => publishing[p].event \notin accepted

\* No queue is left behind.
NothingLeft == writer = "off" => writeQueue = <<>>

\* Nothing was forwarded that the cursor has not passed.
Forwarded ==
  /\ cursor <= total
  /\ \A i \in DOMAIN (received \o batch) : (received \o batch)[i] <= cursor

\* Nothing is in a channel that was not published.
Delivered ==
  /\ \A s \in Subscribers : got[s] <= total
  /\ \A s \in DOMAIN channel : \A i \in DOMAIN channel[s] : channel[s][i] <= total

\* While writes are synchronous no publisher lets go of the lock.
LockKept ==
  ~everAsync => writer = "off" /\ \A p \in Publishers : publishing[p] = NotPublishing

BusIInv ==
  /\ BusTypeOK /\ ChannelsTyped
  /\ EventsInHand /\ TakenOnce /\ NothingLeft
  /\ Forwarded /\ ForwardedInOrder
  /\ Delivered /\ LockKept /\ SubscriberInOrder

-----------------------------------------------------------------------------
(* Types, and the events publishers have in hand. *)

PublishType == [step : {"idle", "send", "fan out"}, event : 0..MaxEvents]

BusTyped == BusTypeOK /\ ChannelsTyped

\* The types, in terms of sets.
LEMMA BusTypes ==
  BusTyped <=>
    /\ total \in 0..MaxEvents
    /\ publishing \in [Publishers -> PublishType]
    /\ channel \in [DOMAIN channel -> Seq(Events)]
    /\ DOMAIN channel \subseteq Subscribers
    /\ \A s \in DOMAIN channel : Len(channel[s]) <= SubscriberCap
    /\ got \in [Subscribers -> 0..MaxEvents]
    /\ writer \in {"off", "starting", "on", "closing", "stuck"}
    /\ writeQueue \in Seq(Events) /\ Len(writeQueue) <= QueueCap + 1
    /\ file \in Seq(Events) /\ accepted \subseteq Events
    /\ everAsync \in BOOLEAN /\ busPanicked \in BOOLEAN /\ smooth \in BOOLEAN
    /\ cursor \in 0..MaxEvents
    /\ batch \in Seq(Events) /\ received \in Seq(Events)
BY DEF BusTyped, BusTypeOK, ChannelsTyped, PublishType

LEMMA EventsAreNat ==
  /\ MaxEvents \in Nat /\ Events \subseteq Nat
  /\ \A n \in 0..MaxEvents : n < MaxEvents => n + 1 \in Events /\ n + 1 \in 0..MaxEvents
BY BusAssumption DEF Events

\* Sequences of events are sequences of numbers.
LEMMA NatSequences ==
    ASSUME NEW s \in Seq(Events)
    PROVE  s \in Seq(Nat) /\ Len(s) \in Nat /\ DOMAIN s = 1..Len(s)
<1>1. Events \subseteq Nat
  BY EventsAreNat
<1>2. s \in Seq(Nat)
  BY <1>1, SeqMonotonic
<1> QED
  BY <1>2, LenProperties

\* A fan-out adds the event to some channels.
LEMMA FanOutFacts ==
    ASSUME BusTyped, NEW e \in Events, FanOut(e)
    PROVE  /\ DOMAIN channel' = DOMAIN channel
           /\ channel' \in [DOMAIN channel' -> Seq(Events)]
           /\ \A s \in DOMAIN channel' :
                /\ Len(channel'[s]) <= SubscriberCap
                /\ channel'[s] = channel[s] \/ channel'[s] = Append(channel[s], e)
<1>1. DOMAIN channel' = DOMAIN channel
  BY DEF FanOut
<1>2. ASSUME NEW s \in DOMAIN channel
      PROVE  /\ channel'[s] \in Seq(Events) /\ Len(channel'[s]) <= SubscriberCap
             /\ channel'[s] = channel[s] \/ channel'[s] = Append(channel[s], e)
  <2>1. channel[s] \in Seq(Events) /\ Len(channel[s]) \in Nat /\ Len(channel[s]) <= SubscriberCap
    BY BusTypes, NatSequences
  <2>2. Append(channel[s], e) \in Seq(Events) /\ Len(Append(channel[s], e)) = Len(channel[s]) + 1
    BY <2>1, AppendFacts
  <2>3. SubscriberCap \in Nat
    BY BusAssumption
  <2>4. CASE Len(channel[s]) < SubscriberCap
    <3>1. channel'[s] = Append(channel[s], e)
      BY <2>4 DEF FanOut
    <3> QED
      BY <2>1, <2>2, <2>3, <2>4, <3>1
  <2>5. CASE ~(Len(channel[s]) < SubscriberCap)
    <3>1. channel'[s] = channel[s]
      BY <2>5 DEF FanOut
    <3> QED
      BY <2>1, <3>1
  <2> QED
    BY <2>4, <2>5
<1>3. channel' = [s \in DOMAIN channel' |-> channel'[s]]
  BY DEF FanOut
<1> QED
  BY <1>1, <1>2, <1>3

PublisherSteps ==
  \E p \in Publishers :
    \/ Publish(p) \/ PublishAsync(p)
    \/ SendToWriter(p) \/ SendDropped(p) \/ SendPanics(p) \/ FanOutAsync(p)
SubscriberSteps == \E s \in Subscribers : Subscribe(s) \/ Unsubscribe(s) \/ Receive(s)
WriterSteps == StartAsyncWrites \/ StartWriter \/ WriteNext \/ StopAsyncWrites \/ StopReturns
ForwarderSteps == ReadHistory \/ SendBatch \/ SendBatchFails

\* Types and events in hand.
HandParts == BusTyped /\ EventsInHand /\ cursor <= total

\* What the forwarder reads begins at the cursor or later, and ends with the
\* history or earlier.
LEMMA AfterFacts ==
    ASSUME total \in Nat, NEW c \in 0..total
    PROVE  \E a \in c..total : \E b \in a..total :
             /\ After(c) = Span(a + 1, b)
             /\ total - c <= Limit /\ c >= Forgotten => a = c /\ b = total
<1> DEFINE a == IF c > Forgotten THEN c ELSE Forgotten
           b == IF total - a > Limit THEN a + Limit ELSE total
<1>1. MaxHistory \in Nat \ {0} /\ Limit \in Nat \ {0}
  BY BusAssumption
<1>2. Forgotten \in 0..total
  BY <1>1 DEF Forgotten
<1>3. a \in c..total
  BY <1>2
<1>4. b \in a..total
  BY <1>1, <1>3
<1>5. total - c <= Limit /\ c >= Forgotten => a = c /\ b = total
  BY <1>1, <1>2
<1>6. After(c) = Span(a + 1, b)
  BY DEF After
<1> QED
  BY <1>3, <1>4, <1>5, <1>6

LEMMA HandPublish ==
    ASSUME HandParts, PublisherSteps
    PROVE  HandParts'
<1> SUFFICES /\ total' \in 0..MaxEvents
             /\ publishing' \in [Publishers -> PublishType]
             /\ channel' \in [DOMAIN channel' -> Seq(Events)]
             /\ DOMAIN channel' \subseteq Subscribers
             /\ \A s \in DOMAIN channel' : Len(channel'[s]) <= SubscriberCap
             /\ got' \in [Subscribers -> 0..MaxEvents]
             /\ writer' \in {"off", "starting", "on", "closing", "stuck"}
             /\ writeQueue' \in Seq(Events) /\ Len(writeQueue') <= QueueCap + 1
             /\ file' \in Seq(Events) /\ accepted' \subseteq Events
             /\ everAsync' \in BOOLEAN /\ busPanicked' \in BOOLEAN /\ smooth' \in BOOLEAN
             /\ cursor' \in 0..MaxEvents
             /\ batch' \in Seq(Events) /\ received' \in Seq(Events)
             /\ EventsInHand' /\ cursor' <= total'
  BY DEF HandParts, BusTyped, BusTypeOK, ChannelsTyped, PublishType
<1>1. /\ total \in 0..MaxEvents
      /\ publishing \in [Publishers -> PublishType]
      /\ channel \in [DOMAIN channel -> Seq(Events)]
      /\ DOMAIN channel \subseteq Subscribers
      /\ \A s \in DOMAIN channel : Len(channel[s]) <= SubscriberCap
      /\ got \in [Subscribers -> 0..MaxEvents]
      /\ writer \in {"off", "starting", "on", "closing", "stuck"}
      /\ writeQueue \in Seq(Events) /\ Len(writeQueue) <= QueueCap + 1
      /\ file \in Seq(Events) /\ accepted \subseteq Events
      /\ everAsync \in BOOLEAN /\ busPanicked \in BOOLEAN /\ smooth \in BOOLEAN
      /\ cursor \in 0..MaxEvents
      /\ batch \in Seq(Events) /\ received \in Seq(Events)
      /\ EventsInHand /\ BusTyped /\ cursor <= total
  BY BusTypes DEF HandParts
<1>2. PICK p \in Publishers :
        \/ Publish(p) \/ PublishAsync(p)
        \/ SendToWriter(p) \/ SendDropped(p) \/ SendPanics(p) \/ FanOutAsync(p)
  BY DEF PublisherSteps
<1>3. \A q \in Publishers : publishing[q].step # "idle" =>
         publishing[q].event \in Events /\ publishing[q].event \in 1..total
  BY <1>1, EventsAreNat DEF EventsInHand, Events
<1>4. total < MaxEvents =>
        /\ total + 1 \in Events /\ total + 1 \in 0..MaxEvents /\ total + 1 \in 1..(total + 1)
        /\ 1..total \subseteq 1..(total + 1) /\ total + 1 \notin 1..total
  BY <1>1, EventsAreNat
<1>5. CASE Publish(p)
  <2>1. /\ total < MaxEvents /\ total' = total + 1 /\ FanOut(total + 1)
        /\ file' = Append(file, total + 1) /\ accepted' = accepted \cup {total + 1}
        /\ UNCHANGED <<publishing, got, writer, writeQueue, everAsync, busPanicked, forwardVars>>
    BY <1>5 DEF Publish
  <2>2. file' \in Seq(Events)
    BY <1>1, <1>4, <2>1, AppendFacts
  <2>3. /\ channel' \in [DOMAIN channel' -> Seq(Events)] /\ DOMAIN channel' = DOMAIN channel
        /\ \A s \in DOMAIN channel' : Len(channel'[s]) <= SubscriberCap
    BY <1>1, <1>4, <2>1, FanOutFacts
  <2>4. EventsInHand'
    BY <1>1, <1>4, <2>1 DEF EventsInHand
  <2> QED
    BY <1>1, <1>4, <2>1, <2>2, <2>3, <2>4 DEF forwardVars
<1>6. CASE PublishAsync(p)
  <2>1. /\ total < MaxEvents /\ total' = total + 1
        /\ publishing' = [publishing EXCEPT ![p] = [step |-> "send", event |-> total + 1]]
        /\ UNCHANGED <<channel, got, fileVars, busPanicked, forwardVars>>
    BY <1>6 DEF PublishAsync
  <2>2. publishing' \in [Publishers -> PublishType]
    BY <1>1, <1>4, <2>1 DEF PublishType
  <2>3. EventsInHand'
    BY <1>1, <1>3, <1>4, <2>1 DEF EventsInHand
  <2> QED
    BY <1>1, <1>4, <2>1, <2>2, <2>3 DEF forwardVars, fileVars
<1>7. CASE SendToWriter(p)
  <2>1. /\ publishing[p].step = "send" /\ publishing' = [publishing EXCEPT ![p].step = "fan out"]
        /\ Len(writeQueue) < QueueCap
        /\ writeQueue' = Append(writeQueue, publishing[p].event)
        /\ accepted' = accepted \cup {publishing[p].event}
        /\ UNCHANGED <<total, channel, got, writer, file, everAsync, busPanicked, forwardVars>>
    BY <1>7 DEF SendToWriter, SendStep
  <2>2. publishing' \in [Publishers -> PublishType] /\ EventsInHand'
    BY <1>1, <2>1 DEF PublishType, EventsInHand
  <2>3. /\ writeQueue' \in Seq(Events) /\ Len(writeQueue') = Len(writeQueue) + 1
        /\ Len(writeQueue) \in Nat
    <3> DEFINE e == publishing[p].event
    <3>1. e \in Events /\ writeQueue \in Seq(Events) /\ writeQueue' = Append(writeQueue, e)
      BY <1>1, <1>3, <2>1
    <3> HIDE DEF e
    <3> QED
      BY <3>1, AppendFacts
  <2>4. Len(writeQueue') <= QueueCap + 1
    <3>1. Len(writeQueue) < QueueCap /\ QueueCap \in Nat
      BY <2>1, BusAssumption
    <3> QED
      BY <2>3, <3>1
  <2> QED
    BY <1>1, <1>3, <2>1, <2>2, <2>3, <2>4 DEF forwardVars
<1>8. CASE SendDropped(p)
  <2>1. /\ publishing[p].step = "send" /\ publishing' = [publishing EXCEPT ![p].step = "fan out"]
        /\ UNCHANGED <<total, channel, got, fileVars, busPanicked, forwardVars>>
    BY <1>8 DEF SendDropped, SendStep
  <2>2. publishing' \in [Publishers -> PublishType] /\ EventsInHand'
    BY <1>1, <2>1 DEF PublishType, EventsInHand
  <2> QED
    BY <1>1, <2>1, <2>2 DEF forwardVars, fileVars
<1>9. CASE SendPanics(p)
  <2>1. busPanicked' = TRUE
         /\ UNCHANGED <<total, publishing, channel, got, fileVars, forwardVars>>
    BY <1>9 DEF SendPanics
  <2>2. EventsInHand'
    BY <1>1, <2>1 DEF EventsInHand
  <2> QED
    BY <1>1, <2>1, <2>2 DEF forwardVars, fileVars
<1>10. CASE FanOutAsync(p)
  <2>1. /\ publishing[p].step = "fan out" /\ FanOut(publishing[p].event)
        /\ publishing' = [publishing EXCEPT ![p] = NotPublishing]
        /\ UNCHANGED <<total, got, fileVars, busPanicked, forwardVars>>
    BY <1>10 DEF FanOutAsync
  <2>2. /\ channel' \in [DOMAIN channel' -> Seq(Events)] /\ DOMAIN channel' = DOMAIN channel
        /\ \A s \in DOMAIN channel' : Len(channel'[s]) <= SubscriberCap
    BY <1>1, <1>3, <2>1, FanOutFacts
  <2>3. NotPublishing \in PublishType
    BY EventsAreNat DEF NotPublishing, PublishType
  <2>4. publishing' \in [Publishers -> PublishType] /\ EventsInHand'
    BY <1>1, <2>1, <2>3 DEF EventsInHand, NotPublishing
  <2> QED
    BY <1>1, <2>1, <2>2, <2>4 DEF forwardVars, fileVars
<1> QED
  BY <1>2, <1>5, <1>6, <1>7, <1>8, <1>9, <1>10

LEMMA HandOthers ==
    ASSUME HandParts, SubscriberSteps \/ WriterSteps \/ ForwarderSteps \/ UNCHANGED busVars
    PROVE  HandParts'
<1> SUFFICES /\ total' \in 0..MaxEvents
             /\ publishing' \in [Publishers -> PublishType]
             /\ channel' \in [DOMAIN channel' -> Seq(Events)]
             /\ DOMAIN channel' \subseteq Subscribers
             /\ \A s \in DOMAIN channel' : Len(channel'[s]) <= SubscriberCap
             /\ got' \in [Subscribers -> 0..MaxEvents]
             /\ writer' \in {"off", "starting", "on", "closing", "stuck"}
             /\ writeQueue' \in Seq(Events) /\ Len(writeQueue') <= QueueCap + 1
             /\ file' \in Seq(Events) /\ accepted' \subseteq Events
             /\ everAsync' \in BOOLEAN /\ busPanicked' \in BOOLEAN /\ smooth' \in BOOLEAN
             /\ cursor' \in 0..MaxEvents
             /\ batch' \in Seq(Events) /\ received' \in Seq(Events)
             /\ EventsInHand' /\ cursor' <= total'
  BY DEF HandParts, BusTyped, BusTypeOK, ChannelsTyped, PublishType
<1>1. /\ total \in 0..MaxEvents
      /\ publishing \in [Publishers -> PublishType]
      /\ channel \in [DOMAIN channel -> Seq(Events)]
      /\ DOMAIN channel \subseteq Subscribers
      /\ \A s \in DOMAIN channel : Len(channel[s]) <= SubscriberCap
      /\ got \in [Subscribers -> 0..MaxEvents]
      /\ writer \in {"off", "starting", "on", "closing", "stuck"}
      /\ writeQueue \in Seq(Events) /\ Len(writeQueue) <= QueueCap + 1
      /\ file \in Seq(Events) /\ accepted \subseteq Events
      /\ everAsync \in BOOLEAN /\ busPanicked \in BOOLEAN /\ smooth \in BOOLEAN
      /\ cursor \in 0..MaxEvents
      /\ batch \in Seq(Events) /\ received \in Seq(Events)
      /\ EventsInHand /\ BusTyped /\ cursor <= total
  BY BusTypes DEF HandParts
<1>2. UNCHANGED <<total, publishing>>
  BY DEF SubscriberSteps, Subscribe, Unsubscribe, Receive, WriterSteps, StartAsyncWrites, StartWriter, WriteNext,
         StopAsyncWrites, StopReturns, ForwarderSteps, ReadHistory, SendBatch, SendBatchFails,
         busVars
<1>3. EventsInHand'
  BY <1>1, <1>2 DEF EventsInHand
<1>4. CASE SubscriberSteps
  <2>1. UNCHANGED <<fileVars, busPanicked, forwardVars>>
    BY <1>4 DEF SubscriberSteps, Subscribe, Unsubscribe, Receive
  <2>2. PICK s \in Subscribers : Subscribe(s) \/ Unsubscribe(s) \/ Receive(s)
    BY <1>4 DEF SubscriberSteps
  <2>3. /\ channel' \in [DOMAIN channel' -> Seq(Events)]
        /\ DOMAIN channel' \subseteq Subscribers
        /\ \A t \in DOMAIN channel' : Len(channel'[t]) <= SubscriberCap
        /\ got' \in [Subscribers -> 0..MaxEvents]
    <3>1. CASE Subscribe(s)
      <4>1. <<>> \in Seq(Events) /\ Len(<<>>) = 0 /\ 0 <= SubscriberCap
        BY EmptySeq, BusAssumption
      <4>2. /\ DOMAIN channel' = DOMAIN channel \cup {s} /\ got' = got
            /\ \A t \in DOMAIN channel' : channel'[t] = IF t = s THEN <<>> ELSE channel[t]
            /\ channel' = [t \in DOMAIN channel' |-> channel'[t]]
        BY <3>1 DEF Subscribe
      <4>3. \A t \in DOMAIN channel' :
               channel'[t] \in Seq(Events) /\ Len(channel'[t]) <= SubscriberCap
        BY <1>1, <4>1, <4>2
      <4> QED
        BY <1>1, <4>2, <4>3
    <3>2. CASE Unsubscribe(s)
      <4>1. /\ DOMAIN channel' = DOMAIN channel \ {s} /\ got' = got
            /\ \A t \in DOMAIN channel' : channel'[t] = channel[t]
            /\ channel' = [t \in DOMAIN channel' |-> channel'[t]]
        BY <3>2 DEF Unsubscribe
      <4> QED
        BY <1>1, <4>1
    <3>3. CASE Receive(s)
      <4>1. /\ s \in DOMAIN channel /\ channel[s] # <<>> /\ channel[s] \in Seq(Events)
            /\ channel' = [channel EXCEPT ![s] = Tail(channel[s])]
            /\ got' = [got EXCEPT ![s] = Head(channel[s])]
        BY <1>1, <3>3 DEF Receive
      <4>2. /\ Tail(channel[s]) \in Seq(Events) /\ Len(Tail(channel[s])) = Len(channel[s]) - 1
            /\ Head(channel[s]) \in Events /\ Len(channel[s]) \in Nat
        BY <4>1, TailFacts
      <4>3. Len(Tail(channel[s])) <= SubscriberCap /\ Head(channel[s]) \in 0..MaxEvents
        <5>1. Len(channel[s]) <= SubscriberCap /\ SubscriberCap \in Nat
          BY <1>1, <4>1, BusAssumption
        <5> QED
          BY <4>2, <5>1, EventsAreNat DEF Events
      <4>4. DOMAIN channel' = DOMAIN channel
        BY <4>1
      <4>5. channel' \in [DOMAIN channel' -> Seq(Events)]
        BY <1>1, <4>1, <4>2, <4>4
      <4>6. \A t \in DOMAIN channel' : channel'[t] = IF t = s THEN Tail(channel[s]) ELSE channel[t]
        BY <1>1, <4>1, <4>4
      <4> QED
        BY <1>1, <4>1, <4>3, <4>4, <4>5, <4>6
    <3> QED
      BY <2>2, <3>1, <3>2, <3>3
  <2> QED
    BY <1>1, <1>2, <1>3, <2>1, <2>3 DEF fileVars, forwardVars
<1>5. CASE WriterSteps
  <2>1. UNCHANGED <<channel, got, accepted, busPanicked, forwardVars>>
    BY <1>5 DEF WriterSteps, StartAsyncWrites, StartWriter, WriteNext, StopAsyncWrites, StopReturns
  <2>2. writer' \in {"off", "starting", "on", "closing", "stuck"} /\ everAsync' \in BOOLEAN
    BY <1>1, <1>5 DEF WriterSteps, StartAsyncWrites, StartWriter, WriteNext, StopAsyncWrites, StopReturns
  <2>3. writeQueue' \in Seq(Events) /\ Len(writeQueue') <= QueueCap + 1 /\ file' \in Seq(Events)
    <3>1. CASE WriteNext
      <4>1. /\ writeQueue # <<>> /\ file' = Append(file, Head(writeQueue))
            /\ writeQueue' = Tail(writeQueue)
        BY <3>1 DEF WriteNext
      <4>2. /\ Tail(writeQueue) \in Seq(Events) /\ Len(Tail(writeQueue)) = Len(writeQueue) - 1
            /\ Head(writeQueue) \in Events /\ Len(writeQueue) \in Nat
        BY <1>1, <4>1, TailFacts
      <4>3. file' \in Seq(Events)
        BY <1>1, <4>1, <4>2, AppendFacts
      <4>4. Len(writeQueue) <= QueueCap + 1 /\ QueueCap \in Nat
        BY <1>1, BusAssumption
      <4> QED
        BY <4>1, <4>2, <4>3, <4>4
    <3>2. CASE StartAsyncWrites \/ StartWriter \/ StopAsyncWrites \/ StopReturns
      BY <1>1, <3>2 DEF StartAsyncWrites, StartWriter, StopAsyncWrites, StopReturns
    <3> QED
      BY <1>5, <3>1, <3>2 DEF WriterSteps
  <2> QED
    BY <1>1, <1>2, <1>3, <2>1, <2>2, <2>3 DEF forwardVars
<1>6. CASE ForwarderSteps
  <2>1. UNCHANGED <<channel, got, fileVars, busPanicked>>
    BY <1>6 DEF ForwarderSteps, ReadHistory, SendBatch, SendBatchFails
  <2>2. cursor' \in 0..MaxEvents /\ smooth' \in BOOLEAN
    BY <1>1, <1>6 DEF ForwarderSteps, ReadHistory, SendBatch, SendBatchFails
  <2>3. batch' \in Seq(Events) /\ received' \in Seq(Events)
    <3>1. CASE ReadHistory
      <4>1. batch' = After(cursor) /\ UNCHANGED received /\ cursor \in 0..total /\ total \in Nat
        BY <1>1, <3>1 DEF ReadHistory
      <4>2. PICK a \in cursor..total : \E b \in a..total : After(cursor) = Span(a + 1, b)
        BY <4>1, AfterFacts
      <4>3. PICK b \in a..total : After(cursor) = Span(a + 1, b)
        BY <4>2
      <4>4. a \in Nat /\ b \in Nat /\ a <= b /\ (a + 1)..b \subseteq Events
        BY <1>1, <4>1, EventsAreNat DEF Events
      <4>5. /\ batch' \in Seq(Nat) /\ DOMAIN batch' = 1..Len(batch') /\ Len(batch') \in Nat
            /\ \A i \in DOMAIN batch' : batch'[i] \in (a + 1)..b
        BY <4>1, <4>3, <4>4, SpanFacts, LenProperties
      <4>6. \A i \in 1..Len(batch') : batch'[i] \in Events
        BY <4>4, <4>5
      <4>7. batch' \in Seq(Events)
        BY <4>5, <4>6, ElementsTyped
      <4> QED
        BY <1>1, <4>1, <4>7
    <3>2. CASE SendBatch
      <4>1. received' = received \o batch /\ batch' = <<>>
        BY <3>2 DEF SendBatch
      <4>2. received \o batch \in Seq(Events)
        BY <1>1, ConcatProperties
      <4> QED
        BY <4>1, <4>2, EmptySeq
    <3>3. CASE SendBatchFails
      BY <1>1, <3>3, EmptySeq DEF SendBatchFails
    <3> QED
      BY <1>6, <3>1, <3>2, <3>3 DEF ForwarderSteps
  <2>4. cursor' <= total'
    BY <1>1, <1>2, <1>6 DEF ForwarderSteps, ReadHistory, SendBatch, SendBatchFails
  <2> QED
    BY <1>1, <1>2, <1>3, <2>1, <2>2, <2>3, <2>4 DEF fileVars
<1>7. CASE UNCHANGED busVars
  BY <1>1, <1>3, <1>7 DEF busVars, fileVars, forwardVars
<1> QED
  BY <1>4, <1>5, <1>6, <1>7

-----------------------------------------------------------------------------
(* What was taken for the file. *)

TakenParts == TakenOnce /\ NothingLeft

\* A publish takes its event at most once.
LEMMA TakenPublish ==
    ASSUME HandParts, TakenParts, PublisherSteps
    PROVE  TakenParts'
<1>1. /\ total \in 0..MaxEvents
      /\ publishing \in [Publishers -> PublishType]
      /\ file \in Seq(Events) /\ writeQueue \in Seq(Events) /\ accepted \subseteq 1..total
      /\ EventsInHand /\ TakenOnce /\ NothingLeft
  BY BusTypes DEF HandParts, TakenParts, TakenOnce
<1>2. PICK p \in Publishers :
        \/ Publish(p) \/ PublishAsync(p)
        \/ SendToWriter(p) \/ SendDropped(p) \/ SendPanics(p) \/ FanOutAsync(p)
  BY DEF PublisherSteps
<1>3. /\ total + 1 \notin 1..total /\ 1..total \subseteq 1..(total + 1) /\ total + 1 \in 1..(total + 1)
      /\ total < MaxEvents => total + 1 \in Events
  BY <1>1, EventsAreNat
<1>4. CASE Publish(p)
  <2>1. /\ total < MaxEvents /\ total' = total + 1
        /\ file' = Append(file, total + 1) /\ accepted' = accepted \cup {total + 1}
        /\ UNCHANGED <<publishing, writer, writeQueue>>
    BY <1>4 DEF Publish
  <2>2. total + 1 \notin accepted /\ total + 1 \notin Elements(file)
         /\ total + 1 \notin Elements(writeQueue)
    BY <1>1, <1>3 DEF TakenOnce
  <2>3. Elements(file') = Elements(file) \cup {total + 1} /\ Distinct(file')
    <3>1. file \in Seq(Events) /\ total + 1 \in Events /\ Distinct(file)
      BY <1>1, <1>3, <2>1 DEF TakenOnce
    <3> QED
      BY <2>1, <2>2, <3>1, AppendElements
  <2>4. \A q \in Publishers : publishing'[q].step = "send" => publishing'[q].event \notin accepted'
    BY <1>1, <1>3, <2>1 DEF EventsInHand, TakenOnce
  <2>5. TakenOnce'
    BY <1>1, <1>3, <2>1, <2>2, <2>3, <2>4 DEF TakenOnce
  <2> QED
    BY <1>1, <2>1, <2>5 DEF TakenParts, NothingLeft
<1>5. CASE PublishAsync(p)
  <2>1. /\ total' = total + 1
        /\ publishing' = [publishing EXCEPT ![p] = [step |-> "send", event |-> total + 1]]
        /\ UNCHANGED <<file, accepted, writer, writeQueue>>
    BY <1>5 DEF PublishAsync, fileVars
  <2>2. \A q \in Publishers : publishing'[q].step = "send" => publishing'[q].event \notin accepted'
    BY <1>1, <1>3, <2>1 DEF TakenOnce
  <2>3. TakenOnce'
    BY <1>1, <1>3, <2>1, <2>2 DEF TakenOnce
  <2> QED
    BY <1>1, <2>1, <2>3 DEF TakenParts, NothingLeft
<1>6. CASE SendToWriter(p)
  <2> DEFINE e == publishing[p].event
  <2>1. /\ publishing[p].step = "send" /\ publishing' = [publishing EXCEPT ![p].step = "fan out"]
        /\ writeQueue' = Append(writeQueue, e) /\ accepted' = accepted \cup {e}
        /\ writer # "off"
        /\ UNCHANGED <<total, writer, file>>
    BY <1>6 DEF SendToWriter, SendStep, Asynchronous
  <2>2. e \in 1..total /\ e \in Events
    <3>1. publishing[p].step # "idle"
      BY <2>1
    <3>2. e \in 1..total
      BY <1>1, <3>1 DEF EventsInHand
    <3>3. 1..total \subseteq Events
      BY <1>1, EventsAreNat DEF Events
    <3> QED
      BY <3>2, <3>3
  <2>3. e \notin accepted /\ e \notin Elements(file) /\ e \notin Elements(writeQueue)
    BY <1>1, <2>1 DEF TakenOnce
  <2>4. \A q \in Publishers : publishing'[q].step = "send" => publishing'[q].event \notin accepted'
    <3> SUFFICES ASSUME NEW q \in Publishers, publishing'[q].step = "send"
                 PROVE  publishing'[q].event \notin accepted'
      OBVIOUS
    <3>1. q # p /\ publishing'[q] = publishing[q]
      BY <1>1, <2>1 DEF PublishType
    <3> QED
      BY <1>1, <2>1, <3>1 DEF EventsInHand, TakenOnce
  <2> HIDE DEF e
  <2>5. Elements(writeQueue') = Elements(writeQueue) \cup {e} /\ Distinct(writeQueue')
    <3>1. writeQueue \in Seq(Events) /\ Distinct(writeQueue)
      BY <1>1 DEF TakenOnce
    <3>2. e \in Events /\ e \notin Elements(writeQueue) /\ writeQueue' = Append(writeQueue, e)
      BY <2>1, <2>2, <2>3
    <3> QED
      BY <3>1, <3>2, AppendElements
  <2>6. TakenOnce'
    BY <1>1, <2>1, <2>2, <2>3, <2>4, <2>5 DEF TakenOnce
  <2> QED
    BY <2>1, <2>6 DEF TakenParts, NothingLeft
<1>7. CASE SendDropped(p) \/ SendPanics(p) \/ FanOutAsync(p)
  <2>1. UNCHANGED <<total, file, accepted, writer, writeQueue>>
    BY <1>7 DEF SendDropped, SendPanics, FanOutAsync, fileVars
  <2>2. \A q \in Publishers : publishing'[q].step = "send" => publishing'[q] = publishing[q]
    <3>1. CASE SendDropped(p)
      BY <1>1, <3>1 DEF SendDropped, SendStep, PublishType
    <3>2. CASE SendPanics(p)
      BY <3>2 DEF SendPanics
    <3>3. CASE FanOutAsync(p)
      <4>1. publishing' = [publishing EXCEPT ![p] = NotPublishing]
        BY <3>3 DEF FanOutAsync
      <4>2. NotPublishing.step # "send"
        BY DEF NotPublishing
      <4> QED
        BY <1>1, <4>1, <4>2
    <3> QED
      BY <1>7, <3>1, <3>2, <3>3
  <2>3. TakenOnce'
    BY <1>1, <2>1, <2>2 DEF TakenOnce
  <2> QED
    BY <1>1, <2>1, <2>3 DEF TakenParts, NothingLeft
<1> QED
  BY <1>2, <1>4, <1>5, <1>6, <1>7

\* The writer takes over what is in the queue.
LEMMA TakenOthers ==
    ASSUME HandParts, TakenParts, SubscriberSteps \/ WriterSteps \/ ForwarderSteps \/ UNCHANGED busVars
    PROVE  TakenParts'
<1>1. /\ file \in Seq(Events) /\ writeQueue \in Seq(Events)
      /\ TakenOnce /\ NothingLeft
  BY BusTypes DEF HandParts, TakenParts
<1>2. UNCHANGED <<total, publishing, accepted>>
  BY DEF SubscriberSteps, Subscribe, Unsubscribe, Receive, WriterSteps, StartAsyncWrites, StartWriter, WriteNext,
         StopAsyncWrites, StopReturns, ForwarderSteps, ReadHistory, SendBatch, SendBatchFails,
         busVars, fileVars
<1>3. CASE SubscriberSteps \/ ForwarderSteps \/ UNCHANGED busVars
  <2>1. UNCHANGED <<file, writer, writeQueue>>
    BY <1>3
       DEF SubscriberSteps, Subscribe, Unsubscribe, Receive, ForwarderSteps, ReadHistory,
           SendBatch, SendBatchFails, busVars, fileVars
  <2> QED
    BY <1>1, <1>2, <2>1 DEF TakenParts, TakenOnce, NothingLeft
<1>4. CASE StartAsyncWrites \/ StartWriter \/ StopAsyncWrites \/ StopReturns
  <2>1. UNCHANGED <<file, writeQueue>> /\ (writer' = "off" => writeQueue = <<>>)
    BY <1>4 DEF StartAsyncWrites, StartWriter, StopAsyncWrites, StopReturns
  <2> QED
    BY <1>1, <1>2, <2>1 DEF TakenParts, TakenOnce, NothingLeft
<1>5. CASE WriteNext
  <2> DEFINE h == Head(writeQueue)
  <2>1. /\ writeQueue # <<>> /\ file' = Append(file, h) /\ writeQueue' = Tail(writeQueue)
        /\ UNCHANGED writer
    BY <1>5 DEF WriteNext
  <2>2. h \in Events
    BY <1>1, <2>1, TailFacts
  <2>3. /\ Elements(writeQueue) = {h} \cup Elements(writeQueue')
        /\ Distinct(writeQueue') /\ h \notin Elements(writeQueue')
    BY <1>1, <2>1, TailElements DEF TakenOnce
  <2> HIDE DEF h
  <2>4. h \notin Elements(file)
    BY <1>1, <2>3 DEF TakenOnce
  <2>5. Elements(file') = Elements(file) \cup {h} /\ Distinct(file')
    BY <1>1, <2>1, <2>2, <2>4, AppendElements DEF TakenOnce
  <2>6. TakenOnce'
    BY <1>1, <1>2, <2>3, <2>4, <2>5 DEF TakenOnce
  <2>7. NothingLeft'
    BY <1>1, <2>1 DEF NothingLeft
  <2> QED
    BY <2>6, <2>7 DEF TakenParts
<1> QED
  BY <1>3, <1>4, <1>5 DEF WriterSteps

-----------------------------------------------------------------------------
(* What was forwarded. *)

ForwardParts == Forwarded /\ ForwardedInOrder

\* The forwarder continues where it stopped, or later.
LEMMA ForwardSteps ==
    ASSUME HandParts, ForwardParts, ForwarderSteps
    PROVE  ForwardParts'
<1> DEFINE sent == received \o batch
<1>1. /\ total \in Nat /\ cursor \in 0..total
      /\ received \in Seq(Nat) /\ batch \in Seq(Nat) /\ sent \in Seq(Nat)
      /\ smooth \in BOOLEAN
  <2>1. /\ total \in 0..MaxEvents /\ cursor \in 0..MaxEvents /\ cursor <= total
        /\ received \in Seq(Events) /\ batch \in Seq(Events) /\ smooth \in BOOLEAN
    BY BusTypes DEF HandParts
  <2>2. received \in Seq(Nat) /\ batch \in Seq(Nat)
    BY <2>1, NatSequences
  <2> QED
    BY <2>1, <2>2, ConcatProperties
<1>2. /\ Ascending(sent) /\ \A i \in DOMAIN sent : sent[i] <= cursor
      /\ smooth => sent = Span(1, cursor)
  BY DEF ForwardParts, Forwarded, ForwardedInOrder
<1>3. CASE ReadHistory
  <2>1. /\ batch = <<>> /\ batch' = After(cursor) /\ cursor' = total
        /\ smooth' = (smooth /\ total - cursor <= Limit /\ cursor >= Forgotten)
        /\ UNCHANGED <<total, received>>
    BY <1>3 DEF ReadHistory
  <2>2. sent = received
    BY <1>1, <2>1, ConcatEmptySeq
  <2>3. PICK a \in cursor..total : \E b \in a..total :
          /\ After(cursor) = Span(a + 1, b)
          /\ total - cursor <= Limit /\ cursor >= Forgotten => a = cursor /\ b = total
    BY <1>1, AfterFacts
  <2>4. PICK b \in a..total :
          /\ After(cursor) = Span(a + 1, b)
          /\ total - cursor <= Limit /\ cursor >= Forgotten => a = cursor /\ b = total
    BY <2>3
  <2>5. a \in Nat /\ b \in Nat /\ a <= b
    BY <1>1
  <2>6. /\ batch' \in Seq(Nat) /\ Ascending(batch')
        /\ \A i \in DOMAIN batch' : batch'[i] \in (a + 1)..b
    BY <2>1, <2>4, <2>5, SpanFacts
  <2>7. /\ received \in Seq(Nat) /\ Ascending(received)
        /\ \A i \in DOMAIN received : received[i] \in Nat /\ received[i] <= cursor
    <3>1. \A i \in DOMAIN received : received[i] \in Nat
      BY <1>1, LenProperties
    <3> QED
      BY <1>1, <1>2, <2>2, <3>1
  <2>8. \A i \in DOMAIN received, j \in DOMAIN batch' : received[i] < batch'[j]
    <3> SUFFICES ASSUME NEW i \in DOMAIN received, NEW j \in DOMAIN batch'
                 PROVE  received[i] < batch'[j]
      OBVIOUS
    <3>1. received[i] \in Nat /\ received[i] <= cursor /\ batch'[j] \in (a + 1)..b
      BY <2>6, <2>7
    <3> QED
      BY <1>1, <3>1
  <2>9. Ascending(received \o batch')
    BY <2>6, <2>7, <2>8, AscendingConcat
  <2>10. \A i \in DOMAIN (received \o batch') : (received \o batch')[i] <= total
    <3> DEFINE next == received \o batch'  m == Len(received)  n == Len(batch')
    <3>1. /\ DOMAIN received = 1..m /\ DOMAIN batch' = 1..n /\ DOMAIN next = 1..(m + n)
          /\ m \in Nat /\ n \in Nat
          /\ \A i \in 1..(m + n) : next[i] = IF i <= m THEN received[i] ELSE batch'[i - m]
      BY <2>6, <2>7, ConcatProperties, LenProperties
    <3> SUFFICES ASSUME NEW i \in 1..(m + n)
                 PROVE  next[i] <= total
      BY <3>1
    <3> HIDE DEF next, m, n
    <3>2. CASE i <= m
      <4>1. next[i] = received[i] /\ i \in DOMAIN received
        BY <3>1, <3>2
      <4>2. received[i] \in Nat /\ received[i] <= cursor
        BY <2>7, <4>1
      <4> QED
        BY <1>1, <4>1, <4>2
    <3>3. CASE ~(i <= m)
      <4>1. next[i] = batch'[i - m] /\ i - m \in DOMAIN batch'
        BY <3>1, <3>3
      <4>2. next[i] \in (a + 1)..b
        BY <2>6, <4>1
      <4> QED
        BY <1>1, <4>2
    <3> QED
      BY <3>2, <3>3
  <2>11. smooth' => received \o batch' = Span(1, total)
    <3> SUFFICES ASSUME smooth'
                 PROVE  received \o batch' = Span(1, total)
      OBVIOUS
    <3>1. smooth /\ a = cursor /\ b = total
      BY <1>1, <2>1, <2>4
    <3>2. received = Span(1, cursor) /\ batch' = Span(cursor + 1, total)
      BY <1>2, <2>1, <2>2, <2>4, <3>1
    <3>3. cursor \in Nat /\ total \in Nat /\ cursor <= total
      BY <1>1
    <3>4. Span(1, cursor) \o Span(cursor + 1, total) = Span(1, total)
      BY <3>3, SpanContinues
    <3> QED
      BY <3>2, <3>4, Zenon
  <2> QED
    BY <1>1, <2>1, <2>9, <2>10, <2>11 DEF ForwardParts, Forwarded, ForwardedInOrder
<1>4. CASE SendBatch
  <2>1. /\ received' = sent /\ batch' = <<>> /\ UNCHANGED <<total, cursor, smooth>>
    BY <1>4 DEF SendBatch
  <2>2. received' \o batch' = sent
    BY <1>1, <2>1, ConcatEmptySeq
  <2> QED
    BY <1>1, <1>2, <2>1, <2>2 DEF ForwardParts, Forwarded, ForwardedInOrder
<1>5. CASE SendBatchFails
  <2>1. /\ batch' = <<>> /\ smooth' = FALSE /\ UNCHANGED <<total, cursor, received>>
    BY <1>5 DEF SendBatchFails
  <2>2. received' \o batch' = received
    BY <1>1, <2>1, ConcatEmptySeq
  <2>3. Ascending(received)
    BY <1>1, <1>2, AscendingFront
  <2>4. \A i \in DOMAIN received : received[i] <= cursor
    <3>1. /\ DOMAIN received = 1..Len(received) /\ DOMAIN sent = 1..(Len(received) + Len(batch))
          /\ Len(received) \in Nat /\ Len(batch) \in Nat
          /\ \A i \in 1..(Len(received) + Len(batch)) :
               sent[i] = IF i <= Len(received) THEN received[i] ELSE batch[i - Len(received)]
      BY <1>1, ConcatProperties, LenProperties
    <3> HIDE DEF sent
    <3>2. \A i \in DOMAIN received : i \in DOMAIN sent /\ sent[i] = received[i]
      BY <3>1
    <3> QED
      BY <1>2, <3>2
  <2> QED
    BY <1>1, <2>1, <2>2, <2>3, <2>4 DEF ForwardParts, Forwarded, ForwardedInOrder
<1> QED
  BY <1>3, <1>4, <1>5 DEF ForwarderSteps

LEMMA ForwardOthers ==
    ASSUME HandParts, ForwardParts,
           PublisherSteps \/ SubscriberSteps \/ WriterSteps \/ UNCHANGED busVars
    PROVE  ForwardParts'
<1>1. UNCHANGED forwardVars
  BY DEF PublisherSteps, Publish, PublishAsync, SendToWriter, SendDropped, SendPanics, FanOutAsync,
         SubscriberSteps, Subscribe, Unsubscribe, Receive, WriterSteps, StartAsyncWrites, StartWriter, WriteNext,
         StopAsyncWrites, StopReturns, busVars
<1>2. total' \in Nat /\ total <= total' /\ total \in Nat /\ cursor \in Nat
  <2>1. total \in Nat /\ cursor \in Nat
    BY BusTypes DEF HandParts
  <2>2. total' = total \/ total' = total + 1
    BY DEF PublisherSteps, Publish, PublishAsync, SendToWriter, SendDropped, SendPanics,
           FanOutAsync, SubscriberSteps, Subscribe, Unsubscribe, Receive, WriterSteps,
           StartAsyncWrites, StartWriter, WriteNext, StopAsyncWrites, StopReturns, busVars
  <2> QED
    BY <2>1, <2>2
<1> QED
  BY <1>1, <1>2 DEF ForwardParts, Forwarded, ForwardedInOrder, forwardVars

-----------------------------------------------------------------------------
(* What subscribers receive. *)

\* The channel of a subscriber is in order and after what it has got.
InOrder(s) ==
  /\ Ascending(channel[s])
  /\ \A i \in DOMAIN channel[s] : got[s] < channel[s][i]

LEMMA SubscriberOrder ==
    ASSUME BusTyped
    PROVE  SubscriberInOrder <=> \A s \in DOMAIN channel : ~everAsync => InOrder(s)
<1>1. ASSUME NEW s \in DOMAIN channel
      PROVE  s \in Subscribers /\ (Ascending(<<got[s]>> \o channel[s]) <=> InOrder(s))
  <2>1. s \in Subscribers /\ got[s] \in Nat /\ channel[s] \in Seq(Nat)
    BY BusTypes, NatSequences
  <2> QED
    BY <2>1, AscendingFrom DEF InOrder
<1> QED
  BY <1>1 DEF SubscriberInOrder

\* The same of the next state.
LEMMA SubscriberOrderNext ==
    ASSUME BusTyped'
    PROVE  SubscriberInOrder' <=> \A s \in DOMAIN channel' : ~everAsync' => InOrder(s)'
<1>1. ASSUME NEW s \in DOMAIN channel'
      PROVE  s \in Subscribers /\ (Ascending(<<got'[s]>> \o channel'[s]) <=> InOrder(s)')
  <2>1. s \in Subscribers /\ got'[s] \in 0..MaxEvents /\ channel'[s] \in Seq(Events)
    BY DEF BusTyped, BusTypeOK, ChannelsTyped
  <2>2. channel'[s] \in Seq(Nat) /\ got'[s] \in Nat
    BY <2>1, NatSequences
  <2> QED
    BY <2>1, <2>2, AscendingFrom DEF InOrder
<1> QED
  BY <1>1 DEF SubscriberInOrder

DeliverParts == Delivered /\ LockKept /\ SubscriberInOrder

\* An event that is fanned out is put behind what is in a channel.
LEMMA DeliverFanOut ==
    ASSUME BusTyped, NEW e \in Events, FanOut(e), UNCHANGED got
    PROVE  \A s \in DOMAIN channel' :
             /\ s \in DOMAIN channel
             /\ \A i \in DOMAIN channel'[s] :
                  channel'[s][i] = e \/ (i \in DOMAIN channel[s] /\ channel'[s][i] = channel[s][i])
             /\ InOrder(s) /\ got[s] < e /\ (\A i \in DOMAIN channel[s] : channel[s][i] < e)
                  => InOrder(s)'
<1> SUFFICES ASSUME NEW s \in DOMAIN channel'
             PROVE  /\ s \in DOMAIN channel
                    /\ \A i \in DOMAIN channel'[s] :
                         \/ channel'[s][i] = e
                         \/ i \in DOMAIN channel[s] /\ channel'[s][i] = channel[s][i]
                    /\ InOrder(s) /\ got[s] < e /\ (\A i \in DOMAIN channel[s] : channel[s][i] < e)
                         => InOrder(s)'
  OBVIOUS
<1>1. /\ s \in DOMAIN channel /\ channel[s] \in Seq(Events)
      /\ channel'[s] = channel[s] \/ channel'[s] = Append(channel[s], e)
  BY FanOutFacts, BusTypes
<1>2. e \in Nat /\ channel[s] \in Seq(Nat)
  BY <1>1, NatSequences, EventsAreNat
<1>3. CASE channel'[s] = channel[s]
  BY <1>1, <1>3 DEF InOrder
<1>4. CASE channel'[s] = Append(channel[s], e)
  <2> DEFINE old == channel[s]  new == channel'[s]
  <2>1. /\ DOMAIN new = 1..(Len(old) + 1) /\ new[Len(old) + 1] = e
        /\ \A i \in 1..Len(old) : new[i] = old[i]
        /\ DOMAIN old = 1..Len(old) /\ Len(old) \in Nat
    BY <1>1, <1>4, AppendFacts
  <2>2. ASSUME Ascending(old), \A i \in DOMAIN old : old[i] < e
        PROVE  Ascending(new)
    BY <1>2, <1>4, <2>2, AscendingAppend
  <2> HIDE DEF old, new
  <2>3. \A i \in DOMAIN new : new[i] = e \/ (i \in DOMAIN old /\ new[i] = old[i])
    BY <2>1
  <2> QED
    BY <1>1, <2>2, <2>3 DEF old, new, InOrder
<1> QED
  BY <1>1, <1>3, <1>4

LEMMA DeliverPublish ==
    ASSUME HandParts, DeliverParts, PublisherSteps
    PROVE  DeliverParts'
<1>1. /\ BusTyped /\ total \in 0..MaxEvents /\ got \in [Subscribers -> 0..MaxEvents]
      /\ DOMAIN channel \subseteq Subscribers /\ everAsync \in BOOLEAN
      /\ publishing \in [Publishers -> PublishType]
      /\ \A s \in DOMAIN channel : \A i \in DOMAIN channel[s] : channel[s][i] \in Nat
  <2>1. \A s \in DOMAIN channel : \A i \in DOMAIN channel[s] : channel[s][i] \in Nat
    <3> SUFFICES ASSUME NEW s \in DOMAIN channel, NEW i \in DOMAIN channel[s]
                 PROVE  channel[s][i] \in Nat
      OBVIOUS
    <3>1. channel[s] \in Seq(Nat)
      BY BusTypes, NatSequences DEF HandParts
    <3> QED
      BY <3>1, LenProperties
  <2> QED
    BY <2>1, BusTypes DEF HandParts
<1>2. PICK p \in Publishers :
        \/ Publish(p) \/ PublishAsync(p)
        \/ SendToWriter(p) \/ SendDropped(p) \/ SendPanics(p) \/ FanOutAsync(p)
  BY DEF PublisherSteps
<1>3. /\ Delivered /\ LockKept /\ EventsInHand
      /\ \A s \in DOMAIN channel : ~everAsync => InOrder(s)
  BY <1>1, SubscriberOrder DEF DeliverParts, HandParts
<1>4. UNCHANGED <<got, everAsync>>
  BY <1>2 DEF Publish, PublishAsync, SendToWriter, SendDropped, SendPanics, FanOutAsync, fileVars
<1>5. BusTyped'
  BY HandPublish DEF HandParts
<1>6. CASE Publish(p)
  <2>1. /\ total < MaxEvents /\ total' = total + 1 /\ FanOut(total + 1) /\ total + 1 \in Events
        /\ UNCHANGED <<publishing, writer>>
    BY <1>1, <1>6, EventsAreNat DEF Publish
  <2>2. \A s \in DOMAIN channel' :
          /\ s \in DOMAIN channel
          /\ \A i \in DOMAIN channel'[s] :
               \/ channel'[s][i] = total + 1
               \/ i \in DOMAIN channel[s] /\ channel'[s][i] = channel[s][i]
          /\ InOrder(s) /\ got[s] < total + 1
             /\ (\A i \in DOMAIN channel[s] : channel[s][i] < total + 1)
               => InOrder(s)'
    BY <1>1, <1>4, <2>1, DeliverFanOut
  <2>3. /\ \A s \in Subscribers : got[s] < total + 1 /\ got[s] <= total + 1
        /\ \A s \in DOMAIN channel : \A i \in DOMAIN channel[s] :
             channel[s][i] < total + 1 /\ channel[s][i] <= total + 1
    BY <1>1, <1>3 DEF Delivered
  <2>4. Delivered'
    BY <1>1, <1>4, <2>1, <2>2, <2>3 DEF Delivered
  <2>5. \A s \in DOMAIN channel' : ~everAsync' => InOrder(s)'
    BY <1>1, <1>3, <1>4, <2>2, <2>3
  <2>6. SubscriberInOrder'
    BY <1>5, <2>5, SubscriberOrderNext
  <2>7. LockKept'
    BY <1>3, <1>4, <2>1 DEF LockKept
  <2> QED
    BY <2>4, <2>6, <2>7 DEF DeliverParts
<1>7. CASE ~Publish(p)
  <2>1. PublishAsync(p) => writer # "off"
    BY DEF PublishAsync, Asynchronous
  <2>2. ~PublishAsync(p) => publishing[p] # NotPublishing
    <3>1. publishing[p].step \in {"send", "fan out"} \/ PublishAsync(p)
      BY <1>2, <1>7 DEF SendToWriter, SendStep, SendDropped, SendPanics, FanOutAsync
    <3>2. NotPublishing.step = "idle"
      BY DEF NotPublishing
    <3> QED
      BY <3>1, <3>2
  <2>3. everAsync
    BY <1>1, <1>3, <2>1, <2>2 DEF LockKept
  <2>4. LockKept' /\ SubscriberInOrder'
    BY <1>4, <2>3 DEF LockKept, SubscriberInOrder
  <2>5. Delivered'
    <3>1. CASE FanOutAsync(p)
      <4> DEFINE e == publishing[p].event
      <4>1. publishing[p].step # "idle" /\ FanOut(e) /\ UNCHANGED total
        BY <3>1 DEF FanOutAsync
      <4>2. e \in 1..total
        BY <1>3, <4>1 DEF EventsInHand
      <4>3. e \in Events /\ e <= total
        BY <1>1, <4>2, EventsAreNat DEF Events
      <4> HIDE DEF e
      <4>4. \A s \in DOMAIN channel' :
              /\ s \in DOMAIN channel
              /\ \A i \in DOMAIN channel'[s] :
                   \/ channel'[s][i] = e
                   \/ i \in DOMAIN channel[s] /\ channel'[s][i] = channel[s][i]
        BY <1>1, <1>4, <4>1, <4>3, DeliverFanOut
      <4> QED
        BY <1>3, <1>4, <4>1, <4>3, <4>4 DEF Delivered
    <3>2. CASE ~FanOutAsync(p)
      <4>1. UNCHANGED channel /\ (total' = total \/ total' = total + 1)
        BY <1>2, <1>7, <3>2 DEF PublishAsync, SendToWriter, SendDropped, SendPanics
      <4>2. /\ \A s \in Subscribers : got[s] <= total'
            /\ \A s \in DOMAIN channel : \A i \in DOMAIN channel[s] : channel[s][i] <= total'
        BY <1>1, <1>3, <4>1 DEF Delivered
      <4> QED
        BY <1>4, <4>1, <4>2 DEF Delivered
    <3> QED
      BY <3>1, <3>2
  <2> QED
    BY <2>4, <2>5 DEF DeliverParts
<1> QED
  BY <1>6, <1>7

\* A subscriber takes the first event of its channel; a subscription that is
\* made anew begins after all it has got before.
LEMMA DeliverSubscriber ==
    ASSUME HandParts, DeliverParts, SubscriberSteps
    PROVE  DeliverParts'
<1>1. /\ BusTyped /\ BusTyped'
      /\ total \in 0..MaxEvents /\ got \in [Subscribers -> 0..MaxEvents]
      /\ DOMAIN channel \subseteq Subscribers /\ channel \in [DOMAIN channel -> Seq(Events)]
  BY BusTypes, HandOthers DEF HandParts
<1>2. PICK s \in Subscribers : Subscribe(s) \/ Unsubscribe(s) \/ Receive(s)
  BY DEF SubscriberSteps
<1>3. /\ Delivered /\ LockKept
      /\ \A t \in DOMAIN channel : ~everAsync => InOrder(t)
  BY <1>1, SubscriberOrder DEF DeliverParts
<1>4. UNCHANGED <<total, publishing, writer, everAsync>>
  BY <1>2 DEF Subscribe, Unsubscribe, Receive, fileVars
<1>5. LockKept'
  BY <1>3, <1>4 DEF LockKept
<1>6. SUFFICES Delivered' /\ \A t \in DOMAIN channel' : ~everAsync' => InOrder(t)'
  BY <1>1, <1>5, SubscriberOrderNext DEF DeliverParts
<1>7. CASE Subscribe(s)
  <2>1. /\ DOMAIN channel' = DOMAIN channel \cup {s} /\ got' = got
        /\ \A t \in DOMAIN channel' : channel'[t] = IF t = s THEN <<>> ELSE channel[t]
        /\ s \notin DOMAIN channel
    BY <1>7 DEF Subscribe
  <2>2. DOMAIN <<>> = {}
    OBVIOUS
  <2>3. Delivered'
    BY <1>3, <1>4, <2>1, <2>2 DEF Delivered
  <2>4. InOrder(s)'
    BY <2>1, <2>2 DEF InOrder, Ascending
  <2>5. \A t \in DOMAIN channel : InOrder(t) => InOrder(t)'
    BY <2>1 DEF InOrder
  <2> QED
    BY <1>3, <1>4, <2>1, <2>3, <2>4, <2>5
<1>8. CASE Unsubscribe(s)
  <2>1. /\ DOMAIN channel' = DOMAIN channel \ {s} /\ got' = got
        /\ \A t \in DOMAIN channel' : channel'[t] = channel[t]
    BY <1>8 DEF Unsubscribe
  <2>2. Delivered'
    BY <1>3, <1>4, <2>1 DEF Delivered
  <2>3. \A t \in DOMAIN channel' : InOrder(t) => InOrder(t)'
    BY <2>1 DEF InOrder
  <2> QED
    BY <1>3, <1>4, <2>1, <2>2, <2>3
<1>9. CASE Receive(s)
  <2> DEFINE old == channel[s]  new == Tail(old)  h == Head(old)
  <2>1. /\ s \in DOMAIN channel /\ old # <<>> /\ old \in Seq(Events)
        /\ channel' = [channel EXCEPT ![s] = new] /\ got' = [got EXCEPT ![s] = h]
    BY <1>1, <1>9 DEF Receive
  <2>2. /\ h = old[1] /\ DOMAIN new = 1..(Len(old) - 1)
        /\ \A i \in 1..(Len(old) - 1) : new[i] = old[i + 1]
        /\ DOMAIN old = 1..Len(old) /\ Len(old) \in Nat \ {0}
    BY <2>1, TailFacts
  <2>3. ASSUME Ascending(old)
        PROVE  Ascending(new) /\ \A i \in DOMAIN new : h < new[i]
    <3>1. old \in Seq(Nat)
      BY <2>1, NatSequences
    <3> QED
      BY <2>1, <2>3, <3>1, AscendingTail
  <2>4. /\ DOMAIN channel' = DOMAIN channel /\ channel'[s] = new /\ got'[s] = h
        /\ \A t \in DOMAIN channel : t # s => channel'[t] = channel[t]
        /\ \A t \in Subscribers : t # s => got'[t] = got[t]
    BY <1>1, <2>1
  <2>5. \A i \in DOMAIN old : old[i] <= total
    BY <1>3, <2>1 DEF Delivered
  <2> HIDE DEF old, new, h
  <2>6. /\ h <= total
        /\ \A i \in DOMAIN new : new[i] <= total
    <3>1. 1 \in DOMAIN old /\ \A i \in DOMAIN new : i + 1 \in DOMAIN old /\ new[i] = old[i + 1]
      BY <2>2
    <3> QED
      BY <2>2, <2>5, <3>1
  <2>7. Delivered'
    <3>1. \A t \in Subscribers : got'[t] <= total
      <4> SUFFICES ASSUME NEW t \in Subscribers
                   PROVE  got'[t] <= total
        OBVIOUS
      <4>1. CASE t = s
        BY <2>4, <2>6, <4>1
      <4>2. CASE t # s
        BY <1>3, <2>4, <4>2 DEF Delivered
      <4> QED
        BY <4>1, <4>2
    <3>2. \A t \in DOMAIN channel' : \A i \in DOMAIN channel'[t] : channel'[t][i] <= total
      <4> SUFFICES ASSUME NEW t \in DOMAIN channel', NEW i \in DOMAIN channel'[t]
                   PROVE  channel'[t][i] <= total
        OBVIOUS
      <4>1. CASE t = s
        BY <2>4, <2>6, <4>1
      <4>2. CASE t # s
        BY <1>3, <2>4, <4>2 DEF Delivered
      <4> QED
        BY <4>1, <4>2
    <3> QED
      BY <1>4, <3>1, <3>2 DEF Delivered
  <2>8. InOrder(s) => InOrder(s)'
    BY <2>3, <2>4 DEF InOrder, old
  <2>9. \A t \in DOMAIN channel : t # s /\ InOrder(t) => InOrder(t)'
    BY <1>1, <2>4 DEF InOrder
  <2> QED
    BY <1>3, <1>4, <2>4, <2>7, <2>8, <2>9
<1> QED
  BY <1>2, <1>7, <1>8, <1>9

LEMMA DeliverOthers ==
    ASSUME HandParts, DeliverParts, WriterSteps \/ ForwarderSteps \/ UNCHANGED busVars
    PROVE  DeliverParts'
<1>1. UNCHANGED <<total, publishing, channel, got>> /\ everAsync \in BOOLEAN
  BY BusTypes
     DEF HandParts, WriterSteps, StartAsyncWrites, StartWriter, WriteNext, StopAsyncWrites, StopReturns,
         ForwarderSteps, ReadHistory, SendBatch, SendBatchFails, busVars
<1>2. (everAsync => everAsync') /\ (~everAsync' => writer' = "off")
  BY <1>1
     DEF DeliverParts, LockKept, WriterSteps, StartAsyncWrites, StartWriter, WriteNext, StopAsyncWrites,
         StopReturns, Asynchronous, ForwarderSteps, ReadHistory, SendBatch, SendBatchFails, busVars, fileVars
<1> QED
  BY <1>1, <1>2 DEF DeliverParts, Delivered, LockKept, SubscriberInOrder

-----------------------------------------------------------------------------
(* The theorems. *)

LEMMA BusIInvParts == BusIInv <=> HandParts /\ TakenParts /\ ForwardParts /\ DeliverParts
BY DEF BusIInv, HandParts, BusTyped, TakenParts, ForwardParts, Forwarded, DeliverParts

LEMMA BusBegins == BusInit => BusIInv
<1> SUFFICES ASSUME BusInit
             PROVE  BusIInv
  OBVIOUS
<1>1. DOMAIN <<>> = {} /\ (\A S : <<>> \in Seq(S)) /\ Len(<<>>) = 0 /\ <<>> \o <<>> = <<>>
  <2>1. \A S : <<>> \in Seq(S)
    BY EmptySeq
  <2>2. <<>> \in Seq(Nat)
    BY <2>1
  <2>3. <<>> \o <<>> = <<>>
    BY <2>2, ConcatEmptySeq
  <2> QED
    BY <2>1, <2>3
<1>2. 0 \in 0..MaxEvents /\ 0 <= QueueCap + 1
  BY BusAssumption
<1>3. NotPublishing \in PublishType /\ NotPublishing.step = "idle"
  BY <1>2 DEF NotPublishing, PublishType
<1>4. BusTyped
  <2>1. channel \in [DOMAIN channel -> Seq(Events)] /\ DOMAIN channel = {}
    BY <1>1 DEF BusInit
  <2>2. publishing \in [Publishers -> PublishType] /\ got \in [Subscribers -> 0..MaxEvents]
    BY <1>2, <1>3 DEF BusInit
  <2> QED
    BY <1>1, <1>2, <2>1, <2>2, BusTypes DEF BusInit
<1>5. HandParts
  BY <1>3, <1>4 DEF HandParts, EventsInHand, BusInit
<1>6. TakenParts
  BY <1>1, <1>3 DEF TakenParts, TakenOnce, NothingLeft, Elements, Distinct, BusInit
<1>7. ForwardParts
  <2>1. Span(1, 0) = <<>>
    <3>1. Span(0 + 1, 0) \in Seq(Nat) /\ Len(Span(0 + 1, 0)) = 0 - 0
      BY SpanFacts
    <3>2. Span(1, 0) \in Seq(Nat) /\ Len(Span(1, 0)) = 0
      BY <3>1
    <3> QED
      BY <3>2, EmptySeq
  <2> QED
    BY <1>1, <2>1 DEF ForwardParts, Forwarded, ForwardedInOrder, Ascending, BusInit
<1>8. DeliverParts
  BY <1>1 DEF DeliverParts, Delivered, LockKept, SubscriberInOrder, BusInit
<1> QED
  BY <1>5, <1>6, <1>7, <1>8, BusIInvParts

\* No action disturbs the invariant.
LEMMA BusStep == BusIInv /\ [BusNext]_busVars => BusIInv'
<1> SUFFICES ASSUME BusIInv, [BusNext]_busVars
             PROVE  HandParts' /\ TakenParts' /\ ForwardParts' /\ DeliverParts'
  BY DEF BusIInv, HandParts, BusTyped, TakenParts, ForwardParts, Forwarded, DeliverParts
<1>1. HandParts /\ TakenParts /\ ForwardParts /\ DeliverParts
  BY BusIInvParts
<1>2. PublisherSteps \/ SubscriberSteps \/ WriterSteps \/ ForwarderSteps \/ UNCHANGED busVars
  BY DEF BusNext, PublisherSteps, SubscriberSteps, WriterSteps, ForwarderSteps
<1>3. HandParts'
  BY <1>1, <1>2, HandPublish, HandOthers
<1>4. TakenParts'
  BY <1>1, <1>2, TakenPublish, TakenOthers
<1>5. ForwardParts'
  BY <1>1, <1>2, ForwardSteps, ForwardOthers
<1>6. DeliverParts'
  BY <1>1, <1>2, DeliverPublish, DeliverSubscriber, DeliverOthers
<1> QED
  BY <1>3, <1>4, <1>5, <1>6

\* In every reachable state the invariant holds.
THEOREM BusInvariant == BusSpec => []BusIInv
BY BusBegins, BusStep, PTL DEF BusSpec

\* The state of the bus, of its writer and of the forwarder keeps its type.
THEOREM BusTypeCorrect == BusSpec => []BusTypeOK
<1>1. BusIInv => BusTypeOK
  BY DEF BusIInv
<1> QED
  BY <1>1, BusInvariant, PTL

\* The coordinator gets the events of a worker in their order and none twice,
\* and all of them when no batch failed or was cut off (events/bus.go:463,
\* fleet/worker.go:332).
THEOREM ForwardingIsInOrder == BusSpec => []ForwardedInOrder
<1>1. BusIInv => ForwardedInOrder
  BY DEF BusIInv
<1> QED
  BY <1>1, BusInvariant, PTL

\* A subscriber receives events in the order of the history, over full channels
\* and new subscriptions, while no publish lets go of the lock (events/bus.go:320).
THEOREM SubscribersAreInOrder == BusSpec => []SubscriberInOrder
<1>1. BusIInv => SubscriberInOrder
  BY DEF BusIInv
<1> QED
  BY <1>1, BusInvariant, PTL

\* A writer that has returned left nothing in its queue.
LEMMA WriterDrained == BusIInv => StopDrains
<1>1. DOMAIN <<>> = {}
  OBVIOUS
<1> QED
  BY <1>1 DEF BusIInv, TakenOnce, NothingLeft, StopDrains, Elements, Distinct

\* When StopAsyncWrites has returned, every event that was taken for the file is
\* in it, and none is twice (events/bus.go:613).
THEOREM StopsDrain == BusSpec => []StopDrains
BY WriterDrained, BusInvariant, PTL

=============================================================================
