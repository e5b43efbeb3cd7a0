--------------------------- MODULE EventBusProofs ---------------------------
(***************************************************************************)
(* Every method of the bus keeps BusType and BusInv: the lemmas that the   *)
(* theorems about EventBusSpec and StreamHub rest on.                      *)
(***************************************************************************)
EXTENDS EventBus, SequenceTheorems, TLAPS

(* Trimming yields a sequence of events. *)
LEMMA TrimType ==
    ASSUME NEW f \in Seq(Event)
    PROVE  /\ Trim(f) \in Seq(Event)
           /\ Len(Trim(f)) = IF Len(f) > BufferLimit THEN BufferLimit ELSE Len(f)
           /\ \A i \in 1..Len(Trim(f)) : Trim(f)[i] = f[Len(f) - Len(Trim(f)) + i]
<1>0. Len(f) \in Nat /\ BufferLimit \in Nat
  BY BusAssumption
<1>1. CASE Len(f) > BufferLimit
  <2> DEFINE m == Len(f) - BufferLimit + 1
  <2>1. m \in 1..(Len(f)+1)
    BY <1>0, <1>1
  <2>2. \A i \in m..Len(f) : f[i] \in Event
    BY <1>0, <2>1, ElementOfSeq
  <2>3. /\ SubSeq(f, m, Len(f)) \in Seq(Event)
        /\ Len(SubSeq(f, m, Len(f))) = IF m <= Len(f) THEN Len(f) - m + 1 ELSE 0
        /\ \A i \in 1 .. Len(f) - m + 1 : SubSeq(f, m, Len(f))[i] = f[m + i - 1]
    BY <1>0, <2>1, <2>2, SubSeqProperties
  <2>4. Trim(f) = SubSeq(f, m, Len(f))
    BY <1>1 DEF Trim
  <2> QED BY <1>0, <1>1, <2>3, <2>4
<1>2. CASE ~(Len(f) > BufferLimit)
  BY <1>0, <1>2 DEF Trim
<1> QED BY <1>1, <1>2

(* Trimming the buffer after every publish is as good as trimming the feed. *)
LEMMA TrimAppend ==
    ASSUME NEW f \in Seq(Event), NEW e \in Event
    PROVE  Trim(Append(Trim(f), e)) = Trim(Append(f, e))
<1> DEFINE a == Append(Trim(f), e)
           c == Append(f, e)
           l == BufferLimit
           n == Len(f)
           p == Len(Trim(f))
<1>1. /\ l \in Nat /\ n \in Nat /\ p \in Nat
      /\ p = IF n > l THEN l ELSE n
      /\ \A i \in 1..p : Trim(f)[i] = f[n - p + i]
      /\ Trim(f) \in Seq(Event)
  BY TrimType, BusAssumption
<1>2. /\ a \in Seq(Event) /\ Len(a) = p + 1
      /\ a[p + 1] = e
      /\ \A i \in 1..p : a[i] = Trim(f)[i]
  BY <1>1
<1>3. /\ c \in Seq(Event) /\ Len(c) = n + 1
      /\ c[n + 1] = e
      /\ \A i \in 1..n : c[i] = f[i]
  BY <1>1
<1> HIDE DEF a, c, n, p
<1> DEFINE q == Len(Trim(a))
<1>4. /\ Trim(a) \in Seq(Event)
      /\ q = IF p + 1 > l THEN l ELSE p + 1
      /\ \A i \in 1..q : Trim(a)[i] = a[p + 1 - q + i]
  <2>1. /\ Trim(a) \in Seq(Event)
        /\ Len(Trim(a)) = IF Len(a) > BufferLimit THEN BufferLimit ELSE Len(a)
        /\ \A i \in 1..Len(Trim(a)) : Trim(a)[i] = a[Len(a) - Len(Trim(a)) + i]
    BY <1>2, TrimType
  <2> QED BY <1>1, <1>2, <2>1
<1>5. /\ Trim(c) \in Seq(Event)
      /\ Len(Trim(c)) = IF n + 1 > l THEN l ELSE n + 1
      /\ \A i \in 1..Len(Trim(c)) : Trim(c)[i] = c[n + 1 - Len(Trim(c)) + i]
  <2>1. /\ Trim(c) \in Seq(Event)
        /\ Len(Trim(c)) = IF Len(c) > BufferLimit THEN BufferLimit ELSE Len(c)
        /\ \A i \in 1..Len(Trim(c)) : Trim(c)[i] = c[Len(c) - Len(Trim(c)) + i]
    BY <1>3, TrimType
  <2> QED BY <1>1, <1>3, <2>1
<1> HIDE DEF l, q
<1>6. q \in Nat /\ Len(Trim(c)) = q
  BY <1>1, <1>4, <1>5
<1>7. ASSUME NEW i \in 1..q
      PROVE  Trim(a)[i] = Trim(c)[i]
  <2>1. Trim(a)[i] = a[p + 1 - q + i] /\ Trim(c)[i] = c[n + 1 - q + i]
    BY <1>4, <1>5, <1>6
  <2>2. CASE i = q
    BY <1>1, <1>2, <1>3, <1>6, <2>1, <2>2
  <2>3. CASE i # q
    <3> DEFINE j == p + 1 - q + i
    <3>1. /\ j \in 1..p
          /\ n + 1 - q + i \in 1..n
          /\ n - p + j = n + 1 - q + i
      BY <1>1, <1>4, <1>6, <2>3
    <3>2. a[j] = f[n - p + j]
      BY <1>1, <1>2, <3>1
    <3> QED BY <1>3, <2>1, <3>1, <3>2
  <2> QED BY <2>2, <2>3
<1>8. Trim(a) = Trim(c)
  BY <1>4, <1>5, <1>6, <1>7, SeqEqual DEF q
<1> QED BY <1>8 DEF a, c

(* What is replayed is the end of the feed. *)
LEMMA TrimStart ==
    ASSUME NEW f \in Seq(Event)
    PROVE  /\ Len(f) - Len(Trim(f)) \in Nat
           /\ \A i \in 1..Len(Trim(f)) : Trim(f)[i] = f[(Len(f) - Len(Trim(f))) + i]
<1>1. Len(f) \in Nat /\ BufferLimit \in Nat
  BY BusAssumption
<1>2. Len(Trim(f)) = IF Len(f) > BufferLimit THEN BufferLimit ELSE Len(f)
  BY TrimType
<1>3. \A i \in 1..Len(Trim(f)) : Trim(f)[i] = f[Len(f) - Len(Trim(f)) + i]
  BY TrimType
<1>4. Len(f) - Len(Trim(f)) \in Nat
  BY <1>1, <1>2
<1> QED BY <1>3, <1>4

(* An event appended to a feed and to an up-to-date view of it. *)
LEMMA ViewGrows ==
    ASSUME NEW f \in Seq(Event), NEW g \in Seq(Event), NEW k \in Nat,
           NEW e \in Event, k + Len(g) = Len(f),
           \A i \in 1..Len(g) : g[i] = f[k + i]
    PROVE  /\ k + Len(Append(g, e)) = Len(Append(f, e))
           /\ \A i \in 1..Len(Append(g, e)) : Append(g, e)[i] = Append(f, e)[k + i]
<1>1. Len(g) \in Nat /\ Len(f) \in Nat
  OBVIOUS
<1>2. /\ Len(Append(f, e)) = Len(f) + 1
      /\ Append(f, e)[Len(f) + 1] = e
      /\ \A i \in 1..Len(f) : Append(f, e)[i] = f[i]
  OBVIOUS
<1>3. /\ Len(Append(g, e)) = Len(g) + 1
      /\ Append(g, e)[Len(g) + 1] = e
      /\ \A i \in 1..Len(g) : Append(g, e)[i] = g[i]
  OBVIOUS
<1>4. ASSUME NEW i \in 1..(Len(g) + 1)
      PROVE  Append(g, e)[i] = Append(f, e)[k + i]
  <2>1. CASE i = Len(g) + 1
    <3> DEFINE m == Len(g)
               n == Len(f)
    <3>0. m \in Nat /\ n \in Nat /\ k + m = n /\ i = m + 1
      BY <1>1, <2>1
    <3> HIDE DEF m, n
    <3>1. k + i = n + 1
      BY <3>0
    <3> USE DEF m, n
    <3> QED BY <1>2, <1>3, <2>1, <3>1
  <2>2. CASE i \in 1..Len(g)
    <3>1. k + i \in 1..Len(f)
      BY <1>1, <2>2
    <3> QED BY <1>2, <1>3, <2>2, <3>1
  <2> QED BY <1>1, <2>1, <2>2
<1> QED BY <1>1, <1>2, <1>3, <1>4

(* An event appended to a feed does not change what was seen of it. *)
LEMMA ViewStays ==
    ASSUME NEW f \in Seq(Event), NEW g \in Seq(Event), NEW k \in Nat,
           NEW e \in Event, k + Len(g) <= Len(f),
           \A i \in 1..Len(g) : g[i] = f[k + i]
    PROVE  /\ k + Len(g) <= Len(Append(f, e))
           /\ \A i \in 1..Len(g) : g[i] = Append(f, e)[k + i]
<1>1. /\ Len(g) \in Nat /\ Len(f) \in Nat
      /\ Len(Append(f, e)) = Len(f) + 1
      /\ \A i \in 1..Len(f) : Append(f, e)[i] = f[i]
  OBVIOUS
<1>2. \A i \in 1..Len(g) : k + i \in 1..Len(f)
  BY <1>1
<1> QED BY <1>1, <1>2

-----------------------------------------------------------------------------
(***************************************************************************)
(* The methods.                                                            *)
(***************************************************************************)
LEMMA EmptyBusInv == EmptyBus \in BusType /\ BusInv(EmptyBus)
<1>1. EmptyBus \in BusType
  BY DEF EmptyBus, BusType
<1>2. Trim(<<>>) = <<>>
  BY BusAssumption DEF Trim
<1> QED
  BY <1>1, <1>2 DEF EmptyBus, BusInv, BufferIsRecent, LetGo, ViewOf, UpToDate,
                    Untouched

\* publish() keeps the invariant of the bus.
LEMMA PublishedInv ==
    ASSUME NEW b \in BusType, BusInv(b), NEW e \in Event, NEW gone
    PROVE  /\ Published(b, e, gone) \in BusType
           /\ BusInv(Published(b, e, gone))
<1> DEFINE c == Published(b, e, gone)
<1>1. CASE b.closed
  BY <1>1 DEF Published
<1>2. CASE ~b.closed
  <2>1. /\ b.feed \in Seq(Event) /\ b.buffer \in Seq(Event)
        /\ b.got \in [Sub -> Seq(Event)] /\ b.start \in [Sub -> Nat]
        /\ b.members \in SUBSET Sub /\ b.ended \in SUBSET Sub
        /\ b.closed \in BOOLEAN
    BY DEF BusType
  <2>2. /\ c.feed = Append(b.feed, e)
        /\ c.buffer = Trim(Append(b.buffer, e))
        /\ c.members = b.members \ gone
        /\ c.ended = b.ended \cup (b.members \cap gone)
        /\ c.start = b.start
        /\ c.closed = b.closed
        /\ c.got = Written(b, e, gone)
    BY <1>2 DEF Published, BusType
  <2>3. c \in BusType
    <3>1. Append(b.feed, e) \in Seq(Event)
      BY <2>1
    <3>2. Trim(Append(b.buffer, e)) \in Seq(Event)
      <4>1. Append(b.buffer, e) \in Seq(Event)
        BY <2>1
      <4> QED BY <4>1, TrimType
    <3>3. Written(b, e, gone) \in [Sub -> Seq(Event)]
      BY <2>1 DEF Written
    <3> QED BY <1>2, <2>1, <2>2, <3>1, <3>2, <3>3 DEF BusType, Published
  <2>4. BufferIsRecent(c)
    BY <2>1, <2>2, TrimAppend DEF BusInv, BufferIsRecent
  <2>5. LetGo(c)
    BY <1>2, <2>1, <2>2 DEF BusInv, LetGo
  <2>6. ASSUME NEW s \in Sub
        PROVE  /\ ViewOf(c, s)
               /\ s \in c.members => UpToDate(c, s)
               /\ Untouched(c, s)
    <3>1. /\ b.got[s] \in Seq(Event) /\ b.start[s] \in Nat
          /\ ViewOf(b, s)
          /\ s \in b.members => UpToDate(b, s)
          /\ Untouched(b, s)
      BY <2>1 DEF BusInv
    <3>2. c.start[s] = b.start[s] /\ c.feed = Append(b.feed, e)
      BY <2>2
    <3>3. CASE s \in b.members \ gone
      <4>1. c.got[s] = Append(b.got[s], e)
        BY <2>2, <3>3 DEF Written
      <4>2. /\ c.start[s] + Len(c.got[s]) = Len(c.feed)
            /\ \A i \in 1..Len(c.got[s]) : c.got[s][i] = c.feed[c.start[s] + i]
        <5>1. /\ b.start[s] + Len(b.got[s]) = Len(b.feed)
              /\ \A i \in 1..Len(b.got[s]) :
                    b.got[s][i] = b.feed[b.start[s] + i]
          BY <3>1, <3>3 DEF ViewOf, UpToDate
        <5>2. /\ b.start[s] + Len(Append(b.got[s], e)) = Len(Append(b.feed, e))
              /\ \A i \in 1..Len(Append(b.got[s], e)) :
                    Append(b.got[s], e)[i] = Append(b.feed, e)[b.start[s] + i]
          BY <2>1, <3>1, <5>1, ViewGrows
        <5> QED BY <3>2, <4>1, <5>2
      <4>3. Len(c.feed) \in Nat
        BY <2>1, <3>2
      <4>4. s \in c.members
        BY <2>2, <3>3
      <4> HIDE DEF c
      <4>5. UpToDate(c, s)
        BY <4>2 DEF UpToDate
      <4>6. ViewOf(c, s)
        BY <4>2, <4>3 DEF ViewOf
      <4>7. Untouched(c, s)
        BY <4>4 DEF Untouched
      <4> QED BY <4>5, <4>6, <4>7
    <3>4. CASE s \notin b.members \ gone
      <4>1. c.got[s] = b.got[s]
        BY <2>2, <3>4 DEF Written
      <4>2. /\ b.start[s] + Len(b.got[s]) <= Len(Append(b.feed, e))
            /\ \A i \in 1..Len(b.got[s]) :
                  b.got[s][i] = Append(b.feed, e)[b.start[s] + i]
        BY <2>1, <3>1, ViewStays DEF ViewOf
      <4>3. s \notin c.members
        BY <2>2, <3>4
      <4>4. Untouched(c, s)
        BY <2>2, <3>1, <3>4, <4>1 DEF Untouched
      <4> HIDE DEF c
      <4>5. ViewOf(c, s)
        BY <3>2, <4>1, <4>2 DEF ViewOf
      <4> QED BY <4>3, <4>4, <4>5
    <3> QED BY <3>3, <3>4
  <2> QED BY <2>3, <2>4, <2>5, <2>6 DEF BusInv
<1> QED BY <1>1, <1>2 DEF BusType

\* subscribe() keeps it, for an id that has not been used.
LEMMA SubscribedInv ==
    ASSUME NEW b \in BusType, BusInv(b), NEW s \in Sub, NEW gone,
           s \notin b.members \cup b.ended
    PROVE  /\ Subscribed(b, s, gone) \in BusType
           /\ BusInv(Subscribed(b, s, gone))
<1> DEFINE c == Subscribed(b, s, gone)
           n == Len(b.feed) - Len(b.buffer)
<1>1. /\ b.feed \in Seq(Event) /\ b.buffer \in Seq(Event)
      /\ b.got \in [Sub -> Seq(Event)] /\ b.start \in [Sub -> Nat]
      /\ b.members \in SUBSET Sub /\ b.ended \in SUBSET Sub
      /\ b.closed \in BOOLEAN
  BY DEF BusType
<1>2. b.buffer = Trim(b.feed)
  BY DEF BusInv, BufferIsRecent
<1>3. /\ n \in Nat
      /\ n + Len(b.buffer) = Len(b.feed)
      /\ \A i \in 1..Len(b.buffer) : b.buffer[i] = b.feed[n + i]
  <2>1. /\ n \in Nat
        /\ \A i \in 1..Len(b.buffer) : b.buffer[i] = b.feed[n + i]
    BY <1>1, <1>2, TrimStart
  <2>2. Len(b.feed) \in Nat /\ Len(b.buffer) \in Nat
    BY <1>1
  <2>3. \A x, y \in Nat : (x - y) + y = x
    OBVIOUS
  <2>4. n + Len(b.buffer) = Len(b.feed)
    BY <2>2, <2>3
  <2> HIDE DEF n
  <2> QED BY <2>1, <2>4
<1> HIDE DEF n
<1>4. CASE b.closed \/ (s \in gone /\ b.buffer # <<>>)
  <2>1. c = [b EXCEPT !.ended = @ \cup {s}]
    BY <1>4 DEF Subscribed
  <2>2. c \in BusType
    BY <1>1, <2>1 DEF BusType
  <2>3. /\ c.feed = b.feed /\ c.buffer = b.buffer /\ c.got = b.got
        /\ c.start = b.start /\ c.members = b.members /\ c.closed = b.closed
        /\ c.ended = b.ended \cup {s}
    BY <2>1 DEF BusType
  <2> QED
    BY <2>2, <2>3 DEF BusInv, BufferIsRecent, LetGo, ViewOf, UpToDate, Untouched
<1>5. CASE ~(b.closed \/ (s \in gone /\ b.buffer # <<>>))
  <2>1. c = [b EXCEPT !.members = @ \cup {s}, !.got[s] = b.buffer,
                      !.start[s] = n]
    BY <1>5 DEF Subscribed, n
  <2>2. c \in BusType
    <3>1. [b.got EXCEPT ![s] = b.buffer] \in [Sub -> Seq(Event)]
      BY <1>1
    <3>2. [b.start EXCEPT ![s] = n] \in [Sub -> Nat]
      BY <1>1, <1>3
    <3>3. c = [b EXCEPT !.members = @ \cup {s},
                        !.got = [b.got EXCEPT ![s] = b.buffer],
                        !.start = [b.start EXCEPT ![s] = n]]
      BY <2>1
    <3> HIDE DEF c
    <3> QED BY <1>1, <3>1, <3>2, <3>3 DEF BusType
  <2>3. /\ c.feed = b.feed /\ c.buffer = b.buffer
        /\ c.got = [b.got EXCEPT ![s] = b.buffer]
        /\ c.start = [b.start EXCEPT ![s] = n]
        /\ c.members = b.members \cup {s} /\ c.closed = b.closed
        /\ c.ended = b.ended
    BY <2>1 DEF BusType
  <2>4. ASSUME NEW r \in Sub
        PROVE  /\ ViewOf(c, r)
               /\ r \in c.members => UpToDate(c, r)
               /\ Untouched(c, r)
    <3>1. CASE r = s
      <4>1. c.got[r] = b.buffer /\ c.start[r] = n
        BY <1>1, <2>3, <3>1
      <4>2. /\ c.start[r] + Len(c.got[r]) = Len(c.feed)
            /\ \A i \in 1..Len(c.got[r]) : c.got[r][i] = c.feed[c.start[r] + i]
            /\ Len(c.feed) \in Nat
        <5>1. c.feed = b.feed /\ Len(b.feed) \in Nat
          BY <1>1, <2>3
        <5> HIDE DEF c
        <5> QED BY <1>3, <4>1, <5>1
      <4>3. r \in c.members
        BY <2>3, <3>1
      <4> HIDE DEF c
      <4>4. UpToDate(c, r)
        BY <4>2 DEF UpToDate
      <4>5. ViewOf(c, r)
        BY <4>2 DEF ViewOf
      <4>6. Untouched(c, r)
        BY <4>3 DEF Untouched
      <4> QED BY <4>4, <4>5, <4>6
    <3>2. CASE r # s
      <4>1. c.got[r] = b.got[r] /\ c.start[r] = b.start[r]
        BY <1>1, <2>3, <3>2
      <4>2. /\ c.feed = b.feed /\ c.ended = b.ended
            /\ c.members = b.members \cup {s}
        BY <2>3
      <4> HIDE DEF c
      <4> QED
        BY <3>2, <4>1, <4>2 DEF BusInv, ViewOf, UpToDate, Untouched
    <3> QED BY <3>1, <3>2
  <2>5. BufferIsRecent(c) /\ LetGo(c)
    BY <1>5, <2>3 DEF BusInv, BufferIsRecent, LetGo
  <2> QED BY <2>2, <2>4, <2>5 DEF BusInv
<1> QED BY <1>4, <1>5

\* disconnect() keeps it.
LEMMA DisconnectedInv ==
    ASSUME NEW b \in BusType, BusInv(b), NEW s \in Sub
    PROVE  /\ Disconnected(b, s) \in BusType
           /\ BusInv(Disconnected(b, s))
<1> DEFINE c == Disconnected(b, s)
<1>1. CASE s \notin b.members
  BY <1>1 DEF Disconnected
<1>2. CASE s \in b.members
  <2>1. c = [b EXCEPT !.members = @ \ {s}, !.ended = @ \cup {s}]
    BY <1>2 DEF Disconnected
  <2>2. c \in BusType
    BY <2>1 DEF BusType
  <2>3. /\ c.feed = b.feed /\ c.buffer = b.buffer /\ c.got = b.got
        /\ c.start = b.start /\ c.members = b.members \ {s}
        /\ c.ended = b.ended \cup {s} /\ c.closed = b.closed
    BY <2>1 DEF BusType
  <2> QED
    BY <2>2, <2>3 DEF BusInv, BufferIsRecent, LetGo, ViewOf, UpToDate, Untouched
<1> QED BY <1>1, <1>2

\* close() keeps it, with or without a final event.
LEMMA ShutInv ==
    ASSUME NEW b \in BusType, BusInv(b), NEW e \in Event \cup {NoEvent}, NEW gone
    PROVE  /\ Shut(b, e, gone) \in BusType
           /\ BusInv(Shut(b, e, gone))
<1> DEFINE p == IF e = NoEvent THEN b ELSE Published(b, e, gone)
           c == [p EXCEPT !.closed = TRUE, !.ended = @ \cup p.members,
                          !.members = {}]
<1>1. p \in BusType /\ BusInv(p)
  BY PublishedInv
<1> HIDE DEF p
<1>2. c \in BusType
  BY <1>1 DEF BusType
<1>3. /\ c.feed = p.feed /\ c.buffer = p.buffer /\ c.got = p.got
      /\ c.start = p.start /\ c.members = {} /\ c.closed = TRUE
      /\ c.ended = p.ended \cup p.members
  BY <1>1 DEF BusType
<1>4. BusInv(c)
  BY <1>1, <1>3 DEF BusInv, BufferIsRecent, LetGo, ViewOf, UpToDate, Untouched
<1>5. Shut(b, e, gone) = IF b.closed THEN b ELSE c
  BY DEF Shut, p
<1> QED BY <1>2, <1>4, <1>5

-----------------------------------------------------------------------------
(***************************************************************************)
(* What each method does to each field.                                    *)
(***************************************************************************)
LEMMA PublishedFields ==
    ASSUME NEW b \in BusType, NEW e \in Event, NEW gone, ~b.closed
    PROVE  /\ Published(b, e, gone).feed = Append(b.feed, e)
           /\ Published(b, e, gone).members = b.members \ gone
           /\ Published(b, e, gone).ended = b.ended \cup (b.members \cap gone)
           /\ Published(b, e, gone).closed = b.closed
           /\ Published(b, e, gone).got = Written(b, e, gone)
BY DEF Published, BusType

\* close() without a final event writes nothing and lets everybody go.
LEMMA ShutSilently ==
    ASSUME NEW b \in BusType, NEW gone, ~b.closed
    PROVE  /\ Shut(b, NoEvent, gone).feed = b.feed
           /\ Shut(b, NoEvent, gone).got = b.got
           /\ Shut(b, NoEvent, gone).members = {}
           /\ Shut(b, NoEvent, gone).ended = b.ended \cup b.members
           /\ Shut(b, NoEvent, gone).closed /\ Shut(b, NoEvent, gone).closed \in BOOLEAN
BY DEF Shut, BusType

\* close(e) writes e to everybody, then lets everybody go.
LEMMA ShutWith ==
    ASSUME NEW b \in BusType, NEW e \in Event, NEW gone, ~b.closed,
           NEW c, c = Shut(b, e, gone)
    PROVE  /\ c.feed = Append(b.feed, e)
           /\ c.got = Written(b, e, gone)
           /\ c.members = {}
           /\ c.ended = b.ended \cup b.members
           /\ c.closed /\ c.closed \in BOOLEAN
<1> DEFINE p == Published(b, e, gone)
<1>1. /\ p.feed = Append(b.feed, e)
      /\ p.members = b.members \ gone
      /\ p.ended = b.ended \cup (b.members \cap gone)
      /\ p.got = Written(b, e, gone)
  BY PublishedFields
<1>2. p \in [closed : BOOLEAN, buffer : {p.buffer}, members : {p.members},
             ended : {p.ended}, got : {p.got}, feed : {p.feed}, start : {p.start}]
  BY DEF Published, BusType
<1>3. c = [p EXCEPT !.closed = TRUE, !.ended = @ \cup p.members, !.members = {}]
  BY BusAssumption DEF Shut
<1> HIDE DEF p
<1>4. /\ c.feed = p.feed
      /\ c.got = p.got
      /\ c.members = {}
      /\ c.ended = p.ended \cup p.members
      /\ c.closed /\ c.closed \in BOOLEAN
  BY <1>2, <1>3
<1>5. p.ended \cup p.members = b.ended \cup b.members
  BY <1>1
<1> QED BY <1>1, <1>4, <1>5
=============================================================================
