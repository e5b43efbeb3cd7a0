------------------------- MODULE EventBusSpecProofs -------------------------
(***************************************************************************)
(* The theorems about an EventBus that is called in every order, for any   *)
(* subscribers, any events, any buffer limit and any number of publishes.  *)
(***************************************************************************)
EXTENDS EventBusSpec, EventBusProofs

\* A new bus has its types and the invariant.
LEMMA TypeAndInvInit == Init => TypeOK /\ FaithfulDelivery
BY EmptyBusInv DEF Init, TypeOK, FaithfulDelivery

\* Every call of a method keeps both.
LEMMA TypeAndInvNext ==
    TypeOK /\ FaithfulDelivery /\ [Next]_vars => TypeOK' /\ FaithfulDelivery'
<1> SUFFICES ASSUME TypeOK, FaithfulDelivery, [Next]_vars
             PROVE  TypeOK' /\ FaithfulDelivery'
  OBVIOUS
<1>0. bus \in BusType /\ BusInv(bus) /\ lost \in SUBSET Sub
  BY DEF TypeOK, FaithfulDelivery
<1>1. ASSUME NEW e \in Event, Publish(e)
      PROVE  TypeOK' /\ FaithfulDelivery'
  <2>1. Published(bus, e, lost) \in BusType /\ BusInv(Published(bus, e, lost))
    BY <1>0, PublishedInv
  <2> QED BY <1>0, <1>1, <2>1 DEF Publish, TypeOK, FaithfulDelivery
<1>2. ASSUME NEW s \in Sub, Subscribe(s)
      PROVE  TypeOK' /\ FaithfulDelivery'
  <2>1. s \notin bus.members \cup bus.ended
    BY <1>2 DEF Subscribe
  <2>2. /\ Subscribed(bus, s, lost) \in BusType
        /\ BusInv(Subscribed(bus, s, lost))
    BY <1>0, <2>1, SubscribedInv
  <2> QED BY <1>0, <1>2, <2>2 DEF Subscribe, TypeOK, FaithfulDelivery
<1>3. ASSUME NEW s \in Sub, Disconnect(s)
      PROVE  TypeOK' /\ FaithfulDelivery'
  <2>1. Disconnected(bus, s) \in BusType /\ BusInv(Disconnected(bus, s))
    BY <1>0, DisconnectedInv
  <2> QED BY <1>0, <1>3, <2>1 DEF Disconnect, TypeOK, FaithfulDelivery
<1>4. ASSUME NEW s \in Sub, Lose(s)
      PROVE  TypeOK' /\ FaithfulDelivery'
  BY <1>0, <1>4 DEF Lose, TypeOK, FaithfulDelivery
<1>5. ASSUME NEW e \in Event \cup {NoEvent}, Close(e)
      PROVE  TypeOK' /\ FaithfulDelivery'
  <2>1. Shut(bus, e, lost) \in BusType /\ BusInv(Shut(bus, e, lost))
    BY <1>0, ShutInv
  <2> QED BY <1>0, <1>5, <2>1 DEF Close, TypeOK, FaithfulDelivery
<1>6. CASE UNCHANGED vars
  BY <1>0, <1>6 DEF vars, TypeOK, FaithfulDelivery
<1> QED BY <1>1, <1>2, <1>3, <1>4, <1>5, <1>6 DEF Next

(* The bus and the set of lost clients always have their types.            *)
THEOREM TypeCorrect == Spec => []TypeOK
<1> QED BY TypeAndInvInit, TypeAndInvNext, PTL DEF Spec

(* Whatever is published, subscribed, closed or lost, and in which order:  *)
(* every subscriber is given a gapless, ordered stretch of the feed, up to *)
(* its newest event while the subscriber's writer is alive.                *)
THEOREM Faithful == Spec => []FaithfulDelivery
<1> QED BY TypeAndInvInit, TypeAndInvNext, PTL DEF Spec

-----------------------------------------------------------------------------
(***************************************************************************)
(* The terminal event.                                                     *)
(***************************************************************************)
Terminal ==
    /\ (~bus.closed /\ bus'.closed /\ bus'.feed # bus.feed) =>
          \A s \in bus.members \ lost :
              /\ bus'.got[s] # <<>>
              /\ bus'.got[s][Len(bus'.got[s])] = bus'.feed[Len(bus'.feed)]
    /\ bus.closed => /\ bus'.got = bus.got
                     /\ bus'.feed = bus.feed
                     /\ bus'.closed

\* A step that closes the bus with an event gives that event to all.
LEMMA TerminalStep == TypeOK /\ [Next]_vars => Terminal
<1> SUFFICES ASSUME TypeOK, [Next]_vars PROVE Terminal
  OBVIOUS
<1>0. /\ bus \in BusType /\ bus.feed \in Seq(Event)
      /\ bus.members \in SUBSET Sub /\ bus.got \in [Sub -> Seq(Event)]
  BY DEF TypeOK, BusType
<1>1. ASSUME NEW e \in Event, Publish(e)
      PROVE  Terminal
  <2>1. CASE bus.closed
    BY <1>1, <2>1 DEF Publish, Published, Terminal
  <2>2. CASE ~bus.closed
    <3>1. bus' = Published(bus, e, lost)
      BY <1>1 DEF Publish
    <3>2. ~bus'.closed
      BY <1>0, <2>2, <3>1, PublishedFields
    <3> QED BY <2>2, <3>2 DEF Terminal
  <2> QED BY <2>1, <2>2
<1>2. ASSUME NEW s \in Sub, Subscribe(s)
      PROVE  Terminal
  BY <1>0, <1>2 DEF Subscribe, Subscribed, Terminal, BusType
<1>3. ASSUME NEW s \in Sub, Disconnect(s)
      PROVE  Terminal
  BY <1>0, <1>3 DEF Disconnect, Disconnected, Terminal, BusType
<1>4. ASSUME NEW s \in Sub, Lose(s)
      PROVE  Terminal
  BY <1>4 DEF Lose, Terminal
<1>5. ASSUME NEW e \in Event \cup {NoEvent}, Close(e)
      PROVE  Terminal
  <2>1. CASE bus.closed
    BY <1>5, <2>1 DEF Close, Shut, Terminal
  <2>2. CASE ~bus.closed /\ e = NoEvent
    <3>1. bus' = Shut(bus, NoEvent, lost)
      BY <1>5, <2>2 DEF Close
    <3>2. bus'.feed = bus.feed
      BY <1>0, <2>2, <3>1, ShutSilently
    <3> QED BY <2>2, <3>2 DEF Terminal
  <2>3. CASE ~bus.closed /\ e # NoEvent
    <3>0. e \in Event /\ ~bus.closed
      BY <2>3
    <3>1. bus' = Shut(bus, e, lost)
      BY <1>5 DEF Close
    <3>2. /\ bus'.feed = Append(bus.feed, e)
          /\ bus'.got = Written(bus, e, lost)
      BY <1>0, <3>0, <3>1, ShutWith
    <3>3. bus'.feed[Len(bus'.feed)] = e
      BY <1>0, <3>2
    <3>4. ASSUME NEW s \in bus.members \ lost
          PROVE  /\ bus'.got[s] # <<>>
                 /\ bus'.got[s][Len(bus'.got[s])] = e
      <4>1. bus'.got[s] = Append(bus.got[s], e) /\ bus.got[s] \in Seq(Event)
        BY <1>0, <3>2 DEF Written
      <4> QED BY <4>1
    <3> QED BY <3>0, <3>3, <3>4 DEF Terminal
  <2> QED BY <2>1, <2>2, <2>3
<1>6. CASE UNCHANGED vars
  BY <1>6 DEF vars, Terminal
<1> QED BY <1>1, <1>2, <1>3, <1>4, <1>5, <1>6 DEF Next

(* A closing event is the last one of every subscriber that was there and  *)
(* not lost, and a closed bus writes nothing more.                         *)
THEOREM TerminalReaches == Spec => TerminalReachesAll
<1>1. TypeOK /\ [Next]_vars => [Terminal]_vars
  BY TerminalStep
<1>2. TerminalReachesAll <=> [][Terminal]_vars
  BY PTL DEF TerminalReachesAll, Terminal
<1> QED BY <1>1, <1>2, TypeCorrect, PTL DEF Spec

-----------------------------------------------------------------------------
(***************************************************************************)
(* The refinement: every step of the bus is a step of the feed, or none.   *)
(***************************************************************************)
LEMMA RefineInit == Init => Feed!Init
BY DEF Init, EmptyBus, Feed!Init

\* Every step of the bus is a step of TurnFeed, or none.
LEMMA RefineNext ==
    TypeOK /\ FaithfulDelivery /\ [Next]_vars => [Feed!Next]_Feed!vars
<1> SUFFICES ASSUME TypeOK, FaithfulDelivery, [Next]_vars
             PROVE  [Feed!Next]_Feed!vars
  OBVIOUS
<1>0. /\ bus \in BusType /\ bus.members \in SUBSET Sub
      /\ bus.closed \in BOOLEAN
  BY DEF TypeOK, BusType
<1>1. ASSUME NEW e \in Event, Publish(e)
      PROVE  [Feed!Next]_Feed!vars
  <2>0. bus' = Published(bus, e, lost)
    BY <1>1 DEF Publish
  <2>1. CASE bus.closed
    BY <2>0, <2>1 DEF Published, Feed!vars
  <2>2. CASE ~bus.closed
    <3> DEFINE kept == bus.members \ lost
    <3>1. /\ bus'.feed = Append(bus.feed, e)
          /\ bus'.members = kept
          /\ bus'.ended = bus.ended \cup (bus.members \ kept)
          /\ bus'.closed = bus.closed
          /\ bus'.got = Written(bus, e, lost)
      BY <1>0, <2>0, <2>2, PublishedFields
    <3>2. kept \in SUBSET bus.members
      OBVIOUS
    <3>3. Feed!Deliver(e, kept) /\ Feed!Keep(kept)
      BY <3>1 DEF Feed!Deliver, Feed!Keep, Written
    <3> HIDE DEF kept
    <3>4. Feed!Emit(e)
      BY <2>2, <3>1, <3>2, <3>3 DEF Feed!Emit
    <3> QED BY <3>4 DEF Feed!Next
  <2> QED BY <2>1, <2>2
<1>2. ASSUME NEW s \in Sub, Subscribe(s)
      PROVE  [Feed!Next]_Feed!vars
  <2>0. bus' = Subscribed(bus, s, lost) /\ s \notin bus.members \cup bus.ended
    BY <1>2 DEF Subscribe
  <2>1. CASE bus.closed \/ (s \in lost /\ bus.buffer # <<>>)
    <3>1. /\ bus'.feed = bus.feed /\ bus'.closed = bus.closed
          /\ bus'.members = bus.members /\ bus'.got = bus.got
          /\ bus'.ended = bus.ended \cup {s}
      BY <1>0, <2>0, <2>1 DEF Subscribed, BusType
    <3>2. Feed!Join(s)
      BY <2>0, <3>1 DEF Feed!Join
    <3> QED BY <3>2 DEF Feed!Next
  <2>2. CASE ~(bus.closed \/ (s \in lost /\ bus.buffer # <<>>))
    <3>1. /\ bus'.feed = bus.feed /\ bus'.closed = bus.closed
          /\ bus'.members = bus.members \cup {s}
          /\ bus'.got = [bus.got EXCEPT ![s] = bus.buffer]
          /\ bus'.ended = bus.ended
      BY <1>0, <2>0, <2>2 DEF Subscribed, BusType
    <3>2. bus.buffer = Feed!Recent(bus.feed, BufferLimit)
      BY DEF FaithfulDelivery, BusInv, BufferIsRecent, Trim, Feed!Recent
    <3>3. Feed!Join(s)
      BY <2>0, <2>2, <3>1, <3>2 DEF Feed!Join
    <3> QED BY <3>3 DEF Feed!Next
  <2> QED BY <2>1, <2>2
<1>3. ASSUME NEW s \in Sub, Disconnect(s)
      PROVE  [Feed!Next]_Feed!vars
  <2>0. bus' = Disconnected(bus, s)
    BY <1>3 DEF Disconnect
  <2>1. CASE s \notin bus.members
    BY <2>0, <2>1 DEF Disconnected, Feed!vars
  <2>2. CASE s \in bus.members
    <3>1. /\ bus'.feed = bus.feed /\ bus'.closed = bus.closed
          /\ bus'.members = bus.members \ {s} /\ bus'.got = bus.got
          /\ bus'.ended = bus.ended \cup (bus.members \ (bus.members \ {s}))
      BY <1>0, <2>0, <2>2 DEF Disconnected, BusType
    <3>2. Feed!Leave(s)
      BY <2>2, <3>1 DEF Feed!Leave, Feed!Keep
    <3> QED BY <3>2 DEF Feed!Next
  <2> QED BY <2>1, <2>2
<1>4. ASSUME NEW s \in Sub, Lose(s)
      PROVE  [Feed!Next]_Feed!vars
  BY <1>4 DEF Lose, Feed!vars
<1>5. ASSUME NEW e \in Event \cup {NoEvent}, Close(e)
      PROVE  [Feed!Next]_Feed!vars
  <2>0. bus' = Shut(bus, e, lost)
    BY <1>5 DEF Close
  <2>1. CASE bus.closed
    BY <2>0, <2>1 DEF Shut, Feed!vars
  <2>2. CASE ~bus.closed /\ e = NoEvent
    <3>0. bus' = Shut(bus, NoEvent, lost)
      BY <2>0, <2>2
    <3>1. /\ bus'.feed = bus.feed /\ bus'.got = bus.got
          /\ bus'.members = {} /\ bus'.closed /\ bus'.closed \in BOOLEAN
          /\ bus'.ended = bus.ended \cup bus.members
      BY <1>0, <2>2, <3>0, ShutSilently
    <3>2. Feed!EndSilently
      BY <2>2, <3>1 DEF Feed!EndSilently, Feed!Keep
    <3> QED BY <3>2 DEF Feed!Next
  <2>3. CASE ~bus.closed /\ e # NoEvent
    <3>0. e \in Event /\ ~bus.closed
      BY <2>3
    <3> DEFINE kept == bus.members \ lost
    <3>1. /\ bus'.feed = Append(bus.feed, e)
          /\ bus'.got = Written(bus, e, lost)
          /\ bus'.members = {} /\ bus'.closed /\ bus'.closed \in BOOLEAN
          /\ bus'.ended = bus.ended \cup bus.members
      BY <1>0, <2>0, <3>0, ShutWith
    <3>2. kept \in SUBSET bus.members
      OBVIOUS
    <3>3. Feed!Deliver(e, kept)
      BY <3>1 DEF Feed!Deliver, Written
    <3> HIDE DEF kept
    <3>4. Feed!Keep({})
      BY <3>1 DEF Feed!Keep
    <3>5. Feed!EndWith(e)
      BY <3>0, <3>1, <3>2, <3>3, <3>4 DEF Feed!EndWith
    <3> QED BY <3>0, <3>5 DEF Feed!Next
  <2> QED BY <2>1, <2>2, <2>3
<1>6. CASE UNCHANGED vars
  BY <1>6 DEF vars, Feed!vars
<1> QED BY <1>1, <1>2, <1>3, <1>4, <1>5, <1>6 DEF Next

(* The bus implements the feed: replaying a buffer that was trimmed after  *)
(* every publish is indistinguishable, for every buffer limit, from asking *)
(* for the newest events of the whole history.                             *)
THEOREM Refines == Spec => ImplementsFeed
<1> QED BY RefineInit, RefineNext, TypeCorrect, Faithful, PTL
        DEF Spec, ImplementsFeed, Feed!Spec
=============================================================================
