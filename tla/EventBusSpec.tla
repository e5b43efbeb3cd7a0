---------------------------- MODULE EventBusSpec ----------------------------
(***************************************************************************)
(* An EventBus (src/durable/eventBus.ts) whose methods are called in every *)
(* order, by an owner that publishes and closes, and by subscribers that   *)
(* join, leave and break off.                                              *)
(***************************************************************************)
EXTENDS EventBus

CONSTANT MaxEvents      \* bound: publishes in one behaviour

VARIABLES bus,          \* the bus
          lost          \* subscribers whose client went away (the browser
                        \* tab closed): every later write to them rejects
vars == <<bus, lost>>

-----------------------------------------------------------------------------
Init == bus = EmptyBus /\ lost = {}

Publish(e) == /\ Len(bus.feed) < MaxEvents
              /\ bus' = Published(bus, e, lost)
              /\ UNCHANGED lost

Subscribe(s) == /\ s \notin bus.members \cup bus.ended
                /\ bus' = Subscribed(bus, s, lost)
                /\ UNCHANGED lost

Disconnect(s) == bus' = Disconnected(bus, s) /\ UNCHANGED lost

Close(e) == bus' = Shut(bus, e, lost) /\ UNCHANGED lost

\* The reader's side of a connection goes away.
Lose(s) == /\ s \notin lost
           /\ lost' = lost \cup {s}
           /\ UNCHANGED bus

Next == \/ \E e \in Event : Publish(e)
        \/ \E s \in Sub : Subscribe(s) \/ Disconnect(s) \/ Lose(s)
        \/ \E e \in Event \cup {NoEvent} : Close(e)

Spec == Init /\ [][Next]_vars

-----------------------------------------------------------------------------
(***************************************************************************)
(* Properties.                                                             *)
(***************************************************************************)
\* The fields of the bus, and the set of lost clients, have their types.
TypeOK == bus \in BusType /\ lost \in SUBSET Sub

\* Every subscriber sees a gapless stretch of the feed, in order and without
\* repetition, and one whose writer is alive is up to date: what lets a tab
\* that joins mid-turn catch up (eventBus.ts:5-6, streamHub.ts:12-13).
FaithfulDelivery == BusInv(bus)

\* Closing with a terminal event shows that event, as the last one, to every
\* subscriber that was there and whose client was not lost (the order that
\* the comment at eventBus.ts:103 insists on); and nothing is ever written,
\* replayed or buffered after the close.
TerminalReachesAll ==
    [][ /\ (~bus.closed /\ bus'.closed /\ bus'.feed # bus.feed) =>
              \A s \in bus.members \ lost :
                  /\ bus'.got[s] # <<>>
                  /\ bus'.got[s][Len(bus'.got[s])] = bus'.feed[Len(bus'.feed)]
        /\ bus.closed => /\ bus'.got = bus.got
                         /\ bus'.feed = bus.feed
                         /\ bus'.closed
      ]_vars

\* The bus keeps the promise of TurnFeed: the replay buffer is an
\* implementation of "the most recent events of the feed".
Feed == INSTANCE TurnFeed WITH Reader <- Sub, Window <- BufferLimit,
            feed <- bus.feed, over <- bus.closed, live <- bus.members,
            past <- bus.ended, view <- bus.got

ImplementsFeed == Feed!Spec
=============================================================================
