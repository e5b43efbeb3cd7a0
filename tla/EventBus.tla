------------------------------ MODULE EventBus ------------------------------
(***************************************************************************)
(* src/durable/eventBus.ts: the publish/subscribe bus of one streaming     *)
(* turn, with its bounded replay buffer.                                   *)
(*                                                                         *)
(* The bus is one record, and every method is an operator from a bus to    *)
(* the bus it leaves behind: the methods are synchronous, and the Durable  *)
(* Object that owns the bus (StreamHub.tla) calls several of them in one   *)
(* step.  EventBusSpec.tla calls them in every order.                      *)
(*                                                                         *)
(* bus.closed    the closed flag                                           *)
(* bus.buffer    the replay buffer                                         *)
(* bus.members   the subscribers map: ids whose writer is alive            *)
(* bus.ended     ids whose writer was closed or was found broken           *)
(* bus.got[s]    the frames written to s's writer, in order                *)
(* bus.feed      (history) every event the bus has accepted                *)
(* bus.start[s]  (history) how many events preceded the first s was given  *)
(***************************************************************************)
EXTENDS Naturals, Sequences

CONSTANTS Sub,          \* subscriber ids (each a fresh UUID: never reused)
          Event,        \* what may be published
          NoEvent,      \* "close() was given no final event"
          BufferLimit   \* bufferLimit, 500 in the hub

ASSUME BusAssumption == BufferLimit \in Nat /\ NoEvent \notin Event

-----------------------------------------------------------------------------
EmptyBus == [closed  |-> FALSE,
             buffer  |-> <<>>,
             members |-> {},
             ended   |-> {},
             got     |-> [s \in Sub |-> <<>>],
             feed    |-> <<>>,
             start   |-> [s \in Sub |-> 0]]

\* Mutation: the loop condition of publish is off by one.
TrimLate(s) == IF Len(s) > BufferLimit + 1
               THEN SubSeq(s, Len(s) - BufferLimit, Len(s))
               ELSE s

\* The while loop of publish: shift until the length is within the limit.
Trim(s) == IF Len(s) > BufferLimit
           THEN SubSeq(s, Len(s) - BufferLimit + 1, Len(s))
           ELSE s

\* The writers that are alive, and not found to be gone, are given e.
Written(b, e, gone) == [s \in Sub |-> IF s \in b.members \ gone
                                      THEN Append(b.got[s], e)
                                      ELSE b.got[s]]

\* Mutation: a full buffer refuses the newest event, not the oldest.
PublishedDropNewest(b, e, gone) ==
    IF b.closed THEN b ELSE
    [b EXCEPT
        !.feed    = Append(@, e),
        !.buffer  = IF Len(@) < BufferLimit THEN Append(@, e) ELSE @,
        !.members = @ \ gone,
        !.ended   = @ \cup (b.members \cap gone),
        !.got     = Written(b, e, gone)]

\* publish.  A write to a lost subscriber rejects, and the rejection handler
\* of tryWrite, a microtask, removes it before any other event of the
\* Durable Object runs.
Published(b, e, gone) ==
    IF b.closed THEN b ELSE
    [b EXCEPT
        !.feed    = Append(@, e),
        !.buffer  = Trim(Append(@, e)),
        !.members = @ \ gone,
        !.ended   = @ \cup (b.members \cap gone),
        !.got     = Written(b, e, gone)]

\* subscribe.  After close the writer is closed at once and nothing is
\* replayed.  Replaying an empty buffer writes nothing, so that a client
\* that is already lost is only found out by the next publish.
Subscribed(b, s, gone) ==
    IF b.closed
    THEN [b EXCEPT !.ended = @ \cup {s}]
    ELSE IF s \in gone /\ b.buffer # <<>>
    THEN [b EXCEPT !.ended = @ \cup {s}]
    ELSE [b EXCEPT !.members  = @ \cup {s},
                   !.got[s]   = b.buffer,
                   !.start[s] = Len(b.feed) - Len(b.buffer)]

\* disconnect (the unsubscribe function subscribe returns).
Disconnected(b, s) ==
    IF s \notin b.members THEN b ELSE
    [b EXCEPT !.members = @ \ {s}, !.ended = @ \cup {s}]

\* Mutation: close publishes without testing for a final event.
ShutUnguarded(b, e, gone) ==
    IF b.closed THEN b ELSE
    LET last == Published(b, e, gone)
    IN  [last EXCEPT !.closed = TRUE, !.ended = @ \cup last.members,
                     !.members = {}]

\* Mutation: close lets the writers go before the terminal event.
ShutWritersFirst(b, e, gone) ==
    IF b.closed THEN b ELSE
    LET empty == [b EXCEPT !.ended = @ \cup b.members, !.members = {}]
        last  == IF e = NoEvent THEN empty ELSE Published(empty, e, gone)
    IN  [last EXCEPT !.closed = TRUE]

\* close: the terminal event first, then the flag, then every writer.
Shut(b, e, gone) ==
    IF b.closed THEN b ELSE
    LET last == IF e = NoEvent THEN b ELSE Published(b, e, gone)
    IN  [last EXCEPT !.closed  = TRUE,
                     !.ended   = @ \cup last.members,
                     !.members = {}]

-----------------------------------------------------------------------------
(* What holds of a bus between two calls.                                  *)
BusType == [closed  : BOOLEAN,
            buffer  : Seq(Event),
            members : SUBSET Sub,
            ended   : SUBSET Sub,
            got     : [Sub -> Seq(Event)],
            feed    : Seq(Event),
            start   : [Sub -> Nat]]

\* s has been given exactly the stretch of the feed that begins at start[s]:
\* what was replayed and what was written live join without a gap, without
\* a repetition and in order.
ViewOf(b, s) ==
    /\ b.start[s] + Len(b.got[s]) <= Len(b.feed)
    /\ \A i \in 1..Len(b.got[s]) : b.got[s][i] = b.feed[b.start[s] + i]

\* Whoever's writer is alive has been given everything up to the newest event.
UpToDate(b, s) == b.start[s] + Len(b.got[s]) = Len(b.feed)

\* The replay buffer holds the newest events of the feed, as many as the
\* limit allows, whatever has been shifted out (eventBus.ts:56-59).
BufferIsRecent(b) == b.buffer = Trim(b.feed)

\* A bus that is closed has let go of every subscriber, and no id is both a
\* member and ended.
LetGo(b) == /\ b.closed => b.members = {}
            /\ b.members \cap b.ended = {}

\* An id that has not subscribed has been given nothing.
Untouched(b, s) == s \notin b.members \cup b.ended => b.got[s] = <<>>

BusInv(b) == /\ BufferIsRecent(b)
             /\ LetGo(b)
             /\ \A s \in Sub : /\ ViewOf(b, s)
                               /\ s \in b.members => UpToDate(b, s)
                               /\ Untouched(b, s)
=============================================================================
