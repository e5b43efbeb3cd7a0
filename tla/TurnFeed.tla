------------------------------ MODULE TurnFeed ------------------------------
(***************************************************************************)
(* What an EventBus promises its subscribers, with no replay buffer, no    *)
(* writers and no transport in it.  There is one feed of events, which     *)
(* only grows, until it ends.  A reader that joins is given the most       *)
(* recent Window events of the feed and, from then on, every event in the  *)
(* order of the feed, none missing and none twice, for as long as it stays *)
(* live.  A reader that joins after the end is given nothing.              *)
(*                                                                         *)
(* EventBus.tla is shown to implement this specification.                  *)
(***************************************************************************)
EXTENDS Naturals, Sequences

CONSTANTS Reader,      \* the readers that may ever join
          Event,       \* the events
          Window       \* how much history a reader that joins is given

VARIABLES feed,        \* every event emitted so far, oldest first
          over,        \* TRUE once the feed has ended
          live,        \* the readers that are given what is emitted
          past,        \* the readers that were live, or came too late
          view         \* view[r]: what reader r has been given, in order

vars == <<feed, over, live, past, view>>

Recent(s, n) == IF Len(s) > n THEN SubSeq(s, Len(s) - n + 1, Len(s)) ELSE s

Init == /\ feed = <<>>
        /\ over = FALSE
        /\ live = {}
        /\ past = {}
        /\ view = [r \in Reader |-> <<>>]

\* Whatever leaves live is over for good: it is remembered in past.
Keep(kept) == /\ live' = kept
              /\ past' = past \cup (live \ kept)

Deliver(e, kept) ==
    /\ feed' = Append(feed, e)
    /\ view' = [r \in Reader |-> IF r \in kept THEN Append(view[r], e)
                                               ELSE view[r]]

\* An event is emitted; readers may be lost as it is delivered.
Emit(e) == /\ ~over
           /\ \E kept \in SUBSET live : Deliver(e, kept) /\ Keep(kept)
           /\ UNCHANGED over

Join(r) ==
    /\ r \notin live \cup past
    /\ \/ /\ ~over
          /\ live' = live \cup {r}
          /\ view' = [view EXCEPT ![r] = Recent(feed, Window)]
          /\ UNCHANGED past
       \/ \* too late, or lost as it joins
          /\ past' = past \cup {r}
          /\ UNCHANGED <<live, view>>
    /\ UNCHANGED <<feed, over>>

Leave(r) == /\ r \in live
            /\ Keep(live \ {r})
            /\ UNCHANGED <<feed, over, view>>

\* The end: a last event may be emitted, to the readers still there, and
\* nobody is live afterwards.
EndWith(e) == /\ ~over
              /\ over' = TRUE
              /\ \E kept \in SUBSET live : Deliver(e, kept)
              /\ Keep({})

EndSilently == /\ ~over
               /\ over' = TRUE
               /\ Keep({})
               /\ UNCHANGED <<feed, view>>

Next == \/ \E e \in Event : Emit(e) \/ EndWith(e)
        \/ \E r \in Reader : Join(r) \/ Leave(r)
        \/ EndSilently

Spec == Init /\ [][Next]_vars
=============================================================================
