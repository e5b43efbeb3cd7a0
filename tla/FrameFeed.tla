----------------------------- MODULE FrameFeed -----------------------------
(***************************************************************************)
(* What rpcStream of src/oauth/codexRpc.ts promises its caller: the frames *)
(* of one WebSocket, in order and without gaps, up to the answer, and one  *)
(* end that withholds nothing that had come in before it.                  *)
(***************************************************************************)
EXTENDS Naturals, Sequences

\* The answer is the frame with the id of the request; all others are notes.
Frame == {"note", "answer"}

\* How a stream ends: after the answer, without one, with an exception, or
\* because the caller breaks out of its loop.
Ended == {"answered", "cut", "failed", "left"}

VARIABLES arrived,   \* the frames that have come in on the socket
          seen,      \* how many of them the caller has been given
          outcome    \* "dialing", "open", or how the stream has ended

vars == <<arrived, seen, outcome>>

Answered == seen > 0 /\ arrived[seen] = "answer"
Drained == seen = Len(arrived)

Init == arrived = <<>> /\ seen = 0 /\ outcome = "dialing"

Dials == /\ outcome = "dialing"
         /\ outcome' \in {"open", "failed"}
         /\ UNCHANGED <<arrived, seen>>

Arrives == /\ outcome = "open"
           /\ \E f \in Frame : arrived' = Append(arrived, f)
           /\ UNCHANGED <<seen, outcome>>

Yields == /\ outcome = "open"
          /\ ~Answered
          /\ seen < Len(arrived)
          /\ seen' = seen + 1
          /\ UNCHANGED <<arrived, outcome>>

\* A caller that has had everything is given the next frame as it comes in.
Passes == /\ outcome = "open"
          /\ ~Answered
          /\ Drained
          /\ \E f \in Frame : arrived' = Append(arrived, f)
          /\ seen' = seen + 1
          /\ UNCHANGED outcome

Ends == /\ outcome = "open"
        /\ \/ Answered /\ outcome' \in {"answered", "failed"}
           \/ Drained /\ ~Answered /\ outcome' \in {"cut", "failed"}
           \/ outcome' = "left"
        /\ UNCHANGED <<arrived, seen>>

Next == Dials \/ Arrives \/ Yields \/ Passes \/ Ends

Spec == Init /\ [][Next]_vars

\* A stream that has been opened comes to an end, whatever its peer does.
Settles == outcome = "open" ~> outcome \in Ended
=============================================================================
