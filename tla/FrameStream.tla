---------------------------- MODULE FrameStream ----------------------------
(***************************************************************************)
(* src/oauth/codexRpc.ts, rpcStream: the async generator that turns the    *)
(* events of one WebSocket into a stream of frames.                        *)
(*                                                                         *)
(* Socket events and the timer run as callbacks between the steps of the   *)
(* caller.  A caller that waits is resumed in the microtask after the      *)
(* callback that resolves its promise, before any other event, so that is  *)
(* one step.  The timer is armed: its one user, streamHub.ts, always gives *)
(* a timeout.                                                              *)
(***************************************************************************)
EXTENDS Naturals, Sequences

CONSTANT MaxFrames   \* bound: frames the peer sends

ASSUME FramesAssumption == MaxFrames \in Nat

VARIABLES
    pc,         \* "dialing", "waiting" (a promise in waiters), "holding" (a
                \* frame, at the yield), or how the generator has ended
    held,       \* the frame yielded last ("none" before the first)
    queue,      \* frames nobody waited for
    finished,   \* no more frames are expected
    errored,    \* errorState is set
    timer,      \* the timeout is armed
    socket,     \* FALSE once its close event has come
    arrived,    \* (history) the frames that came in
    seen        \* (history) how many of them were yielded

stream == <<pc, held, queue, finished, errored, timer, socket, arrived, seen>>

Feed == INSTANCE FrameFeed WITH
            outcome <- IF pc \in {"waiting", "holding"} THEN "open" ELSE pc

StreamTypeOK ==
    /\ pc \in {"dialing", "waiting", "holding"} \cup Feed!Ended
    /\ held \in Feed!Frame \cup {"none"}
    /\ queue \in Seq(Feed!Frame)
    /\ finished \in BOOLEAN /\ errored \in BOOLEAN
    /\ timer \in BOOLEAN /\ socket \in BOOLEAN
    /\ arrived \in Seq(Feed!Frame)
    /\ seen \in Nat

StreamInit ==
    /\ pc = "dialing"
    /\ held = "none"
    /\ queue = <<>>
    /\ finished = FALSE
    /\ errored = FALSE
    /\ timer = FALSE
    /\ socket = FALSE
    /\ arrived = <<>>
    /\ seen = 0

Open == pc \in {"waiting", "holding"}
-----------------------------------------------------------------------------
(* The upgrade is answered with a socket: listeners, timer and request are  *)
(* in place before the first wait.                                          *)
Connects ==
    /\ pc = "dialing"
    /\ pc' = "waiting"
    /\ timer' = TRUE
    /\ socket' = TRUE
    /\ UNCHANGED <<held, queue, finished, errored, arrived, seen>>

(* It throws, or is answered otherwise.                                     *)
DialFails ==
    /\ pc = "dialing"
    /\ pc' = "failed"
    /\ UNCHANGED <<held, queue, finished, errored, timer, socket, arrived, seen>>

(* The message listener; the answer also finishes the stream.               *)
Receives(f) ==
    /\ Open /\ socket
    /\ Len(arrived) < MaxFrames
    /\ arrived' = Append(arrived, f)
    /\ \/ /\ pc = "waiting"
          /\ pc' = "holding"
          /\ held' = f
          /\ seen' = seen + 1
          /\ UNCHANGED queue
       \/ /\ pc = "holding"
          /\ queue' = Append(queue, f)
          /\ UNCHANGED <<pc, held, seen>>
    /\ finished' = (finished \/ f = "answer")
    /\ timer' = (timer /\ f # "answer")
    /\ UNCHANGED <<errored, socket>>

\* Mutation: a callback that finishes the stream leaves the promise pending.
FinishesOnly(error) ==
    /\ finished' = TRUE
    /\ errored' = (errored \/ error)
    /\ UNCHANGED pc

(* What every other callback does: it resolves a pending promise with null, *)
(* at which the generator leaves its loop.                                  *)
Finishes(error) ==
    /\ finished' = TRUE
    /\ errored' = (errored \/ error)
    /\ pc' = IF pc = "holding" THEN pc
             ELSE IF errored' THEN "failed" ELSE "cut"

(* The message listener on a frame that does not parse.                     *)
Garbled ==
    /\ Open /\ socket
    /\ Finishes(TRUE)
    /\ UNCHANGED <<held, queue, timer, socket, arrived, seen>>

TimesOut ==
    /\ Open /\ timer
    /\ Finishes(TRUE)
    /\ timer' = FALSE
    /\ UNCHANGED <<held, queue, socket, arrived, seen>>

Closes ==
    /\ Open /\ socket
    /\ Finishes(FALSE)
    /\ timer' = FALSE
    /\ socket' = FALSE
    /\ UNCHANGED <<held, queue, arrived, seen>>

SocketErrs ==
    /\ Open /\ socket
    /\ Finishes(TRUE)
    /\ UNCHANGED <<held, queue, timer, socket, arrived, seen>>
-----------------------------------------------------------------------------
(* The finally block, which also stops the timer.                           *)
Stops(how) ==
    /\ pc' = how
    /\ timer' = FALSE
    /\ UNCHANGED <<held, queue, finished, errored, socket, arrived, seen>>

YieldsNext ==
    /\ queue # <<>>
    /\ held' = Head(queue)
    /\ queue' = Tail(queue)
    /\ seen' = seen + 1
    /\ UNCHANGED <<pc, finished, errored, timer, socket, arrived>>

\* Mutation: a finished stream ends before its queue is drained.
PullsHasty ==
    /\ pc = "holding"
    /\ \/ finished /\ Stops(IF errored THEN "failed" ELSE "cut")
       \/ ~finished /\ YieldsNext
       \/ /\ ~finished /\ queue = <<>>
          /\ pc' = "waiting"
          /\ UNCHANGED <<held, queue, finished, errored, timer, socket, arrived, seen>>

(* The caller asks for the next frame: past the answer there is none, then  *)
(* comes what is queued, then the end, then a wait.                         *)
Pulls ==
    /\ pc = "holding"
    /\ \/ held = "answer" /\ Stops(IF errored THEN "failed" ELSE "answered")
       \/ held # "answer" /\ YieldsNext
       \/ /\ held # "answer" /\ queue = <<>> /\ finished
          /\ Stops(IF errored THEN "failed" ELSE "cut")
       \/ /\ held # "answer" /\ queue = <<>> /\ ~finished
          /\ pc' = "waiting"
          /\ UNCHANGED <<held, queue, finished, errored, timer, socket, arrived, seen>>

(* The caller breaks out of its loop, which runs the finally block.         *)
Leaves == pc = "holding" /\ Stops("left")

StreamNext ==
    \/ Connects \/ DialFails
    \/ \E f \in Feed!Frame : Receives(f)
    \/ Garbled \/ TimesOut \/ Closes \/ SocketErrs
    \/ Pulls \/ Leaves

StreamSpec == StreamInit /\ [][StreamNext]_stream
-----------------------------------------------------------------------------
(* A timeout, an error, a close or an unreadable frame may come while       *)
(* frames are queued, the answer among them: the caller is given every one  *)
(* of them, in order and once, before the stream ends, whichever event came *)
(* first, and nothing after the answer.                                     *)
KeepsFrameFeed == Feed!Spec

(* No wakeup is lost: a caller never waits for a frame of a stream that has *)
(* finished, and the timer ends a stream whose peer falls silent.           *)
StreamSettles == Feed!Settles
=============================================================================
