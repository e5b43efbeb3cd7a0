----------------------------- MODULE StreamHub -----------------------------
(***************************************************************************)
(* src/durable/streamHub.ts: the Durable Object of one streaming turn.     *)
(*                                                                         *)
(* The object serves requests and runs turns on one thread; a handler or a *)
(* turn gives the thread up only where it awaits something other than      *)
(* storage, so a step of this module is the code between two such awaits.  *)
(* A request is known by its name in Turn (POST /init, and the runTurn it  *)
(* starts), Sub (GET /subscribe), Intr (POST /interrupt) or Del (DELETE /).*)
(* The codex app-server and the session store are external: what they      *)
(* answer is a choice.                                                     *)
(***************************************************************************)
EXTENDS EventBus, FiniteSets

CONSTANTS Turn, Intr, Del,   \* the requests of one behaviour, by kind
          Null,              \* this.state before an init and after a DELETE
          MaxFrames,         \* bound: notification frames from upstream
          EagerWrite         \* does a write to a stream nobody reads yet
                             \* resolve?  FALSE is the TransformStream of the
                             \* streams standard (test/eventBus.test.ts:5-6)

Status == {"streaming", "done", "error", "cancelled"}

\* What the hub publishes.  A terminal "done" carries the status of the turn,
\* or "shutdown" when a DELETE closes the bus.
Frame(kind) == [kind |-> kind, status |-> "none"]
Done(status) == [kind |-> "done", status |-> status]
HubEvent ==
    {Frame(k) : k \in {"thread", "notification", "result", "error",
                       "cancelled", "interrupt-error"}}
    \cup {Done(x) : x \in Status \cup {"shutdown"}}

\* this.state, when there is one: whose it is, and the fields of it that decide
\* anything (text: is finalText non-empty?).
State == [by : Turn, status : Status, turnId : BOOLEAN, text : BOOLEAN]

ASSUME HubAssumption == /\ HubEvent \subseteq Event
                        /\ MaxFrames \in Nat
                        /\ EagerWrite \in BOOLEAN
                        /\ Null \notin State

VARIABLES
    bus,       \* this.bus
    st,        \* this.state: Null, or the fields of it that decide anything
    active,    \* this.active
    flagged,   \* this.interruptRequested
    turn,      \* turn[t]: where /init request t and its runTurn have got to
    frames,    \* notification frames received (bounded by MaxFrames)
    sub,       \* sub[s]: where /subscribe request s has got to
    lost,      \* subscribers whose client went away
    intr,      \* intr[k]: where /interrupt request k has got to
    del,       \* del[d]: where DELETE request d has got to
    closing,   \* the writers whose close() a DELETE is waiting for
    saved,     \* (session store) turns whose text it was sent
    cut        \* (history) turns that were running, and could still report
               \* it, when an interrupt was flagged

turnVars == <<turn, frames, saved>>
reqVars  == <<sub, lost, intr, del, closing>>
vars == <<bus, st, active, flagged, turn, frames, sub, lost, intr, del,
          closing, saved, cut>>

Running == {t \in Turn : turn[t] \in {"threading", "streaming", "persisting"}}

-----------------------------------------------------------------------------
Init == /\ bus = EmptyBus
        /\ st = Null
        /\ active = FALSE
        /\ flagged = FALSE
        /\ turn = [t \in Turn |-> "idle"]
        /\ frames = 0
        /\ sub = [s \in Sub |-> "idle"]
        /\ lost = {}
        /\ intr = [k \in Intr |-> "idle"]
        /\ del = [d \in Del |-> "idle"]
        /\ closing = {}
        /\ saved = {}
        /\ cut = {}

-----------------------------------------------------------------------------
(***************************************************************************)
(* runTurn.  Every way out of it is one of these two.                      *)
(***************************************************************************)

\* Mutation: the finally block forgets to close the bus.
EndsOpen(t, b, state) ==
    /\ turn' = [turn EXCEPT ![t] = "ended"]
    /\ active' = FALSE
    /\ st' = state
    /\ bus' = b

\* The finally block: the hub is no longer active, and the bus is closed with
\* the status this.state has now.
Ends(t, b, state) ==
    /\ turn' = [turn EXCEPT ![t] = "ended"]
    /\ active' = FALSE
    /\ st' = state
    /\ bus' = Shut(b, Done(IF state = Null THEN "error" ELSE state.status), lost)

\* Mutation: the catch block spreads a state that may have been nulled.
ThrowsSpread(t, b) ==
    Ends(t, Published(b, Frame("error"), lost),
         IF st = Null THEN [status |-> "error"]
                      ELSE [st EXCEPT !.status = "error"])

\* The catch block, and then the finally block.
Throws(t, b) ==
    Ends(t, Published(b, Frame("error"), lost),
         IF st = Null THEN Null ELSE [st EXCEPT !.status = "error"])

\* Mutation: the interrupt flag is not consulted.
OutcomeBlind == "done"

Outcome == IF flagged THEN "cancelled" ELSE "done"

\* POST /init: refused with 409 while there is a state, otherwise the body
\* is awaited.
InitArrives(t) ==
    /\ turn[t] = "idle"
    /\ turn' = [turn EXCEPT ![t] = IF st = Null THEN "parsing" ELSE "refused"]
    /\ UNCHANGED <<bus, st, active, flagged, frames, saved, cut, reqVars>>

InitInvalid(t) ==
    /\ turn[t] = "parsing"
    /\ turn' = [turn EXCEPT ![t] = "refused"]
    /\ UNCHANGED <<bus, st, active, flagged, frames, saved, cut, reqVars>>

\* A valid body: this.state is assigned and runTurn is called, which runs up
\* to its first await.  With a thread id that is the turn/start stream.
InitRuns(t) ==
    /\ turn[t] = "parsing"
    /\ active' = TRUE
    /\ st' = [by |-> t, status |-> "streaming", turnId |-> FALSE, text |-> FALSE]
    /\ \/ /\ turn' = [turn EXCEPT ![t] = "threading"]
          /\ UNCHANGED bus
       \/ /\ turn' = [turn EXCEPT ![t] = "streaming"]
          /\ bus' = Published(bus, Frame("thread"), lost)
    /\ UNCHANGED <<flagged, frames, saved, cut, reqVars>>

\* thread/start answers.  Writing resolvedThreadId throws if a DELETE has
\* nulled the state; so does an error answer, or none.
ThreadStarted(t) ==
    /\ turn[t] = "threading"
    /\ \/ /\ st # Null
          /\ turn' = [turn EXCEPT ![t] = "streaming"]
          /\ bus' = Published(bus, Frame("thread"), lost)
          /\ UNCHANGED <<st, active>>
       \/ Throws(t, bus)
    /\ UNCHANGED <<flagged, frames, saved, cut, reqVars>>

\* After the loop: a status that is still "streaming" becomes the outcome.
\* Reading it throws if the state is gone.
LeavesLoop(t) ==
    IF st = Null
    THEN Throws(t, bus)
    ELSE Ends(t, bus, IF st.status = "streaming"
                      THEN [st EXCEPT !.status = Outcome] ELSE st)

\* A notification frame, with or without a turn id in it.  The loop is left
\* first if the turn was interrupted and another turn made the hub inactive.
Notification(t) ==
    /\ turn[t] = "streaming"
    /\ frames < MaxFrames
    /\ frames' = frames + 1
    /\ LET b == Published(bus, Frame("notification"), lost) IN
       IF flagged /\ ~active
       THEN LeavesLoop(t)
       ELSE \/ bus' = b /\ UNCHANGED <<turn, active, st>>
            \/ IF st = Null
               THEN Throws(t, b)
               ELSE /\ st' = [st EXCEPT !.turnId = TRUE]
                    /\ bus' = b
                    /\ UNCHANGED <<turn, active>>
    /\ UNCHANGED <<flagged, saved, cut, reqVars>>

\* The error frame that answers turn/start.
ErrorFrame(t) ==
    /\ turn[t] = "streaming"
    /\ IF flagged /\ ~active THEN LeavesLoop(t)
       ELSE IF st = Null THEN Throws(t, bus)
       ELSE Ends(t, Published(bus, Frame("error"), lost),
                 [st EXCEPT !.status = "error"])
    /\ UNCHANGED <<flagged, frames, saved, cut, reqVars>>

\* Mutation: persistAssistant is called without an await.
ResultFrameUnawaited(t) ==
    /\ turn[t] = "streaming"
    /\ LET b == Published(bus, Frame("result"), lost) IN
       IF flagged /\ ~active THEN LeavesLoop(t)
       ELSE IF st = Null THEN Throws(t, b)
       ELSE /\ st' = [st EXCEPT !.status = Outcome]
            /\ active' = FALSE
            /\ turn' = [turn EXCEPT ![t] = "persisting"]
            /\ bus' = Shut(b, Done(Outcome), lost)
    /\ UNCHANGED <<flagged, frames, saved, cut, reqVars>>

\* The result frame.  A result with text is sent to the session store before
\* the status is decided.
ResultFrame(t) ==
    /\ turn[t] = "streaming"
    /\ LET b == Published(bus, Frame("result"), lost) IN
       IF flagged /\ ~active THEN LeavesLoop(t)
       ELSE IF st = Null THEN Throws(t, b)
       ELSE \/ Ends(t, b, [st EXCEPT !.status = Outcome])
            \/ /\ turn' = [turn EXCEPT ![t] = "persisting"]
               /\ st' = [st EXCEPT !.text = TRUE]
               /\ bus' = b
               /\ UNCHANGED active
    /\ UNCHANGED <<flagged, frames, saved, cut, reqVars>>

\* persistAssistant returns, having stored the text or swallowed an error.
Persisted(t) ==
    /\ turn[t] = "persisting"
    /\ saved' \in {saved, saved \cup {t}}
    /\ IF st = Null THEN Throws(t, bus)
       ELSE Ends(t, bus, [st EXCEPT !.status = Outcome])
    /\ UNCHANGED <<flagged, frames, cut, reqVars>>

\* The upstream WebSocket closes without a terminal frame: the stream ends.
StreamEnds(t) ==
    /\ turn[t] = "streaming"
    /\ LeavesLoop(t)
    /\ UNCHANGED <<flagged, frames, saved, cut, reqVars>>

\* The upstream cannot be reached, breaks, or its timeout fires.
StreamThrows(t) ==
    /\ turn[t] = "streaming"
    /\ Throws(t, bus)
    /\ UNCHANGED <<flagged, frames, saved, cut, reqVars>>

RunTurn(t) == \/ ThreadStarted(t) \/ Notification(t) \/ ErrorFrame(t)
              \/ ResultFrame(t) \/ Persisted(t)
              \/ StreamEnds(t) \/ StreamThrows(t)

-----------------------------------------------------------------------------
(***************************************************************************)
(* GET /subscribe.                                                         *)
(***************************************************************************)
SubArrives(s) ==
    /\ sub[s] = "idle"
    /\ sub' = [sub EXCEPT ![s] = IF st = Null THEN "refused" ELSE "readying"]
    /\ UNCHANGED <<bus, st, active, flagged, turnVars, lost, intr, del,
                   closing, cut>>

\* The awaited write of the ready frame resolves; only now does s join the
\* bus.  The response names this.state.id: if a DELETE came in between, the
\* client gets a 500 and the bus keeps a writer that nobody will read.
ReadyWritten(s) ==
    /\ EagerWrite
    /\ sub[s] = "readying"
    /\ bus' = Subscribed(bus, s, lost)
    /\ sub' = [sub EXCEPT ![s] = IF st = Null THEN "orphan" ELSE "reading"]
    /\ UNCHANGED <<st, active, flagged, turnVars, lost, intr, del, closing, cut>>

\* The client's side: it goes away, or reads a closed stream to its end.
ClientGone(s) ==
    /\ sub[s] \in {"readying", "reading"}
    /\ s \notin lost
    /\ lost' = lost \cup {s}
    /\ UNCHANGED <<bus, st, active, flagged, turnVars, sub, intr, del, closing, cut>>

ClientReadsEnd(s) ==
    /\ sub[s] = "reading"
    /\ s \in bus.ended \ lost
    /\ sub' = [sub EXCEPT ![s] = "finished"]
    /\ UNCHANGED <<bus, st, active, flagged, turnVars, lost, intr, del, closing, cut>>

-----------------------------------------------------------------------------
(***************************************************************************)
(* POST /interrupt.                                                        *)
(***************************************************************************)
IntrArrives(k) ==
    /\ intr[k] = "idle"
    /\ intr' = [intr EXCEPT ![k] = CASE st = Null   -> "refused"
                                     [] st # Null /\ ~active -> "late"
                                     [] OTHER       -> "parsing"]
    /\ UNCHANGED <<bus, st, active, flagged, turnVars, sub, lost, del, closing, cut>>

\* The body has been read.  The flag is set whatever happened meanwhile; then
\* the turn id is looked up, and turn/interrupt is sent if there is one.
IntrFlags(k) ==
    /\ intr[k] = "parsing"
    /\ flagged' = TRUE
    /\ cut' = IF bus.closed THEN cut ELSE cut \cup Running
    /\ \/ /\ st = Null
          /\ intr' = [intr EXCEPT ![k] = "failed"]
          /\ UNCHANGED bus
       \/ /\ st # Null /\ st.turnId
          /\ intr' = [intr EXCEPT ![k] = "calling"]
          /\ UNCHANGED bus
       \/ /\ st # Null /\ ~st.turnId
          /\ intr' = [intr EXCEPT ![k] = "answered"]
          /\ bus' = Published(bus, Frame("cancelled"), lost)
    /\ UNCHANGED <<st, active, turnVars, sub, lost, del, closing>>

\* turn/interrupt returns, or fails, which is only reported.
IntrReturns(k) ==
    /\ intr[k] = "calling"
    /\ intr' = [intr EXCEPT ![k] = "answered"]
    /\ \E b \in {bus, Published(bus, Frame("interrupt-error"), lost)} :
          bus' = Published(b, Frame("cancelled"), lost)
    /\ UNCHANGED <<st, active, flagged, turnVars, sub, lost, del, closing, cut>>

-----------------------------------------------------------------------------
(***************************************************************************)
(* DELETE /.  close() resolves when every writer it closed has been read   *)
(* to the end or has failed; only then is the state dropped.  The running  *)
(* turn is not stopped.                                                    *)
(***************************************************************************)
DelArrives(d) ==
    /\ del[d] = "idle"
    /\ bus' = Shut(bus, Done("shutdown"), lost)
    /\ LET open == bus.members \ lost IN
       IF open = {}
       THEN /\ st' = Null
            /\ del' = [del EXCEPT ![d] = "answered"]
            /\ UNCHANGED closing
       ELSE /\ closing' = open
            /\ del' = [del EXCEPT ![d] = "draining"]
            /\ UNCHANGED st
    /\ UNCHANGED <<active, flagged, turnVars, sub, lost, intr, cut>>

DelFinishes(d) ==
    /\ del[d] = "draining"
    /\ \A s \in closing : sub[s] = "finished" \/ s \in lost
    /\ st' = Null
    /\ del' = [del EXCEPT ![d] = "answered"]
    /\ UNCHANGED <<bus, active, flagged, turnVars, sub, lost, intr, closing, cut>>

-----------------------------------------------------------------------------
Next == \/ \E t \in Turn : InitArrives(t) \/ InitInvalid(t) \/ InitRuns(t)
                           \/ RunTurn(t)
        \/ \E s \in Sub : SubArrives(s) \/ ReadyWritten(s) \/ ClientGone(s)
                          \/ ClientReadsEnd(s)
        \/ \E k \in Intr : IntrArrives(k) \/ IntrFlags(k) \/ IntrReturns(k)
        \/ \E d \in Del : DelArrives(d) \/ DelFinishes(d)

Spec == Init /\ [][Next]_vars

(***************************************************************************)
(* Fairness: the hub's own steps happen.  A turn moves on because every    *)
(* await of it ends: a frame, the end or a failure of the upstream, whose  *)
(* calls carry a timeout (upstreamTimeoutMs, 120 s by default), and the    *)
(* answer of the session store.  Clients owe nothing.                      *)
(***************************************************************************)
Fairness ==
    /\ \A t \in Turn : WF_vars(InitInvalid(t) \/ InitRuns(t)) /\ WF_vars(RunTurn(t))
    /\ \A s \in Sub : WF_vars(ReadyWritten(s))
    /\ \A k \in Intr : WF_vars(IntrFlags(k)) /\ WF_vars(IntrReturns(k))
    /\ \A d \in Del : WF_vars(DelFinishes(d))

FairSpec == Spec /\ Fairness

-----------------------------------------------------------------------------
(***************************************************************************)
(* Properties.                                                             *)
(***************************************************************************)
TurnState == {"idle", "parsing", "refused", "threading", "streaming",
              "persisting", "ended"}

\* The variables have their types.
TypeOK ==
    /\ bus \in BusType
    /\ st \in State \cup {Null}
    /\ active \in BOOLEAN
    /\ flagged \in BOOLEAN
    /\ turn \in [Turn -> TurnState]
    /\ frames \in 0..MaxFrames
    /\ sub \in [Sub -> {"idle", "refused", "readying", "reading", "orphan",
                        "finished"}]
    /\ lost \in SUBSET Sub
    /\ intr \in [Intr -> {"idle", "refused", "late", "parsing", "failed",
                          "calling", "answered"}]
    /\ del \in [Del -> {"idle", "draining", "answered"}]
    /\ closing \in SUBSET Sub
    /\ saved \in SUBSET Turn
    /\ cut \in SUBSET Turn

Last == bus.feed[Len(bus.feed)]

\* What every subscriber of the hub has been given is a gapless, ordered
\* stretch of the feed, whatever turns, interrupts and deletions did.
FaithfulDelivery == BusInv(bus)

\* "After the terminal frame, the DO retires: ... a final done event goes
\* out" (streamHub.ts:16-17): the feed of a closed hub ends with a done, and
\* there is no other done in any feed, although turns, interrupts in flight
\* and DELETEs all publish and close on their own.
TerminalIsLast ==
    /\ bus.closed => bus.feed # <<>>
    /\ \A i \in 1..Len(bus.feed) :
          bus.feed[i].kind = "done" <=> bus.closed /\ i = Len(bus.feed)

\* A feed that reports status "done" was not interrupted while it could still
\* say so: an interrupt flagged during the turn, even during the last await
\* of it, makes it end as cancelled or error (streamHub.ts:179, 269, 275).
InterruptHonoured ==
    bus.closed /\ Last.status = "done" => cut = {}

\* A feed ends with status "error" exactly when an error event in it says
\* why (streamHub.ts:258-260, 277-283).
ErrorsSurface ==
    bus.closed => (Last.status = "error" <=>
                   \E i \in 1..Len(bus.feed) : bus.feed[i].kind = "error")

\* How a feed ends, and what it says of the turn: it ends with one done, which
\* hides neither an interrupt nor an error.
FeedEndsTruthfully == TerminalIsLast /\ InterruptHonoured /\ ErrorsSurface

\* One turn ran, and nobody deleted the hub.
Undisturbed ==
    /\ Cardinality({t \in Turn : turn[t] \in {"threading", "streaming",
                                             "persisting", "ended"}}) <= 1
    /\ \A d \in Del : del[d] = "idle"

\* On a hub with one turn and no DELETE, the session store and the feed agree:
\* the done event is not published while the final text is still on its way
\* to the store, so that a client that reloads the session on "done" finds the
\* text if storing it worked (streamHub.ts:267, the awaited persistAssistant);
\* and a turn whose text was stored is not reported as an error.
StoreAgreesWithFeed ==
    Undisturbed =>
        /\ bus.closed => \A t \in Turn : turn[t] # "persisting"
        /\ saved # {} => bus.closed /\ Last.status \in {"done", "cancelled"}

\* Every subscriber that the hub accepted is eventually let go: its stream is
\* ended, whichever of turn, second turn or DELETE closes the bus.
StreamsEnd == \A s \in Sub : sub[s] = "readying" ~> s \in bus.ended

\* A subscriber is answered: "Multiple browser tabs can watch the same turn"
\* (streamHub.ts:20).  It fails when a write to a stream that nobody reads
\* yet does not resolve (EagerWrite = FALSE), because handleSubscribe awaits
\* such a write before it returns the response that would be read.
SubscribeAnswered ==
    \A s \in Sub : sub[s] = "readying" ~> sub[s] # "readying" \/ s \in lost
=============================================================================
