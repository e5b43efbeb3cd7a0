--------------------------- MODULE StreamHubProofs --------------------------
(***************************************************************************)
(* The theorems about the hub of a streaming turn, for any number of       *)
(* turns, subscribers, interrupts and deletions, and any buffer limit.     *)
(***************************************************************************)
EXTENDS StreamHub, EventBusProofs, FiniteSetTheorems

(***************************************************************************)
(* The inductive invariant.  An open feed holds no done and no error, and  *)
(* the state of an open hub, if there is one, is still "streaming"; a      *)
(* closed feed ends with a done that tells the truth.                      *)
(***************************************************************************)
HasError(b) == \E i \in 1..Len(b.feed) : b.feed[i].kind = "error"

DoneIsLast(b) ==
    /\ b.closed => b.feed # <<>>
    /\ \A i \in 1..Len(b.feed) :
          b.feed[i].kind = "done" <=> b.closed /\ i = Len(b.feed)

GoodBus(b) == b \in BusType /\ BusInv(b) /\ DoneIsLast(b)

\* Would a feed that ends with this status, or has, be telling the truth?
Truthful(b, status, interrupted) ==
    /\ status = "error" <=> HasError(b)
    /\ status = "done" => interrupted = {}

ClosedIsTruthful(b, interrupted) ==
    b.closed => Truthful(b, b.feed[Len(b.feed)].status, interrupted)

OpenIsQuiet(b, s) ==
    ~b.closed => /\ ~HasError(b)
                 /\ s # Null => s.status = "streaming"

NotYet == {s \in Sub : sub[s] \in {"idle", "refused", "readying"}}

HubInv == /\ TypeOK
          /\ GoodBus(bus)
          /\ ClosedIsTruthful(bus, cut)
          /\ OpenIsQuiet(bus, st)
          /\ cut # {} => flagged
          /\ \A s \in NotYet : s \notin bus.members \cup bus.ended

\* c is what the bus b has become: nobody has joined it.
Within(c, b) == c.members \cup c.ended \subseteq b.members \cup b.ended

-----------------------------------------------------------------------------
(***************************************************************************)
(* The bus, seen by the hub.                                               *)
(***************************************************************************)
LEMMA FrameType ==
    /\ \A k \in {"thread", "notification", "result", "error", "cancelled",
                 "interrupt-error"} :
          /\ Frame(k) \in Event
          /\ Frame(k).kind = k
          /\ Frame(k).kind # "done"
    /\ \A x \in Status \cup {"shutdown"} :
          Done(x) \in Event /\ Done(x).kind = "done" /\ Done(x).status = x
BY HubAssumption DEF HubEvent, Frame, Done

\* Publishing what is no done keeps a good bus good; what it does to the
\* errors of the feed depends on the event only.
LEMMA PublishedGood ==
    ASSUME NEW b, GoodBus(b), NEW e \in Event, e.kind # "done", NEW gone,
           NEW c, c = Published(b, e, gone)
    PROVE  /\ GoodBus(c) /\ Within(c, b)
           /\ b.closed => c = b
           /\ ~b.closed => /\ ~c.closed
                           /\ HasError(c) <=> HasError(b) \/ e.kind = "error"
<1>0. b \in BusType /\ BusInv(b) /\ DoneIsLast(b) /\ b.feed \in Seq(Event)
  BY DEF GoodBus, BusType
<1>1. c \in BusType /\ BusInv(c)
  BY <1>0, PublishedInv
<1>2. CASE b.closed
  BY <1>0, <1>2 DEF Published, GoodBus, Within
<1>3. CASE ~b.closed
  <2>1. /\ c.feed = Append(b.feed, e)
        /\ c.members = b.members \ gone
        /\ c.ended = b.ended \cup (b.members \cap gone)
        /\ c.closed = b.closed
    BY <1>0, <1>3, PublishedFields
  <2>2. /\ Len(c.feed) = Len(b.feed) + 1 /\ Len(b.feed) \in Nat
        /\ c.feed[Len(b.feed) + 1] = e
        /\ \A i \in 1..Len(b.feed) : c.feed[i] = b.feed[i]
    BY <1>0, <2>1
  <2>3. DoneIsLast(c)
    BY <1>0, <1>3, <2>1, <2>2 DEF DoneIsLast
  <2>4. HasError(c) <=> HasError(b) \/ e.kind = "error"
    BY <2>2 DEF HasError
  <2> QED BY <1>1, <1>3, <2>1, <2>3, <2>4 DEF GoodBus, Within
<1> QED BY <1>2, <1>3

\* Closing with a done keeps a good bus good, and that done is its last event.
LEMMA ShutGood ==
    ASSUME NEW b, GoodBus(b), NEW e \in Event, e.kind = "done", NEW gone,
           NEW c, c = Shut(b, e, gone)
    PROVE  /\ GoodBus(c) /\ Within(c, b) /\ c.closed
           /\ b.closed => c = b
           /\ ~b.closed => /\ c.feed[Len(c.feed)] = e
                           /\ HasError(c) <=> HasError(b)
<1>0. b \in BusType /\ BusInv(b) /\ DoneIsLast(b) /\ b.feed \in Seq(Event)
  BY DEF GoodBus, BusType
<1>1. c \in BusType /\ BusInv(c)
  BY <1>0, ShutInv
<1>2. CASE b.closed
  BY <1>0, <1>2 DEF Shut, GoodBus, Within
<1>3. CASE ~b.closed
  <2>1. /\ c.feed = Append(b.feed, e)
        /\ c.members = {}
        /\ c.ended = b.ended \cup b.members
        /\ c.closed
    BY <1>0, <1>3, ShutWith
  <2>2. /\ Len(c.feed) = Len(b.feed) + 1 /\ Len(b.feed) \in Nat
        /\ c.feed[Len(b.feed) + 1] = e
        /\ \A i \in 1..Len(b.feed) : c.feed[i] = b.feed[i]
    BY <1>0, <2>1
  <2>3. DoneIsLast(c)
    <3>1. c.feed # <<>>
      BY <2>2
    <3> QED BY <1>0, <1>3, <2>1, <2>2, <3>1 DEF DoneIsLast
  <2>4. HasError(c) <=> HasError(b)
    BY <2>2 DEF HasError
  <2> QED BY <1>1, <1>3, <2>1, <2>2, <2>3, <2>4 DEF GoodBus, Within
<1> QED BY <1>2, <1>3

\* A new subscriber leaves the feed alone and the bus good.
LEMMA SubscribedGood ==
    ASSUME NEW b, GoodBus(b), NEW s \in Sub, s \notin b.members \cup b.ended,
           NEW gone, NEW c, c = Subscribed(b, s, gone)
    PROVE  /\ GoodBus(c)
           /\ c.feed = b.feed /\ c.closed = b.closed
           /\ c.members \cup c.ended \subseteq b.members \cup b.ended \cup {s}
<1>1. b \in BusType /\ BusInv(b) /\ DoneIsLast(b)
  BY DEF GoodBus
<1>2. c \in BusType /\ BusInv(c)
  BY <1>1, SubscribedInv
<1>3. /\ c.feed = b.feed /\ c.closed = b.closed
      /\ c.members \cup c.ended \subseteq b.members \cup b.ended \cup {s}
  BY <1>1 DEF Subscribed, BusType
<1> QED BY <1>1, <1>2, <1>3 DEF GoodBus, DoneIsLast

-----------------------------------------------------------------------------
(***************************************************************************)
(* The ways out of runTurn.                                                *)
(***************************************************************************)
LEMMA HubInvFrom ==
    ASSUME HubInv, TypeOK', GoodBus(bus'), ClosedIsTruthful(bus', cut'),
           OpenIsQuiet(bus', st'), cut' # {} => flagged',
           Within(bus', bus), NotYet' \subseteq NotYet
    PROVE  HubInv'
BY DEF HubInv, Within

\* What a turn may make of the bus before it ends.
MadeOf(b) == GoodBus(b) /\ Within(b, bus) /\ (b.closed => b = bus)

\* One event on the way to the close: an error is in the feed iff it is e.
LEMMA PublishedMadeOf ==
    ASSUME HubInv, NEW e \in Event, e.kind # "done",
           NEW c, c = Published(bus, e, lost)
    PROVE  /\ MadeOf(c)
           /\ ~c.closed => (HasError(c) <=> e.kind = "error")
           /\ bus.closed <=> c.closed
<1>1. GoodBus(bus) /\ (~bus.closed => ~HasError(bus))
  BY DEF HubInv, OpenIsQuiet
<1>2. /\ GoodBus(c) /\ Within(c, bus)
      /\ bus.closed => c = bus
      /\ ~bus.closed => /\ ~c.closed
                        /\ HasError(c) <=> HasError(bus) \/ e.kind = "error"
  BY <1>1, PublishedGood
<1> QED BY <1>1, <1>2 DEF MadeOf

\* The bus itself is such a bus.
LEMMA BusMadeOf == HubInv => MadeOf(bus)
BY DEF HubInv, MadeOf, Within

\* The finally block of runTurn closes the feed with the truth.
LEMMA EndsStep ==
    ASSUME HubInv, NEW t \in Turn, NEW b, MadeOf(b),
           NEW state \in State \cup {Null},
           ~b.closed => Truthful(b, IF state = Null THEN "error" ELSE state.status, cut),
           Ends(t, b, state), UNCHANGED <<flagged, cut, reqVars>>,
           frames' \in 0..MaxFrames, saved' \in SUBSET Turn
    PROVE  HubInv'
<1> DEFINE x == IF state = Null THEN "error" ELSE state.status
<1>1. x \in Status
  BY DEF State, Status
<1>2. Done(x) \in Event /\ Done(x).kind = "done" /\ Done(x).status = x
  BY <1>1, FrameType
<1>3. bus' = Shut(b, Done(x), lost)
  BY DEF Ends
<1> HIDE DEF x
<1>4. GoodBus(b)
  BY DEF MadeOf
<1>5. /\ GoodBus(bus') /\ Within(bus', b) /\ bus'.closed
      /\ b.closed => bus' = b
      /\ ~b.closed => /\ bus'.feed[Len(bus'.feed)] = Done(x)
                      /\ HasError(bus') <=> HasError(b)
  BY <1>2, <1>3, <1>4, ShutGood
<1>6. Within(bus', bus)
  BY <1>5 DEF Within, MadeOf
<1>7. ClosedIsTruthful(bus', cut')
  <2>1. CASE b.closed
    BY <1>5, <2>1 DEF HubInv, MadeOf, ClosedIsTruthful
  <2>2. CASE ~b.closed
    BY <1>2, <1>5, <2>2 DEF ClosedIsTruthful, Truthful, x
  <2> QED BY <2>1, <2>2
<1>8. TypeOK'
  <2>1. turn' \in [Turn -> TurnState]
    BY DEF HubInv, TypeOK, Ends, TurnState
  <2>2. bus' \in BusType
    BY <1>5 DEF GoodBus
  <2>3. active' \in BOOLEAN /\ st' \in State \cup {Null}
    BY DEF Ends
  <2> QED BY <2>1, <2>2, <2>3 DEF HubInv, TypeOK, reqVars
<1>9. NotYet' = NotYet
  BY DEF NotYet, reqVars
<1> QED BY <1>5, <1>6, <1>7, <1>8, <1>9, HubInvFrom DEF HubInv, OpenIsQuiet

\* The catch block reports an error; the finally block does the rest.
LEMMA ThrowsStep ==
    ASSUME HubInv, NEW t \in Turn, NEW b, MadeOf(b),
           Throws(t, b), UNCHANGED <<flagged, cut, reqVars>>,
           frames' \in 0..MaxFrames, saved' \in SUBSET Turn
    PROVE  HubInv'
<1> DEFINE c == Published(b, Frame("error"), lost)
           state == IF st = Null THEN Null ELSE [st EXCEPT !.status = "error"]
           x == IF state = Null THEN "error" ELSE state.status
<1>1. st \in State \cup {Null}
  BY DEF HubInv, TypeOK
<1>2. /\ state \in State \cup {Null}
      /\ x = "error"
  BY <1>1 DEF State, Status
<1>3. Ends(t, c, state)
  BY DEF Throws
<1> HIDE DEF state
<1>4. /\ Frame("error") \in Event /\ Frame("error").kind = "error"
      /\ Frame("error").kind # "done"
  BY FrameType
<1>5. GoodBus(b) /\ Within(b, bus) /\ (b.closed => b = bus)
  BY DEF MadeOf
<1>6. /\ GoodBus(c) /\ Within(c, b)
      /\ b.closed => c = b
      /\ ~b.closed => ~c.closed /\ HasError(c)
  BY <1>4, <1>5, PublishedGood
<1> HIDE DEF c
<1>7. MadeOf(c)
  BY <1>5, <1>6 DEF MadeOf, Within
<1>8. ~c.closed => Truthful(c, x, cut)
  BY <1>2, <1>6 DEF Truthful
<1> QED BY <1>2, <1>3, <1>7, <1>8, EndsStep

\* The code after the loop settles the status; so does the finally block.
LEMMA LeavesStep ==
    ASSUME HubInv, NEW t \in Turn, LeavesLoop(t),
           UNCHANGED <<flagged, cut, reqVars>>,
           frames' \in 0..MaxFrames, saved' \in SUBSET Turn
    PROVE  HubInv'
<1>1. CASE st = Null
  BY <1>1, BusMadeOf, ThrowsStep DEF LeavesLoop
<1>2. CASE st # Null
  <2> DEFINE state == IF st.status = "streaming"
                      THEN [st EXCEPT !.status = Outcome] ELSE st
             x == IF state = Null THEN "error" ELSE state.status
  <2>1. st \in State
    BY <1>2 DEF HubInv, TypeOK
  <2>2. state \in State \cup {Null}
    BY <2>1 DEF State, Status, Outcome
  <2>3. state \in State
    BY <2>1 DEF State, Status, Outcome
  <2>4. ~bus.closed => x = Outcome
    BY <1>2, <2>1, <2>3, HubAssumption DEF HubInv, OpenIsQuiet, State
  <2>5. Ends(t, bus, state)
    BY <1>2 DEF LeavesLoop
  <2> HIDE DEF state
  <2>6. ~bus.closed => Truthful(bus, x, cut)
    BY <2>4 DEF Truthful, Outcome, HubInv, OpenIsQuiet
  <2> QED BY <2>2, <2>5, <2>6, BusMadeOf, EndsStep
<1> QED BY <1>1, <1>2

-----------------------------------------------------------------------------
(***************************************************************************)
(* Steps that do not end a turn.                                           *)
(***************************************************************************)
Quiet(e) == e \in Event /\ e.kind \notin {"done", "error"}
QuietlyMadeOf(b) == MadeOf(b) /\ (~b.closed => ~bus.closed /\ ~HasError(b))

\* The bus itself is such a bus.
LEMMA BusQuietly == HubInv => QuietlyMadeOf(bus)
BY BusMadeOf DEF QuietlyMadeOf, HubInv, OpenIsQuiet

\* An event that is neither done nor error leaves an open feed quiet.
LEMMA PublishedQuietly ==
    ASSUME NEW b, QuietlyMadeOf(b), NEW e, Quiet(e),
           NEW c, c = Published(b, e, lost)
    PROVE  QuietlyMadeOf(c) /\ c \in BusType /\ (b.closed <=> c.closed)
<1>1. /\ GoodBus(b) /\ Within(b, bus) /\ (b.closed => b = bus)
      /\ ~b.closed => ~bus.closed /\ ~HasError(b)
  BY DEF QuietlyMadeOf, MadeOf
<1>2. /\ GoodBus(c) /\ Within(c, b)
      /\ b.closed => c = b
      /\ ~b.closed => /\ ~c.closed
                      /\ HasError(c) <=> HasError(b) \/ e.kind = "error"
  BY <1>1, PublishedGood DEF Quiet
<1> QED BY <1>1, <1>2 DEF QuietlyMadeOf, MadeOf, Within, Quiet, GoodBus

\* The frames that are neither done nor error.
LEMMA QuietFrames ==
    \A k \in {"thread", "notification", "result", "cancelled", "interrupt-error"} :
        Quiet(Frame(k))
BY FrameType DEF Quiet

\* A step that only publishes such events keeps the invariant.
LEMMA QuietStep ==
    ASSUME HubInv, TypeOK', QuietlyMadeOf(bus'),
           bus.closed \/ st' = Null \/ st'.status = "streaming",
           bus.closed => cut' = cut, cut' # {} => flagged',
           NotYet' \subseteq NotYet
    PROVE  HubInv'
<1>1. /\ GoodBus(bus') /\ Within(bus', bus) /\ (bus'.closed => bus' = bus)
      /\ ~bus'.closed => ~bus.closed /\ ~HasError(bus')
  BY DEF QuietlyMadeOf, MadeOf
<1>2. ClosedIsTruthful(bus', cut')
  BY <1>1 DEF HubInv, ClosedIsTruthful
<1>3. OpenIsQuiet(bus', st')
  BY <1>1 DEF OpenIsQuiet
<1> QED BY <1>1, <1>2, <1>3, HubInvFrom

\* The state of an open hub.
LEMMA StateIsStreaming ==
    HubInv => bus.closed \/ st = Null \/ st.status = "streaming"
BY DEF HubInv, OpenIsQuiet

\* So does one that publishes nothing and leaves the state alone.
LEMMA SameBusStep ==
    ASSUME HubInv, TypeOK', bus' = bus, st' = st, cut' = cut, flagged' = flagged,
           NotYet' \subseteq NotYet
    PROVE  HubInv'
<1>1. QuietlyMadeOf(bus')
  BY BusQuietly DEF QuietlyMadeOf, MadeOf, GoodBus, Within, HasError
<1> QED BY <1>1, StateIsStreaming, QuietStep DEF HubInv

-----------------------------------------------------------------------------
(***************************************************************************)
(* POST /init and the turn.                                                *)
(***************************************************************************)
LEMMA InitArrivesInv == HubInv /\ (\E t \in Turn : InitArrives(t)) => HubInv'
<1> SUFFICES ASSUME HubInv, NEW t \in Turn, InitArrives(t) PROVE HubInv'
  OBVIOUS
<1>1. TypeOK'
  BY DEF HubInv, TypeOK, InitArrives, TurnState, reqVars
<1>2. NotYet' = NotYet
  BY DEF NotYet, InitArrives, reqVars
<1> QED BY <1>1, <1>2, SameBusStep DEF InitArrives

\* /init with a body that is refused.
LEMMA InitInvalidInv == HubInv /\ (\E t \in Turn : InitInvalid(t)) => HubInv'
<1> SUFFICES ASSUME HubInv, NEW t \in Turn, InitInvalid(t) PROVE HubInv'
  OBVIOUS
<1>1. TypeOK'
  BY DEF HubInv, TypeOK, InitInvalid, TurnState, reqVars
<1>2. NotYet' = NotYet
  BY DEF NotYet, InitInvalid, reqVars
<1> QED BY <1>1, <1>2, SameBusStep DEF InitInvalid

\* /init sets the state and starts the turn.
LEMMA InitRunsInv == HubInv /\ (\E t \in Turn : InitRuns(t)) => HubInv'
<1> SUFFICES ASSUME HubInv, NEW t \in Turn, InitRuns(t) PROVE HubInv'
  OBVIOUS
<1>1. st' \in State /\ st'.status = "streaming"
  BY DEF InitRuns, State, Status
<1>2. QuietlyMadeOf(bus') /\ bus' \in BusType
  <2>1. CASE bus' = bus
    BY <2>1, BusQuietly DEF HubInv, TypeOK, QuietlyMadeOf, MadeOf, GoodBus,
                            Within, HasError
  <2>2. CASE bus' = Published(bus, Frame("thread"), lost)
    BY <2>2, BusQuietly, PublishedQuietly, QuietFrames
  <2> QED BY <2>1, <2>2 DEF InitRuns
<1>3. TypeOK'
  BY <1>1, <1>2 DEF HubInv, TypeOK, InitRuns, TurnState, reqVars
<1>4. NotYet' = NotYet
  BY DEF NotYet, InitRuns, reqVars
<1>5. cut' = cut /\ flagged' = flagged
  BY DEF InitRuns
<1> QED BY <1>1, <1>2, <1>3, <1>4, <1>5, QuietStep DEF HubInv

\* The app-server answers thread/start.
LEMMA ThreadStartedInv == HubInv /\ (\E t \in Turn : ThreadStarted(t)) => HubInv'
<1> SUFFICES ASSUME HubInv, NEW t \in Turn, ThreadStarted(t) PROVE HubInv'
  OBVIOUS
<1>1. /\ UNCHANGED <<flagged, cut, reqVars>>
      /\ frames' \in 0..MaxFrames /\ saved' \in SUBSET Turn
  BY DEF ThreadStarted, HubInv, TypeOK
<1>2. CASE Throws(t, bus)
  BY <1>1, <1>2, BusMadeOf, ThrowsStep
<1>3. CASE /\ turn' = [turn EXCEPT ![t] = "streaming"]
           /\ bus' = Published(bus, Frame("thread"), lost)
           /\ UNCHANGED <<st, active>>
  <2>1. QuietlyMadeOf(bus') /\ bus' \in BusType
    BY <1>3, BusQuietly, PublishedQuietly, QuietFrames
  <2>2. TypeOK'
    BY <1>1, <1>3, <2>1 DEF HubInv, TypeOK, TurnState, reqVars
  <2>3. NotYet' = NotYet
    BY <1>1 DEF NotYet, reqVars
  <2> QED BY <1>1, <1>3, <2>1, <2>2, <2>3, StateIsStreaming, QuietStep DEF HubInv
<1> QED BY <1>2, <1>3 DEF ThreadStarted

\* A notification frame, with the interrupt that may follow it.
LEMMA NotificationInv == HubInv /\ (\E t \in Turn : Notification(t)) => HubInv'
<1> SUFFICES ASSUME HubInv, NEW t \in Turn, Notification(t) PROVE HubInv'
  OBVIOUS
<1> DEFINE b == Published(bus, Frame("notification"), lost)
<1>1. /\ UNCHANGED <<flagged, cut, reqVars>>
      /\ frames' \in 0..MaxFrames /\ saved' \in SUBSET Turn
  BY HubAssumption DEF Notification, HubInv, TypeOK
<1>2. QuietlyMadeOf(b) /\ b \in BusType
  BY BusQuietly, PublishedQuietly, QuietFrames
<1>3. \/ LeavesLoop(t)
      \/ bus' = b /\ UNCHANGED <<turn, active, st>>
      \/ Throws(t, b)
      \/ /\ st # Null
         /\ st' = [st EXCEPT !.turnId = TRUE]
         /\ bus' = b
         /\ UNCHANGED <<turn, active>>
  BY DEF Notification
<1> HIDE DEF b
<1>4. CASE LeavesLoop(t)
  BY <1>1, <1>4, LeavesStep
<1>5. CASE Throws(t, b)
  BY <1>1, <1>2, <1>5, ThrowsStep DEF QuietlyMadeOf
<1>6. CASE /\ bus' = b /\ UNCHANGED <<turn, active>>
           /\ st' = st \/ (st # Null /\ st' = [st EXCEPT !.turnId = TRUE])
  <2>1. st \in State \cup {Null}
    BY DEF HubInv, TypeOK
  <2>2. /\ st' \in State \cup {Null}
        /\ bus.closed \/ st' = Null \/ st'.status = "streaming"
    BY <1>6, <2>1, StateIsStreaming DEF State
  <2>3. TypeOK'
    BY <1>1, <1>2, <1>6, <2>2 DEF HubInv, TypeOK, reqVars
  <2>4. NotYet' = NotYet
    BY <1>1 DEF NotYet, reqVars
  <2>5. QuietlyMadeOf(bus')
    BY <1>2, <1>6 DEF QuietlyMadeOf, MadeOf, GoodBus, Within, HasError
  <2> QED BY <1>1, <2>2, <2>3, <2>4, <2>5, QuietStep DEF HubInv
<1> QED BY <1>3, <1>4, <1>5, <1>6

\* An error frame of the app-server.
LEMMA ErrorFrameInv == HubInv /\ (\E t \in Turn : ErrorFrame(t)) => HubInv'
<1> SUFFICES ASSUME HubInv, NEW t \in Turn, ErrorFrame(t) PROVE HubInv'
  OBVIOUS
<1>1. /\ UNCHANGED <<flagged, cut, reqVars>>
      /\ frames' \in 0..MaxFrames /\ saved' \in SUBSET Turn
  BY DEF ErrorFrame, HubInv, TypeOK
<1>2. CASE LeavesLoop(t)
  BY <1>1, <1>2, LeavesStep
<1>3. CASE Throws(t, bus)
  BY <1>1, <1>3, BusMadeOf, ThrowsStep
<1>4. CASE /\ st # Null
           /\ Ends(t, Published(bus, Frame("error"), lost),
                   [st EXCEPT !.status = "error"])
  <2> DEFINE b == Published(bus, Frame("error"), lost)
             state == [st EXCEPT !.status = "error"]
  <2>1. MadeOf(b) /\ (~b.closed => HasError(b))
    BY FrameType, PublishedMadeOf
  <2>2. state \in State /\ state # Null /\ state.status = "error"
    BY <1>4, HubAssumption DEF HubInv, TypeOK, State, Status
  <2>3. ~b.closed =>
            Truthful(b, IF state = Null THEN "error" ELSE state.status, cut)
    BY <2>1, <2>2 DEF Truthful
  <2>4. Ends(t, b, state)
    BY <1>4
  <2> HIDE DEF b, state
  <2> QED BY <1>1, <2>1, <2>2, <2>3, <2>4, EndsStep
<1> QED BY <1>2, <1>3, <1>4 DEF ErrorFrame

\* A turn that ends with the outcome the flag decides.
LEMMA OutcomeStep ==
    ASSUME HubInv, NEW t \in Turn, NEW b, QuietlyMadeOf(b), st # Null,
           Ends(t, b, [st EXCEPT !.status = Outcome]),
           UNCHANGED <<flagged, cut, reqVars>>,
           frames' \in 0..MaxFrames, saved' \in SUBSET Turn
    PROVE  HubInv'
<1> DEFINE state == [st EXCEPT !.status = Outcome]
<1>1. state \in State /\ state # Null /\ state.status = Outcome
  BY HubAssumption DEF HubInv, TypeOK, State, Status, Outcome
<1>2. Ends(t, b, state)
  OBVIOUS
<1> HIDE DEF state
<1>3. ~b.closed =>
          Truthful(b, IF state = Null THEN "error" ELSE state.status, cut)
  BY <1>1 DEF Truthful, Outcome, QuietlyMadeOf, HubInv
<1> QED BY <1>1, <1>2, <1>3, EndsStep DEF QuietlyMadeOf

\* A result frame: the text goes to the session store.
LEMMA ResultFrameInv == HubInv /\ (\E t \in Turn : ResultFrame(t)) => HubInv'
<1> SUFFICES ASSUME HubInv, NEW t \in Turn, ResultFrame(t) PROVE HubInv'
  OBVIOUS
<1> DEFINE b == Published(bus, Frame("result"), lost)
<1>1. /\ UNCHANGED <<flagged, cut, reqVars>>
      /\ frames' \in 0..MaxFrames /\ saved' \in SUBSET Turn
  BY DEF ResultFrame, HubInv, TypeOK
<1>2. QuietlyMadeOf(b) /\ b \in BusType
  BY BusQuietly, PublishedQuietly, QuietFrames
<1>3. \/ LeavesLoop(t)
      \/ Throws(t, b)
      \/ st # Null /\ Ends(t, b, [st EXCEPT !.status = Outcome])
      \/ /\ st # Null
         /\ turn' = [turn EXCEPT ![t] = "persisting"]
         /\ st' = [st EXCEPT !.text = TRUE]
         /\ bus' = b
         /\ UNCHANGED active
  BY DEF ResultFrame
<1> HIDE DEF b
<1>4. CASE LeavesLoop(t)
  BY <1>1, <1>4, LeavesStep
<1>5. CASE Throws(t, b)
  BY <1>1, <1>2, <1>5, ThrowsStep DEF QuietlyMadeOf
<1>6. CASE st # Null /\ Ends(t, b, [st EXCEPT !.status = Outcome])
  BY <1>1, <1>2, <1>6, OutcomeStep
<1>7. CASE /\ st # Null
           /\ turn' = [turn EXCEPT ![t] = "persisting"]
           /\ st' = [st EXCEPT !.text = TRUE]
           /\ bus' = b
           /\ UNCHANGED active
  <2>1. st \in State
    BY <1>7 DEF HubInv, TypeOK
  <2>2. /\ st' \in State
        /\ bus.closed \/ st'.status = "streaming"
    BY <1>7, <2>1, StateIsStreaming DEF State
  <2>3. TypeOK'
    BY <1>1, <1>2, <1>7, <2>2 DEF HubInv, TypeOK, TurnState, reqVars
  <2>4. NotYet' = NotYet
    BY <1>1 DEF NotYet, reqVars
  <2>5. QuietlyMadeOf(bus')
    BY <1>2, <1>7 DEF QuietlyMadeOf, MadeOf, GoodBus, Within, HasError
  <2> QED BY <1>1, <2>2, <2>3, <2>4, <2>5, QuietStep DEF HubInv
<1> QED BY <1>3, <1>4, <1>5, <1>6, <1>7

\* The session store has answered or failed.
LEMMA PersistedInv == HubInv /\ (\E t \in Turn : Persisted(t)) => HubInv'
<1> SUFFICES ASSUME HubInv, NEW t \in Turn, Persisted(t) PROVE HubInv'
  OBVIOUS
<1>1. /\ UNCHANGED <<flagged, cut, reqVars>>
      /\ frames' \in 0..MaxFrames /\ saved' \in SUBSET Turn
  BY DEF Persisted, HubInv, TypeOK
<1>2. CASE Throws(t, bus)
  BY <1>1, <1>2, BusMadeOf, ThrowsStep
<1>3. CASE st # Null /\ Ends(t, bus, [st EXCEPT !.status = Outcome])
  BY <1>1, <1>3, BusQuietly, OutcomeStep
<1> QED BY <1>2, <1>3 DEF Persisted

\* The frames end, or the upstream throws.
LEMMA StreamOverInv ==
    HubInv /\ (\E t \in Turn : StreamEnds(t) \/ StreamThrows(t)) => HubInv'
<1> SUFFICES ASSUME HubInv, NEW t \in Turn, StreamEnds(t) \/ StreamThrows(t)
             PROVE  HubInv'
  OBVIOUS
<1>1. /\ UNCHANGED <<flagged, cut, reqVars>>
      /\ frames' \in 0..MaxFrames /\ saved' \in SUBSET Turn
  BY DEF StreamEnds, StreamThrows, HubInv, TypeOK
<1>2. LeavesLoop(t) \/ Throws(t, bus)
  BY DEF StreamEnds, StreamThrows
<1> QED BY <1>1, <1>2, BusMadeOf, LeavesStep, ThrowsStep

-----------------------------------------------------------------------------
(***************************************************************************)
(* GET /subscribe, POST /interrupt, DELETE.                                *)
(***************************************************************************)
LEMMA SubWaitsInv ==
    HubInv /\ (\E s \in Sub : SubArrives(s) \/ ClientGone(s) \/ ClientReadsEnd(s))
        => HubInv'
<1> SUFFICES ASSUME HubInv, NEW s \in Sub,
                    SubArrives(s) \/ ClientGone(s) \/ ClientReadsEnd(s)
             PROVE  HubInv'
  OBVIOUS
<1>1. CASE SubArrives(s)
  <2>1. TypeOK'
    BY <1>1 DEF HubInv, TypeOK, SubArrives, turnVars
  <2>2. NotYet' \subseteq NotYet
    BY <1>1 DEF HubInv, TypeOK, NotYet, SubArrives
  <2> QED BY <1>1, <2>1, <2>2, SameBusStep DEF SubArrives
<1>2. CASE ClientGone(s)
  <2>1. TypeOK'
    BY <1>2 DEF HubInv, TypeOK, ClientGone, turnVars
  <2>2. NotYet' \subseteq NotYet
    BY <1>2 DEF NotYet, ClientGone
  <2> QED BY <1>2, <2>1, <2>2, SameBusStep DEF ClientGone
<1>3. CASE ClientReadsEnd(s)
  <2>1. TypeOK'
    BY <1>3 DEF HubInv, TypeOK, ClientReadsEnd, turnVars
  <2>2. NotYet' \subseteq NotYet
    BY <1>3 DEF HubInv, TypeOK, NotYet, ClientReadsEnd
  <2> QED BY <1>3, <2>1, <2>2, SameBusStep DEF ClientReadsEnd
<1> QED BY <1>1, <1>2, <1>3

\* The write of the ready frame resolves, and the tab joins the bus.
LEMMA ReadyWrittenInv == HubInv /\ (\E s \in Sub : ReadyWritten(s)) => HubInv'
<1> SUFFICES ASSUME HubInv, NEW s \in Sub, ReadyWritten(s) PROVE HubInv'
  OBVIOUS
<1>1. s \in NotYet /\ s \notin bus.members \cup bus.ended
  BY DEF HubInv, NotYet, ReadyWritten
<1>2. /\ GoodBus(bus')
      /\ bus'.feed = bus.feed /\ bus'.closed = bus.closed
      /\ bus'.members \cup bus'.ended \subseteq bus.members \cup bus.ended \cup {s}
  BY <1>1, SubscribedGood DEF HubInv, ReadyWritten
<1>3. /\ st' = st /\ cut' = cut /\ flagged' = flagged
      /\ sub' \in [Sub -> {"idle", "refused", "readying", "reading", "orphan",
                           "finished"}]
  BY DEF ReadyWritten, HubInv, TypeOK
<1>4. TypeOK'
  <2>1. bus' \in BusType
    BY <1>2 DEF GoodBus
  <2> QED BY <1>3, <2>1 DEF HubInv, TypeOK, ReadyWritten, turnVars
<1>5. NotYet' \subseteq NotYet \ {s}
  BY DEF HubInv, TypeOK, NotYet, ReadyWritten
<1>6. ClosedIsTruthful(bus', cut') /\ OpenIsQuiet(bus', st')
  BY <1>2, <1>3 DEF HubInv, ClosedIsTruthful, OpenIsQuiet, Truthful, HasError
<1>7. \A r \in NotYet' : r \notin bus'.members \cup bus'.ended
  BY <1>2, <1>5 DEF HubInv
<1> QED BY <1>2, <1>3, <1>4, <1>6, <1>7 DEF HubInv

\* An interrupt is refused, comes late, or has its body read.
LEMMA IntrArrivesInv == HubInv /\ (\E k \in Intr : IntrArrives(k)) => HubInv'
<1> SUFFICES ASSUME HubInv, NEW k \in Intr, IntrArrives(k) PROVE HubInv'
  OBVIOUS
<1>1. TypeOK'
  BY DEF HubInv, TypeOK, IntrArrives, turnVars
<1>2. NotYet' = NotYet
  BY DEF NotYet, IntrArrives
<1> QED BY <1>1, <1>2, SameBusStep DEF IntrArrives

\* An interrupt sets the flag, and fails if the state is gone.
LEMMA IntrFlagsInv == HubInv /\ (\E k \in Intr : IntrFlags(k)) => HubInv'
<1> SUFFICES ASSUME HubInv, NEW k \in Intr, IntrFlags(k) PROVE HubInv'
  OBVIOUS
<1>1. QuietlyMadeOf(bus') /\ bus' \in BusType
  <2>1. CASE bus' = bus
    BY <2>1, BusQuietly DEF HubInv, TypeOK, QuietlyMadeOf, MadeOf, GoodBus,
                            Within, HasError
  <2>2. CASE bus' = Published(bus, Frame("cancelled"), lost)
    BY <2>2, BusQuietly, PublishedQuietly, QuietFrames
  <2> QED BY <2>1, <2>2 DEF IntrFlags
<1>2. /\ flagged' = TRUE /\ st' = st /\ NotYet' = NotYet
      /\ bus.closed => cut' = cut
      /\ cut' \in SUBSET Turn
  BY DEF IntrFlags, NotYet, Running, HubInv, TypeOK
<1>3. TypeOK'
  <2>1. intr' \in [Intr -> {"idle", "refused", "late", "parsing", "failed",
                            "calling", "answered"}]
    BY DEF HubInv, TypeOK, IntrFlags
  <2> QED BY <1>1, <1>2, <2>1 DEF HubInv, TypeOK, IntrFlags, turnVars
<1> QED BY <1>1, <1>2, <1>3, StateIsStreaming, QuietStep

\* turn/interrupt has answered or failed; the hub says cancelled.
LEMMA IntrReturnsInv == HubInv /\ (\E k \in Intr : IntrReturns(k)) => HubInv'
<1> SUFFICES ASSUME HubInv, NEW k \in Intr, IntrReturns(k) PROVE HubInv'
  OBVIOUS
<1>1. PICK b \in {bus, Published(bus, Frame("interrupt-error"), lost)} :
          bus' = Published(b, Frame("cancelled"), lost)
  BY DEF IntrReturns
<1>2. QuietlyMadeOf(b)
  BY BusQuietly, PublishedQuietly, QuietFrames
<1>3. QuietlyMadeOf(bus') /\ bus' \in BusType
  BY <1>1, <1>2, PublishedQuietly, QuietFrames
<1>4. st' = st /\ cut' = cut /\ flagged' = flagged /\ NotYet' = NotYet
  BY DEF IntrReturns, NotYet
<1>5. TypeOK'
  BY <1>3, <1>4 DEF HubInv, TypeOK, IntrReturns, turnVars
<1> QED BY <1>3, <1>4, <1>5, StateIsStreaming, QuietStep DEF HubInv

\* DELETE closes the bus, and drops the state if it need not wait.
LEMMA DelArrivesInv == HubInv /\ (\E d \in Del : DelArrives(d)) => HubInv'
<1> SUFFICES ASSUME HubInv, NEW d \in Del, DelArrives(d) PROVE HubInv'
  OBVIOUS
<1> DEFINE e == Done("shutdown")
<1>1. /\ e \in Event /\ e.kind = "done" /\ e.status = "shutdown"
      /\ bus' = Shut(bus, e, lost)
  BY FrameType DEF DelArrives
<1> HIDE DEF e
<1>2. GoodBus(bus) /\ bus.members \in SUBSET Sub
  BY DEF HubInv, GoodBus, BusType
<1>3. /\ GoodBus(bus') /\ Within(bus', bus) /\ bus'.closed
      /\ bus.closed => bus' = bus
      /\ ~bus.closed => /\ bus'.feed[Len(bus'.feed)] = e
                        /\ HasError(bus') <=> HasError(bus)
  BY <1>1, <1>2, ShutGood
<1>4. /\ cut' = cut /\ flagged' = flagged /\ NotYet' = NotYet
      /\ st' \in {st, Null}
  BY DEF DelArrives, NotYet
<1>5. ClosedIsTruthful(bus', cut')
  <2>1. CASE bus.closed
    BY <1>3, <1>4, <2>1 DEF HubInv, ClosedIsTruthful
  <2>2. CASE ~bus.closed
    BY <1>1, <1>3, <2>2 DEF HubInv, OpenIsQuiet, ClosedIsTruthful, Truthful
  <2> QED BY <2>1, <2>2
<1>6. TypeOK'
  <2>1. bus' \in BusType
    BY <1>3 DEF GoodBus
  <2>2. /\ del' \in [Del -> {"idle", "draining", "answered"}]
        /\ closing' \in SUBSET Sub
    BY <1>2 DEF DelArrives, HubInv, TypeOK
  <2> QED BY <1>4, <2>1, <2>2 DEF HubInv, TypeOK, DelArrives, turnVars
<1> QED BY <1>3, <1>4, <1>5, <1>6, HubInvFrom DEF HubInv, OpenIsQuiet

\* The closed writers are drained, and DELETE drops the state.
LEMMA DelFinishesInv == HubInv /\ (\E d \in Del : DelFinishes(d)) => HubInv'
<1> SUFFICES ASSUME HubInv, NEW d \in Del, DelFinishes(d) PROVE HubInv'
  OBVIOUS
<1>1. /\ st' = Null /\ bus' = bus /\ cut' = cut /\ flagged' = flagged
      /\ NotYet' = NotYet
  BY DEF DelFinishes, NotYet
<1>2. TypeOK'
  BY DEF HubInv, TypeOK, DelFinishes, turnVars
<1>3. QuietlyMadeOf(bus')
  BY <1>1, BusQuietly DEF QuietlyMadeOf, MadeOf, GoodBus, Within, HasError
<1> QED BY <1>1, <1>2, <1>3, QuietStep DEF HubInv

-----------------------------------------------------------------------------
(***************************************************************************)
(* The theorems.                                                           *)
(***************************************************************************)
LEMMA HubInvInit == Init => HubInv
<1> SUFFICES ASSUME Init PROVE HubInv
  OBVIOUS
<1>1. /\ EmptyBus \in BusType /\ BusInv(EmptyBus)
      /\ EmptyBus.feed = <<>> /\ EmptyBus.members = {} /\ EmptyBus.ended = {}
      /\ EmptyBus.closed = FALSE
  BY EmptyBusInv DEF EmptyBus
<1>2. bus = EmptyBus /\ st = Null /\ cut = {}
  BY DEF Init
<1>3. DoneIsLast(bus) /\ ~HasError(bus)
  BY <1>1, <1>2 DEF DoneIsLast, HasError
<1>4. TypeOK
  <2>1. turn \in [Turn -> TurnState] /\ frames \in 0..MaxFrames
    BY HubAssumption DEF Init, TurnState
  <2>2. sub \in [Sub -> {"idle", "refused", "readying", "reading", "orphan",
                         "finished"}]
    BY DEF Init
  <2>3. intr \in [Intr -> {"idle", "refused", "late", "parsing", "failed",
                           "calling", "answered"}]
    BY DEF Init
  <2>4. del \in [Del -> {"idle", "draining", "answered"}]
    BY DEF Init
  <2> QED BY <1>1, <1>2, <2>1, <2>2, <2>3, <2>4 DEF Init, TypeOK
<1> QED BY <1>1, <1>2, <1>3, <1>4
        DEF HubInv, GoodBus, ClosedIsTruthful, OpenIsQuiet

\* The invariant is inductive.
LEMMA HubInvNext == HubInv /\ [Next]_vars => HubInv'
<1> SUFFICES ASSUME HubInv, [Next]_vars PROVE HubInv'
  OBVIOUS
<1>1. CASE \E t \in Turn : RunTurn(t)
  BY <1>1, ThreadStartedInv, NotificationInv, ErrorFrameInv, ResultFrameInv,
     PersistedInv, StreamOverInv DEF RunTurn
<1>2. CASE \E t \in Turn : InitArrives(t) \/ InitInvalid(t) \/ InitRuns(t)
  BY <1>2, InitArrivesInv, InitInvalidInv, InitRunsInv
<1>3. CASE \E s \in Sub : SubArrives(s) \/ ReadyWritten(s) \/ ClientGone(s)
                          \/ ClientReadsEnd(s)
  BY <1>3, SubWaitsInv, ReadyWrittenInv
<1>4. CASE \E k \in Intr : IntrArrives(k) \/ IntrFlags(k) \/ IntrReturns(k)
  BY <1>4, IntrArrivesInv, IntrFlagsInv, IntrReturnsInv
<1>5. CASE \E d \in Del : DelArrives(d) \/ DelFinishes(d)
  BY <1>5, DelArrivesInv, DelFinishesInv
<1>6. CASE UNCHANGED vars
  <2>1. TypeOK' /\ NotYet' = NotYet
    BY <1>6 DEF HubInv, TypeOK, NotYet, vars
  <2> QED BY <1>6, <2>1, SameBusStep DEF vars
<1> QED BY <1>1, <1>2, <1>3, <1>4, <1>5, <1>6 DEF Next

\* The invariant holds in every state of every behaviour.
LEMMA HubInvAlways == Spec => []HubInv
<1> QED BY HubInvInit, HubInvNext, PTL DEF Spec

(* The variables of the hub have their types, whatever requests and turns  *)
(* interleave.                                                             *)
THEOREM HubTypeCorrect == Spec => []TypeOK
<1>1. HubInv => TypeOK
  BY DEF HubInv
<1> QED BY <1>1, HubInvAlways, PTL

(* Every subscriber of the hub is given a gapless, ordered stretch of the  *)
(* feed, whatever turns, interrupts and deletions publish and close.       *)
THEOREM HubFaithful == Spec => []FaithfulDelivery
<1>1. HubInv => FaithfulDelivery
  BY DEF HubInv, GoodBus, FaithfulDelivery
<1> QED BY <1>1, HubInvAlways, PTL

(* A closed feed ends with a done, and there is no other done in any feed; *)
(* none reports "done" for a turn that was interrupted while it ran; and a *)
(* feed ends with status "error" exactly when an error is in it.           *)
THEOREM HubEndsTruthfully == Spec => []FeedEndsTruthfully
<1>1. HubInv => TerminalIsLast
  BY DEF HubInv, GoodBus, DoneIsLast, TerminalIsLast
<1>2. HubInv => InterruptHonoured
  BY DEF HubInv, ClosedIsTruthful, Truthful, InterruptHonoured, Last
<1>3. HubInv => ErrorsSurface
  BY DEF HubInv, ClosedIsTruthful, Truthful, HasError, ErrorsSurface, Last
<1>4. HubInv => FeedEndsTruthfully
  BY <1>1, <1>2, <1>3 DEF FeedEndsTruthfully
<1> QED BY <1>4, HubInvAlways, PTL

-----------------------------------------------------------------------------
(***************************************************************************)
(* The session store.  The property counts the turns that ran; the         *)
(* induction needs to know which: while the only one runs, nobody closes   *)
(* the bus, takes the state or makes the hub inactive under it.            *)
(***************************************************************************)
Started == {t \in Turn : turn[t] \in {"threading", "streaming", "persisting",
                                      "ended"}}

Sole == /\ \A t, u \in Started : t = u
        /\ \A d \in Del : del[d] = "idle"

NotStarted == Started = {} => ~bus.closed /\ saved = {}
RunsAlone == Running # {} => ~bus.closed /\ st # Null /\ active /\ saved = {}
SavedIsTold == saved # {} => bus.closed /\ Last.status \in {"done", "cancelled"}

SoleInv == Sole => NotStarted /\ RunsAlone /\ SavedIsTold
StoreInv == IsFiniteSet(Started) /\ SoleInv

\* Undisturbed, said without counting.
LEMMA UndisturbedIsSole == IsFiniteSet(Started) /\ Undisturbed => Sole
<1> SUFFICES ASSUME IsFiniteSet(Started), Undisturbed,
                    NEW t \in Started, NEW u \in Started, t # u
             PROVE  FALSE
  BY DEF Sole, Undisturbed
<1>1. Cardinality(Started) <= 1
  BY DEF Undisturbed, Started
<1>2. {t, u} \subseteq Started
  OBVIOUS
<1>3. Cardinality({t, u}) = 2
  <2>1. IsFiniteSet({t}) /\ Cardinality({t}) = 1
    BY FS_Singleton
  <2>2. Cardinality({t} \cup {u}) = Cardinality({t}) + 1
    BY <2>1, FS_AddElement
  <2>3. {t, u} = {t} \cup {u}
    OBVIOUS
  <2> QED BY <2>1, <2>2, <2>3
<1>4. Cardinality({t, u}) <= Cardinality(Started)
  BY <1>2, FS_Subset
<1>5. Cardinality(Started) \in Nat
  BY FS_CardinalityType
<1> QED BY <1>1, <1>3, <1>4, <1>5

\* A step that starts and ends no turn, and closes nothing.
LEMMA StoreSame ==
    ASSUME StoreInv, HubInv, turn' = turn, saved' = saved, st' = st,
           active' = active, bus'.closed = bus.closed,
           bus.closed => bus'.feed = bus.feed,
           \A d \in Del : del'[d] = "idle" => del[d] = "idle"
    PROVE  StoreInv'
<1>1. Started' = Started /\ Running' = Running
  BY DEF Started, Running
<1>2. Sole' => Sole
  BY <1>1 DEF Sole
<1>3. SavedIsTold => SavedIsTold'
  BY DEF SavedIsTold, Last
<1> QED BY <1>1, <1>2, <1>3 DEF StoreInv, SoleInv, NotStarted, RunsAlone

\* A turn that ends: alone it closes the bus itself, so the done it publishes
\* is the last event, and it says that the text was stored if it was.
LEMMA StoreEnds ==
    ASSUME StoreInv, HubInv, NEW t \in Running, NEW b, MadeOf(b),
           b.closed <=> bus.closed,
           NEW state \in State \cup {Null}, Ends(t, b, state),
           \/ saved' = saved
           \/ state # Null /\ state.status \in {"done", "cancelled"},
           del' = del
    PROVE  StoreInv'
<1> DEFINE x == IF state = Null THEN "error" ELSE state.status
<1>1. x \in Status
  BY DEF State, Status
<1>2. Done(x) \in Event /\ Done(x).kind = "done" /\ Done(x).status = x
  BY <1>1, FrameType
<1>3. bus' = Shut(b, Done(x), lost)
  BY DEF Ends
<1>4. state # Null => x = state.status
  OBVIOUS
<1> HIDE DEF x
<1>5. /\ bus'.closed
      /\ ~b.closed => bus'.feed[Len(bus'.feed)] = Done(x)
  BY <1>2, <1>3, ShutGood DEF MadeOf
<1>6. t \in Turn /\ t \in Started /\ turn \in [Turn -> TurnState]
  BY DEF Running, Started, HubInv, TypeOK
<1>7. Started' = Started
  BY <1>6 DEF Started, Ends
<1>8. Running' = Running \ {t}
  BY <1>6 DEF Running, Ends
<1>9. ASSUME Sole' PROVE NotStarted' /\ RunsAlone' /\ SavedIsTold'
  <2>1. Sole
    BY <1>7, <1>9 DEF Sole
  <2>2. ~bus.closed /\ saved = {}
    BY <2>1 DEF StoreInv, SoleInv, RunsAlone
  <2>3. Running' = {}
    BY <1>8, <2>1 DEF Sole, Running, Started
  <2>4. SavedIsTold'
    BY <1>2, <1>4, <1>5, <2>2 DEF SavedIsTold, Last
  <2> QED BY <1>6, <1>7, <2>3, <2>4 DEF NotStarted, RunsAlone
<1> QED BY <1>7, <1>9 DEF StoreInv, SoleInv

\* A turn that has not started, or that only gets on.
LEMMA StoreGoesOn ==
    ASSUME StoreInv, HubInv, NEW t \in Turn, NEW w \in TurnState,
           turn' = [turn EXCEPT ![t] = w], saved' = saved, del' = del,
           turn[t] \in {"idle", "parsing"} => w \in {"parsing", "refused"},
           turn[t] \notin {"idle", "parsing"} =>
               t \in Running /\ w \in {"threading", "streaming", "persisting"},
           st # Null => st' # Null, active' = active,
           bus'.closed = bus.closed, bus.closed => bus'.feed = bus.feed
    PROVE  StoreInv'
<1>1. turn \in [Turn -> TurnState]
  BY DEF HubInv, TypeOK
<1>2. Started' = Started /\ Running' = Running
  BY <1>1 DEF Started, Running, TurnState
<1>3. Sole' => Sole
  BY <1>2 DEF Sole
<1>4. SavedIsTold => SavedIsTold'
  BY DEF SavedIsTold, Last
<1> QED BY <1>2, <1>3, <1>4 DEF StoreInv, SoleInv, NotStarted, RunsAlone

\* An event that is no done closes nothing and leaves a closed feed alone.
LEMMA PublishedStays ==
    ASSUME HubInv, NEW e, Quiet(e), NEW c, c = Published(bus, e, lost)
    PROVE  /\ QuietlyMadeOf(c) /\ MadeOf(c)
           /\ c.closed = bus.closed /\ (bus.closed => c = bus)
<1>1. QuietlyMadeOf(c) /\ c \in BusType /\ (bus.closed <=> c.closed)
  BY BusQuietly, PublishedQuietly
<1>2. bus \in BusType
  BY DEF HubInv, TypeOK
<1> QED BY <1>1, <1>2 DEF QuietlyMadeOf, MadeOf, BusType

\* The catch block.
LEMMA StoreThrows ==
    ASSUME StoreInv, HubInv, NEW t \in Running, NEW b, MadeOf(b),
           b.closed <=> bus.closed, Throws(t, b), saved' = saved, del' = del
    PROVE  StoreInv'
<1> DEFINE c == Published(b, Frame("error"), lost)
           state == IF st = Null THEN Null ELSE [st EXCEPT !.status = "error"]
<1>1. state \in State \cup {Null}
  BY DEF HubInv, TypeOK, State, Status
<1>2. Ends(t, c, state)
  BY DEF Throws
<1>3. /\ Frame("error") \in Event /\ Frame("error").kind # "done"
  BY FrameType
<1> HIDE DEF state
<1>4. /\ GoodBus(c) /\ Within(c, b)
      /\ b.closed => c = b
      /\ ~b.closed => ~c.closed
  BY <1>3, PublishedGood DEF MadeOf
<1> HIDE DEF c
<1>5. MadeOf(c) /\ (c.closed <=> bus.closed)
  BY <1>4 DEF MadeOf, Within
<1> QED BY <1>1, <1>2, <1>5, StoreEnds

\* The code after the loop.
LEMMA StoreLeaves ==
    ASSUME StoreInv, HubInv, NEW t \in Running, LeavesLoop(t),
           saved' = saved, del' = del
    PROVE  StoreInv'
<1>1. CASE st = Null
  BY <1>1, BusMadeOf, StoreThrows DEF LeavesLoop
<1>2. CASE st # Null
  <2> DEFINE state == IF st.status = "streaming"
                      THEN [st EXCEPT !.status = Outcome] ELSE st
  <2>1. state \in State \cup {Null}
    BY <1>2 DEF HubInv, TypeOK, State, Status, Outcome
  <2>2. Ends(t, bus, state)
    BY <1>2 DEF LeavesLoop
  <2> HIDE DEF state
  <2> QED BY <2>1, <2>2, BusMadeOf, StoreEnds
<1> QED BY <1>1, <1>2

\* The steps of a turn.
LEMMA StoreRunTurn == StoreInv /\ HubInv /\ (\E t \in Turn : RunTurn(t)) => StoreInv'
<1> SUFFICES ASSUME StoreInv, HubInv, NEW t \in Turn, RunTurn(t) PROVE StoreInv'
  OBVIOUS
<1> USE DEF reqVars
<1>1. MadeOf(bus) /\ st \in State \cup {Null} /\ turn \in [Turn -> TurnState]
  BY BusMadeOf DEF HubInv, TypeOK
<1>2. CASE ThreadStarted(t)
  <2>1. t \in Running
    BY <1>2 DEF ThreadStarted, Running
  <2>2. CASE Throws(t, bus)
    BY <1>1, <1>2, <2>1, <2>2, StoreThrows DEF ThreadStarted
  <2>3. CASE /\ turn' = [turn EXCEPT ![t] = "streaming"]
             /\ bus' = Published(bus, Frame("thread"), lost)
             /\ UNCHANGED <<st, active>>
    <3>1. bus'.closed = bus.closed /\ (bus.closed => bus' = bus)
      BY <2>3, PublishedStays, QuietFrames
    <3>2. turn[t] = "threading" /\ saved' = saved /\ del' = del
      BY <1>2 DEF ThreadStarted
    <3> QED BY <2>1, <2>3, <3>1, <3>2, StoreGoesOn DEF TurnState
  <2> QED BY <1>2, <2>2, <2>3 DEF ThreadStarted
<1>3. CASE Notification(t)
  <2> DEFINE b == Published(bus, Frame("notification"), lost)
  <2>1. t \in Running /\ saved' = saved /\ del' = del
    BY <1>3 DEF Notification, Running
  <2>2. MadeOf(b) /\ b.closed = bus.closed /\ (bus.closed => b = bus)
    BY PublishedStays, QuietFrames
  <2>3. \/ LeavesLoop(t)
        \/ Throws(t, b)
        \/ /\ bus' = b /\ UNCHANGED <<turn, active>>
           /\ st' = st \/ (st # Null /\ st' = [st EXCEPT !.turnId = TRUE])
    BY <1>3 DEF Notification
  <2> HIDE DEF b
  <2>4. CASE LeavesLoop(t)
    BY <2>1, <2>4, StoreLeaves
  <2>5. CASE Throws(t, b)
    BY <2>1, <2>2, <2>5, StoreThrows
  <2>6. CASE /\ bus' = b /\ UNCHANGED <<turn, active>>
             /\ st' = st \/ (st # Null /\ st' = [st EXCEPT !.turnId = TRUE])
    <3>1. st # Null => st' # Null
      BY <1>1, <2>6, HubAssumption DEF State
    <3>2. turn' = [turn EXCEPT ![t] = turn[t]] /\ turn[t] \in TurnState
      BY <1>1, <2>6
    <3>3. turn[t] \in {"threading", "streaming", "persisting"}
      BY <2>1 DEF Running
    <3> QED BY <2>1, <2>2, <2>6, <3>1, <3>2, <3>3, StoreGoesOn
  <2> QED BY <2>3, <2>4, <2>5, <2>6
<1>4. CASE ErrorFrame(t)
  <2>1. t \in Running /\ saved' = saved /\ del' = del
    BY <1>4 DEF ErrorFrame, Running
  <2>2. CASE LeavesLoop(t)
    BY <2>1, <2>2, StoreLeaves
  <2>3. CASE Throws(t, bus)
    BY <1>1, <2>1, <2>3, StoreThrows
  <2>4. CASE /\ st # Null
             /\ Ends(t, Published(bus, Frame("error"), lost),
                     [st EXCEPT !.status = "error"])
    <3> DEFINE b == Published(bus, Frame("error"), lost)
               state == [st EXCEPT !.status = "error"]
    <3>1. MadeOf(b) /\ (bus.closed <=> b.closed)
      BY FrameType, PublishedMadeOf
    <3>2. state \in State
      BY <1>1, <2>4 DEF State, Status
    <3>3. Ends(t, b, state)
      BY <2>4
    <3> HIDE DEF b, state
    <3> QED BY <2>1, <3>1, <3>2, <3>3, StoreEnds
  <2> QED BY <1>4, <2>2, <2>3, <2>4 DEF ErrorFrame
<1>5. CASE ResultFrame(t)
  <2> DEFINE b == Published(bus, Frame("result"), lost)
  <2>1. t \in Running /\ saved' = saved /\ del' = del
    BY <1>5 DEF ResultFrame, Running
  <2>2. MadeOf(b) /\ b.closed = bus.closed /\ (bus.closed => b = bus)
    BY PublishedStays, QuietFrames
  <2>3. \/ LeavesLoop(t)
        \/ Throws(t, b)
        \/ st # Null /\ Ends(t, b, [st EXCEPT !.status = Outcome])
        \/ /\ st # Null
           /\ turn' = [turn EXCEPT ![t] = "persisting"]
           /\ st' = [st EXCEPT !.text = TRUE]
           /\ bus' = b
           /\ UNCHANGED active
    BY <1>5 DEF ResultFrame
  <2> HIDE DEF b
  <2>4. CASE LeavesLoop(t)
    BY <2>1, <2>4, StoreLeaves
  <2>5. CASE Throws(t, b)
    BY <2>1, <2>2, <2>5, StoreThrows
  <2>6. CASE st # Null /\ Ends(t, b, [st EXCEPT !.status = Outcome])
    <3>1. [st EXCEPT !.status = Outcome] \in State
      BY <1>1, <2>6 DEF State, Status, Outcome
    <3> QED BY <2>1, <2>2, <2>6, <3>1, StoreEnds
  <2>7. CASE /\ st # Null
             /\ turn' = [turn EXCEPT ![t] = "persisting"]
             /\ st' = [st EXCEPT !.text = TRUE]
             /\ bus' = b
             /\ UNCHANGED active
    <3>1. st' # Null
      BY <1>1, <2>7, HubAssumption DEF State
    <3>2. turn[t] = "streaming"
      BY <1>5 DEF ResultFrame
    <3> QED BY <2>1, <2>2, <2>7, <3>1, <3>2, StoreGoesOn DEF TurnState
  <2> QED BY <2>3, <2>4, <2>5, <2>6, <2>7
<1>6. CASE Persisted(t)
  <2>1. t \in Running /\ del' = del
    BY <1>6 DEF Persisted, Running
  <2>2. CASE st = Null
    \* Nobody can take the state of the only turn: another one ran.
    <3>1. ~Sole
      BY <2>1, <2>2 DEF StoreInv, SoleInv, RunsAlone
    <3>2. turn' = [turn EXCEPT ![t] = "ended"]
      BY <1>6, <2>2 DEF Persisted, Throws, Ends
    <3>3. Started' = Started
      BY <1>1, <2>1, <3>2 DEF Started, Running
    <3> QED BY <2>1, <3>1, <3>3 DEF StoreInv, SoleInv, Sole
  <2>3. CASE st # Null
    <3>1. [st EXCEPT !.status = Outcome] \in State
      BY <1>1, <2>3 DEF State, Status, Outcome
    <3>2. [st EXCEPT !.status = Outcome].status \in {"done", "cancelled"}
      BY <1>1, <2>3 DEF State, Outcome
    <3>3. [st EXCEPT !.status = Outcome] # Null
      BY <3>1, HubAssumption
    <3>4. Ends(t, bus, [st EXCEPT !.status = Outcome])
      BY <1>6, <2>3 DEF Persisted
    <3> DEFINE state == [st EXCEPT !.status = Outcome]
    <3> HIDE DEF state
    <3> QED BY <1>1, <2>1, <3>1, <3>2, <3>3, <3>4, StoreEnds DEF state
  <2> QED BY <2>2, <2>3
<1>7. CASE StreamEnds(t) \/ StreamThrows(t)
  <2>1. t \in Running /\ saved' = saved /\ del' = del
    BY <1>7 DEF StreamEnds, StreamThrows, Running
  <2> QED BY <1>1, <1>7, <2>1, StoreLeaves, StoreThrows DEF StreamEnds, StreamThrows
<1> QED BY <1>2, <1>3, <1>4, <1>5, <1>6, <1>7 DEF RunTurn

\* POST /init: the first turn to run runs on an open hub.
LEMMA StoreInit ==
    StoreInv /\ HubInv
        /\ (\E t \in Turn : InitArrives(t) \/ InitInvalid(t) \/ InitRuns(t))
    => StoreInv'
<1> SUFFICES ASSUME StoreInv, HubInv, NEW t \in Turn,
                    InitArrives(t) \/ InitInvalid(t) \/ InitRuns(t)
             PROVE  StoreInv'
  OBVIOUS
<1>1. turn \in [Turn -> TurnState]
  BY DEF HubInv, TypeOK
<1>2. CASE InitArrives(t) \/ InitInvalid(t)
  <2>1. PICK w \in {"parsing", "refused"} : turn' = [turn EXCEPT ![t] = w]
    BY <1>2 DEF InitArrives, InitInvalid
  <2>2. turn[t] \in {"idle", "parsing"}
    BY <1>2 DEF InitArrives, InitInvalid
  <2>3. UNCHANGED <<bus, st, active, saved, del>>
    BY <1>2 DEF InitArrives, InitInvalid, reqVars
  <2> QED BY <2>1, <2>2, <2>3, StoreGoesOn DEF TurnState
<1>3. CASE InitRuns(t)
  <2>1. Started' = Started \cup {t} /\ t \notin Started
    BY <1>1, <1>3 DEF InitRuns, Started
  <2>2. IsFiniteSet(Started')
    BY <2>1, FS_AddElement DEF StoreInv
  <2>3. bus'.closed = bus.closed
    BY <1>3, PublishedStays, QuietFrames DEF InitRuns
  <2>4. saved' = saved /\ del' = del /\ active' = TRUE
    BY <1>3 DEF InitRuns, reqVars
  <2>5. st' # Null
    <3>1. st' \in State
      BY <1>3 DEF InitRuns, State, Status
    <3> QED BY <3>1, HubAssumption
  <2>6. ASSUME Sole' PROVE NotStarted' /\ RunsAlone' /\ SavedIsTold'
    <3>1. Started = {} /\ Sole
      BY <2>1, <2>4, <2>6 DEF Sole
    <3>2. ~bus.closed /\ saved = {}
      BY <3>1 DEF StoreInv, SoleInv, NotStarted
    <3> QED BY <2>3, <2>4, <2>5, <3>2 DEF NotStarted, RunsAlone, SavedIsTold
  <2> QED BY <2>2, <2>6 DEF StoreInv, SoleInv
<1> QED BY <1>2, <1>3

\* A step of any other request.
LEMMA StoreRequests ==
    StoreInv /\ HubInv
        /\ (\/ \E s \in Sub : SubArrives(s) \/ ReadyWritten(s) \/ ClientGone(s)
                              \/ ClientReadsEnd(s)
            \/ \E k \in Intr : IntrArrives(k) \/ IntrFlags(k) \/ IntrReturns(k)
            \/ \E d \in Del : DelArrives(d) \/ DelFinishes(d))
    => StoreInv'
<1> SUFFICES ASSUME StoreInv, HubInv PROVE
        (\/ \E s \in Sub : SubArrives(s) \/ ReadyWritten(s) \/ ClientGone(s)
                           \/ ClientReadsEnd(s)
         \/ \E k \in Intr : IntrArrives(k) \/ IntrFlags(k) \/ IntrReturns(k)
         \/ \E d \in Del : DelArrives(d) \/ DelFinishes(d))
        => StoreInv'
  OBVIOUS
<1> USE DEF turnVars
<1>1. ASSUME NEW s \in Sub, SubArrives(s) \/ ClientGone(s) \/ ClientReadsEnd(s)
      PROVE  StoreInv'
  BY <1>1, StoreSame DEF SubArrives, ClientGone, ClientReadsEnd
<1>2. ASSUME NEW s \in Sub, ReadyWritten(s) PROVE StoreInv'
  <2>1. bus'.closed = bus.closed /\ bus'.feed = bus.feed
    <3>1. bus' = Subscribed(bus, s, lost) /\ s \in NotYet
      BY <1>2 DEF ReadyWritten, NotYet
    <3> QED BY <3>1, SubscribedGood DEF HubInv
  <2> QED BY <1>2, <2>1, StoreSame DEF ReadyWritten
<1>3. ASSUME NEW k \in Intr, IntrArrives(k) PROVE StoreInv'
  BY <1>3, StoreSame DEF IntrArrives
<1>4. ASSUME NEW k \in Intr, IntrFlags(k) PROVE StoreInv'
  <2>1. bus' = bus \/ bus' = Published(bus, Frame("cancelled"), lost)
    BY <1>4 DEF IntrFlags
  <2>2. bus'.closed = bus.closed /\ (bus.closed => bus' = bus)
    BY <2>1, PublishedStays, QuietFrames
  <2> QED BY <1>4, <2>2, StoreSame DEF IntrFlags
<1>5. ASSUME NEW k \in Intr, IntrReturns(k) PROVE StoreInv'
  <2>1. PICK b \in {bus, Published(bus, Frame("interrupt-error"), lost)} :
            bus' = Published(b, Frame("cancelled"), lost)
    BY <1>5 DEF IntrReturns
  <2>2. QuietlyMadeOf(b) /\ (b.closed <=> bus.closed) /\ (bus.closed => b = bus)
    BY BusQuietly, PublishedStays, QuietFrames
  <2>3. QuietlyMadeOf(bus') /\ (b.closed <=> bus'.closed) /\ bus' \in BusType
    BY <2>1, <2>2, PublishedQuietly, QuietFrames
  <2>4. bus'.closed = bus.closed /\ (bus.closed => bus' = bus)
    BY <2>2, <2>3 DEF QuietlyMadeOf, MadeOf, BusType, HubInv, TypeOK
  <2> QED BY <1>5, <2>4, StoreSame DEF IntrReturns
<1>6. ASSUME NEW d \in Del, DelArrives(d) \/ DelFinishes(d) PROVE StoreInv'
  <2>1. del'[d] # "idle" /\ turn' = turn
    BY <1>6 DEF DelArrives, DelFinishes, HubInv, TypeOK
  <2> QED BY <2>1 DEF StoreInv, SoleInv, Sole, Started
<1> QED BY <1>1, <1>2, <1>3, <1>4, <1>5, <1>6

\* The two invariants are inductive together.
LEMMA StoreInvNext == StoreInv /\ HubInv /\ [Next]_vars => StoreInv'
<1> SUFFICES ASSUME StoreInv, HubInv, [Next]_vars PROVE StoreInv'
  OBVIOUS
<1>1. CASE UNCHANGED vars
  BY <1>1, StoreSame DEF vars
<1> QED BY <1>1, StoreRunTurn, StoreInit, StoreRequests DEF Next

(* On a hub that runs one turn and is not deleted, the done is not         *)
(* published while the text is on its way to the session store, and a turn *)
(* whose text was stored is not reported as an error.                      *)
THEOREM HubStoreAgrees == Spec => []StoreAgreesWithFeed
<1>1. Init => StoreInv
  <2> SUFFICES ASSUME Init PROVE StoreInv
    OBVIOUS
  <2>1. Started = {} /\ Running = {}
    BY DEF Init, Started, Running
  <2> QED BY <2>1, FS_EmptySet
          DEF Init, StoreInv, SoleInv, NotStarted, RunsAlone, SavedIsTold,
              EmptyBus
<1>2. StoreInv => StoreAgreesWithFeed
  BY UndisturbedIsSole
     DEF StoreInv, SoleInv, RunsAlone, SavedIsTold, StoreAgreesWithFeed, Running
<1> QED BY <1>1, <1>2, StoreInvNext, HubInvAlways, PTL DEF Spec
=============================================================================
