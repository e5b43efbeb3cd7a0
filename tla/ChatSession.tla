---------------------------- MODULE ChatSession -----------------------------
(***************************************************************************)
(* src/durable/chatSession.ts: the Durable Object behind one Helm chat,    *)
(* with the tool loop it runs (src/conductor-tool-stream.ts and the        *)
(* provider adapters) and the plan-mode reply (src/conductor.ts).          *)
(*                                                                         *)
(* Several browser tabs send commands to the object, and a message is      *)
(* accepted whether or not a turn is already running: the object has one   *)
(* thread, which a turn gives up at every await, but nothing serialises    *)
(* turns.  There is ONE activeAbortController for all of them.             *)
(*                                                                         *)
(* The model provider, the skills and the AgentSession object that keeps   *)
(* the transcript are external: their answers are choices.  Frames are     *)
(* broadcast to every tab at once, so that tabs need no state here; pings  *)
(* and refused commands change nothing.                                    *)
(***************************************************************************)
EXTENDS Naturals, Sequences, FiniteSets

CONSTANTS Turn,           \* the user messages of one behaviour
          Null,           \* no controller; a signal that is undefined
          MaxIter,        \* maxIter of the tool loop (6 by default, 12 at most)
          MaxTools,       \* bound: tool calls in one answer of the model
          MaxInterrupts   \* bound: interrupt commands

ASSUME ChatAssumption == /\ Null \notin Turn
                         /\ MaxIter \in Nat \ {0}
                         /\ MaxTools \in Nat \ {0}
                         /\ MaxInterrupts \in Nat

VARIABLES
    controller,  \* this.activeAbortController: the turn that made it, or Null
    aborted,     \* the controllers that have been aborted
    booted,      \* this.runtime and this.skills are there
    turn,        \* turn[t]: the state of handleUserMessage for message t
    log,         \* the transcript in AgentSession: [by, role], oldest first
    complete,    \* turns whose complete frame has been broadcast
    interrupts,  \* interrupt commands so far (bounded by MaxInterrupts)
    told,        \* (history) turns whose controller an interrupt aborted,
                 \* when the tabs were told "interrupted by user"
    missed       \* (history) turns in flight when the tabs were told
                 \* "no active turn to interrupt"

vars == <<controller, aborted, booted, turn, log, complete, interrupts, told, missed>>
intrVars == <<aborted, interrupts, told, missed>>

\* signal, stop: the AbortSignal given to the tool loop, and the loop's own
\* controller.  iter, left: loop iteration, tool calls still to be run.
\* text: is finalText non-empty?  notes: what the tabs are told went wrong.
\* seen: how much of the transcript the model is shown; Null is nothing, be it
\* because the history is not read yet or because it could not be.
\* after, beside: (history) turns complete, and in flight, when t began.
Fresh == [phase |-> "idle", mode |-> "execute", signal |-> Null, stop |-> FALSE,
          iter |-> 0, left |-> 0, text |-> FALSE, notes |-> {}, seen |-> Null,
          after |-> {}, beside |-> {}]

InFlight == {t \in Turn : turn[t].phase # "idle"} \ complete

Init == /\ controller = Null
        /\ aborted = {}
        /\ booted = FALSE
        /\ turn = [t \in Turn |-> Fresh]
        /\ log = <<>>
        /\ complete = {}
        /\ interrupts = 0
        /\ told = {} /\ missed = {}

At(t, phase) == turn[t].phase = phase
Sets(t, r) == turn' = [turn EXCEPT ![t] = r]

-----------------------------------------------------------------------------
(***************************************************************************)
(* How a turn ends.                                                        *)
(***************************************************************************)

\* The frames that report the outcome r.notes, and the finally block: the
\* controller is dropped, whoever made it.
Finish(t, r) ==
    /\ Sets(t, [r EXCEPT !.phase = "over"])
    /\ complete' = complete \cup {t}
    /\ controller' = Null

Fails(t) == Finish(t, [turn[t] EXCEPT !.notes = @ \cup {"error"}])

\* Mutation: the final text is sent to the transcript without an await.
SettleUnawaited(t, r) ==
    IF r.text
    THEN /\ Sets(t, [r EXCEPT !.phase = "saving"])
         /\ complete' = complete \cup {t}
         /\ controller' = Null
    ELSE Finish(t, r)

\* The generator has ended (or the plan is there): a non-empty final text is
\* sent to the transcript first, a cancelled one as well.
Settle(t, r) ==
    IF r.text
    THEN /\ Sets(t, [r EXCEPT !.phase = "saving"])
         /\ UNCHANGED <<complete, controller>>
    ELSE Finish(t, r)

\* Mutation: one iteration too many.
LoopTopOneMore(t, r) ==
    IF r.iter > MaxIter + 1
    THEN Settle(t, r)
    ELSE IF r.stop
    THEN Settle(t, [r EXCEPT !.notes = @ \cup {"cancelled"}])
    ELSE /\ Sets(t, [r EXCEPT !.phase = "calling"])
         /\ UNCHANGED <<complete, controller>>

\* The top of the loop over iterations.
LoopTop(t, r) ==
    IF r.iter > MaxIter
    THEN Settle(t, r)
    ELSE IF r.stop
    THEN Settle(t, [r EXCEPT !.notes = @ \cup {"cancelled"}])
    ELSE /\ Sets(t, [r EXCEPT !.phase = "calling"])
         /\ UNCHANGED <<complete, controller>>

-----------------------------------------------------------------------------
(***************************************************************************)
(* handleUserMessage up to the transcript.                                 *)
(***************************************************************************)

\* The argument this.activeAbortController?.signal is evaluated only after
\* the await of ensureBootstrap; c is the controller at that moment.
Opens(t, r, c) == [r EXCEPT !.phase = "opening",
                            !.signal = IF r.mode = "execute" THEN c ELSE Null]

\* A user-message command with content.  With the runtime at hand the await of
\* ensureBootstrap gives no other event a chance.
UserMessage(t) ==
    /\ At(t, "idle")
    /\ controller' = t
    /\ \E mode \in {"plan", "execute"} :
          LET r == [Fresh EXCEPT !.mode = mode, !.after = complete,
                                 !.beside = InFlight]
          IN  Sets(t, IF booted THEN Opens(t, r, t)
                                ELSE [r EXCEPT !.phase = "booting"])
    /\ UNCHANGED <<booted, log, complete, intrVars>>

\* Mutation: the bootstrap is awaited outside of the try block.
BootsUncaught(t) ==
    /\ At(t, "booting")
    /\ \/ /\ booted' = TRUE
          /\ Sets(t, Opens(t, turn[t], controller))
       \/ /\ Sets(t, [turn[t] EXCEPT !.phase = "lost"])
          /\ UNCHANGED booted
    /\ UNCHANGED <<log, intrVars, complete, controller>>

\* The runtime has been bootstrapped, or could not be.
Boots(t) ==
    /\ At(t, "booting")
    /\ \/ /\ booted' = TRUE
          /\ Sets(t, Opens(t, turn[t], controller))
          /\ UNCHANGED <<complete, controller>>
       \/ Fails(t) /\ UNCHANGED booted
    /\ UNCHANGED <<log, intrVars>>

\* No provider is enabled, or the session cannot be reached: the turn fails.
\* Otherwise the history is read and the message is sent to the transcript.  An
\* answer that reports an error, or is not JSON, is taken for no history at
\* all, and the turn goes on: the model is shown nothing.
ReadsHistory(t) ==
    /\ At(t, "opening")
    /\ \/ /\ \E seen \in {Len(log), Null} :
                Sets(t, [turn[t] EXCEPT !.phase = "asking", !.seen = seen])
          /\ UNCHANGED <<complete, controller>>
       \/ Fails(t)
    /\ UNCHANGED <<booted, log, intrVars>>

\* The transcript takes the message in, or answers with an error status,
\* which nobody looks at.
MessageStored(t) ==
    /\ At(t, "asking")
    /\ Sets(t, [turn[t] EXCEPT !.phase = "asked"])
    /\ log' \in {Append(log, [by |-> t, role |-> "user"]), log}
    /\ UNCHANGED <<controller, booted, complete, intrVars>>

\* Mutation: a signal that is aborted already is not noticed.
StartsDeaf(t) ==
    /\ At(t, "asked")
    /\ \/ Fails(t)
       \/ turn[t].mode = "plan" /\ Sets(t, [turn[t] EXCEPT !.phase = "planning"])
          /\ UNCHANGED <<complete, controller>>
       \/ turn[t].mode = "execute" /\ LoopTop(t, [turn[t] EXCEPT !.iter = 1])
    /\ UNCHANGED <<booted, log, intrVars>>

\* The answer of the transcript is back.  The tool loop gets a controller of
\* its own, aborted now or later if the signal is.
Starts(t) ==
    /\ At(t, "asked")
    /\ \/ Fails(t)
       \/ /\ turn[t].mode = "plan"
          /\ Sets(t, [turn[t] EXCEPT !.phase = "planning"])
          /\ UNCHANGED <<complete, controller>>
       \/ /\ turn[t].mode = "execute"
          /\ LoopTop(t, [turn[t] EXCEPT !.iter = 1,
                                        !.stop = turn[t].signal \in aborted])
    /\ UNCHANGED <<booted, log, intrVars>>

-----------------------------------------------------------------------------
(***************************************************************************)
(* The tool loop, in mode "auto": no skill is held back.                   *)
(***************************************************************************)

\* The provider answers.  A fetch whose signal is aborted rejects; the native
\* Workers AI binding takes no signal and answers all the same.
CallAnswered(t) ==
    /\ At(t, "calling")
    /\ Sets(t, [turn[t] EXCEPT !.phase = "reading"])
    /\ UNCHANGED <<controller, booted, log, complete, intrVars>>

\* An error status, a network error, or, of a fetch that is aborted, an
\* AbortError, which the generator does not catch.
CallFails(t) == At(t, "calling") /\ ~turn[t].stop /\ Fails(t)
                /\ UNCHANGED <<booted, log, intrVars>>
CallAborted(t) == At(t, "calling") /\ turn[t].stop /\ Fails(t)
                  /\ UNCHANGED <<booted, log, intrVars>>

\* An event of the streamed answer: some text, unless the loop was stopped.
\* One that adds nothing to the final text, as a block does until it is
\* complete, is a stutter.
StreamEvent(t) ==
    /\ At(t, "reading")
    /\ IF turn[t].stop
       THEN Settle(t, [turn[t] EXCEPT !.notes = @ \cup {"cancelled"}])
       ELSE /\ Sets(t, [turn[t] EXCEPT !.text = TRUE])
            /\ UNCHANGED <<complete, controller>>
    /\ UNCHANGED <<booted, log, intrVars>>

\* The answer ends, with tool calls or without.
StreamEnd(t) ==
    /\ At(t, "reading")
    /\ \E text \in {turn[t].text, TRUE} :
          LET r == [turn[t] EXCEPT !.text = text] IN
          \/ Settle(t, r)
          \/ \E n \in 1..MaxTools :
                /\ Sets(t, [r EXCEPT !.phase = "tools", !.left = n])
                /\ UNCHANGED <<complete, controller>>
    /\ UNCHANGED <<booted, log, intrVars>>

StreamFails(t) == At(t, "reading") /\ Fails(t) /\ UNCHANGED <<booted, log, intrVars>>

\* A skill returns or throws: either is reported to the model.  The batch is
\* run to its end, aborted or not.
ToolReturns(t) ==
    /\ At(t, "tools")
    /\ LET r == [turn[t] EXCEPT !.left = @ - 1] IN
       IF r.left = 0
       THEN LoopTop(t, [r EXCEPT !.iter = @ + 1])
       ELSE Sets(t, r) /\ UNCHANGED <<complete, controller>>
    /\ UNCHANGED <<booted, log, intrVars>>

\* Plan mode: one call, which no interrupt reaches.  A failure is noted in the
\* transcript before it is thrown.
PlanAnswered(t) ==
    /\ At(t, "planning")
    /\ \/ Fails(t)
       \/ Settle(t, [turn[t] EXCEPT !.text = TRUE, !.notes = @ \cup {"error"}])
       \/ \E text \in BOOLEAN : Settle(t, [turn[t] EXCEPT !.text = text])
    /\ UNCHANGED <<booted, log, intrVars>>

\* The transcript takes the final text in (or refuses it, unnoticed), and
\* answers; a failure of the call is an error of the turn.
TextStored(t) ==
    /\ At(t, "saving")
    /\ Sets(t, [turn[t] EXCEPT !.phase = "saved"])
    /\ log' \in {Append(log, [by |-> t, role |-> "assistant"]), log}
    /\ UNCHANGED <<controller, booted, complete, intrVars>>

Saved(t) == At(t, "saved") /\ (Finish(t, turn[t]) \/ Fails(t))
            /\ UNCHANGED <<booted, log, intrVars>>

Moves(t) == \/ Boots(t) \/ ReadsHistory(t) \/ MessageStored(t) \/ Starts(t)
            \/ CallAnswered(t) \/ CallFails(t) \/ CallAborted(t)
            \/ StreamEvent(t) \/ StreamEnd(t) \/ StreamFails(t)
            \/ ToolReturns(t) \/ PlanAnswered(t) \/ TextStored(t) \/ Saved(t)

-----------------------------------------------------------------------------
(***************************************************************************)
(* The interrupt command, and hibernation.                                 *)
(***************************************************************************)
Listening(t) == turn[t].phase \in {"calling", "reading", "tools", "saving", "saved"}

Interrupt ==
    /\ interrupts < MaxInterrupts
    /\ interrupts' = interrupts + 1
    /\ IF controller = Null
       THEN /\ missed' = missed \cup InFlight
            /\ UNCHANGED <<turn, aborted, told>>
       ELSE /\ aborted' = aborted \cup {controller}
            /\ turn' = [t \in Turn |->
                          IF Listening(t) /\ turn[t].signal = controller
                          THEN [turn[t] EXCEPT !.stop = TRUE] ELSE turn[t]]
            /\ told' = told \cup {controller}
            /\ UNCHANGED missed
    /\ UNCHANGED <<controller, booted, log, complete>>

\* An idle object is evicted; the sockets survive, the fields do not.
Hibernate ==
    /\ InFlight = {} /\ booted
    /\ booted' = FALSE
    /\ controller' = Null
    /\ UNCHANGED <<turn, log, complete, intrVars>>

Next == \/ \E t \in Turn : UserMessage(t) \/ Moves(t)
        \/ Interrupt
        \/ Hibernate

Spec == Init /\ [][Next]_vars

\* Every await of a turn ends: bootstrap, transcript, provider and skills
\* answer or fail.  Users owe nothing.
Fairness == \A t \in Turn : WF_vars(Moves(t))
FairSpec == Spec /\ Fairness

-----------------------------------------------------------------------------
(***************************************************************************)
(* Properties.                                                             *)
(***************************************************************************)
TurnType ==
    [phase : {"idle", "booting", "opening", "asking", "asked", "calling",
              "reading", "tools", "planning", "saving", "saved", "over"},
     mode : {"plan", "execute"}, signal : Turn \cup {Null}, stop : BOOLEAN,
     iter : 0..(MaxIter + 1), left : 0..MaxTools, text : BOOLEAN,
     notes : SUBSET {"error", "cancelled"}, seen : Nat \cup {Null},
     after : SUBSET Turn, beside : SUBSET Turn]

\* The variables have their types: in particular the transcript gets at most
\* one message of each role per turn, and the loop stops after MaxIter.
TypeOK ==
    /\ controller \in Turn \cup {Null}
    /\ aborted \in SUBSET Turn
    /\ booted \in BOOLEAN
    /\ turn \in [Turn -> TurnType]
    /\ log \in Seq([by : Turn, role : {"user", "assistant"}])
    /\ \A i, j \in 1..Len(log) : log[i] = log[j] => i = j
    /\ complete \in SUBSET Turn
    /\ interrupts \in 0..MaxInterrupts
    /\ {told, missed} \subseteq SUBSET Turn

\* No other turn was ever in flight together with t.
Alone(t) == /\ turn[t].beside = {}
            /\ \A u \in Turn : t \notin turn[u].beside

\* The controller whose signal t was given has been aborted; or will be the one
\* that t is given, when nobody else's can be, as t is interrupted while it
\* waits for the bootstrap.
Interrupted(t) == \/ turn[t].signal \in told
                  \/ t \in told /\ Alone(t) /\ turn[t].mode = "execute"

\* A turn whose controller an interrupt aborted makes no further call of the
\* tool loop to the model, at whichever await the interrupt found it, bootstrap
\* and history included (chatSession.ts:116-124,
\* conductor-tool-stream.ts:383-391), and so does every other turn that was
\* given its signal.  A call that is pending may still be answered, and the
\* batch of tools in hand is run to its end.  Plan mode is given no signal: the
\* tabs are told that it is interrupted, and it makes its call all the same.
\* Nor is a turn covered that was told while it waited for the bootstrap and
\* was then given the signal of another one, which came meanwhile.
InterruptStops ==
    [][ \A t \in Turn : Interrupted(t) /\ turn'[t].phase = "calling"
                            => turn[t].phase = "calling" ]_vars

\* A turn that begins after the complete frame of another one is shown
\* everything that one will ever have in the transcript, or, when the answer
\* of the transcript cannot be read, nothing at all, but never a part: a
\* complete frame is not sent while a message of the turn is on its way to
\* AgentSession.
HistoryIsComplete ==
    \A t \in Turn : \A i \in 1..Len(log) :
        log[i].by \in turn[t].after /\ turn[t].seen # Null
            => i <= turn[t].seen

\* Every turn ends, and its complete frame is broadcast: "turn finished
\* (success or fail)" (chatSession.ts:26).
TurnCompletes == \A t \in Turn : ~At(t, "idle") ~> t \in complete

\* "Set when a streaming turn starts; ... Null when no turn is in flight"
\* (chatSession.ts:68-70): whoever interrupts while a turn is in flight is
\* not told that there is none.  It fails when two turns overlap: the first
\* to end drops the controller of the other.
InterruptFindsTurn == missed = {}
=============================================================================
